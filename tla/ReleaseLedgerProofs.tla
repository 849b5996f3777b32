------------------------- MODULE ReleaseLedgerProofs -------------------------
(***************************************************************************)
(* Proofs about ReleaseLedger, for any set of runs and any bounds: the     *)
(* type invariant, the inductive invariant IInv and what follows from it,  *)
(* then the publication order that the concurrency group adds.             *)
(***************************************************************************)
EXTENDS ReleaseLedger, TLAPS

(* A file of the state branch, or its absence, reads as a ledger.          *)
LEMMA ContentsType ==
  ASSUME NEW file \in Ledger \cup {NoFile}
  PROVE  Contents(file) \in Ledger
<1>1. FreshLedger \in Ledger
  BY DEF FreshLedger, Ledger
<1>2. QED
  BY <1>1 DEF Contents

(* A stored file is its own contents.                                      *)
LEMMA ContentsOfLedger ==
  ASSUME NEW l \in Ledger
  PROVE  Contents(l) = l
BY FileAssumption DEF Contents

(* What a request writes is a ledger, with the fields it names changed.    *)
LEMMA NewContentsType ==
  ASSUME NEW w \in Request
  PROVE  /\ NewContents(w) \in Ledger
         /\ w.op = "reserve" =>
              /\ NewContents(w).counter = w.plan.number
              /\ NewContents(w).floor = Contents(w.old).floor
              /\ NewContents(w).plans = [Contents(w.old).plans EXCEPT ![w.run] = w.plan]
         /\ w.op # "reserve" =>
              /\ NewContents(w).counter = Contents(w.old).counter
              /\ NewContents(w).floor = w.plan.number
              /\ NewContents(w).plans = Contents(w.old).plans
<1>1. Contents(w.old) \in Ledger
  BY ContentsType DEF Request
<1>2. w.plan \in Plan /\ w.plan.number \in Nat /\ w.run \in Runs
  BY DEF Request, Plan
<1>3. CASE w.op = "reserve"
  BY <1>1, <1>2, <1>3 DEF NewContents, Ledger
<1>4. CASE w.op # "reserve"
  BY <1>1, <1>2, <1>4 DEF NewContents, Ledger
<1>5. QED
  BY <1>3, <1>4

(* A sound request writes a sound ledger that extends the one it read.     *)
LEMMA NewContentsSound ==
  ASSUME NEW w \in Request, RequestSound(w)
  PROVE  LedgerSound(NewContents(w)) /\ Extends(NewContents(w), Contents(w.old))
<1> DEFINE l == Contents(w.old)
           n == NewContents(w)
<1>1. l \in Ledger /\ n \in Ledger
  BY ContentsType, NewContentsType DEF Request
<1>2. LedgerSound(l)
  BY DEF RequestSound
<1>3. w.plan \in Plan /\ w.plan.number \in Nat /\ w.run \in Runs /\ w.plan # NoPlan
  BY SentinelAssumption DEF Request, Plan
<1>4. CASE w.op = "reserve"
  <2>1. ReserveSound(w.run, l, w.plan)
    BY <1>4 DEF RequestSound
  <2>2. /\ n.counter = w.plan.number
        /\ n.floor = l.floor
        /\ n.plans = [l.plans EXCEPT ![w.run] = w.plan]
    BY <1>4, NewContentsType
  <2>3. \A r \in Runs : n.plans[r] = IF r = w.run THEN w.plan ELSE l.plans[r]
    BY <1>1, <1>3, <2>2 DEF Ledger
  <2>4. /\ l.counter \in Nat /\ l.floor \in Nat
        /\ \A r \in Runs : l.plans[r] # NoPlan => l.plans[r].number \in Nat
    BY <1>1 DEF Ledger, Plan
  <2>5. n.floor <= n.counter /\ n.counter <= MaxBuildNumber
    BY <1>2, <2>1, <2>2, <2>4, <1>3, LedgerAssumption DEF LedgerSound, ReserveSound
  <2>6. ASSUME NEW r \in Runs, n.plans[r] # NoPlan
        PROVE  PlanSound(r, n.plans[r]) /\ n.plans[r].number <= n.counter
    BY <2>6, <1>2, <1>3, <2>1, <2>2, <2>3, <2>4 DEF LedgerSound, ReserveSound
  <2>7. ASSUME NEW r \in Runs, NEW q \in Runs, r # q,
               n.plans[r] # NoPlan, n.plans[q] # NoPlan
        PROVE  n.plans[r].number # n.plans[q].number /\ n.plans[r].tag # n.plans[q].tag
    BY <2>7, <1>2, <1>3, <2>1, <2>3, <2>4 DEF LedgerSound, ReserveSound
  <2>8. Extends(n, l)
    BY <1>3, <2>1, <2>2, <2>3, <2>4 DEF Extends, ReserveSound
  <2>9. QED
    BY <2>5, <2>6, <2>7, <2>8 DEF LedgerSound
<1>5. CASE w.op # "reserve"
  <2>1. n.counter = l.counter /\ n.floor = w.plan.number /\ n.plans = l.plans
    BY <1>5, NewContentsType
  <2>2. /\ \E q \in Runs : l.plans[q] = w.plan
        /\ w.plan.number >= l.floor
    BY <1>1, <1>3, <1>5 DEF RequestSound, Ledger, Request
  <2>3. w.plan.number <= l.counter
    BY <1>2, <1>3, <2>2 DEF LedgerSound
  <2>4. LedgerSound(n)
    BY <1>2, <2>1, <2>3 DEF LedgerSound
  <2>5. Extends(n, l)
    BY <1>1, <2>1, <2>2 DEF Extends, Ledger
  <2>6. QED
    BY <2>4, <2>5
<1>6. QED
  BY <1>4, <1>5

(* What a run leaves behind when it stops, and when it goes on.            *)
LEMMA EndsType ==
  ASSUME TypeOK, NEW r \in Runs, NEW label \in PC, Ends(r, label) \/ Continues(r, label)
  PROVE  /\ pc' \in [Runs -> PC]
         /\ view' \in [Runs -> Ledger \cup {NoFile}]
         /\ plan' \in [Runs -> Plan \cup {NoPlan}]
BY DEF TypeOK, Ends, Continues, Goto

(* The tag a run publishes under is a tag.                                 *)
LEMMA TargetType ==
  ASSUME NEW r \in Runs, plan[r] \in Plan
  PROVE  /\ Target(r) \in Tag
         /\ kind[r] # "stable" => Target(r) = plan[r].tag
         /\ kind[r] = "stable" => Target(r).kind = "stable"
<1>1. plan[r].tag \in Tag /\ plan[r].tag.base \in Bases
  BY DEF Plan, Tag
<1>2. StableTag(plan[r].tag.base) \in Tag /\ StableTag(plan[r].tag.base).kind = "stable"
  BY <1>1 DEF StableTag, Tag, Kinds
<1>3. QED
  BY <1>1, <1>2 DEF Target

(* Handling one PUT keeps the types of the file and of the history.        *)
LEMMA PutType ==
  ASSUME TypeOK, NEW w \in Request, Put(w)
  PROVE  ledger' \in Ledger /\ begins' \in [Runs -> Nat]
<1>1. ledger' \in Ledger
  BY NewContentsType DEF Put
<1>2. w.run \in Runs
  BY DEF Request
<1>3. begins' \in [Runs -> Nat]
  BY <1>2 DEF Put, TypeOK
<1>4. QED
  BY <1>1, <1>3

(* So does one attempt of a run to write the file.                         *)
LEMMA WriteStateType ==
  ASSUME TypeOK, NEW r \in Runs, NEW w \in Request, NEW label \in PC,
         WriteState(r, w, label)
  PROVE  TypeOK'
<1>1. "failed" \in PC
  BY DEF PC, Resting
<1>2. CASE Put(w) /\ Applied(r, label) /\ UNCHANGED late
  BY <1>1, <1>2, PutType, EndsType
     DEF Applied, WriteState, TypeOK, publicVars, runVars
<1>3. CASE late' = late \cup {w} /\ Ends(r, "failed") /\ UNCHANGED <<ledger, begins>>
  BY <1>1, <1>3, EndsType DEF WriteState, TypeOK, publicVars, runVars
<1>4. QED
  BY <1>2, <1>3 DEF WriteState

(* The requests a run sends are well formed in the states that send them.  *)
LEMMA RequestsType ==
  ASSUME TypeOK, NEW r \in Runs, plan[r] \in Plan
  PROVE  ReserveRequest(r) \in Request /\ ConsumeRequest(r) \in Request
BY DEF TypeOK, ReserveRequest, ConsumeRequest, Request

(* A plan chosen for a run is a plan of a candidate kind.                  *)
LEMMA CandidateTagType ==
  ASSUME TypeOK, NEW r \in Runs, NEW n \in Nat, NEW c \in Nat, kind[r] \in CandidateKinds
  PROVE  /\ [number |-> NextNumber(c), tag |-> CandidateTag(r, n)] \in Plan
         /\ NextNumber(c) > c
<1>1. NextNumber(c) \in Nat /\ NextNumber(c) > c
  BY LedgerAssumption DEF NextNumber
<1>2. CandidateTag(r, n) \in Tag
  BY DEF TypeOK, CandidateTag, Tag, Kinds, CandidateKinds
<1>3. QED
  BY <1>1, <1>2 DEF Plan

(* Every step of the runs, of GitHub and of a maintainer keeps the types.  *)
LEMMA TypeStep ==
  ASSUME IInv, [Next]_vars
  PROVE  TypeOK'
<1>1. TypeOK /\ \A r \in Runs : RunSound(r)
  BY DEF IInv
<1>2. {"prepare", "read", "failed", "done"} \cup Reserving \cup Holding \subseteq PC
  BY DEF PC, Resting
<1> USE <1>1, <1>2 DEF TypeOK, stateVars, publicVars, runVars, Goto
<1>3. ASSUME NEW r \in Runs, Trigger(r)
      PROVE  TypeOK'
  BY <1>3, EndsType DEF Trigger
<1>4. ASSUME NEW r \in Runs, Prepare(r)
      PROVE  TypeOK'
  BY <1>4 DEF Prepare
<1>5. ASSUME NEW r \in Runs, ReadState(r)
      PROVE  TypeOK'
  <2>1. Durable \in Ledger
    BY ContentsType DEF Durable
  <2>2. Durable.plans[r] \in Plan \cup {NoPlan}
    BY <2>1 DEF Ledger
  <2>3. "reserved" \in PC /\ "choose" \in PC
    BY DEF Reserving, Holding
  <2>4. QED
    BY <1>5, <2>2, <2>3 DEF ReadState, Durable
<1>6. ASSUME NEW r \in Runs, ChoosePlan(r)
      PROVE  TypeOK'
  <2>1. Contents(view[r]).counter \in Nat
    BY ContentsType DEF Ledger
  <2>2. kind[r] \in CandidateKinds
    BY <1>6 DEF ChoosePlan, RunSound, Reserving
  <2>3. PICK n \in 1..MaxSequence :
          plan' = [plan EXCEPT ![r] = [number |-> NextNumber(Contents(view[r]).counter),
                                       tag |-> CandidateTag(r, n)]]
    BY <1>6 DEF ChoosePlan
  <2>4. n \in Nat
    OBVIOUS
  <2>5. "absent" \in PC
    BY DEF Reserving
  <2>6. plan' \in [Runs -> Plan \cup {NoPlan}]
    BY <2>1, <2>2, <2>3, <2>4, CandidateTagType
  <2>7. QED
    BY <1>6, <2>5, <2>6 DEF ChoosePlan
<1>7. ASSUME NEW r \in Runs, CheckTagAbsent(r)
      PROVE  TypeOK'
  BY <1>7 DEF CheckTagAbsent, Reserving
<1>8. ASSUME NEW r \in Runs, CreateBranch(r)
      PROVE  TypeOK'
  <2>1. pc' \in [Runs -> PC] /\ view' \in [Runs -> Ledger \cup {NoFile}]
          /\ plan' \in [Runs -> Plan \cup {NoPlan}]
    BY <1>8, EndsType DEF CreateBranch, Reserving
  <2>2. QED
    BY <1>8, <2>1 DEF CreateBranch
<1>9. ASSUME NEW r \in Runs, WriteReservation(r)
      PROVE  TypeOK'
  <2>1. plan[r] \in Plan /\ "reserved" \in PC
    BY <1>9 DEF WriteReservation, RunSound, ReserveSound, Holding
  <2>2. QED
    BY <1>9, <2>1, RequestsType, WriteStateType DEF WriteReservation
<1>10. ASSUME NEW r \in Runs, CheckPublication(r)
       PROVE  TypeOK'
  BY <1>10 DEF CheckPublication, Holding
<1>11. ASSUME NEW r \in Runs, NEW c \in Runs, PickCandidate(r, c)
       PROVE  TypeOK'
  <2>1. Durable \in Ledger
    BY ContentsType DEF Durable
  <2>2. Durable.plans[c] \in Plan \cup {NoPlan}
    BY <2>1 DEF Ledger
  <2>3. QED
    BY <1>11, <2>2 DEF PickCandidate, Durable, Holding
<1>12. ASSUME NEW r \in Runs, NEW c \in Runs, RecheckCandidate(r, c)
       PROVE  TypeOK'
  BY <1>12 DEF RecheckCandidate, Holding
<1>13. ASSUME NEW r \in Runs, ReadFloor(r)
       PROVE  TypeOK'
  BY <1>13 DEF ReadFloor, Holding
<1>14. ASSUME NEW r \in Runs, VerifyOrder(r)
       PROVE  TypeOK'
  BY <1>14 DEF VerifyOrder, Holding
<1>15. ASSUME NEW r \in Runs, WriteFloor(r)
       PROVE  TypeOK'
  <2>1. plan[r] \in Plan /\ "tag" \in PC
    BY <1>15 DEF WriteFloor, RunSound, Holding
  <2>2. QED
    BY <1>15, <2>1, RequestsType, WriteStateType DEF WriteFloor
<1>16. ASSUME NEW r \in Runs, Publish(r)
       PROVE  TypeOK'
  <2>1. {"draft", "publish", "store", "failed", "done"} \subseteq PC
    BY DEF Holding
  <2>2. pc[r] \in Holding
    BY <1>16 DEF Publish, CreateTag, CreateDraft, PublishRelease, StoreEvidence, Holding
  <2>3. Target(r) \in Tag
    BY <2>2, TargetType DEF RunSound
  <2>4. CASE CreateTag(r)
    BY <2>1, <2>3, <2>4, EndsType DEF CreateTag, Applied
  <2>5. CASE CreateDraft(r)
    BY <2>1, <2>3, <2>5, EndsType DEF CreateDraft, Applied
  <2>6. CASE PublishRelease(r)
    BY <2>1, <2>3, <2>6, EndsType DEF PublishRelease, Applied
  <2>7. CASE StoreEvidence(r)
    BY <2>1, <2>7, EndsType DEF StoreEvidence
  <2>8. QED
    BY <1>16, <2>4, <2>5, <2>6, <2>7 DEF Publish
<1>17. ASSUME NEW r \in Runs, Fail(r)
       PROVE  TypeOK'
  BY <1>17, EndsType DEF Fail
<1>18. ASSUME NEW w \in late, LateWrite(w)
       PROVE  TypeOK'
  BY <1>18, PutType DEF LateWrite
<1>19. ASSUME NEW t \in published, DeleteRelease(t)
       PROVE  TypeOK'
  BY <1>19 DEF DeleteRelease
<1>20. CASE UNCHANGED vars
  BY <1>20 DEF vars
<1>21. QED
  BY <1>3, <1>4, <1>5, <1>6, <1>7, <1>8, <1>9, <1>10, <1>11, <1>12, <1>13, <1>14,
     <1>15, <1>16, <1>17, <1>18, <1>19, <1>20 DEF Next, Reserve, Begin

(* A PUT that GitHub accepts keeps the file sound and only extends it.     *)
LEMMA PutSound ==
  ASSUME IInv, NEW w \in Request, RequestSound(w), Put(w)
  PROVE  /\ Durable' = NewContents(w)
         /\ LedgerSound(Durable')
         /\ Extends(Durable', Durable)
         /\ \A q \in Runs : HistorySound(q)'
<1>1. Durable' = NewContents(w) /\ Durable = Contents(w.old)
  BY NewContentsType, ContentsOfLedger DEF Put, Durable
<1>2. LedgerSound(Durable') /\ Extends(Durable', Durable)
  BY <1>1, NewContentsSound
<1>3. Durable \in Ledger /\ Durable' \in Ledger
  BY <1>1, ContentsType, NewContentsType DEF IInv, TypeOK, Durable
<1>4. ASSUME NEW q \in Runs
      PROVE  HistorySound(q)'
  <2>1. /\ HistorySound(q)
        /\ begins[q] \in Nat /\ begins \in [Runs -> Nat]
    BY DEF IInv, TypeOK
  <2>2. /\ Durable.plans[q] # NoPlan => Durable.plans[q].number \in Nat
        /\ Durable.floor \in Nat /\ Durable'.floor \in Nat
    BY <1>3 DEF Ledger, Plan
  <2>3. CASE w.op = "consume" /\ q = w.run
    <3>1. Durable.plans[q] = w.plan /\ w.plan.number > Durable.floor
      BY <1>1, <2>3 DEF RequestSound
    <3>2. w.plan \in Plan /\ w.plan # NoPlan /\ w.plan.number \in Nat
      BY SentinelAssumption DEF Request, Plan
    <3>3. begins[q] = 0
      BY <2>1, <2>2, <3>1, <3>2 DEF HistorySound
    <3>4. begins'[q] = 1
      BY <2>1, <2>3, <3>3 DEF Put
    <3>5. Durable'.floor = w.plan.number /\ Durable'.plans[q] = w.plan
      BY <1>1, <2>3, <3>1, NewContentsType
    <3>6. QED
      BY <3>2, <3>4, <3>5 DEF HistorySound
  <2>4. CASE ~(w.op = "consume" /\ q = w.run)
    <3>1. begins'[q] = begins[q]
      BY <2>1, <2>4 DEF Put
    <3>2. QED
      BY <1>2, <2>1, <2>2, <3>1 DEF HistorySound, Extends
  <2>5. QED
    BY <2>3, <2>4
<1>5. QED
  BY <1>1, <1>2, <1>4

(* Some run holds the plan of this tag, and its number was consumed.       *)
BehindFloor(t) ==
  \E r \in Holders : Durable.plans[r].tag = t /\ Durable.plans[r].number <= Durable.floor

(* What is public stays behind the floor while the ledger grows.           *)
LEMMA PublicKeeps ==
  ASSUME IInv, Durable' \in Ledger, Extends(Durable', Durable),
         \A t \in Public' : t.kind # "stable" => BehindFloor(t)
  PROVE  PublicBehindFloor'
<1>1. SUFFICES ASSUME NEW t \in Public', t.kind # "stable"
               PROVE  (\E r \in Holders : /\ Durable.plans[r].tag = t
                                          /\ Durable.plans[r].number <= Durable.floor)'
  BY DEF PublicBehindFloor
<1>2. PICK r \in Holders : Durable.plans[r].tag = t /\ Durable.plans[r].number <= Durable.floor
  BY <1>1 DEF BehindFloor
<1>3. Durable \in Ledger
  BY ContentsType DEF IInv, TypeOK, Durable
<1>4. /\ r \in Runs /\ Durable'.plans[r] = Durable.plans[r] /\ Durable.plans[r] # NoPlan
      /\ Durable.plans[r].number \in Nat /\ Durable.floor \in Nat /\ Durable'.floor \in Nat
      /\ Durable'.floor >= Durable.floor
  BY <1>2, <1>3 DEF Holders, Extends, Ledger, Plan
<1>5. QED
  BY <1>2, <1>4 DEF Holders

(* The other runs stay sound while the ledger grows.                       *)
LEMMA OthersKeep ==
  ASSUME IInv, Durable' \in Ledger, Extends(Durable', Durable), NEW q \in Runs,
         pc'[q] = pc[q], view'[q] = view[q], plan'[q] = plan[q], kind' = kind
  PROVE  RunSound(q)'
<1>1. RunSound(q)
  BY DEF IInv
<1>2. Durable \in Ledger
  BY ContentsType DEF IInv, TypeOK, Durable
<1>3. /\ Durable.plans[q] # NoPlan => Durable'.plans[q] = Durable.plans[q]
      /\ Durable.plans[q] # NoPlan => Durable.plans[q].number \in Nat
      /\ Durable.floor \in Nat /\ Durable'.floor \in Nat
      /\ Durable'.floor >= Durable.floor
  BY <1>2 DEF Extends, Ledger, Plan
<1>4. Contents(view[q])' = Contents(view[q])
  BY DEF Contents
<1>5. pc[q] = "consume" => RequestSound(ConsumeRequest(q))'
  BY <1>1 DEF RunSound, ConsumeRequest
<1>6. Publishing \subseteq Holding
  BY DEF Publishing, Holding
<1>7. QED
  BY <1>1, <1>3, <1>4, <1>5, <1>6, SentinelAssumption DEF RunSound

(* A step of run r that leaves the file, the pending writes and the        *)
(* history alone.                                                          *)
LEMMA QuietStep ==
  ASSUME IInv, TypeOK', NEW r \in Runs, RunSound(r)',
         ledger' = ledger, late' = late, begins' = begins, kind' = kind,
         \A q \in Runs \ {r} : pc'[q] = pc[q] /\ view'[q] = view[q] /\ plan'[q] = plan[q],
         \A t \in Public' : t.kind # "stable" => BehindFloor(t)
  PROVE  IInv'
<1>1. Durable' = Durable /\ Durable \in Ledger
  BY ContentsType DEF Durable, IInv, TypeOK
<1>2. Extends(Durable', Durable)
  BY <1>1 DEF Extends, Ledger
<1>3. \A q \in Runs : RunSound(q)'
  BY <1>1, <1>2, OthersKeep
<1>4. \A q \in Runs : HistorySound(q)'
  BY <1>1 DEF IInv, HistorySound
<1>5. \A w \in late' : RequestSound(w)'
  BY DEF IInv
<1>6. LedgerSound(Durable)'
  BY <1>1 DEF IInv
<1>7. PublicBehindFloor'
  BY <1>1, <1>2, PublicKeeps
<1>8. QED
  BY <1>3, <1>4, <1>5, <1>6, <1>7 DEF IInv

(* Tags, drafts and releases that were public are behind the floor.        *)
LEMMA PublicCovered ==
  ASSUME IInv
  PROVE  \A t \in Public : t.kind # "stable" => BehindFloor(t)
BY DEF IInv, PublicBehindFloor, BehindFloor

(* A run that stops is sound.                                              *)
LEMMA StoppedSound ==
  ASSUME TypeOK, NEW r \in Runs, NEW label \in {"failed", "done", "prepare"}, Ends(r, label)
  PROVE  /\ RunSound(r)'
         /\ \A q \in Runs \ {r} : pc'[q] = pc[q] /\ view'[q] = view[q] /\ plan'[q] = plan[q]
<1>1. /\ pc'[r] = label /\ view'[r] = NoFile
      /\ \A q \in Runs \ {r} : pc'[q] = pc[q] /\ view'[q] = view[q] /\ plan'[q] = plan[q]
  BY DEF Ends, Goto, TypeOK
<1>2. LedgerSound(FreshLedger)
  BY LedgerAssumption DEF LedgerSound, FreshLedger
<1>3. Contents(view[r])' = FreshLedger
  BY <1>1 DEF Contents
<1>4. label \notin {"read", "choose", "consume"} \cup Reserving \cup Holding \cup Publishing
  BY DEF Reserving, Holding, Publishing
<1>5. QED
  BY <1>1, <1>2, <1>3, <1>4 DEF RunSound, Reserving

(* The fresh copy of a run that goes on without the ledger is sound.       *)
LEMMA ContinuesView ==
  ASSUME TypeOK, NEW r \in Runs, NEW label, Continues(r, label)
  PROVE  /\ pc'[r] = label /\ plan' = plan
         /\ LedgerSound(Contents(view[r])')
         /\ \A q \in Runs \ {r} : pc'[q] = pc[q] /\ view'[q] = view[q] /\ plan'[q] = plan[q]
<1>1. /\ pc'[r] = label /\ view'[r] = NoFile /\ plan' = plan
      /\ \A q \in Runs \ {r} : pc'[q] = pc[q] /\ view'[q] = view[q] /\ plan'[q] = plan[q]
  BY DEF Continues, Goto, TypeOK
<1>2. LedgerSound(FreshLedger)
  BY LedgerAssumption DEF LedgerSound, FreshLedger
<1>3. Contents(view[r])' = FreshLedger
  BY <1>1 DEF Contents
<1>4. QED
  BY <1>1, <1>2, <1>3

(* A PUT of a sound request by run r, accepted, lost or delayed, keeps the *)
(* invariant when r is sound where it goes on.                             *)
LEMMA WriteStateSound ==
  ASSUME IInv, TypeOK', NEW r \in Runs, NEW w \in Request, RequestSound(w),
         NEW label \in PC, WriteState(r, w, label),
         Put(w) /\ Continues(r, label) => RunSound(r)'
  PROVE  IInv'
<1>1. /\ TypeOK /\ kind' = kind /\ Public' = Public
      /\ \A v \in late : RequestSound(v)
  BY DEF IInv, WriteState, publicVars, runVars, Public
<1>2. CASE Put(w) /\ Applied(r, label) /\ UNCHANGED late
  <2>1. /\ LedgerSound(Durable') /\ Extends(Durable', Durable) /\ Durable' \in Ledger
        /\ \A q \in Runs : HistorySound(q)'
    BY <1>2, PutSound, NewContentsType
  <2>2. /\ RunSound(r)'
        /\ \A q \in Runs \ {r} : pc'[q] = pc[q] /\ view'[q] = view[q] /\ plan'[q] = plan[q]
    BY <1>1, <1>2, StoppedSound, ContinuesView DEF Applied
  <2>3. \A q \in Runs : RunSound(q)'
    BY <1>1, <2>1, <2>2, OthersKeep
  <2>4. \A v \in late' : RequestSound(v)'
    BY <1>1, <1>2
  <2>5. PublicBehindFloor'
    BY <1>1, <2>1, PublicKeeps, PublicCovered
  <2>6. QED
    BY <2>1, <2>3, <2>4, <2>5 DEF IInv
<1>3. CASE late' = late \cup {w} /\ Ends(r, "failed") /\ UNCHANGED <<ledger, begins>>
  <2>1. /\ RunSound(r)'
        /\ \A q \in Runs \ {r} : pc'[q] = pc[q] /\ view'[q] = view[q] /\ plan'[q] = plan[q]
    BY <1>1, <1>3, StoppedSound
  <2>2. Durable' = Durable /\ Durable \in Ledger
    BY <1>1, <1>3, ContentsType DEF Durable, TypeOK
  <2>3. Extends(Durable', Durable)
    BY <2>2 DEF Extends, Ledger
  <2>4. \A q \in Runs : RunSound(q)'
    BY <1>1, <2>1, <2>2, <2>3, OthersKeep
  <2>5. \A q \in Runs : HistorySound(q)'
    BY <1>3, <2>2 DEF IInv, HistorySound
  <2>6. \A v \in late' : RequestSound(v)'
    BY <1>1, <1>3
  <2>7. PublicBehindFloor'
    BY <1>1, <2>2, <2>3, PublicKeeps, PublicCovered
  <2>8. LedgerSound(Durable)'
    BY <2>2 DEF IInv
  <2>9. QED
    BY <2>4, <2>5, <2>6, <2>7, <2>8 DEF IInv
<1>4. QED
  BY <1>2, <1>3 DEF WriteState

(* The steps that reserve a plan keep the invariant.                       *)
LEMMA ReserveStep ==
  ASSUME IInv, TypeOK', NEW r \in Runs, Reserve(r)
  PROVE  IInv'
<1>1. TypeOK /\ RunSound(r)
  BY DEF IInv
<1>2. Durable \in Ledger /\ Contents(view[r]) \in Ledger /\ LedgerSound(Durable)
  BY <1>1, ContentsType DEF TypeOK, Durable, IInv
<1> USE DEF stateVars, publicVars, runVars
<1>3. CASE Prepare(r)
  <2>1. RunSound(r)'
    BY <1>1, <1>3 DEF Prepare, RunSound, Goto, TypeOK, Reserving, Holding, Publishing, Contents
  <2>2. QED
    BY <1>1, <1>3, <2>1, QuietStep, PublicCovered DEF Prepare, Goto, TypeOK, Public
<1>4. CASE ReadState(r)
  <2>1. kind[r] \in CandidateKinds /\ kind[r] # "stable"
    BY <1>1, <1>4 DEF ReadState, RunSound, CandidateKinds
  <2>2. CASE Durable.plans[r] # NoPlan
    <3>1. pc'[r] = "reserved" /\ plan'[r] = Durable.plans[r] /\ view' = view
      BY <1>1, <1>4, <2>2 DEF ReadState, Goto, TypeOK, Durable
    <3>2. plan'[r] \in Plan
      BY <1>2, <2>2, <3>1 DEF Ledger
    <3>3. RunSound(r)'
      BY <1>1, <1>4, <3>1, <3>2
         DEF ReadState, RunSound, Reserving, Publishing, Contents, Durable
    <3>4. QED
      BY <1>1, <1>4, <2>2, <3>3, QuietStep, PublicCovered
         DEF ReadState, Goto, TypeOK, Public, Durable
  <2>3. CASE Durable.plans[r] = NoPlan
    <3>1. pc'[r] = "choose" /\ view'[r] = ledger /\ plan' = plan /\ kind' = kind
      BY <1>1, <1>4, <2>3 DEF ReadState, Goto, TypeOK, Durable
    <3>2. Contents(view[r])' = Durable
      BY <3>1 DEF Contents, Durable
    <3>3. RunSound(r)'
      BY <1>2, <2>1, <2>3, <3>1, <3>2 DEF RunSound, Reserving, Holding, Publishing
    <3>4. QED
      BY <1>1, <1>4, <2>3, <3>3, QuietStep, PublicCovered
         DEF ReadState, Goto, TypeOK, Public, Durable
  <2>4. QED
    BY <2>2, <2>3
<1>5. CASE ChoosePlan(r)
  <2> DEFINE old == Contents(view[r])
             number == NextNumber(old.counter)
  <2>1. kind[r] \in CandidateKinds /\ old.plans[r] = NoPlan /\ LedgerSound(old)
    BY <1>1, <1>5 DEF ChoosePlan, RunSound, Reserving
  <2>2. PICK n \in 1..MaxSequence :
          /\ kind[r] # "nightly" => IsNextSequence(n, UsedSequences(base[r], kind[r], old.plans))
          /\ plan' = [plan EXCEPT ![r] = [number |-> number, tag |-> CandidateTag(r, n)]]
    BY <1>5 DEF ChoosePlan
  <2>3. /\ pc'[r] = "absent" /\ view' = view /\ kind' = kind
        /\ plan'[r] = [number |-> number, tag |-> CandidateTag(r, n)]
        /\ number <= MaxBuildNumber
    BY <1>1, <1>5, <2>2 DEF ChoosePlan, Goto, TypeOK
  <2>4. plan'[r] \in Plan /\ number > old.counter
    BY <1>1, <1>2, <2>1, <2>3, CandidateTagType DEF Ledger
  <2>5. PlanSound(r, plan'[r])
    BY <2>1, <2>3 DEF PlanSound, CandidateTag, CandidateKinds
  <2>6. ASSUME NEW q \in Runs, old.plans[q] # NoPlan
        PROVE  old.plans[q].tag # CandidateTag(r, n)
    <3>1. q # r
      BY <2>1, <2>6
    <3>2. CASE kind[r] = "nightly"
      BY <2>1, <2>6, <3>1, <3>2 DEF LedgerSound, PlanSound, CandidateTag
    <3>3. CASE kind[r] # "nightly"
      <4>1. SUFFICES ASSUME old.plans[q].tag = CandidateTag(r, n)
                     PROVE  FALSE
        OBVIOUS
      <4>2. /\ old.plans[q].tag.base = base[r] /\ old.plans[q].tag.kind = kind[r]
            /\ old.plans[q].tag.seq = n
        BY <3>3, <4>1 DEF CandidateTag
      <4>3. n \in UsedSequences(base[r], kind[r], old.plans)
        BY <2>6, <4>2 DEF UsedSequences
      <4>4. n < n
        BY <2>2, <3>3, <4>3 DEF IsNextSequence
      <4>5. QED
        BY <4>4
    <3>4. QED
      BY <3>2, <3>3
  <2>7. ReserveSound(r, old, plan'[r])
    BY <2>1, <2>3, <2>4, <2>5, <2>6 DEF ReserveSound
  <2>8. Contents(view[r])' = old
    BY <2>3 DEF Contents
  <2>9. RunSound(r)'
    BY <2>1, <2>3, <2>7, <2>8 DEF RunSound, Reserving, Holding, Publishing
  <2>10. QED
    BY <1>1, <1>5, <2>2, <2>9, QuietStep, PublicCovered DEF ChoosePlan, Goto, TypeOK, Public
<1>6. CASE CheckTagAbsent(r)
  <2>1. /\ pc'[r] \in {"branch", "reserve"} /\ view' = view /\ plan' = plan /\ kind' = kind
        /\ pc[r] = "absent"
    BY <1>1, <1>6 DEF CheckTagAbsent, Goto, TypeOK
  <2>2. Contents(view[r])' = Contents(view[r])
    BY <2>1 DEF Contents
  <2>3. RunSound(r)'
    BY <1>1, <2>1, <2>2 DEF RunSound, Reserving, Holding, Publishing
  <2>4. QED
    BY <1>1, <1>6, <2>3, QuietStep, PublicCovered DEF CheckTagAbsent, Goto, TypeOK, Public
<1>7. CASE CreateBranch(r)
  <2>1. CASE Goto(r, "reserve") /\ UNCHANGED <<view, plan>>
    <3>1. Contents(view[r])' = Contents(view[r])
      BY <2>1 DEF Contents
    <3>2. RunSound(r)'
      BY <1>1, <1>7, <2>1, <3>1
         DEF CreateBranch, RunSound, Goto, TypeOK, Reserving, Holding, Publishing
    <3>3. QED
      BY <1>1, <1>7, <2>1, <3>2, QuietStep, PublicCovered
         DEF CreateBranch, Goto, TypeOK, Public
  <2>2. CASE Ends(r, "failed")
    BY <1>1, <1>7, <2>2, StoppedSound, QuietStep, PublicCovered DEF CreateBranch, Public
  <2>3. QED
    BY <1>7, <2>1, <2>2 DEF CreateBranch
<1>8. CASE WriteReservation(r)
  <2> DEFINE w == ReserveRequest(r)
  <2>1. /\ plan[r] \in Plan /\ kind[r] # "stable" /\ plan[r] # NoPlan
        /\ ReserveSound(r, Contents(view[r]), plan[r])
        /\ "reserved" \in PC
    BY <1>1, <1>8, SentinelAssumption
       DEF WriteReservation, RunSound, Reserving, ReserveSound, PC, Holding, CandidateKinds
  <2>2. w \in Request /\ RequestSound(w)
    BY <1>1, <2>1, RequestsType DEF RequestSound, RunSound, ReserveRequest
  <2>3. ASSUME Put(w), Continues(r, "reserved")
        PROVE  RunSound(r)'
    <3>1. pc'[r] = "reserved" /\ plan' = plan /\ LedgerSound(Contents(view[r])')
      BY <1>1, <2>3, ContinuesView
    <3>2. kind' = kind
      BY <1>8 DEF WriteReservation, WriteState
    <3>3. Durable' = NewContents(w)
      BY <2>2, <2>3, PutSound
    <3>4. Durable'.plans[r] = plan[r]
      BY <1>2, <2>2, <3>3, NewContentsType DEF ReserveRequest, Ledger
    <3>5. QED
      BY <2>1, <3>1, <3>2, <3>4 DEF RunSound, Reserving, Publishing
  <2>4. QED
    BY <1>8, <2>1, <2>2, <2>3, WriteStateSound DEF WriteReservation
<1>9. QED
  BY <1>3, <1>4, <1>5, <1>6, <1>7, <1>8 DEF Reserve

(* The steps that verify a plan and consume its number keep the invariant. *)
LEMMA BeginStep ==
  ASSUME IInv, TypeOK', NEW r \in Runs, Begin(r)
  PROVE  IInv'
<1>1. TypeOK /\ RunSound(r)
  BY DEF IInv
<1>2. Durable \in Ledger /\ Contents(view[r]) \in Ledger /\ LedgerSound(Durable)
  BY <1>1, ContentsType DEF TypeOK, Durable, IInv
<1> USE DEF stateVars, publicVars, runVars
<1>3. CASE CheckPublication(r)
  <2>1. /\ pc'[r] = "begin" /\ view' = view /\ plan' = plan /\ kind' = kind
        /\ pc[r] = "reserved" /\ Durable' = Durable
    BY <1>1, <1>3 DEF CheckPublication, Goto, TypeOK, Durable
  <2>2. Contents(view[r])' = Contents(view[r])
    BY <2>1 DEF Contents
  <2>3. RunSound(r)'
    BY <1>1, <2>1, <2>2 DEF RunSound, Reserving, Holding, Publishing
  <2>4. QED
    BY <1>1, <1>3, <2>3, QuietStep, PublicCovered DEF CheckPublication, Goto, TypeOK, Public
<1>4. ASSUME NEW c \in Runs, PickCandidate(r, c)
      PROVE  IInv'
  <2>1. /\ pc'[r] = "recheck" /\ view' = view /\ kind' = kind /\ kind[r] = "stable"
        /\ plan'[r] = Durable.plans[c] /\ Durable.plans[c] # NoPlan
    BY <1>1, <1>4 DEF PickCandidate, Goto, TypeOK, Durable
  <2>2. plan'[r] \in Plan
    BY <1>2, <2>1 DEF Ledger
  <2>3. Contents(view[r])' = Contents(view[r])
    BY <2>1 DEF Contents
  <2>4. RunSound(r)'
    BY <1>1, <2>1, <2>2, <2>3 DEF RunSound, Reserving, Holding, Publishing
  <2>5. QED
    BY <1>1, <1>4, <2>4, QuietStep, PublicCovered DEF PickCandidate, Goto, TypeOK, Public
<1>5. ASSUME NEW c \in Runs, RecheckCandidate(r, c)
      PROVE  IInv'
  <2>1. /\ pc'[r] = "begin" /\ view' = view /\ plan' = plan /\ kind' = kind
        /\ pc[r] = "recheck" /\ Durable' = Durable
    BY <1>1, <1>5 DEF RecheckCandidate, Goto, TypeOK, Durable
  <2>2. Contents(view[r])' = Contents(view[r])
    BY <2>1 DEF Contents
  <2>3. RunSound(r)'
    BY <1>1, <2>1, <2>2 DEF RunSound, Reserving, Holding, Publishing
  <2>4. QED
    BY <1>1, <1>5, <2>3, QuietStep, PublicCovered DEF RecheckCandidate, Goto, TypeOK, Public
<1>6. CASE ReadFloor(r)
  <2>1. /\ pc'[r] = "order" /\ view'[r] = ledger /\ plan' = plan /\ kind' = kind
        /\ pc[r] = "begin" /\ Durable' = Durable
    BY <1>1, <1>6 DEF ReadFloor, Goto, TypeOK, Durable
  <2>2. Contents(view[r])' = Durable
    BY <2>1 DEF Contents, Durable
  <2>3. RunSound(r)'
    BY <1>1, <1>2, <2>1, <2>2 DEF RunSound, Reserving, Holding, Publishing
  <2>4. QED
    BY <1>1, <1>6, <2>3, QuietStep, PublicCovered DEF ReadFloor, Goto, TypeOK, Public
<1>7. CASE VerifyOrder(r)
  <2>1. /\ pc'[r] = "consume" /\ view' = view /\ plan' = plan /\ kind' = kind
        /\ pc[r] = "order" /\ Durable' = Durable
    BY <1>1, <1>7 DEF VerifyOrder, Goto, TypeOK, Durable
  <2>2. RequestSound(ConsumeRequest(r))
    <3>1. LedgerSound(Contents(view[r]))
      BY <1>1 DEF RunSound
    <3>2. CASE kind[r] = "stable"
      BY <1>7, <3>1, <3>2
         DEF VerifyOrder, PromotionOrderVerified, RequestSound, ConsumeRequest
    <3>3. CASE kind[r] # "stable"
      BY <1>7, <3>1, <3>3
         DEF VerifyOrder, ReservationVerified, RequestSound, ConsumeRequest
    <3>4. QED
      BY <3>2, <3>3
  <2>3. RequestSound(ConsumeRequest(r))'
    BY <2>1, <2>2 DEF ConsumeRequest
  <2>4. Contents(view[r])' = Contents(view[r])
    BY <2>1 DEF Contents
  <2>5. RunSound(r)'
    BY <1>1, <2>1, <2>3, <2>4 DEF RunSound, Reserving, Holding, Publishing
  <2>6. QED
    BY <1>1, <1>7, <2>5, QuietStep, PublicCovered DEF VerifyOrder, Goto, TypeOK, Public
<1>8. CASE WriteFloor(r)
  <2> DEFINE w == ConsumeRequest(r)
  <2>1. plan[r] \in Plan /\ RequestSound(w) /\ "tag" \in PC
    BY <1>1, <1>8 DEF WriteFloor, RunSound, PC, Holding
  <2>2. w \in Request
    BY <1>1, <2>1, RequestsType
  <2>3. ASSUME Put(w), Continues(r, "tag")
        PROVE  RunSound(r)'
    <3>1. pc'[r] = "tag" /\ plan' = plan /\ LedgerSound(Contents(view[r])')
      BY <1>1, <2>3, ContinuesView
    <3>2. kind' = kind
      BY <1>8 DEF WriteFloor, WriteState
    <3>3. Durable' = NewContents(w) /\ Extends(Durable', Durable)
      BY <2>1, <2>2, <2>3, PutSound
    <3>4. CASE kind[r] = "stable"
      BY <2>1, <3>1, <3>2, <3>4 DEF RunSound, Reserving
    <3>5. CASE kind[r] # "stable"
      <4>1. Durable.plans[r] = plan[r] /\ plan[r] # NoPlan /\ plan[r].number \in Nat
        BY <1>1, <1>8, <2>1, <3>5, SentinelAssumption DEF WriteFloor, RunSound, Holding, Plan
      <4>2. Durable'.plans[r] = plan[r]
        BY <3>3, <4>1 DEF Extends
      <4>3. Durable'.floor = plan[r].number
        BY <2>2, <3>3, <3>5, NewContentsType DEF ConsumeRequest
      <4>4. QED
        BY <2>1, <3>1, <3>2, <4>1, <4>2, <4>3 DEF RunSound, Reserving
    <3>6. QED
      BY <3>4, <3>5
  <2>4. QED
    BY <1>8, <2>1, <2>2, <2>3, WriteStateSound DEF WriteFloor
<1>9. QED
  BY <1>3, <1>4, <1>5, <1>6, <1>7, <1>8 DEF Begin

(* The steps that make a candidate public keep the invariant.              *)
LEMMA PublishStep ==
  ASSUME IInv, TypeOK', NEW r \in Runs, Publish(r)
  PROVE  IInv'
<1>1. TypeOK /\ RunSound(r)
  BY DEF IInv
<1>2. pc[r] \in Publishing /\ pc[r] \in Holding /\ plan[r] \in Plan /\ plan[r] # NoPlan
  BY <1>1, SentinelAssumption
     DEF Publish, CreateTag, CreateDraft, PublishRelease, StoreEvidence,
         Publishing, Holding, RunSound
<1>3. \A t \in Public \cup {Target(r)} : t.kind # "stable" => BehindFloor(t)
  <2>1. kind[r] # "stable" => BehindFloor(Target(r))
    BY <1>1, <1>2, TargetType DEF RunSound, BehindFloor, Holders
  <2>2. kind[r] = "stable" => Target(r).kind = "stable"
    BY <1>2, TargetType
  <2>3. QED
    BY <2>1, <2>2, PublicCovered
<1> USE DEF stateVars, publicVars, runVars
<1>4. ASSUME NEW label \in {"draft", "publish", "store"}, Applied(r, label),
             UNCHANGED <<ledger, branch, late, begins, kind>>,
             Public' \subseteq Public \cup {Target(r)}
      PROVE  IInv'
  <2>1. /\ RunSound(r)'
        /\ \A q \in Runs \ {r} : pc'[q] = pc[q] /\ view'[q] = view[q] /\ plan'[q] = plan[q]
    <3>1. CASE Ends(r, "failed")
      BY <1>1, <3>1, StoppedSound
    <3>2. CASE Continues(r, label)
      <4>1. /\ pc'[r] = label /\ plan' = plan /\ LedgerSound(Contents(view[r])')
            /\ \A q \in Runs \ {r} : pc'[q] = pc[q] /\ view'[q] = view[q] /\ plan'[q] = plan[q]
        BY <1>1, <3>2, ContinuesView
      <4>2. Durable' = Durable
        BY <1>4 DEF Durable
      <4>3. RunSound(r)'
        BY <1>1, <1>2, <1>4, <4>1, <4>2 DEF RunSound, Reserving, Holding, Publishing
      <4>4. QED
        BY <4>1, <4>3
    <3>3. QED
      BY <1>4, <3>1, <3>2 DEF Applied
  <2>2. QED
    BY <1>3, <1>4, <2>1, QuietStep
<1>5. CASE CreateTag(r)
  BY <1>4, <1>5 DEF CreateTag, Public
<1>6. CASE CreateDraft(r)
  BY <1>4, <1>6 DEF CreateDraft, Public
<1>7. CASE PublishRelease(r)
  BY <1>4, <1>7 DEF PublishRelease, Public
<1>8. CASE StoreEvidence(r)
  <2>1. /\ RunSound(r)'
        /\ \A q \in Runs \ {r} : pc'[q] = pc[q] /\ view'[q] = view[q] /\ plan'[q] = plan[q]
    BY <1>1, <1>8, StoppedSound DEF StoreEvidence
  <2>2. QED
    BY <1>3, <1>8, <2>1, QuietStep DEF StoreEvidence, Public
<1>9. QED
  BY <1>5, <1>6, <1>7, <1>8 DEF Publish

(* Every step keeps the invariant.                                         *)
LEMMA InvariantStep ==
  ASSUME IInv, [Next]_vars
  PROVE  IInv'
<1>1. TypeOK /\ TypeOK'
  BY TypeStep DEF IInv
<1> USE DEF stateVars, publicVars, runVars
<1>2. ASSUME NEW r \in Runs, Trigger(r)
      PROVE  IInv'
  <2>1. /\ RunSound(r)'
        /\ \A q \in Runs \ {r} : pc'[q] = pc[q] /\ view'[q] = view[q] /\ plan'[q] = plan[q]
    BY <1>1, <1>2, StoppedSound DEF Trigger
  <2>2. QED
    BY <1>1, <1>2, <2>1, QuietStep, PublicCovered DEF Trigger, Public
<1>3. ASSUME NEW r \in Runs, Fail(r)
      PROVE  IInv'
  <2>1. /\ RunSound(r)'
        /\ \A q \in Runs \ {r} : pc'[q] = pc[q] /\ view'[q] = view[q] /\ plan'[q] = plan[q]
    BY <1>1, <1>3, StoppedSound DEF Fail
  <2>2. QED
    BY <1>1, <1>3, <2>1, QuietStep, PublicCovered DEF Fail, Public
<1>4. ASSUME NEW w \in late, LateWrite(w)
      PROVE  IInv'
  <2>1. /\ w \in Request /\ RequestSound(w) /\ Put(w)
        /\ Public' = Public /\ late' \subseteq late
        /\ pc' = pc /\ view' = view /\ plan' = plan /\ kind' = kind
    BY <1>1, <1>4 DEF LateWrite, IInv, TypeOK, Public
  <2>2. /\ LedgerSound(Durable') /\ Extends(Durable', Durable) /\ Durable' \in Ledger
        /\ \A q \in Runs : HistorySound(q)'
    BY <2>1, PutSound, NewContentsType
  <2>3. \A q \in Runs : RunSound(q)'
    BY <2>1, <2>2, OthersKeep
  <2>4. \A v \in late' : RequestSound(v)'
    BY <2>1 DEF IInv
  <2>5. PublicBehindFloor'
    BY <2>1, <2>2, PublicKeeps, PublicCovered
  <2>6. QED
    BY <1>1, <2>2, <2>3, <2>4, <2>5 DEF IInv
<1>5. ASSUME UNCHANGED <<ledger, late, begins, pc, kind, view, plan>>, Public' \subseteq Public
      PROVE  IInv'
  <2>1. Durable' = Durable /\ Durable \in Ledger
    BY <1>1, <1>5, ContentsType DEF Durable, TypeOK
  <2>2. Extends(Durable', Durable)
    BY <2>1 DEF Extends, Ledger
  <2>3. \A q \in Runs : RunSound(q)' /\ HistorySound(q)'
    BY <1>5, <2>1, <2>2, OthersKeep DEF IInv, HistorySound
  <2>4. LedgerSound(Durable)' /\ \A w \in late' : RequestSound(w)'
    BY <1>5, <2>1 DEF IInv
  <2>5. PublicBehindFloor'
    BY <1>5, <2>1, <2>2, PublicKeeps, PublicCovered
  <2>6. QED
    BY <1>1, <2>3, <2>4, <2>5 DEF IInv
<1>6. ASSUME NEW t \in published, DeleteRelease(t)
      PROVE  IInv'
  BY <1>5, <1>6 DEF DeleteRelease, Public
<1>7. CASE UNCHANGED vars
  BY <1>5, <1>7 DEF vars, Public
<1>8. QED
  BY <1>1, <1>2, <1>3, <1>4, <1>6, <1>7, ReserveStep, BeginStep, PublishStep DEF Next

(* The repository before its first release run.                            *)
LEMMA InvariantInit ==
  ASSUME Init
  PROVE  IInv
<1>1. Durable = FreshLedger /\ \A r \in Runs : Contents(view[r]) = FreshLedger
  BY DEF Init, Durable, Contents
<1>2. LedgerSound(FreshLedger) /\ FreshLedger \in Ledger
  BY LedgerAssumption DEF LedgerSound, FreshLedger, Ledger
<1>3. TypeOK
  <2>1. "idle" \in PC /\ 0 \in Nat /\ FALSE \in BOOLEAN
    BY DEF PC, Resting
  <2>2. tags \subseteq Tag /\ drafts \subseteq Tag /\ published \subseteq Tag /\ late \subseteq Request
    BY DEF Init
  <2>3. QED
    BY <2>1, <2>2 DEF Init, TypeOK
<1>4. ASSUME NEW r \in Runs
      PROVE  RunSound(r) /\ HistorySound(r)
  <2>1. pc[r] = "idle" /\ begins[r] = 0
    BY DEF Init
  <2>2. RunSound(r)
    BY <1>1, <1>2, <2>1 DEF RunSound, Reserving, Holding, Publishing
  <2>3. HistorySound(r)
    BY <2>1 DEF HistorySound
  <2>4. QED
    BY <2>2, <2>3
<1>5. PublicBehindFloor
  BY DEF Init, PublicBehindFloor, Public
<1>6. QED
  BY <1>1, <1>2, <1>3, <1>4, <1>5 DEF Init, IInv

(* Only accepted PUTs of sound requests change what readers see.           *)
LEMMA LedgerChanges ==
  ASSUME IInv, [Next]_vars
  PROVE  Durable' = Durable \/ \E w \in Request : RequestSound(w) /\ Put(w)
<1>1. TypeOK /\ \A r \in Runs : RunSound(r)
  BY DEF IInv
<1>2. ASSUME NEW r \in Runs, WriteReservation(r)
      PROVE  Durable' = Durable \/ \E w \in Request : RequestSound(w) /\ Put(w)
  <2>1. plan[r] \in Plan /\ ReserveSound(r, Contents(view[r]), plan[r])
    BY <1>1, <1>2 DEF WriteReservation, RunSound, ReserveSound
  <2>2. ReserveRequest(r) \in Request /\ RequestSound(ReserveRequest(r))
    BY <1>1, <2>1, RequestsType DEF RequestSound, RunSound, ReserveRequest
  <2>3. QED
    BY <1>2, <2>2 DEF WriteReservation, WriteState, Durable
<1>3. ASSUME NEW r \in Runs, WriteFloor(r)
      PROVE  Durable' = Durable \/ \E w \in Request : RequestSound(w) /\ Put(w)
  <2>1. ConsumeRequest(r) \in Request /\ RequestSound(ConsumeRequest(r))
    BY <1>1, <1>3, RequestsType DEF WriteFloor, RunSound, Holding
  <2>2. QED
    BY <1>3, <2>1 DEF WriteFloor, WriteState, Durable
<1>4. ASSUME NEW w \in late, LateWrite(w)
      PROVE  \E v \in Request : RequestSound(v) /\ Put(v)
  BY <1>1, <1>4 DEF LateWrite, IInv, TypeOK
<1>5. ASSUME ledger' = ledger
      PROVE  Durable' = Durable
  BY <1>5 DEF Durable
<1>6. ASSUME NEW r \in Runs,
             \/ Trigger(r) \/ Prepare(r) \/ ReadState(r) \/ ChoosePlan(r) \/ CheckTagAbsent(r)
             \/ CreateBranch(r) \/ Publish(r) \/ Fail(r)
      PROVE  ledger' = ledger
  BY <1>6 DEF Trigger, Prepare, ReadState, ChoosePlan, CheckTagAbsent, CreateBranch, Publish,
              CreateTag, CreateDraft, PublishRelease, StoreEvidence, Fail, stateVars
<1>7. ASSUME NEW r \in Runs, NEW c \in Runs,
             \/ CheckPublication(r) \/ ReadFloor(r) \/ VerifyOrder(r)
             \/ PickCandidate(r, c) \/ RecheckCandidate(r, c)
      PROVE  ledger' = ledger
  BY <1>7 DEF CheckPublication, ReadFloor, VerifyOrder, PickCandidate, RecheckCandidate, stateVars
<1>8. ASSUME NEW t \in published, DeleteRelease(t)
      PROVE  ledger' = ledger
  BY <1>8 DEF DeleteRelease, stateVars
<1>9. CASE UNCHANGED vars
  BY <1>5, <1>9 DEF vars
<1>10. QED
  BY <1>2, <1>3, <1>4, <1>5, <1>6, <1>7, <1>8, <1>9 DEF Next, Reserve, Begin

(* An accepted PUT is a reservation, a consumption or no step of the       *)
(* allocator: a promotion may consume a number that is consumed already.   *)
LEMMA PutRefines ==
  ASSUME IInv, NEW w \in Request, RequestSound(w), Put(w)
  PROVE  [Allocator!Next]_(Allocator!vars)
<1> DEFINE l == Durable
           n == NewContents(w)
<1>1. Durable' = n /\ l = Contents(w.old) /\ l \in Ledger /\ n \in Ledger /\ LedgerSound(l)
  BY PutSound, NewContentsType, ContentsOfLedger, ContentsType
     DEF Put, Durable, IInv, TypeOK
<1>2. w.plan \in Plan /\ w.plan # NoPlan /\ w.plan.number \in Nat /\ w.run \in Runs
  BY SentinelAssumption DEF Request, Plan
<1>3. /\ l.counter \in Nat /\ l.floor \in Nat /\ l.plans \in [Runs -> Plan \cup {NoPlan}]
      /\ \A q \in Runs : l.plans[q] # NoPlan => l.plans[q].number \in Nat
  BY <1>1 DEF Ledger, Plan
<1>4. CASE w.op = "reserve"
  <2>1. /\ n.floor = l.floor /\ n.plans = [l.plans EXCEPT ![w.run] = w.plan]
        /\ n.plans[w.run] = w.plan
    BY <1>1, <1>2, <1>3, <1>4, NewContentsType
  <2>2. ReserveSound(w.run, l, w.plan)
    BY <1>1, <1>4 DEF RequestSound
  <2>3. l.plans[w.run] = NoPlan /\ w.plan.number > l.floor
    BY <1>1, <1>2, <1>3, <2>2 DEF ReserveSound, LedgerSound
  <2>4. \A q \in Allocator!Holders :
          l.plans[q].number < w.plan.number /\ l.plans[q].tag # w.plan.tag
    BY <1>1, <1>2, <1>3, <2>2 DEF ReserveSound, LedgerSound, Allocator!Holders
  <2>5. Allocator!Reserve(w.run)
    BY <1>1, <1>2, <2>1, <2>3, <2>4 DEF Allocator!Reserve
  <2>6. QED
    BY <1>2, <2>5 DEF Allocator!Next
<1>5. CASE w.op # "reserve"
  <2>1. n.floor = w.plan.number /\ n.plans = l.plans
    BY <1>1, <1>5, NewContentsType
  <2>2. PICK q \in Runs : l.plans[q] = w.plan /\ w.plan.number >= l.floor
    BY <1>1, <1>2, <1>3, <1>5 DEF RequestSound, Request
  <2>3. CASE w.plan.number = l.floor
    BY <1>1, <2>1, <2>3 DEF Allocator!vars
  <2>4. CASE w.plan.number > l.floor
    BY <1>1, <1>2, <2>1, <2>2, <2>4 DEF Allocator!Next, Allocator!Consume
  <2>5. QED
    BY <1>2, <1>3, <2>2, <2>3, <2>4
<1>6. QED
  BY <1>4, <1>5

(* IInv holds in every reachable state, for any runs and any bounds.       *)
THEOREM InvariantHolds == Spec => []IInv
<1>1. Init => IInv
  BY InvariantInit
<1>2. IInv /\ [Next]_vars => IInv'
  BY InvariantStep
<1>3. QED
  BY <1>1, <1>2, PTL DEF Spec

(* The state of the repository and of its runs keeps its types.            *)
THEOREM TypeCorrect == Spec => []TypeOK
<1>1. IInv => TypeOK
  BY DEF IInv
<1>2. QED
  BY <1>1, InvariantHolds, PTL

(* No two runs hold the same build number or the same tag.                 *)
THEOREM ReservationsAreDistinct == Spec => []ReservationsDistinct
<1>1. IInv => ReservationsDistinct
  BY DEF IInv, ReservationsDistinct, Holders, LedgerSound
<1>2. QED
  BY <1>1, InvariantHolds, PTL

(* A run's number is consumed at most once over all its attempts.          *)
THEOREM NumbersConsumedOnce == Spec => []ConsumedAtMostOnce
<1>1. IInv => ConsumedAtMostOnce
  BY DEF IInv, ConsumedAtMostOnce, HistorySound
<1>2. QED
  BY <1>1, InvariantHolds, PTL

(* What is public was consumed first.                                      *)
THEOREM PublicIsConsumed == Spec => []PublicBehindFloor
<1>1. IInv => PublicBehindFloor
  BY DEF IInv
<1>2. QED
  BY <1>1, InvariantHolds, PTL

(* No step changes or withdraws a reservation or moves a counter back.     *)
THEOREM LedgerGrows == Spec => LedgerOnlyGrows
<1>1. IInv /\ [Next]_vars => [Extends(Durable', Durable)]_vars
  <2> SUFFICES ASSUME IInv, [Next]_vars
               PROVE  Extends(Durable', Durable)
    OBVIOUS
  <2>1. Durable \in Ledger
    BY ContentsType DEF IInv, TypeOK, Durable
  <2>2. CASE Durable' = Durable
    BY <2>1, <2>2 DEF Extends, Ledger
  <2>3. QED
    BY <2>2, LedgerChanges, PutSound
<1>2. QED
  BY <1>1, InvariantHolds, PTL DEF Spec, LedgerOnlyGrows

(* The ledger implements the atomic allocator.                             *)
THEOREM LedgerImplementsAllocator == Spec => AllocatorSpec
<1>1. Init => Allocator!Init
  BY DEF Init, Allocator!Init, Durable, Contents, FreshLedger
<1>2. IInv /\ [Next]_vars => [Allocator!Next]_(Allocator!vars)
  <2> SUFFICES ASSUME IInv, [Next]_vars
               PROVE  [Allocator!Next]_(Allocator!vars)
    OBVIOUS
  <2>1. CASE Durable' = Durable
    BY <2>1 DEF Allocator!vars
  <2>2. QED
    BY <2>1, LedgerChanges, PutRefines
<1>3. QED
  BY <1>1, <1>2, InvariantHolds, PTL DEF Spec, AllocatorSpec, Allocator!Spec

--------------------------------------------------------------------------------
(* Order: what the concurrency group adds. IInv does not tell when a run's *)
(* checks were made; the facts below say that what the checks of a run     *)
(* found still holds when it publishes, because no other run is active and *)
(* late writes and deletions only take away what could be newer.           *)

(* A plan carries the base and the channel of the run that holds it.       *)
Named(r, p) == p.tag.base = base[r] /\ p.tag.kind = kind[r]
NamesKept ==
  /\ \A r \in Holders : Named(r, Durable.plans[r])
  /\ \A w \in late : w.op = "reserve" => Named(w.run, w.plan)
  /\ \A r \in Runs : pc[r] \in {"absent", "branch", "reserve"} => Named(r, plan[r])

(* The concurrency group admits one run at a time.                         *)
Exclusive == \A r, q \in Runs : r = q \/ pc[r] \in Resting \/ pc[q] \in Resting

(* The ledger copy of a run has every reservation that is published.       *)
SeesPublished(r) ==
  /\ Extends(Durable, Contents(view[r]))
  /\ \A q \in Holders : Durable.plans[q].tag \in published =>
       Contents(view[r]).plans[q] = Durable.plans[q]

(* What a run has established about the order, by where it stands.         *)
Cleared(r) ==
  /\ \A q \in Holders : Durable.plans[q].tag \in published =>
       Durable.plans[q].number <= plan[r].number
  /\ kind[r] = "stable" => /\ plan[r].tag.kind = "rc"
                           /\ \E q \in Runs : Durable.plans[q] = plan[r]
Ordered(r) ==
  /\ pc[r] = "recheck" => kind[r] = "stable"
  /\ pc[r] = "order" => SeesPublished(r)
  /\ pc[r] \in {"consume", "tag", "draft", "publish"} => Cleared(r)
  /\ pc[r] \in {"begin", "order", "consume", "tag"} /\ kind[r] \in {"beta", "rc"} =>
       StableTag(base[r]) \notin published

OrderInv == NamesKept /\ Exclusive /\ \A r \in Runs : Ordered(r)

(* Whoever acts is the only active run, and leaves the others alone.       *)
Acts(r) == Trigger(r) \/ Reserve(r) \/ Begin(r) \/ Publish(r) \/ Fail(r)

LEMMA ActsAlone ==
  ASSUME TypeOK, NEW r \in Runs, Acts(r)
  PROVE  /\ kind' = kind /\ base' = base
         /\ \A q \in Runs \ {r} : pc'[q] = pc[q] /\ plan'[q] = plan[q] /\ view'[q] = view[q]
         /\ pc[r] \notin Resting \/ Trigger(r)
<1> USE DEF TypeOK, runVars, Goto, Ends, Continues, Applied, WriteState
<1>1. CASE Trigger(r) \/ Fail(r)
  BY <1>1 DEF Trigger, Fail
<1>2. CASE Reserve(r)
  BY <1>2 DEF Reserve, Prepare, ReadState, ChoosePlan, CheckTagAbsent, CreateBranch,
              WriteReservation, Resting
<1>3. CASE CheckPublication(r) \/ ReadFloor(r) \/ VerifyOrder(r) \/ WriteFloor(r)
  BY <1>3 DEF CheckPublication, ReadFloor, VerifyOrder, WriteFloor, Resting
<1>4. ASSUME NEW c \in Runs, PickCandidate(r, c) \/ RecheckCandidate(r, c)
      PROVE  /\ kind' = kind /\ base' = base
             /\ \A q \in Runs \ {r} : pc'[q] = pc[q] /\ plan'[q] = plan[q] /\ view'[q] = view[q]
             /\ pc[r] \notin Resting
  BY <1>4 DEF PickCandidate, RecheckCandidate, Resting
<1>5. CASE Publish(r)
  BY <1>5 DEF Publish, CreateTag, CreateDraft, PublishRelease, StoreEvidence, Resting
<1>6. QED
  BY <1>1, <1>2, <1>3, <1>4, <1>5 DEF Acts, Begin

(* With the concurrency group a step of one run finds and leaves every     *)
(* other run at rest.                                                      *)
LEMMA OthersRest ==
  ASSUME TypeOK, Exclusive, Serialized = TRUE, NEW r \in Runs, Acts(r)
  PROVE  /\ \A q \in Runs \ {r} : pc'[q] \in Resting
         /\ Exclusive'
<1>1. \A q \in Runs \ {r} : pc[q] \in Resting
  BY ActsAlone DEF Exclusive, Trigger
<1>2. QED
  BY <1>1, ActsAlone DEF Exclusive

(* A published tag keeps its holder while the ledger grows: a plan that    *)
(* joins the ledger has a tag nobody published.                            *)
LEMMA PublishedKeepsHolder ==
  ASSUME IInv, IInv', Extends(Durable', Durable),
         NEW q \in Runs, Durable'.plans[q] # NoPlan, Durable'.plans[q].tag \in published
  PROVE  q \in Holders /\ Durable'.plans[q] = Durable.plans[q]
<1> DEFINE t == Durable'.plans[q].tag
<1>1. LedgerSound(Durable')
  BY DEF IInv
<1>2. t.kind # "stable"
  BY <1>1 DEF LedgerSound, PlanSound, CandidateKinds
<1>3. PICK h \in Holders : Durable.plans[h].tag = t
  BY <1>2 DEF IInv, PublicBehindFloor, Public
<1>4. h \in Runs /\ Durable.plans[h] # NoPlan /\ Durable'.plans[h] = Durable.plans[h]
  BY <1>3 DEF Holders, Extends
<1>5. h = q
  BY <1>1, <1>3, <1>4 DEF LedgerSound
<1>6. QED
  BY <1>3, <1>4, <1>5

(* No step moves the ledger back.                                          *)
LEMMA StepExtends ==
  ASSUME IInv, [Next]_vars
  PROVE  Extends(Durable', Durable)
<1>1. Durable \in Ledger
  BY ContentsType DEF IInv, TypeOK, Durable
<1>2. CASE Durable' = Durable
  BY <1>1, <1>2 DEF Extends, Ledger
<1>3. QED
  BY <1>2, LedgerChanges, PutSound

(* What a run has cleared stays cleared while nothing is published.        *)
LEMMA ClearedKeeps ==
  ASSUME IInv, IInv', Extends(Durable', Durable), published' \subseteq published,
         NEW r \in Runs, kind' = kind, plan'[r] = plan[r], Cleared(r), plan[r] \in Plan
  PROVE  Cleared(r)'
<1>1. \A q \in Runs : /\ Durable'.plans[q] # NoPlan
                      /\ Durable'.plans[q].tag \in published'
                      => Durable'.plans[q].number <= plan'[r].number
  BY PublishedKeepsHolder DEF Cleared
<1>2. kind'[r] = "stable" => /\ plan'[r].tag.kind = "rc"
                             /\ \E q \in Runs : Durable'.plans[q] = plan'[r]
  BY SentinelAssumption DEF Cleared, Extends
<1>3. QED
  BY <1>1, <1>2 DEF Cleared, Holders

(* So does what it saw before.                                             *)
LEMMA SeesKeeps ==
  ASSUME IInv, IInv', Extends(Durable', Durable), published' \subseteq published,
         NEW r \in Runs, view'[r] = view[r], SeesPublished(r)
  PROVE  SeesPublished(r)'
<1>1. Contents(view[r])' = Contents(view[r])
  BY DEF Contents
<1>2. \A q \in Runs : /\ Durable'.plans[q] # NoPlan
                      /\ Durable'.plans[q].tag \in published'
                      => Contents(view[r]).plans[q] = Durable'.plans[q]
  BY PublishedKeepsHolder DEF SeesPublished
<1>3. Contents(view[r]) \in Ledger /\ Durable \in Ledger /\ Durable' \in Ledger
  BY ContentsType DEF IInv, TypeOK, Durable
<1>4. Extends(Durable', Contents(view[r]))
  BY <1>3 DEF SeesPublished, Extends, Ledger
<1>5. QED
  BY <1>1, <1>2, <1>4 DEF SeesPublished, Holders

(* A PUT keeps the names in the file when the request has them.            *)
LEMMA PutNames ==
  ASSUME IInv, NamesKept, NEW w \in Request, RequestSound(w), Put(w),
         w.op = "reserve" => Named(w.run, w.plan), kind' = kind, base' = base
  PROVE  \A q \in Runs : Durable'.plans[q] # NoPlan => Named(q, Durable.plans[q])'
<1>1. /\ Durable' = NewContents(w) /\ Durable = Contents(w.old) /\ Durable \in Ledger
      /\ w.run \in Runs
  BY PutSound, ContentsOfLedger, ContentsType DEF Put, Durable, IInv, TypeOK, Request
<1>2. \A q \in Runs :
        \/ Durable'.plans[q] = Durable.plans[q]
        \/ w.op = "reserve" /\ q = w.run /\ Durable'.plans[q] = w.plan
  <2>1. CASE w.op = "reserve"
    <3>1. Durable'.plans = [Durable.plans EXCEPT ![w.run] = w.plan]
      BY <1>1, <2>1, NewContentsType
    <3>2. Durable.plans \in [Runs -> Plan \cup {NoPlan}]
      BY <1>1 DEF Ledger
    <3>3. QED
      BY <1>1, <2>1, <3>1, <3>2
  <2>2. CASE w.op # "reserve"
    BY <1>1, <2>2, NewContentsType
  <2>3. QED
    BY <2>1, <2>2
<1>3. QED
  BY <1>2 DEF NamesKept, Named, Holders

(* The names a run writes are its own.                                     *)
LEMMA WriteNames ==
  ASSUME IInv, NamesKept, NEW r \in Runs, NEW w \in Request, RequestSound(w),
         w.op = "reserve" => Named(w.run, w.plan),
         NEW label \in {"reserved", "tag"}, WriteState(r, w, label)
  PROVE  NamesKept'
<1>1. /\ kind' = kind /\ base' = base
      /\ \A q \in Runs \ {r} : pc'[q] = pc[q] /\ plan'[q] = plan[q]
      /\ pc'[r] \notin {"absent", "branch", "reserve"}
  BY DEF WriteState, runVars, Applied, Continues, Ends, Goto, IInv, TypeOK
<1>2. \A q \in Runs : pc'[q] \in {"absent", "branch", "reserve"} => Named(q, plan[q])'
  BY <1>1 DEF NamesKept, Named
<1>3. \A v \in late' : v.op = "reserve" => Named(v.run, v.plan)'
  BY <1>1 DEF WriteState, NamesKept, Named
<1>4. \A q \in Runs : Durable'.plans[q] # NoPlan => Named(q, Durable.plans[q])'
  <2>1. CASE Put(w)
    BY <1>1, <2>1, PutNames
  <2>2. CASE ledger' = ledger
    BY <1>1, <2>2 DEF NamesKept, Named, Holders, Durable
  <2>3. QED
    BY <2>1, <2>2 DEF WriteState
<1>5. QED
  BY <1>2, <1>3, <1>4 DEF NamesKept, Holders, Named

(* Every step keeps the names.                                             *)
LEMMA NamesStep ==
  ASSUME IInv, NamesKept, [Next]_vars
  PROVE  NamesKept'
<1>1. TypeOK /\ \A r \in Runs : RunSound(r)
  BY DEF IInv
<1>2. ASSUME kind' = kind, base' = base, ledger' = ledger, late' \subseteq late,
             \A q \in Runs : pc'[q] \in {"absent", "branch", "reserve"} => Named(q, plan[q])'
      PROVE  NamesKept'
  BY <1>2 DEF NamesKept, Named, Holders, Durable
<1>3. ASSUME NEW r \in Runs, Acts(r), ledger' = ledger, late' = late,
             pc'[r] \in {"absent", "branch", "reserve"} =>
               \/ plan'[r] = plan[r] /\ pc[r] \in {"absent", "branch"}
               \/ Named(r, plan'[r])
      PROVE  NamesKept'
  <2>1. /\ kind' = kind /\ base' = base
        /\ \A q \in Runs \ {r} : pc'[q] = pc[q] /\ plan'[q] = plan[q]
    BY <1>1, <1>3, ActsAlone
  <2>2. \A q \in Runs : pc'[q] \in {"absent", "branch", "reserve"} => Named(q, plan[q])'
    BY <1>3, <2>1 DEF NamesKept, Named
  <2>3. QED
    BY <1>2, <1>3, <2>1, <2>2
<1> USE DEF stateVars, publicVars, runVars, Goto
<1>4. ASSUME NEW r \in Runs, Trigger(r) \/ Fail(r)
      PROVE  NamesKept'
  <2>1. pc'[r] \in {"prepare", "failed"} /\ ledger' = ledger /\ late' = late
    BY <1>1, <1>4 DEF Trigger, Fail, Ends, TypeOK
  <2>2. QED
    BY <1>3, <1>4, <2>1 DEF Acts
<1>5. ASSUME NEW r \in Runs, Prepare(r) \/ ReadState(r)
      PROVE  NamesKept'
  <2>1. pc'[r] \in {"read", "reserved", "choose"} /\ ledger' = ledger /\ late' = late
    BY <1>1, <1>5 DEF Prepare, ReadState, TypeOK
  <2>2. QED
    BY <1>3, <1>5, <2>1 DEF Acts, Reserve
<1>6. ASSUME NEW r \in Runs, ChoosePlan(r)
      PROVE  NamesKept'
  <2>1. PICK n \in 1..MaxSequence :
          plan' = [plan EXCEPT ![r] = [number |-> NextNumber(Contents(view[r]).counter),
                                       tag |-> CandidateTag(r, n)]]
    BY <1>6 DEF ChoosePlan
  <2>2. plan'[r].tag = CandidateTag(r, n)
    BY <1>1, <2>1 DEF TypeOK
  <2>3. Named(r, plan'[r])
    BY <2>2 DEF CandidateTag, Named
  <2>4. ledger' = ledger /\ late' = late
    BY <1>6 DEF ChoosePlan
  <2>5. QED
    BY <1>3, <1>6, <2>3, <2>4 DEF Acts, Reserve
<1>7. ASSUME NEW r \in Runs, CheckTagAbsent(r)
      PROVE  NamesKept'
  <2>1. pc[r] = "absent" /\ plan' = plan /\ ledger' = ledger /\ late' = late
    BY <1>7 DEF CheckTagAbsent
  <2>2. QED
    BY <1>3, <1>7, <2>1 DEF Acts, Reserve
<1>8. ASSUME NEW r \in Runs, CreateBranch(r)
      PROVE  NamesKept'
  <2>1. /\ pc[r] = "branch" /\ ledger' = ledger /\ late' = late
        /\ plan'[r] = plan[r] \/ pc'[r] = "failed"
    BY <1>1, <1>8 DEF CreateBranch, Ends, TypeOK
  <2>2. QED
    BY <1>3, <1>8, <2>1 DEF Acts, Reserve
<1>9. ASSUME NEW r \in Runs, WriteReservation(r)
      PROVE  NamesKept'
  <2>1. /\ plan[r] \in Plan /\ ReserveSound(r, Contents(view[r]), plan[r])
        /\ Named(r, plan[r])
    BY <1>1, <1>9 DEF WriteReservation, RunSound, ReserveSound, NamesKept
  <2>2. /\ ReserveRequest(r) \in Request /\ RequestSound(ReserveRequest(r))
        /\ Named(ReserveRequest(r).run, ReserveRequest(r).plan)
    BY <1>1, <2>1, RequestsType DEF RequestSound, RunSound, ReserveRequest
  <2>3. QED
    BY <1>9, <2>2, WriteNames DEF WriteReservation
<1>10. ASSUME NEW r \in Runs, CheckPublication(r) \/ ReadFloor(r) \/ VerifyOrder(r)
       PROVE  NamesKept'
  <2>1. pc'[r] \in {"begin", "order", "consume"} /\ ledger' = ledger /\ late' = late
    BY <1>1, <1>10 DEF CheckPublication, ReadFloor, VerifyOrder, TypeOK
  <2>2. QED
    BY <1>3, <1>10, <2>1 DEF Acts, Begin
<1>11. ASSUME NEW r \in Runs, NEW c \in Runs, PickCandidate(r, c) \/ RecheckCandidate(r, c)
       PROVE  NamesKept'
  <2>1. pc'[r] \in {"recheck", "begin"} /\ ledger' = ledger /\ late' = late
    BY <1>1, <1>11 DEF PickCandidate, RecheckCandidate, TypeOK
  <2>2. QED
    BY <1>3, <1>11, <2>1 DEF Acts, Begin
<1>12. ASSUME NEW r \in Runs, WriteFloor(r)
       PROVE  NamesKept'
  <2>1. ConsumeRequest(r) \in Request /\ RequestSound(ConsumeRequest(r))
    BY <1>1, <1>12, RequestsType DEF WriteFloor, RunSound, Holding
  <2>2. ConsumeRequest(r).op # "reserve"
    BY DEF ConsumeRequest
  <2>3. QED
    BY <1>12, <2>1, <2>2, WriteNames DEF WriteFloor
<1>13. ASSUME NEW r \in Runs, Publish(r)
       PROVE  NamesKept'
  <2>1. ledger' = ledger /\ late' = late
    BY <1>13 DEF Publish, CreateTag, CreateDraft, PublishRelease, StoreEvidence
  <2>2. pc'[r] \in {"draft", "publish", "store", "done", "failed"}
    BY <1>1, <1>13 DEF Publish, CreateTag, CreateDraft, PublishRelease, StoreEvidence,
                       Applied, Continues, Ends, TypeOK
  <2>3. QED
    BY <1>3, <1>13, <2>1, <2>2 DEF Acts
<1>14. ASSUME NEW w \in late, LateWrite(w)
       PROVE  NamesKept'
  <2>1. /\ w \in Request /\ RequestSound(w) /\ Put(w) /\ late' \subseteq late
        /\ w.op = "reserve" => Named(w.run, w.plan)
        /\ pc' = pc /\ plan' = plan /\ kind' = kind /\ base' = base
    BY <1>1, <1>14 DEF LateWrite, IInv, TypeOK, NamesKept
  <2>2. \A q \in Runs : Durable'.plans[q] # NoPlan => Named(q, Durable.plans[q])'
    BY <2>1, PutNames
  <2>3. QED
    BY <2>1, <2>2 DEF NamesKept, Named, Holders
<1>15. ASSUME NEW t \in published, DeleteRelease(t)
       PROVE  NamesKept'
  <2>1. UNCHANGED <<ledger, late, pc, kind, base, plan>>
    BY <1>15 DEF DeleteRelease
  <2>2. QED
    BY <1>2, <2>1 DEF NamesKept, Named
<1>16. CASE UNCHANGED vars
  BY <1>2, <1>16 DEF vars, NamesKept, Named
<1>17. QED
  BY <1>4, <1>5, <1>6, <1>7, <1>8, <1>9, <1>10, <1>11, <1>12, <1>13, <1>14, <1>15, <1>16
     DEF Next, Reserve, Begin

(* When nobody moves, what the runs know holds on: a late write or a       *)
(* deletion cannot put anything newer or a stable tag into what is out.    *)
LEMMA QuietOrder ==
  ASSUME IInv, IInv', OrderInv, [Next]_vars, published' \subseteq published,
         UNCHANGED <<pc, view, plan, kind, base>>, NEW r \in Runs
  PROVE  Ordered(r)'
<1>1. Extends(Durable', Durable)
  BY StepExtends
<1>2. Ordered(r) /\ RunSound(r)
  BY DEF OrderInv, IInv
<1>3. pc[r] = "order" => SeesPublished(r)'
  BY <1>1, <1>2, SeesKeeps DEF Ordered
<1>4. pc[r] \in {"consume", "tag", "draft", "publish"} => Cleared(r)'
  BY <1>1, <1>2, ClearedKeeps DEF Ordered, RunSound, Holding
<1>5. QED
  BY <1>2, <1>3, <1>4 DEF Ordered, StableTag

(* The inventory a run verified against its copy of the ledger is the      *)
(* current one.                                                            *)
LEMMA VerifiedIsCleared ==
  ASSUME IInv, NEW r \in Runs, SeesPublished(r), VerifyOrder(r)
  PROVE  Cleared(r)
<1> DEFINE l == Contents(view[r])
<1>1. l \in Ledger /\ LedgerSound(Durable) /\ Durable \in Ledger
  BY ContentsType DEF IInv, TypeOK, Durable
<1>2. plan[r] \in Plan /\ plan[r] # NoPlan /\ plan[r].number \in Nat
  BY SentinelAssumption DEF VerifyOrder, IInv, RunSound, Holding, Plan
<1>3. \A q \in Holders : q \in Runs /\ Durable.plans[q] # NoPlan /\ Durable.plans[q].number \in Nat
  BY <1>1 DEF Holders, Ledger, Plan
<1>4. \A q \in Holders : Durable.plans[q].tag \in published => l.plans[q] = Durable.plans[q]
  BY DEF SeesPublished
<1>5. CASE kind[r] = "stable"
  <2>1. PromotionOrderVerified(plan[r], l)
    BY <1>5 DEF VerifyOrder
  <2>2. PICK h \in Runs : l.plans[h] = plan[r]
    BY <2>1 DEF PromotionOrderVerified
  <2>3. Durable.plans[h] = plan[r]
    BY <1>2, <2>2 DEF SeesPublished, Extends
  <2>4. ASSUME NEW q \in Holders, Durable.plans[q].tag \in published
        PROVE  Durable.plans[q].number <= plan[r].number
    <3>1. CASE Durable.plans[q].tag = plan[r].tag
      <4>1. q = h
        BY <1>1, <1>2, <1>3, <2>3, <3>1 DEF LedgerSound
      <4>2. QED
        BY <1>2, <2>3, <4>1
    <3>2. CASE Durable.plans[q].tag # plan[r].tag
      BY <1>3, <1>4, <2>1, <2>4, <3>2 DEF PromotionOrderVerified
    <3>3. QED
      BY <3>1, <3>2
  <2>5. QED
    BY <2>1, <2>3, <2>4 DEF Cleared, PromotionOrderVerified
<1>6. CASE kind[r] # "stable"
  <2>1. ReservationVerified(r, l)
    BY <1>6 DEF VerifyOrder
  <2>2. ASSUME NEW q \in Holders, Durable.plans[q].tag \in published
        PROVE  Durable.plans[q].number <= plan[r].number
    <3>1. l.plans[q].number < plan[r].number
      BY <1>3, <1>4, <2>1, <2>2 DEF ReservationVerified
    <3>2. QED
      BY <1>2, <1>3, <1>4, <2>2, <3>1
  <2>3. QED
    BY <1>6, <2>2 DEF Cleared
<1>7. QED
  BY <1>5, <1>6

(* Every step of a run leaves it with what its checks established.         *)
LEMMA ActOrder ==
  ASSUME IInv, IInv', OrderInv, [Next]_vars, NEW r \in Runs, Acts(r)
  PROVE  Ordered(r)'
<1>1. /\ TypeOK /\ Ordered(r) /\ RunSound(r)
      /\ kind' = kind /\ base' = base
      /\ Extends(Durable', Durable)
  BY ActsAlone, StepExtends DEF OrderInv, IInv
<1> USE DEF stateVars, publicVars, runVars, Goto
<1>2. ASSUME pc'[r] \in Resting \cup {"prepare", "read", "reserved", "store"} \cup Reserving
      PROVE  Ordered(r)'
  BY <1>2 DEF Ordered, Resting, Reserving
<1>3. ASSUME pc'[r] \in {"draft", "publish"}, Cleared(r)'
      PROVE  Ordered(r)'
  BY <1>3 DEF Ordered
<1>4. CASE Trigger(r) \/ Fail(r)
  BY <1>1, <1>2, <1>4 DEF Trigger, Fail, Ends, TypeOK, Resting
<1>5. CASE Reserve(r)
  BY <1>1, <1>2, <1>5
     DEF Reserve, Prepare, ReadState, ChoosePlan, CheckTagAbsent, CreateBranch,
         WriteReservation, WriteState, Applied, Continues, Ends, TypeOK, Resting, Reserving
<1>6. CASE CheckPublication(r)
  <2>1. pc'[r] = "begin" /\ published' = published
    BY <1>1, <1>6 DEF CheckPublication, TypeOK
  <2>2. kind[r] \in {"beta", "rc"} => StableTag(base[r]) \notin published
    BY <1>6 DEF CheckPublication, EnsureAbsent
  <2>3. QED
    BY <1>1, <2>1, <2>2 DEF Ordered, StableTag
<1>7. ASSUME NEW c \in Runs, PickCandidate(r, c)
      PROVE  Ordered(r)'
  <2>1. pc'[r] = "recheck" /\ kind[r] = "stable"
    BY <1>1, <1>7 DEF PickCandidate, TypeOK
  <2>2. QED
    BY <1>1, <2>1 DEF Ordered
<1>8. ASSUME NEW c \in Runs, RecheckCandidate(r, c)
      PROVE  Ordered(r)'
  <2>1. pc'[r] = "begin" /\ kind[r] = "stable"
    BY <1>1, <1>8 DEF RecheckCandidate, Ordered, TypeOK
  <2>2. QED
    BY <1>1, <2>1 DEF Ordered
<1>9. CASE ReadFloor(r)
  <2>1. /\ pc[r] = "begin" /\ pc'[r] = "order" /\ published' = published
        /\ ledger' = ledger /\ view'[r] = ledger
    BY <1>1, <1>9 DEF ReadFloor, TypeOK
  <2>2. Durable' = Durable /\ Contents(view[r])' = Durable
    BY <2>1 DEF Durable, Contents
  <2>3. SeesPublished(r)'
    BY <1>1, <2>1, <2>2 DEF SeesPublished
  <2>4. QED
    BY <1>1, <2>1, <2>3 DEF Ordered, StableTag
<1>10. CASE VerifyOrder(r)
  <2>1. /\ pc[r] = "order" /\ pc'[r] = "consume" /\ published' = published
        /\ plan' = plan
    BY <1>1, <1>10 DEF VerifyOrder, TypeOK
  <2>2. Cleared(r) /\ plan[r] \in Plan
    BY <1>1, <1>10, <2>1, VerifiedIsCleared DEF Ordered, RunSound, Holding
  <2>3. Cleared(r)'
    BY <1>1, <2>1, <2>2, ClearedKeeps
  <2>4. QED
    BY <1>1, <2>1, <2>3 DEF Ordered, StableTag
<1>11. CASE WriteFloor(r)
  <2>1. /\ pc[r] = "consume" /\ published' = published
        /\ \/ pc'[r] = "failed"
           \/ pc'[r] = "tag" /\ plan' = plan
    BY <1>1, <1>11 DEF WriteFloor, WriteState, Applied, Continues, Ends, TypeOK
  <2>2. CASE pc'[r] = "failed"
    BY <1>2, <2>2 DEF Resting
  <2>3. CASE pc'[r] = "tag" /\ plan' = plan
    <3>1. Cleared(r) /\ plan[r] \in Plan
      BY <1>1, <2>1 DEF Ordered, RunSound, Holding
    <3>2. Cleared(r)'
      BY <1>1, <2>1, <2>3, <3>1, ClearedKeeps
    <3>3. QED
      BY <1>1, <2>1, <2>3, <3>2 DEF Ordered, StableTag
  <2>4. QED
    BY <2>1, <2>2, <2>3
<1>12. CASE CreateTag(r) \/ CreateDraft(r)
  <2>1. /\ pc[r] \in {"tag", "draft"} /\ published' = published
        /\ \/ pc'[r] = "failed"
           \/ pc'[r] \in {"draft", "publish"} /\ plan' = plan
    BY <1>1, <1>12 DEF CreateTag, CreateDraft, Applied, Continues, Ends, TypeOK
  <2>2. Cleared(r) /\ plan[r] \in Plan
    BY <1>1, <2>1 DEF Ordered, RunSound, Holding
  <2>3. CASE pc'[r] = "failed"
    BY <1>2, <2>3 DEF Resting
  <2>4. CASE pc'[r] \in {"draft", "publish"} /\ plan' = plan
    BY <1>1, <1>3, <2>1, <2>2, <2>4, ClearedKeeps
  <2>5. QED
    BY <2>1, <2>3, <2>4
<1>13. CASE PublishRelease(r) \/ StoreEvidence(r)
  BY <1>1, <1>2, <1>13
     DEF PublishRelease, StoreEvidence, Applied, Continues, Ends, TypeOK, Resting
<1>14. QED
  BY <1>4, <1>5, <1>6, <1>7, <1>8, <1>9, <1>10, <1>11, <1>12, <1>13
     DEF Acts, Begin, Publish

(* Every step keeps the order facts when the group admits one run.         *)
LEMMA OrderStep ==
  ASSUME IInv, OrderInv, Serialized = TRUE, [Next]_vars
  PROVE  OrderInv'
<1>1. IInv' /\ NamesKept'
  BY InvariantStep, NamesStep DEF OrderInv
<1>2. ASSUME NEW r \in Runs, Acts(r)
      PROVE  Exclusive' /\ \A q \in Runs : Ordered(q)'
  <2>1. Exclusive' /\ \A q \in Runs \ {r} : pc'[q] \in Resting
    BY <1>2, OthersRest DEF OrderInv, IInv
  <2>2. \A q \in Runs \ {r} : Ordered(q)'
    BY <2>1 DEF Ordered, Resting
  <2>3. Ordered(r)'
    BY <1>1, <1>2, ActOrder
  <2>4. QED
    BY <2>1, <2>2, <2>3
<1>3. ASSUME published' \subseteq published, UNCHANGED <<pc, view, plan, kind, base>>
      PROVE  Exclusive' /\ \A q \in Runs : Ordered(q)'
  BY <1>1, <1>3, QuietOrder DEF OrderInv, Exclusive
<1>4. ASSUME NEW w \in late, LateWrite(w)
      PROVE  Exclusive' /\ \A q \in Runs : Ordered(q)'
  BY <1>3, <1>4 DEF LateWrite, publicVars, runVars
<1>5. ASSUME NEW t \in published, DeleteRelease(t)
      PROVE  Exclusive' /\ \A q \in Runs : Ordered(q)'
  BY <1>3, <1>5 DEF DeleteRelease, runVars
<1>6. ASSUME UNCHANGED vars
      PROVE  Exclusive' /\ \A q \in Runs : Ordered(q)'
  BY <1>3, <1>6 DEF vars
<1>7. QED
  BY <1>1, <1>2, <1>4, <1>5, <1>6 DEF Next, Acts, OrderInv

(* With the concurrency group, what the running run's checks established   *)
(* holds in every reachable state until it publishes.                      *)
THEOREM OrderHolds == Serialized = TRUE => (Spec => []OrderInv)
<1> SUFFICES ASSUME Serialized = TRUE
             PROVE  Spec => []OrderInv
  OBVIOUS
<1>1. Init => OrderInv
  <2> SUFFICES ASSUME Init
               PROVE  OrderInv
    OBVIOUS
  <2>1. \A r \in Runs : pc[r] = "idle"
    BY DEF Init
  <2>2. Holders = {} /\ late = {}
    BY DEF Init, Holders, Durable, Contents, FreshLedger
  <2>3. QED
    BY <2>1, <2>2 DEF OrderInv, NamesKept, Exclusive, Ordered, Resting
<1>2. IInv /\ OrderInv /\ [Next]_vars => OrderInv'
  BY OrderStep
<1>3. QED
  BY <1>1, <1>2, InvariantHolds, PTL DEF Spec

(* A release becomes public only through the run that publishes it.        *)
LEMMA ReleasesAppear ==
  ASSUME IInv, [Next]_vars, NEW t \in published' \ published
  PROVE  \E r \in Runs : pc[r] = "publish" /\ t = Target(r)
<1>1. ASSUME NEW r \in Runs, Publish(r)
      PROVE  \E q \in Runs : pc[q] = "publish" /\ t = Target(q)
  BY <1>1 DEF Publish, CreateTag, CreateDraft, PublishRelease, StoreEvidence, publicVars
<1>2. ASSUME NEW r \in Runs, Trigger(r) \/ Reserve(r) \/ Fail(r)
      PROVE  published' = published
  BY <1>2 DEF Trigger, Fail, Reserve, Prepare, ReadState, ChoosePlan, CheckTagAbsent,
              CreateBranch, WriteReservation, WriteState, publicVars
<1>3. ASSUME NEW r \in Runs, Begin(r)
      PROVE  published' = published
  BY <1>3 DEF Begin, CheckPublication, ReadFloor, VerifyOrder, WriteFloor, WriteState,
              PickCandidate, RecheckCandidate, publicVars
<1>4. ASSUME (\E w \in late : LateWrite(w)) \/ (\E d \in published : DeleteRelease(d))
      PROVE  published' \subseteq published
  BY <1>4 DEF LateWrite, DeleteRelease, publicVars
<1>5. CASE UNCHANGED vars
  BY <1>5 DEF vars
<1>6. QED
  BY <1>1, <1>2, <1>3, <1>4, <1>5 DEF Next

(* A tag appears only through the run that creates it.                     *)
LEMMA TagsAppear ==
  ASSUME IInv, [Next]_vars, NEW t \in tags' \ tags
  PROVE  \E r \in Runs : pc[r] = "tag" /\ t = Target(r)
<1>1. ASSUME NEW r \in Runs, Publish(r)
      PROVE  \E q \in Runs : pc[q] = "tag" /\ t = Target(q)
  BY <1>1 DEF Publish, CreateTag, CreateDraft, PublishRelease, StoreEvidence, publicVars
<1>2. ASSUME NEW r \in Runs, Trigger(r) \/ Reserve(r) \/ Fail(r)
      PROVE  tags' = tags
  BY <1>2 DEF Trigger, Fail, Reserve, Prepare, ReadState, ChoosePlan, CheckTagAbsent,
              CreateBranch, WriteReservation, WriteState, publicVars
<1>3. ASSUME NEW r \in Runs, Begin(r)
      PROVE  tags' = tags
  BY <1>3 DEF Begin, CheckPublication, ReadFloor, VerifyOrder, WriteFloor, WriteState,
              PickCandidate, RecheckCandidate, publicVars
<1>4. ASSUME (\E w \in late : LateWrite(w)) \/ (\E d \in published : DeleteRelease(d))
      PROVE  tags' \subseteq tags
  BY <1>4 DEF LateWrite, DeleteRelease, publicVars
<1>5. CASE UNCHANGED vars
  BY <1>5 DEF vars
<1>6. QED
  BY <1>1, <1>2, <1>3, <1>4, <1>5 DEF Next

(* With the concurrency group a candidate is published only over           *)
(* candidates with smaller numbers.                                        *)
THEOREM CandidatesPublishInOrder == Serialized = TRUE => (Spec => PublishedInOrder)
<1> SUFFICES ASSUME Serialized = TRUE
             PROVE  Spec => PublishedInOrder
  OBVIOUS
<1> DEFINE Step == \A t \in published' \ published : t.kind # "stable" =>
             \E r \in Holders : Durable.plans[r].tag = t /\ NewestPublished(Durable.plans[r].number)
<1>1. IInv /\ OrderInv /\ [Next]_vars => [Step]_vars
  <2> SUFFICES ASSUME IInv, OrderInv, [Next]_vars,
                      NEW t \in published' \ published, t.kind # "stable"
               PROVE  \E r \in Holders : /\ Durable.plans[r].tag = t
                                         /\ NewestPublished(Durable.plans[r].number)
    OBVIOUS
  <2>1. PICK r \in Runs : pc[r] = "publish" /\ t = Target(r)
    BY ReleasesAppear
  <2>2. plan[r] \in Plan /\ plan[r] # NoPlan
    BY <2>1, SentinelAssumption DEF IInv, RunSound, Holding
  <2>3. kind[r] # "stable" /\ t = plan[r].tag
    BY <2>1, <2>2, TargetType
  <2>4. Durable.plans[r] = plan[r]
    BY <2>1, <2>3 DEF IInv, RunSound, Holding
  <2>5. NewestPublished(Durable.plans[r].number)
    BY <2>1, <2>4 DEF OrderInv, Ordered, Cleared, NewestPublished
  <2>6. QED
    BY <2>2, <2>3, <2>4, <2>5 DEF Holders
<1>2. QED
  BY <1>1, InvariantHolds, OrderHolds, PTL DEF Spec, PublishedInOrder

(* With the concurrency group a stable release is a release candidate of   *)
(* its base, and nothing newer is out when it appears.                     *)
THEOREM StableIsNewest == Serialized = TRUE => (Spec => StableFromNewest)
<1> SUFFICES ASSUME Serialized = TRUE
             PROVE  Spec => StableFromNewest
  OBVIOUS
<1> DEFINE Step == \A t \in published' \ published : t.kind = "stable" =>
             \E r \in Holders : /\ Durable.plans[r].tag.kind = "rc"
                                /\ Durable.plans[r].tag.base = t.base
                                /\ NewestPublished(Durable.plans[r].number)
<1>1. IInv /\ OrderInv /\ [Next]_vars => [Step]_vars
  <2> SUFFICES ASSUME IInv, OrderInv, [Next]_vars,
                      NEW t \in published' \ published, t.kind = "stable"
               PROVE  \E r \in Holders : /\ Durable.plans[r].tag.kind = "rc"
                                         /\ Durable.plans[r].tag.base = t.base
                                         /\ NewestPublished(Durable.plans[r].number)
    OBVIOUS
  <2>1. PICK r \in Runs : pc[r] = "publish" /\ t = Target(r)
    BY ReleasesAppear
  <2>2. plan[r] \in Plan /\ plan[r] # NoPlan
    BY <2>1, SentinelAssumption DEF IInv, RunSound, Holding
  <2>3. kind[r] = "stable"
    <3>1. CASE kind[r] # "stable"
      <4>1. t = plan[r].tag /\ Durable.plans[r] = plan[r]
        BY <2>1, <2>2, <3>1, TargetType DEF IInv, RunSound, Holding
      <4>2. t.kind \in CandidateKinds
        BY <2>2, <4>1 DEF IInv, LedgerSound, PlanSound
      <4>3. QED
        BY <4>2 DEF CandidateKinds
    <3>2. QED
      BY <3>1
  <2>4. t.base = plan[r].tag.base
    BY <2>1, <2>3 DEF Target, StableTag
  <2>5. Cleared(r)
    BY <2>1 DEF OrderInv, Ordered
  <2>6. PICK q \in Runs : Durable.plans[q] = plan[r]
    BY <2>3, <2>5 DEF Cleared
  <2>7. NewestPublished(Durable.plans[q].number)
    BY <2>5, <2>6 DEF Cleared, NewestPublished
  <2>8. QED
    BY <2>2, <2>3, <2>4, <2>5, <2>6, <2>7 DEF Holders, Cleared
<1>2. QED
  BY <1>1, InvariantHolds, OrderHolds, PTL DEF Spec, StableFromNewest

(* With the concurrency group no beta or release candidate tag appears for *)
(* a base whose stable release is out.                                     *)
THEOREM StableClosesBase == Serialized = TRUE => (Spec => StableFreezesBase)
<1> SUFFICES ASSUME Serialized = TRUE
             PROVE  Spec => StableFreezesBase
  OBVIOUS
<1> DEFINE Step == \A t \in tags' \ tags : t.kind \in {"beta", "rc"} =>
             StableTag(t.base) \notin published
<1>1. IInv /\ OrderInv /\ [Next]_vars => [Step]_vars
  <2> SUFFICES ASSUME IInv, OrderInv, [Next]_vars,
                      NEW t \in tags' \ tags, t.kind \in {"beta", "rc"}
               PROVE  StableTag(t.base) \notin published
    OBVIOUS
  <2>1. PICK r \in Runs : pc[r] = "tag" /\ t = Target(r)
    BY TagsAppear
  <2>2. plan[r] \in Plan /\ plan[r] # NoPlan
    BY <2>1, SentinelAssumption DEF IInv, RunSound, Holding
  <2>3. kind[r] # "stable" /\ t = plan[r].tag
    BY <2>1, <2>2, TargetType
  <2>4. Durable.plans[r] = plan[r]
    BY <2>1, <2>3 DEF IInv, RunSound, Holding
  <2>5. t.base = base[r] /\ t.kind = kind[r]
    BY <2>2, <2>3, <2>4 DEF OrderInv, NamesKept, Named, Holders
  <2>6. QED
    BY <2>1, <2>5 DEF OrderInv, Ordered
<1>2. QED
  BY <1>1, InvariantHolds, OrderHolds, PTL DEF Spec, StableFreezesBase

================================================================================
