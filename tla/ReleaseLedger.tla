----------------------------- MODULE ReleaseLedger -----------------------------
(***************************************************************************)
(* The durable release-version ledger (scripts/release_state.py) and the   *)
(* runs of the release workflow that allocate from it and publish through  *)
(* it (prepare and publish_versioned of scripts/release_versioned.py,      *)
(* promote of scripts/release_control.py).                                 *)
(*                                                                         *)
(* The ledger is one JSON file on the branch release-version-state. Every  *)
(* GitHub request of a run is a step of its own, so the requests of        *)
(* several runs interleave. A write that GitHub applied may still be       *)
(* reported as a failure to the run that sent it.                          *)
(***************************************************************************)
EXTENDS Integers, Functions

CONSTANTS
  Runs,              \* Actions workflow runs; a rerun keeps the run's identity
  Bases,             \* base versions X.Y.Z
  NoRun,             \* the run field of a tag that names no run
  NoPlan,            \* no reservation
  NoFile,            \* release-version-state.json does not exist
  BuildNumberFloor,  \* versioning.build_number_floor of the release policy
  MaxBuildNumber,    \* 2_100_000_000 in the code
  MaxTriggers,       \* bound: runs triggered, reruns included
  MaxSequence,       \* bound: beta and RC sequences tried
  Serialized,        \* whether the workflow's concurrency group admits one run at a time
  OperatorDeletes    \* whether maintainers delete published releases and tags

ASSUME LedgerAssumption ==
  /\ NoRun \notin Runs
  /\ BuildNumberFloor \in Nat
  /\ MaxBuildNumber \in Nat
  /\ MaxTriggers \in Nat
  /\ MaxSequence \in Nat
  /\ Serialized \in BOOLEAN
  /\ OperatorDeletes \in BOOLEAN

CandidateKinds == {"nightly", "beta", "rc"}
Kinds == CandidateKinds \cup {"stable"}

(* A tag: vX.Y.Z-beta.N and vX.Y.Z-rc.N carry a sequence, a nightly tag    *)
(* names its run and attempt, vX.Y.Z is the stable tag of its base.        *)
Tag == [base : Bases, kind : Kinds, seq : Nat, run : Runs \cup {NoRun}]
Plan == [number : Nat, tag : Tag]

ASSUME SentinelAssumption == NoPlan \notin Plan

StableTag(b) == [base |-> b, kind |-> "stable", seq |-> 0, run |-> NoRun]

Ledger == [counter : Nat, floor : Nat, plans : [Runs -> Plan \cup {NoPlan}]]

ASSUME FileAssumption == NoFile \notin Ledger

(* What read_state returns for a repository that never allocated.          *)
FreshLedger == [counter |-> 0, floor |-> 0, plans |-> [r \in Runs |-> NoPlan]]
Contents(file) == IF file = NoFile THEN FreshLedger ELSE file

(* A PUT of the ledger file by a run: op says which field it changes in    *)
(* the copy old the run read. Content stands for GitHub's blob SHA.        *)
Request == [op : {"reserve", "consume", "promote"}, run : Runs,
            old : Ledger \cup {NoFile}, plan : Plan]
NewContents(w) ==
  IF w.op = "reserve"
  THEN [Contents(w.old) EXCEPT !.counter = w.plan.number, !.plans[w.run] = w.plan]
  ELSE [Contents(w.old) EXCEPT !.floor = w.plan.number]

--------------------------------------------------------------------------------
VARIABLES
  ledger,    \* the file on the state branch, or NoFile
  branch,    \* whether the state branch exists
  tags,      \* Git tags
  drafts,    \* tags that have a draft release
  published, \* tags that have a published release
  pc,        \* where each run's prepare/publish/promote code stands
  kind,      \* the run's channel
  base,      \* the run's base version
  attempt,   \* the run's current attempt; 0 before it was triggered
  view,      \* the ledger a run read, its content standing for the blob SHA
  plan,      \* the plan a run holds in memory
  evidence,  \* attempt whose release-evidence artifact the run stored; 0 for none
  late,      \* ledger writes whose sender stopped waiting before GitHub handled them
  begins     \* history: how often the run's own number was consumed

publicVars == <<tags, drafts, published>>
stateVars == <<ledger, branch, late, begins>>
runVars == <<kind, base, attempt>>
vars == <<ledger, branch, tags, drafts, published, pc, kind, base, attempt,
          view, plan, evidence, late, begins>>

Resting == {"idle", "failed", "done"}
Reserving == {"choose", "absent", "branch", "reserve"}
Holding == {"reserved", "recheck", "begin", "order", "consume", "tag", "draft", "publish", "store"}
Publishing == {"tag", "draft", "publish", "store"}
PC == Resting \cup {"prepare", "read"} \cup Reserving \cup Holding

TypeOK ==
  /\ ledger \in Ledger \cup {NoFile}
  /\ branch \in BOOLEAN
  /\ tags \subseteq Tag
  /\ drafts \subseteq Tag
  /\ published \subseteq Tag
  /\ pc \in [Runs -> PC]
  /\ kind \in [Runs -> Kinds]
  /\ base \in [Runs -> Bases]
  /\ attempt \in [Runs -> Nat]
  /\ view \in [Runs -> Ledger \cup {NoFile}]
  /\ plan \in [Runs -> Plan \cup {NoPlan}]
  /\ evidence \in [Runs -> Nat]
  /\ late \subseteq Request
  /\ begins \in [Runs -> Nat]

Init ==
  /\ ledger = NoFile
  /\ branch = FALSE
  /\ tags = {}
  /\ drafts = {}
  /\ published = {}
  /\ pc = [r \in Runs |-> "idle"]
  /\ kind \in [Runs -> Kinds]
  /\ base \in [Runs -> Bases]
  /\ attempt = [r \in Runs |-> 0]
  /\ view = [r \in Runs |-> NoFile]
  /\ plan = [r \in Runs |-> NoPlan]
  /\ evidence = [r \in Runs |-> 0]
  /\ late = {}
  /\ begins = [r \in Runs |-> 0]

--------------------------------------------------------------------------------
Goto(r, label) == pc' = [pc EXCEPT ![r] = label]

(* The process ends: what it held in memory is gone.                       *)
Ends(r, label) ==
  /\ Goto(r, label)
  /\ view' = [view EXCEPT ![r] = NoFile]
  /\ plan' = [plan EXCEPT ![r] = NoPlan]

(* The process goes on without the ledger copy it read.                    *)
Continues(r, label) ==
  /\ Goto(r, label)
  /\ view' = [view EXCEPT ![r] = NoFile]
  /\ UNCHANGED plan

(* GitHub applied the write: the run goes on, or it lost the response.     *)
Applied(r, label) == Continues(r, label) \/ Ends(r, "failed")

(* The tag the run publishes under.                                        *)
Target(r) == IF kind[r] = "stable" THEN StableTag(plan[r].tag.base) ELSE plan[r].tag

(* Mutant of Put: the write does not name the blob it replaces.            *)
PutBlindly(w) ==
  /\ branch
  /\ ledger' = NewContents(w)
  /\ begins' = IF w.op = "consume" THEN [begins EXCEPT ![w.run] = @ + 1] ELSE begins

(* GitHub handles a PUT: it refuses one whose blob is not the current one. *)
Put(w) ==
  /\ branch
  /\ ledger = w.old
  /\ ledger' = NewContents(w)
  /\ begins' = IF w.op = "consume" THEN [begins EXCEPT ![w.run] = @ + 1] ELSE begins

(* write_state: the PUT is applied, and its response may get lost, or it   *)
(* is still on its way when the run gives up. A refusal is Fail.           *)
WriteState(r, w, label) ==
  /\ \/ Put(w) /\ Applied(r, label) /\ UNCHANGED late
     \/ late' = late \cup {w} /\ Ends(r, "failed") /\ UNCHANGED <<ledger, begins>>
  /\ UNCHANGED <<branch, publicVars, runVars, evidence>>

(* Mutant of EnsureAbsent: only the release list, where drafts show, is read. *)
EnsureNoDraft(t) == t \notin drafts

EnsureAbsent(t) == t \notin tags \cup drafts \cup published

(* A push, a schedule, a dispatch or a rerun of the whole run. Every job   *)
(* of an attempt must be fresh, so a rerun starts again at prepare.        *)
Trigger(r) ==
  /\ pc[r] \in Resting
  /\ SumFunction(attempt) < MaxTriggers
  /\ Serialized => \A q \in Runs : pc[q] \in Resting
  /\ Ends(r, "prepare")
  /\ attempt' = [attempt EXCEPT ![r] = @ + 1]
  /\ UNCHANGED <<stateVars, publicVars, kind, base, evidence>>

(* prepare: a beta or RC needs a base whose stable version is not out.     *)
Prepare(r) ==
  /\ pc[r] = "prepare"
  /\ kind[r] \in CandidateKinds
  /\ kind[r] \in {"beta", "rc"} => EnsureAbsent(StableTag(base[r]))
  /\ Goto(r, "read")
  /\ UNCHANGED <<stateVars, publicVars, runVars, view, plan, evidence>>

(* read_state in reserve_plan. A file missing from an existing branch is   *)
(* refused; a rerun finds its own reservation and keeps it.                *)
ReadState(r) ==
  /\ pc[r] = "read"
  /\ ledger # NoFile \/ ~branch
  /\ \/ /\ Contents(ledger).plans[r] # NoPlan
        /\ plan' = [plan EXCEPT ![r] = Contents(ledger).plans[r]]
        /\ Goto(r, "reserved")
        /\ UNCHANGED view
     \/ /\ Contents(ledger).plans[r] = NoPlan
        /\ view' = [view EXCEPT ![r] = ledger]
        /\ Goto(r, "choose")
        /\ UNCHANGED plan
  /\ UNCHANGED <<stateVars, publicVars, runVars, evidence>>

(* Mutant of UsedSequences: reservations that are not public yet are forgotten. *)
PublicSequences(b, k, plans) ==
  {t.seq : t \in {u \in tags \cup drafts \cup published : u.base = b /\ u.kind = k}}

(* Sequences of a base and channel that tags, releases or the plans of the *)
(* ledger that was read already use.                                       *)
UsedSequences(b, k, plans) ==
  {t.seq : t \in {u \in tags \cup drafts \cup published : u.base = b /\ u.kind = k}}
    \cup {plans[q].tag.seq : q \in {p \in Runs : /\ plans[p] # NoPlan
                                                 /\ plans[p].tag.base = b
                                                 /\ plans[p].tag.kind = k}}

(* max(used, default=0) + 1                                                *)
IsNextSequence(n, used) ==
  /\ \A s \in used : s < n
  /\ n = 1 \/ n - 1 \in used

(* Mutant of NextNumber: the last number again.                            *)
LastNumber(counter) == IF counter < BuildNumberFloor THEN BuildNumberFloor ELSE counter

NextNumber(counter) == (IF counter < BuildNumberFloor THEN BuildNumberFloor ELSE counter) + 1

CandidateTag(r, n) ==
  IF kind[r] = "nightly"
  THEN [base |-> base[r], kind |-> "nightly", seq |-> attempt[r], run |-> r]
  ELSE [base |-> base[r], kind |-> kind[r], seq |-> n, run |-> NoRun]

(* next_sequence and create_plan in reserve_plan.                          *)
ChoosePlan(r) ==
  LET old == Contents(view[r])
      number == NextNumber(old.counter)
  IN /\ pc[r] = "choose"
     /\ number <= MaxBuildNumber
     /\ \E n \in 1..MaxSequence :
          /\ IF kind[r] = "nightly"
             THEN n = 1
             ELSE IsNextSequence(n, UsedSequences(base[r], kind[r], old.plans))
          /\ plan' = [plan EXCEPT ![r] = [number |-> number, tag |-> CandidateTag(r, n)]]
     /\ Goto(r, "absent")
     /\ UNCHANGED <<stateVars, publicVars, runVars, view, evidence>>

(* ensure_absent of the chosen tag, then the lookup of the state branch.   *)
CheckTagAbsent(r) ==
  /\ pc[r] = "absent"
  /\ EnsureAbsent(plan[r].tag)
  /\ Goto(r, IF branch THEN "reserve" ELSE "branch")
  /\ UNCHANGED <<stateVars, publicVars, runVars, view, plan, evidence>>

(* POST git/refs: GitHub refuses a branch that exists by now.              *)
CreateBranch(r) ==
  /\ pc[r] = "branch"
  /\ ~branch
  /\ branch' = TRUE
  /\ \/ Goto(r, "reserve") /\ UNCHANGED <<view, plan>>
     \/ Ends(r, "failed")
  /\ UNCHANGED <<ledger, late, begins, publicVars, runVars, evidence>>

(* write_state of reserve_plan.                                            *)
ReserveRequest(r) == [op |-> "reserve", run |-> r, old |-> view[r], plan |-> plan[r]]
WriteReservation(r) ==
  /\ pc[r] = "reserve"
  /\ WriteState(r, ReserveRequest(r), "reserved")

--------------------------------------------------------------------------------
(* Mutants of ReservationVerified: no look at the floor; no order at all.  *)
ReservationUnconsumed(r, l) ==
  /\ l.plans[r] = plan[r]
  /\ \A q \in Runs :
       l.plans[q] # NoPlan /\ l.plans[q].tag \in published => l.plans[q].number < plan[r].number
ReservationHeld(r, l) == l.plans[r] = plan[r]

(* _verify_reservation against the ledger contents l.                      *)
ReservationVerified(r, l) ==
  /\ l.plans[r] = plan[r]
  /\ plan[r].number > l.floor
  /\ \A q \in Runs :
       l.plans[q] # NoPlan /\ l.plans[q].tag \in published => l.plans[q].number < plan[r].number

(* Mutant of PromotionOrderVerified: only the RC itself is looked up.      *)
PromotionPublished(p, l) ==
  /\ p.tag.kind = "rc"
  /\ \E q \in Runs : l.plans[q] = p
  /\ p.tag \in published

(* _verify_promotion_order of the RC plan p against the ledger contents l. *)
PromotionOrderVerified(p, l) ==
  /\ p.tag.kind = "rc"
  /\ \E q \in Runs : l.plans[q] = p /\ \A c \in Runs : l.plans[c] = p => c = q
  /\ p.number >= l.floor
  /\ p.tag \in published
  /\ \A q \in Runs :
       l.plans[q] # NoPlan /\ l.plans[q].tag \in published /\ l.plans[q].tag # p.tag
         => l.plans[q].number <= p.number

(* publish_versioned up to its last read-only check.                       *)
CheckPublication(r) ==
  /\ pc[r] = "reserved"
  /\ ReservationVerified(r, Contents(ledger))
  /\ EnsureAbsent(plan[r].tag)
  /\ kind[r] \in {"beta", "rc"} => EnsureAbsent(StableTag(base[r]))
  /\ Goto(r, "begin")
  /\ UNCHANGED <<stateVars, publicVars, runVars, view, plan, evidence>>

(* The release of candidate run c is published under its tag, c completed  *)
(* and stored the evidence of its current attempt.                         *)
Qualified(c, p) ==
  /\ p.tag \in tags
  /\ p.tag \in published
  /\ pc[c] = "done"
  /\ evidence[c] = attempt[c]

(* promote, and verified_rc of prepare: the exact RC named by the dispatch,*)
(* whose manifest carries the plan its run c published.                    *)
PickCandidate(r, c) ==
  /\ pc[r] = "prepare"
  /\ kind[r] = "stable"
  /\ c # r
  /\ Contents(ledger).plans[c] # NoPlan
  /\ Qualified(c, Contents(ledger).plans[c])
  /\ PromotionOrderVerified(Contents(ledger).plans[c], Contents(ledger))
  /\ EnsureAbsent(StableTag(Contents(ledger).plans[c].tag.base))
  /\ plan' = [plan EXCEPT ![r] = Contents(ledger).plans[c]]
  /\ Goto(r, "recheck")
  /\ UNCHANGED <<stateVars, publicVars, runVars, view, evidence>>

(* promote after the downloads: source run and order once more.            *)
RecheckCandidate(r, c) ==
  /\ pc[r] = "recheck"
  /\ Contents(ledger).plans[c] = plan[r]
  /\ Qualified(c, plan[r])
  /\ PromotionOrderVerified(plan[r], Contents(ledger))
  /\ Goto(r, "begin")
  /\ UNCHANGED <<stateVars, publicVars, runVars, view, plan, evidence>>

(* begin_publication: read_state, ...                                      *)
ReadFloor(r) ==
  /\ pc[r] = "begin"
  /\ ledger # NoFile \/ ~branch
  /\ view' = [view EXCEPT ![r] = ledger]
  /\ Goto(r, "order")
  /\ UNCHANGED <<stateVars, publicVars, runVars, plan, evidence>>

(* ... the release inventory against that copy of the ledger, ...          *)
VerifyOrder(r) ==
  /\ pc[r] = "order"
  /\ IF kind[r] = "stable"
     THEN PromotionOrderVerified(plan[r], Contents(view[r]))
     ELSE ReservationVerified(r, Contents(view[r]))
  /\ Goto(r, "consume")
  /\ UNCHANGED <<stateVars, publicVars, runVars, view, plan, evidence>>

(* ... and the compare-and-swap that consumes the number. A promotion      *)
(* writes the number its RC consumed.                                      *)
ConsumeRequest(r) == [op |-> IF kind[r] = "stable" THEN "promote" ELSE "consume",
                      run |-> r, old |-> view[r], plan |-> plan[r]]

(* Mutant of WriteFloor: publication starts before the number is consumed. *)
SkipFloor(r) ==
  /\ pc[r] = "consume"
  /\ Continues(r, "tag")
  /\ UNCHANGED <<stateVars, publicVars, runVars, evidence>>

WriteFloor(r) ==
  /\ pc[r] = "consume"
  /\ WriteState(r, ConsumeRequest(r), "tag")

(* A write whose sender is gone arrives.                                   *)
LateWrite(w) ==
  /\ Put(w)
  /\ late' = late \ {w}
  /\ UNCHANGED <<branch, publicVars, pc, runVars, view, plan, evidence>>

--------------------------------------------------------------------------------
(* _publish_prepared, as far as tags and releases go: ensure_absent, then  *)
(* POST git/refs, which GitHub refuses for a tag that exists.              *)
CreateTag(r) ==
  /\ pc[r] = "tag"
  /\ EnsureAbsent(Target(r))
  /\ tags' = tags \cup {Target(r)}
  /\ Applied(r, "draft")
  /\ UNCHANGED <<stateVars, drafts, published, runVars, evidence>>

CreateDraft(r) ==
  /\ pc[r] = "draft"
  /\ drafts' = drafts \cup {Target(r)}
  /\ Applied(r, "publish")
  /\ UNCHANGED <<stateVars, tags, published, runVars, evidence>>

(* The tag is read back before the PATCH that publishes the draft.         *)
PublishRelease(r) ==
  /\ pc[r] = "publish"
  /\ Target(r) \in tags
  /\ drafts' = drafts \ {Target(r)}
  /\ published' = published \cup {Target(r)}
  /\ Applied(r, "store")
  /\ UNCHANGED <<stateVars, tags, runVars, evidence>>

(* The workflow stores a candidate's evidence after its release is out.    *)
StoreEvidence(r) ==
  /\ pc[r] = "store"
  /\ evidence' = IF kind[r] = "stable" THEN evidence ELSE [evidence EXCEPT ![r] = attempt[r]]
  /\ Ends(r, "done")
  /\ UNCHANGED <<stateVars, publicVars, runVars>>

(* A check, build or request fails, the job times out or the runner dies.  *)
Fail(r) ==
  /\ pc[r] \notin Resting
  /\ Ends(r, "failed")
  /\ UNCHANGED <<stateVars, publicVars, runVars, evidence>>

(* A maintainer deletes a published release, with or without its tag.      *)
DeleteRelease(t) ==
  /\ OperatorDeletes
  /\ t \in published
  /\ published' = published \ {t}
  /\ tags' \in {tags, tags \ {t}}
  /\ UNCHANGED <<stateVars, drafts, pc, runVars, view, plan, evidence>>

Reserve(r) ==
  \/ Prepare(r) \/ ReadState(r) \/ ChoosePlan(r) \/ CheckTagAbsent(r)
  \/ CreateBranch(r) \/ WriteReservation(r)
Begin(r) ==
  \/ CheckPublication(r) \/ ReadFloor(r) \/ VerifyOrder(r) \/ WriteFloor(r)
  \/ \E c \in Runs : PickCandidate(r, c) \/ RecheckCandidate(r, c)
Publish(r) == CreateTag(r) \/ CreateDraft(r) \/ PublishRelease(r) \/ StoreEvidence(r)

Next ==
  \/ \E r \in Runs : Trigger(r) \/ Reserve(r) \/ Begin(r) \/ Publish(r) \/ Fail(r)
  \/ \E w \in late : LateWrite(w)
  \/ \E t \in published : DeleteRelease(t)

Spec == Init /\ [][Next]_vars

--------------------------------------------------------------------------------
(* Properties. Durable is what every reader of the state branch sees.      *)
Durable == Contents(ledger)
Holders == {r \in Runs : Durable.plans[r] # NoPlan}
Public == tags \cup drafts \cup published
Extends(new, old) ==
  /\ new.counter >= old.counter
  /\ new.floor >= old.floor
  /\ \A r \in Runs : old.plans[r] # NoPlan => new.plans[r] = old.plans[r]
NewestPublished(n) ==
  \A q \in Holders : Durable.plans[q].tag \in published => Durable.plans[q].number <= n

(* No two runs ever hold the same native build number or the same tag,     *)
(* however their reads and writes of the ledger interleave, fail or arrive *)
(* late (reserve_plan, write_state).                                       *)
ReservationsDistinct ==
  \A r, q \in Holders :
    r # q => /\ Durable.plans[r].number # Durable.plans[q].number
             /\ Durable.plans[r].tag # Durable.plans[q].tag

(* A reservation is never changed or withdrawn and neither the counter nor *)
(* the publication floor moves back (write_state as a compare-and-swap).   *)
LedgerOnlyGrows ==
  [][Extends(Durable', Durable)]_vars

(* begin_publication consumes a run's own number at most once over all     *)
(* attempts of the run, lost responses and late writes included.           *)
ConsumedAtMostOnce == \A r \in Runs : begins[r] <= 1

(* A candidate's tag, draft or release becomes public only after the floor *)
(* has reached its number, so a public package number is never given out   *)
(* or published again (begin_publication before _publish_prepared).        *)
PublicBehindFloor ==
  \A t \in Public : t.kind # "stable" =>
    \E r \in Holders : Durable.plans[r].tag = t /\ Durable.plans[r].number <= Durable.floor

(* With the workflow's concurrency group, a candidate is published only    *)
(* over candidates with smaller numbers (docs/VERSIONING.md, "Publication  *)
(* also rejects delayed builds").                                          *)
PublishedInOrder ==
  [][\A t \in published' \ published : t.kind # "stable" =>
       \E r \in Holders : Durable.plans[r].tag = t /\ NewestPublished(Durable.plans[r].number)]_vars

(* With the concurrency group, a stable release carries the bytes of an RC *)
(* of its base, and no candidate with a larger number is out by then       *)
(* (_verify_promotion_order).                                              *)
StableFromNewest ==
  [][\A t \in published' \ published : t.kind = "stable" =>
       \E r \in Holders : /\ Durable.plans[r].tag.kind = "rc"
                          /\ Durable.plans[r].tag.base = t.base
                          /\ NewestPublished(Durable.plans[r].number)]_vars

(* With the concurrency group, no beta or RC tag appears for a base whose  *)
(* stable release is out (prepare and publish_versioned ensure_absent).    *)
StableFreezesBase ==
  [][\A t \in tags' \ tags : t.kind \in {"beta", "rc"} => StableTag(t.base) \notin published]_vars

(* Whatever failed, the next run can still read the ledger: docs/          *)
(* VERSIONING.md says failed runs may leave gaps and a new run consumes a  *)
(* new number.                                                             *)
FailedRunsLeaveOnlyGaps ==
  late = {} /\ (\A r \in Runs : pc[r] \in Resting) => (branch => ledger # NoFile)

(* The inductive invariant: every copy of the ledger, the file's and each  *)
(* run's, is sound, and every request that may still change the file was   *)
(* sound for the copy it was computed from.                                *)
PlanSound(r, p) ==
  /\ p.tag.kind \in CandidateKinds
  /\ p.tag.kind = "nightly" => p.tag.run = r

LedgerSound(l) ==
  /\ l.floor <= l.counter
  /\ l.counter <= MaxBuildNumber
  /\ \A r \in Runs : l.plans[r] # NoPlan =>
       /\ PlanSound(r, l.plans[r])
       /\ l.plans[r].number <= l.counter
  /\ \A r, q \in Runs : r # q /\ l.plans[r] # NoPlan /\ l.plans[q] # NoPlan =>
       /\ l.plans[r].number # l.plans[q].number
       /\ l.plans[r].tag # l.plans[q].tag

ReserveSound(r, l, p) ==
  /\ p \in Plan
  /\ PlanSound(r, p)
  /\ l.plans[r] = NoPlan
  /\ p.number > l.counter
  /\ p.number <= MaxBuildNumber
  /\ \A q \in Runs : l.plans[q] # NoPlan => l.plans[q].tag # p.tag

RequestSound(w) ==
  LET l == Contents(w.old)
  IN /\ LedgerSound(l)
     /\ w.op = "reserve" => ReserveSound(w.run, l, w.plan)
     /\ w.op = "consume" => l.plans[w.run] = w.plan /\ w.plan.number > l.floor
     /\ w.op = "promote" => /\ \E q \in Runs : l.plans[q] = w.plan
                            /\ w.plan.number >= l.floor

RunSound(r) ==
  /\ LedgerSound(Contents(view[r]))
  /\ pc[r] \in {"read"} \cup Reserving => kind[r] \in CandidateKinds
  /\ pc[r] = "choose" => Contents(view[r]).plans[r] = NoPlan
  /\ pc[r] \in {"absent", "branch", "reserve"} =>
       ReserveSound(r, Contents(view[r]), plan[r])
  /\ pc[r] \in Holding => plan[r] \in Plan
  /\ pc[r] = "consume" => RequestSound(ConsumeRequest(r))
  /\ pc[r] \in Holding /\ kind[r] # "stable" => Durable.plans[r] = plan[r]
  /\ pc[r] \in Publishing /\ kind[r] # "stable" => plan[r].number <= Durable.floor

HistorySound(r) ==
  /\ begins[r] <= 1
  /\ begins[r] = 1 => Durable.plans[r] # NoPlan /\ Durable.plans[r].number <= Durable.floor

IInv ==
  /\ TypeOK
  /\ LedgerSound(Durable)
  /\ \A w \in late : RequestSound(w)
  /\ \A r \in Runs : RunSound(r) /\ HistorySound(r)
  /\ PublicBehindFloor

(* The ledger refines the allocator: reads, checks and writes of the file  *)
(* amount to atomic reservations and consumptions.                         *)
Allocator == INSTANCE VersionAllocator WITH
  reserved <- Durable.plans, floor <- Durable.floor
AllocatorSpec == Allocator!Spec
================================================================================
