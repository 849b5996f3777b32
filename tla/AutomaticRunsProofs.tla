-------------------------- MODULE AutomaticRunsProofs --------------------------
(***************************************************************************)
(* Proofs about AutomaticRuns, for any number of runs, pushes, reruns and  *)
(* expired artifacts, with or without pushes that start no run.            *)
(***************************************************************************)
EXTENDS AutomaticRuns, FiniteSetTheorems, TLAPS

(* One run of the concurrency group is at work.                            *)
Exclusive == \A r, q \in Runs : stage[r] \in AtWork /\ stage[q] \in AtWork => r = q

(* No run is of a commit that is still to come.                            *)
InTime == (\A c \in due : c <= head) /\ \A r \in Runs : sha[r] <= head

(* A run that was never created has reserved and published nothing.        *)
Fresh == \A r \in Runs : stage[r] = "none" => number[r] = 0 /\ r \notin released

(* What an automatic run captured for its confirmation is its own commit.  *)
CapturedOwn ==
  \A r \in Runs : stage[r] \in {"consume", "confirm"} /\ Automatic(r) => seen[r] = sha[r]

(* A confirmed automatic run is not behind anything public.                *)
Newest ==
  \A r \in Runs : stage[r] = "patch" /\ Automatic(r) =>
    \A q \in released : Automatic(q) => sha[q] <= sha[r]

(* A nightly that goes on found nothing it had to reuse; if the branch     *)
(* moved after the search, it will not get past the capture.               *)
NoneLeft(r) == \A q \in Reservations(sha[r]) : Qualified(q) => Cardinality(LaterThan(q)) >= Probes
Searched ==
  \A r \in Runs :
    event[r] = "schedule" /\ (stage[r] = "consume" \/ (stage[r] = "capture" /\ head = sha[r])) => NoneLeft(r)

IInv == TypeOK /\ Exclusive /\ InTime /\ Fresh /\ CapturedOwn /\ Newest /\ Searched

(***************************************************************************)
(* Types.                                                                  *)
(***************************************************************************)
LEMMA StageFacts ==
  /\ "none" \in Stages /\ "pending" \in Stages /\ AtWork \subseteq Stages /\ Concluded \subseteq Stages
  /\ "none" \notin AtWork /\ "pending" \notin AtWork /\ Concluded \intersect AtWork = {}
  /\ "none" \notin Concluded /\ "pending" \notin Concluded
  /\ {"version-required", "superseded", "reused", "failed", "published", "cancelled"} \subseteq Concluded
BY DEF Stages, AtWork, Concluded, Outcomes

LEMMA WorksType ==
  ASSUME TypeOK, NEW r \in Runs, NEW label \in Stages, NEW c \in Commits \cup {NoCommit}, Works(r, label, c)
  PROVE  /\ stage' \in [Runs -> Stages] /\ seen' \in [Runs -> Commits \cup {NoCommit}]
         /\ UNCHANGED <<branchVars, event, sha, released, evidence, reruns, expired>>
BY DEF TypeOK, Works, Goto

LEMMA QueuedType ==
  ASSUME TypeOK, NEW r \in Runs
  PROVE  Queued(r) \in [Runs -> Stages]
BY StageFacts DEF TypeOK, Queued

LEMMA NewRunType ==
  ASSUME TypeOK, NEW r \in Runs, NEW kind \in Events, NEW c \in Commits, NewRun(r, kind, c), due' \subseteq Commits
  PROVE  TypeOK'
BY QueuedType DEF TypeOK, NewRun, ledgerVars

LEMMA TypeStep ==
  ASSUME TypeOK, [Next]_vars
  PROVE  TypeOK'
<1>0. /\ MaxRuns \in Nat /\ MaxPushes \in Nat /\ NoCommit \in Commits \cup {NoCommit}
      /\ head \in Commits /\ Commits = 0..MaxPushes
  BY RunsAssumption DEF TypeOK, Commits
<1>1. ASSUME NEW r \in Runs, NEW label \in Stages, NEW c \in Commits \cup {NoCommit}, Works(r, label, c),
             UNCHANGED ledgerVars
      PROVE  TypeOK'
  BY <1>1, WorksType DEF TypeOK, ledgerVars, branchVars
<1>2. /\ {"version-required", "compare", "recompare", "reverify", "search", "superseded", "found", "capture",
           "reused", "consume", "patch", "store", "failed", "published", "verify", "confirm", "prepare"} \subseteq Stages
      /\ {"push", "schedule", "dispatch"} \subseteq Events
  BY DEF Stages, AtWork, Concluded, Outcomes, Events
<1>3. CASE Push
  BY <1>0, <1>3 DEF Push, TypeOK, queueVars, ledgerVars
<1>4. ASSUME NEW r \in Runs, PushRun(r) PROVE TypeOK'
  <2>1. PICK c \in due : NewRun(r, "push", c) /\ due' = due \ {c}
    BY <1>4 DEF PushRun
  <2>2. c \in Commits /\ due' \subseteq Commits
    BY <2>1 DEF TypeOK
  <2>3. QED
    BY <1>2, <2>1, <2>2, NewRunType
<1>5. ASSUME NEW r \in Runs, ScheduleRun(r) \/ DispatchRun(r) PROVE TypeOK'
  BY <1>0, <1>2, <1>5, NewRunType DEF ScheduleRun, DispatchRun, TypeOK
<1>6. ASSUME NEW r \in Runs, Rerun(r) PROVE TypeOK'
  BY <1>6, QueuedType DEF Rerun, TypeOK, branchVars, ledgerVars
<1>7. ASSUME NEW r \in Runs, Start(r) PROVE TypeOK'
  BY <1>0, <1>1, <1>2, <1>7 DEF Start
<1>8. ASSUME NEW r \in Runs, Expire(r) PROVE TypeOK'
  BY <1>8 DEF Expire, TypeOK, branchVars, queueVars, ledgerVars
<1>9. ASSUME NEW r \in Runs, Prepare(r) PROVE TypeOK'
  <2>1. CASE Works(r, "version-required", NoCommit) /\ UNCHANGED ledgerVars
    BY <1>0, <1>1, <1>2, <2>1
  <2>2. CASE /\ counter' = IF number[r] = 0 THEN (IF counter < floor THEN floor ELSE counter) + 1 ELSE counter
             /\ number' = [number EXCEPT ![r] = IF number[r] = 0 THEN counter' ELSE number[r]]
             /\ Works(r, "verify", NoCommit)
             /\ UNCHANGED floor
    <3>1. counter \in Nat /\ floor \in 0..counter /\ number \in [Runs -> 0..counter]
      BY DEF TypeOK
    <3>2. counter' \in Nat /\ counter' >= counter
      BY <2>2, <3>1
    <3>3. number' \in [Runs -> 0..counter'] /\ floor' \in 0..counter'
      BY <2>2, <3>1, <3>2
    <3>4. QED
      BY <1>0, <1>2, <2>2, <3>2, <3>3, WorksType DEF TypeOK, branchVars
  <2>3. QED
    BY <1>9, <2>1, <2>2 DEF Prepare
<1>10. ASSUME NEW r \in Runs, ReadHead(r) PROVE TypeOK'
  BY <1>0, <1>1, <1>2, <1>10 DEF ReadHead
<1>11. ASSUME NEW r \in Runs, Supersede(r) \/ Search(r) \/ Reuse(r) PROVE TypeOK'
  BY <1>0, <1>1, <1>2, <1>11 DEF Supersede, Search, Reuse
<1>12. ASSUME NEW r \in Runs, Capture(r) \/ ConfirmSource(r) \/ Fail(r) PROVE TypeOK'
  BY <1>0, <1>1, <1>2, <1>12 DEF Capture, ConfirmSource, Fail
<1>13. ASSUME NEW r \in Runs, Consume(r) PROVE TypeOK'
  <2>1. Works(r, "confirm", seen[r]) /\ seen[r] \in Commits \cup {NoCommit}
    BY <1>13 DEF Consume, TypeOK
  <2>2. floor' \in 0..counter /\ UNCHANGED <<number, counter>>
    BY <1>13 DEF Consume, TypeOK
  <2>3. QED
    BY <1>2, <2>1, <2>2, WorksType DEF TypeOK, branchVars
<1>14. ASSUME NEW r \in Runs, Publish(r) \/ StoreEvidence(r) PROVE TypeOK'
  BY <1>2, <1>14 DEF Publish, StoreEvidence, Goto, TypeOK, branchVars, ledgerVars
<1>15. CASE UNCHANGED vars
  BY <1>15 DEF TypeOK, vars
<1>16. QED
  BY <1>3, <1>4, <1>5, <1>6, <1>7, <1>8, <1>9, <1>10, <1>11, <1>12, <1>13, <1>14, <1>15
     DEF Next, Work, Verify, Release

LEMMA InitType == Init => TypeOK
BY RunsAssumption DEF Init, TypeOK, Runs, Commits, Events, Stages

(* Every variable keeps its type, and no number is ahead of the counter.   *)
THEOREM TypeCorrect == Spec => []TypeOK
BY InitType, TypeStep, PTL DEF Spec

(***************************************************************************)
(* What a step leaves alone.                                               *)
(***************************************************************************)
LEMMA WorkFrame ==
  ASSUME TypeOK, NEW r \in Runs, Work(r)
  PROVE  /\ UNCHANGED <<head, due, event, sha>>
         /\ stage[r] \in AtWork /\ stage'[r] \in AtWork \union Concluded
         /\ \A q \in Runs : q # r => stage'[q] = stage[q] /\ seen'[q] = seen[q] /\ number'[q] = number[q]
         /\ \A q \in Runs : q # r => (q \in released' <=> q \in released) /\ (q \in evidence' <=> q \in evidence)
         /\ released' # released => stage[r] = "patch"
<1>1. /\ DOMAIN stage = Runs /\ DOMAIN seen = Runs /\ DOMAIN number = Runs
  BY DEF TypeOK
<1>2. CASE Prepare(r) \/ ReadHead(r) \/ Supersede(r) \/ Search(r) \/ Reuse(r)
  BY <1>1, <1>2 DEF Prepare, ReadHead, Supersede, Search, Reuse, Works, Goto, AtWork, Concluded, Outcomes,
                    ledgerVars, branchVars
<1>3. CASE Capture(r) \/ Consume(r) \/ ConfirmSource(r) \/ Fail(r)
  BY <1>1, <1>3 DEF Capture, Consume, ConfirmSource, Fail, Works, Goto, AtWork, Concluded, Outcomes,
                    ledgerVars, branchVars
<1>4. CASE Publish(r) \/ StoreEvidence(r)
  BY <1>1, <1>4 DEF Publish, StoreEvidence, Goto, AtWork, Concluded, Outcomes, ledgerVars, branchVars
<1>5. QED
  BY <1>2, <1>3, <1>4 DEF Work, Verify, Release

Creates(r) == PushRun(r) \/ ScheduleRun(r) \/ DispatchRun(r)

LEMMA QueueFrame ==
  ASSUME TypeOK, NEW r \in Runs, Creates(r) \/ Rerun(r)
  PROVE  /\ UNCHANGED <<head, seen, number, released, evidence>> /\ due' \subseteq due
         /\ stage[r] \in {"none"} \union Concluded /\ stage'[r] = "pending"
         /\ stage[r] # "none" => UNCHANGED <<event, sha>>
         /\ \A q \in Runs : q # r => /\ event'[q] = event[q] /\ sha'[q] = sha[q]
                                     /\ stage'[q] = stage[q] \/ (stage'[q] = "cancelled" /\ stage[q] = "pending")
         /\ sha'[r] = sha[r] \/ sha'[r] = head \/ sha'[r] \in due
<1>1. DOMAIN event = Runs /\ DOMAIN sha = Runs
  BY DEF TypeOK
<1>2. CASE Rerun(r)
  BY <1>2, StageFacts DEF Rerun, Queued, branchVars, ledgerVars
<1>3. ASSUME NEW kind, NEW c, NewRun(r, kind, c), due' \subseteq due, c = head \/ c \in due
      PROVE  /\ UNCHANGED <<head, seen, number, released, evidence>>
             /\ stage[r] = "none" /\ stage'[r] = "pending"
             /\ \A q \in Runs : q # r => /\ event'[q] = event[q] /\ sha'[q] = sha[q]
                                         /\ stage'[q] = stage[q] \/ (stage'[q] = "cancelled" /\ stage[q] = "pending")
             /\ sha'[r] = c
  BY <1>1, <1>3 DEF NewRun, Queued, ledgerVars
<1>4. CASE PushRun(r)
  <2>1. PICK c \in due : NewRun(r, "push", c) /\ due' = due \ {c}
    BY <1>4 DEF PushRun
  <2>2. QED
    BY <1>3, <2>1
<1>5. CASE ScheduleRun(r)
  BY <1>3, <1>5 DEF ScheduleRun
<1>6. CASE DispatchRun(r)
  BY <1>3, <1>6 DEF DispatchRun
<1>7. QED
  BY <1>2, <1>4, <1>5, <1>6 DEF Creates

(* A run that starts finds nobody at work.                                 *)
LEMMA StartFrame ==
  ASSUME TypeOK, NEW r \in Runs, Start(r)
  PROVE  /\ UNCHANGED <<head, due, event, sha, number, released, evidence>>
         /\ stage[r] = "pending" /\ stage'[r] = "prepare"
         /\ \A q \in Runs : stage[q] \notin AtWork
         /\ \A q \in Runs : q # r => stage'[q] = stage[q] /\ seen'[q] = seen[q]
BY DEF Start, Works, Goto, TypeOK, ledgerVars, branchVars

(***************************************************************************)
(* The invariant is kept.                                                  *)
(***************************************************************************)
Idle == {"none", "pending"} \union Concluded

(* A step of a run's jobs keeps the invariant: the run is the only one at  *)
(* work.                                                                   *)
LEMMA WorkInv ==
  ASSUME IInv, NEW r \in Runs, Work(r)
  PROVE  Exclusive' /\ InTime' /\ Fresh' /\ CapturedOwn' /\ Newest' /\ Searched'
<1>0. TypeOK /\ head \in Int /\ \A q \in Runs : sha[q] \in Int
  BY DEF IInv, TypeOK, Commits
<1>1. /\ UNCHANGED <<head, due, event, sha>>
      /\ stage[r] \in AtWork /\ stage'[r] \in AtWork \union Concluded
      /\ \A q \in Runs : q # r => stage'[q] = stage[q] /\ seen'[q] = seen[q] /\ number'[q] = number[q]
      /\ \A q \in Runs : q # r => (q \in released' <=> q \in released) /\ (q \in evidence' <=> q \in evidence)
      /\ released' # released => stage[r] = "patch"
  BY <1>0, WorkFrame
<1>2. \A q \in Runs : q # r => stage[q] \notin AtWork /\ stage'[q] \notin AtWork
  BY <1>1 DEF IInv, Exclusive
<1>3. Exclusive' /\ InTime'
  BY <1>1, <1>2 DEF IInv, Exclusive, InTime
<1>4. Fresh'
  BY <1>1, StageFacts DEF IInv, Fresh
<1>5. {"consume", "confirm", "patch", "capture"} \subseteq AtWork
  BY DEF AtWork
<1>6. CapturedOwn'
  <2>1. SUFFICES ASSUME stage'[r] \in {"consume", "confirm"}, Automatic(r) PROVE seen'[r] = sha[r]
    BY <1>1, <1>2, <1>5 DEF CapturedOwn, Automatic
  <2>2. CASE Capture(r)
    BY <1>0, <2>1, <2>2 DEF Capture, Works, TypeOK
  <2>3. CASE Consume(r)
    <3>1. stage[r] = "consume" /\ seen'[r] = seen[r]
      BY <1>0, <2>3 DEF Consume, Works, TypeOK
    <3>2. QED
      BY <2>1, <3>1 DEF IInv, CapturedOwn
  <2>4. Capture(r) \/ Consume(r)
    BY <1>0, <2>1, StageFacts DEF Work, Verify, Release, Prepare, ReadHead, Supersede, Search, Reuse,
       ConfirmSource, Publish, StoreEvidence, Fail, Works, Goto, TypeOK
  <2>5. QED
    BY <2>2, <2>3, <2>4
<1>7. Newest'
  <2>1. SUFFICES ASSUME stage'[r] = "patch", Automatic(r), NEW q \in released', Automatic(q)
                 PROVE  sha[q] <= sha[r]
    BY <1>1, <1>2, <1>5 DEF Newest, Automatic
  <2>2. ConfirmSource(r)
    BY <1>0, <2>1 DEF Work, Verify, Release, Prepare, ReadHead, Supersede, Search, Reuse,
       Capture, Consume, Publish, StoreEvidence, Fail, Works, Goto, TypeOK
  <2>3. stage[r] = "confirm" /\ head = seen[r] /\ released' = released
    BY <2>1, <2>2 DEF ConfirmSource, Works
  <2>4. head = sha[r] /\ q \in Runs
    BY <2>1, <2>3, <1>0 DEF IInv, CapturedOwn, TypeOK
  <2>5. QED
    BY <2>4 DEF IInv, InTime
<1>8. Searched'
  <2>1. SUFFICES ASSUME event[r] = "schedule", stage'[r] = "consume" \/ (stage'[r] = "capture" /\ head = sha[r])
                 PROVE  NoneLeft(r)'
    BY <1>1, <1>2, <1>5 DEF Searched
  <2>2. Search(r) \/ Reuse(r) \/ Capture(r)
    BY <1>0, <2>1 DEF Work, Verify, Release, Prepare, ReadHead, Supersede,
       ConfirmSource, Consume, Publish, StoreEvidence, Fail, Works, Goto, TypeOK
  <2>3. UNCHANGED <<number, released, evidence>>
    BY <2>2 DEF Search, Reuse, Capture, Works, ledgerVars
  <2>4. /\ Reservations(sha[r])' = Reservations(sha[r])
        /\ \A q \in Runs : LaterThan(q)' = LaterThan(q)
    BY <1>1, <2>3 DEF Reservations, LaterThan
  <2>5. NoneLeft(r)
    <3>1. CASE Capture(r)
      <4>1. stage[r] = "capture" /\ head = sha[r]
        BY <2>1, <3>1 DEF Capture, Automatic
      <4>2. QED
        BY <2>1, <4>1 DEF IInv, Searched
    <3>2. CASE Reuse(r)
      BY <1>0, <2>1, <3>2 DEF Reuse, Works, Goto, TypeOK
    <3>3. CASE Search(r)
      <4>1. ~\E q \in Probed(sha[r]) : Qualified(q)
        BY <1>0, <2>1, <3>3 DEF Search, Works, Goto, TypeOK
      <4>2. ASSUME NEW q \in Reservations(sha[r]) PROVE Cardinality(LaterThan(q)) \in Nat
        <5>1. IsFiniteSet(Runs)
          BY RunsAssumption, FS_Interval DEF Runs
        <5>2. IsFiniteSet(LaterThan(q))
          BY <5>1, FS_Subset DEF LaterThan, Reservations
        <5>3. QED
          BY <5>2, FS_CardinalityType
      <4>3. QED
        BY <4>1, <4>2, RunsAssumption DEF NoneLeft, Probed
    <3>4. QED
      BY <2>2, <3>1, <3>2, <3>3
  <2>6. ASSUME NEW q \in Reservations(sha[r]), Qualified(q)' PROVE Qualified(q)
    <3>1. q # r /\ q \in Runs
      BY <2>1, <2>6 DEF Reservations
    <3>2. QED
      BY <1>1, <2>6, <3>1 DEF Qualified
  <2>7. QED
    BY <2>4, <2>5, <2>6 DEF NoneLeft, Reservations
<1>9. QED
  BY <1>3, <1>4, <1>6, <1>7, <1>8

(* Steps that leave the runs at work, their candidates and numbers alone:  *)
(* no run loses what it has captured, confirmed or searched.               *)
LEMMA QuietInv ==
  ASSUME IInv, UNCHANGED <<number, released>>, evidence' \subseteq evidence, head' >= head, head' \in Int,
         \A q \in Runs : stage'[q] \in {"capture", "consume", "confirm", "patch", "published"} =>
           stage'[q] = stage[q] /\ seen'[q] = seen[q],
         \A q \in Runs : stage[q] # "none" => event'[q] = event[q] /\ sha'[q] = sha[q]
  PROVE  CapturedOwn' /\ Newest' /\ Searched'
<1>0. TypeOK /\ Fresh /\ head \in Int /\ \A q \in Runs : sha[q] \in Int /\ sha[q] <= head
  BY DEF IInv, TypeOK, Commits, InTime
<1>1. CapturedOwn'
  BY DEF IInv, CapturedOwn, Automatic
<1>2. \A q \in released : q \in Runs /\ event'[q] = event[q] /\ sha'[q] = sha[q]
  BY <1>0 DEF TypeOK, Fresh
<1>3. Newest'
  <2>1. SUFFICES ASSUME NEW r \in Runs, stage'[r] = "patch", Automatic(r)', NEW q \in released, Automatic(q)'
                 PROVE  sha'[q] <= sha'[r]
    BY DEF Newest
  <2>2. stage[r] = "patch" /\ Automatic(r) /\ Automatic(q) /\ sha'[r] = sha[r] /\ sha'[q] = sha[q]
    BY <1>2, <2>1 DEF Automatic
  <2>3. QED
    BY <2>2 DEF IInv, Newest
<1>4. Searched'
  <2>1. SUFFICES ASSUME NEW r \in Runs, event'[r] = "schedule",
                        stage'[r] = "consume" \/ (stage'[r] = "capture" /\ head' = sha'[r])
                 PROVE  NoneLeft(r)'
    BY DEF Searched
  <2>2. event[r] = "schedule" /\ sha'[r] = sha[r] /\ stage[r] = stage'[r]
    BY <2>1
  <2>3. stage[r] = "consume" \/ (stage[r] = "capture" /\ head = sha[r])
    BY <1>0, <2>1, <2>2
  <2>4. NoneLeft(r)
    BY <2>2, <2>3 DEF IInv, Searched
  <2>5. \A q \in Runs : number[q] > 0 => event'[q] = event[q] /\ sha'[q] = sha[q]
    BY <1>0 DEF Fresh, TypeOK
  <2>6. \A c : {q \in Runs : number'[q] > 0 /\ sha'[q] = c /\ event'[q] # "schedule"} = Reservations(c)
    BY <2>5 DEF Reservations
  <2>7. ASSUME NEW q \in Runs, number[q] > 0 PROVE LaterThan(q)' = LaterThan(q)
    <3>1. /\ LaterThan(q)' = {p \in {x \in Runs : number'[x] > 0 /\ sha'[x] = sha'[q] /\ event'[x] # "schedule"} :
                                number[p] > number[q]}
          /\ LaterThan(q) = {p \in Reservations(sha[q]) : number[p] > number[q]}
      BY DEF LaterThan, Reservations
    <3>2. sha'[q] = sha[q]
      BY <2>5, <2>7
    <3>3. QED
      BY <2>6, <3>1, <3>2
  <2>8. SUFFICES ASSUME NEW q \in Reservations(sha[r]), Qualified(q)'
                 PROVE  Cardinality(LaterThan(q)') >= Probes
    <3>1. (Reservations(sha[r]))' = Reservations(sha[r])
      BY <2>2, <2>6 DEF Reservations
    <3>2. QED
      BY <2>8, <3>1 DEF NoneLeft
  <2>9. Qualified(q) /\ q \in Runs /\ number[q] > 0
    BY <2>8 DEF Qualified, Reservations
  <2>10. QED
    BY <2>4, <2>7, <2>8, <2>9 DEF NoneLeft
<1>5. QED
  BY <1>1, <1>3, <1>4

LEMMA InductiveStep ==
  ASSUME IInv, [Next]_vars
  PROVE  IInv'
<1>0. TypeOK /\ TypeOK' /\ head \in Int /\ head' \in Int
  BY TypeStep DEF IInv, TypeOK, Commits
<1>1. ASSUME NEW r \in Runs, Work(r) PROVE IInv'
  BY <1>0, <1>1, WorkInv DEF IInv
<1>2. {"capture", "consume", "confirm", "patch"} \subseteq AtWork /\ "published" \in Concluded
  BY DEF AtWork, Concluded, Outcomes
<1>3. ASSUME NEW r \in Runs, Creates(r) \/ Rerun(r) PROVE IInv'
  <2>1. /\ UNCHANGED <<head, seen, number, released, evidence>> /\ due' \subseteq due
        /\ stage[r] \in {"none"} \union Concluded /\ stage'[r] = "pending"
        /\ stage[r] # "none" => UNCHANGED <<event, sha>>
        /\ \A q \in Runs : q # r => /\ event'[q] = event[q] /\ sha'[q] = sha[q]
                                    /\ stage'[q] = stage[q] \/ (stage'[q] = "cancelled" /\ stage[q] = "pending")
        /\ sha'[r] = sha[r] \/ sha'[r] = head \/ sha'[r] \in due
    BY <1>0, <1>3, QueueFrame
  <2>2. InTime'
    BY <2>1, <1>0 DEF IInv, InTime
  <2>3. Exclusive' /\ Fresh'
    BY <2>1, StageFacts DEF IInv, Exclusive, Fresh
  <2>4. CapturedOwn' /\ Newest' /\ Searched'
    BY <1>0, <2>1, QuietInv
  <2>5. QED
    BY <1>0, <2>2, <2>3, <2>4 DEF IInv
<1>4. ASSUME NEW r \in Runs, Start(r) PROVE IInv'
  <2>1. /\ UNCHANGED <<head, due, event, sha, number, released, evidence>>
        /\ stage[r] = "pending" /\ stage'[r] = "prepare"
        /\ \A q \in Runs : stage[q] \notin AtWork
        /\ \A q \in Runs : q # r => stage'[q] = stage[q] /\ seen'[q] = seen[q]
    BY <1>0, <1>4, StartFrame
  <2>2. InTime' /\ Exclusive' /\ Fresh'
    BY <2>1 DEF IInv, InTime, Exclusive, Fresh
  <2>3. CapturedOwn' /\ Newest' /\ Searched'
    BY <1>0, <2>1, QuietInv
  <2>4. QED
    BY <1>0, <2>2, <2>3 DEF IInv
<1>5. CASE Push
  <2>1. UNCHANGED <<event, sha, stage, number, seen, released, evidence>> /\ head' = head + 1
    BY <1>5 DEF Push, queueVars, ledgerVars
  <2>2. \A c \in due' : c \in due \/ c = head'
    BY <1>5 DEF Push
  <2>3. \A c \in due' : c <= head'
    BY <1>0, <2>1, <2>2 DEF IInv, InTime, TypeOK, Commits
  <2>4. InTime'
    BY <1>0, <2>1, <2>3 DEF IInv, InTime, TypeOK, Commits
  <2>5. Exclusive' /\ Fresh'
    BY <2>1 DEF IInv, Exclusive, Fresh
  <2>6. CapturedOwn' /\ Newest' /\ Searched'
    BY <1>0, <2>1, QuietInv
  <2>7. QED
    BY <1>0, <2>4, <2>5, <2>6 DEF IInv
<1>6. ASSUME (\E r \in Runs : Expire(r)) \/ UNCHANGED vars PROVE IInv'
  <2>1. /\ UNCHANGED <<head, due, event, sha, stage, number, seen, released>>
        /\ evidence' \subseteq evidence
    BY <1>6 DEF Expire, vars, branchVars, queueVars, ledgerVars
  <2>2. InTime' /\ Exclusive' /\ Fresh'
    BY <2>1 DEF IInv, InTime, Exclusive, Fresh
  <2>3. CapturedOwn' /\ Newest' /\ Searched'
    BY <1>0, <2>1, QuietInv
  <2>4. QED
    BY <1>0, <2>2, <2>3 DEF IInv
<1>7. QED
  BY <1>1, <1>3, <1>4, <1>5, <1>6 DEF Next, Creates

LEMMA InitInv == Init => IInv
<1> SUFFICES ASSUME Init PROVE IInv
  OBVIOUS
<1>1. \A r \in Runs : stage[r] = "none" /\ number[r] = 0 /\ sha[r] = 0
  BY DEF Init
<1>2. Exclusive /\ InTime /\ Fresh /\ CapturedOwn /\ Newest /\ Searched
  BY <1>1 DEF Init, Exclusive, InTime, Fresh, CapturedOwn, Newest, Searched, AtWork
<1>3. QED
  BY <1>2, InitType DEF IInv

(* The inductive invariant of the release runs.                            *)
THEOREM InvariantHolds == Spec => []IInv
BY InitInv, InductiveStep, PTL DEF Spec

(***************************************************************************)
(* What follows.                                                           *)
(***************************************************************************)
LEMMA OrderStep ==
  ASSUME IInv, [Next]_vars, NEW r \in released' \ released, Automatic(r), NEW q \in released, Automatic(q)
  PROVE  sha[q] <= sha[r]
<1>1. TypeOK /\ released' # released
  BY DEF IInv
<1>2. PICK p \in Runs : Work(p)
  <2>1. ASSUME NEW p \in Runs, Creates(p) \/ Rerun(p) \/ Start(p) \/ Expire(p) PROVE FALSE
    BY <1>1, <2>1, QueueFrame, StartFrame DEF Expire
  <2>2. ~Push /\ ~UNCHANGED vars
    BY <1>1 DEF Push, vars
  <2>3. QED
    BY <2>1, <2>2 DEF Next, Creates
<1>3. p = r /\ stage[r] = "patch"
  BY <1>1, <1>2, WorkFrame, TypeStep DEF TypeOK
<1>4. QED
  BY <1>3 DEF IInv, Newest, TypeOK

LEMMA OrderAction ==
  ASSUME IInv, [Next]_vars
  PROVE  [\A r \in released' \ released : Automatic(r) =>
            \A q \in released : Automatic(q) => sha[q] <= sha[r]]_vars
BY OrderStep

(* No automatic candidate becomes public after one of a newer commit.      *)
THEOREM AutomaticsAreInOrder == Spec => AutomaticInOrder
BY InvariantHolds, OrderAction, PTL DEF Spec, AutomaticInOrder

LEMMA NightlyAction ==
  ASSUME IInv, [Next]_vars
  PROVE  [\A r \in Runs : event[r] = "schedule" /\ stage[r] = "consume" /\ stage'[r] = "confirm" =>
            \A q \in Reservations(sha[r]) : Qualified(q) => Cardinality(LaterThan(q)) >= Probes]_vars
BY DEF IInv, Searched, NoneLeft

(* A nightly never advances the floor past a candidate it had to reuse.    *)
THEOREM NightliesKeepCandidates == Spec => NightlyKeepsCandidates
BY InvariantHolds, NightlyAction, PTL DEF Spec, NightlyKeepsCandidates
================================================================================
