----------------------------- MODULE AutomaticRuns -----------------------------
(***************************************************************************)
(* The runs of the release workflow on a default branch that moves         *)
(* (.github/workflows/release-pipeline.yml): pushes, schedules, dispatches *)
(* and reruns enter one concurrency group, an older automatic run is       *)
(* superseded by the run of a newer push (superseded_candidate of          *)
(* scripts/release_control.py), and a scheduled nightly of an unchanged    *)
(* source reports the qualified release it finds (scheduled_reuse of       *)
(* scripts/release_versioned.py).                                          *)
(*                                                                         *)
(* Runs are numbered by their run ID, commits by their place on the        *)
(* default branch. Allocation and consumption of build numbers are the     *)
(* atomic steps VersionAllocator promises.                                 *)
(***************************************************************************)
EXTENDS Integers, FiniteSets

CONSTANTS
  MaxRuns,    \* bound: workflow runs ever created
  MaxPushes,  \* bound: pushes to the default branch
  MaxReruns,  \* bound: reruns of completed runs
  MaxExpired, \* bound: evidence artifacts that expire
  Probes,     \* reservations scheduled_reuse looks at: 10 in the code
  PushesSkip  \* whether a push may start no run, as GitHub allows

ASSUME RunsAssumption ==
  /\ MaxRuns \in Nat
  /\ MaxPushes \in Nat
  /\ MaxReruns \in Nat
  /\ MaxExpired \in Nat
  /\ Probes \in Nat
  /\ PushesSkip \in BOOLEAN

Runs == 1..MaxRuns
Commits == 0..MaxPushes
NoCommit == -1

VARIABLES
  head,      \* the commit of the default branch
  due,       \* pushed commits whose run GitHub has still to create
  event,     \* what started the run
  sha,       \* the run's head_sha
  stage,     \* where the run stands: queued, at work, or its conclusion
  number,    \* the native build number the run reserved; 0 for none
  counter,   \* the last number reserved
  floor,     \* the publication floor
  seen,      \* the default-branch head the run read last
  released,  \* runs whose candidate is public
  evidence,  \* runs with a retained release-evidence artifact
  reruns,    \* reruns so far
  expired    \* artifacts that expired so far

ledgerVars == <<number, counter, floor>>
queueVars == <<event, sha, stage, reruns>>
branchVars == <<head, due>>
vars == <<head, due, event, sha, stage, number, counter, floor, seen, released,
          evidence, reruns, expired>>

Events == {"none", "push", "schedule", "dispatch"}
AtWork == {"prepare", "verify", "compare", "reverify", "recompare", "search", "found",
           "capture", "consume", "confirm", "patch", "store"}
Outcomes == {"published", "reused", "version-required", "failed"}
Concluded == Outcomes \cup {"superseded", "cancelled"}
Stages == {"none", "pending"} \cup AtWork \cup Concluded

TypeOK ==
  /\ head \in Commits
  /\ due \subseteq Commits
  /\ event \in [Runs -> Events]
  /\ sha \in [Runs -> Commits]
  /\ stage \in [Runs -> Stages]
  /\ counter \in Nat
  /\ number \in [Runs -> 0..counter]
  /\ floor \in 0..counter
  /\ seen \in [Runs -> Commits \cup {NoCommit}]
  /\ released \subseteq Runs
  /\ evidence \subseteq Runs
  /\ reruns \in Nat
  /\ expired \in Nat

Init ==
  /\ head = 0
  /\ due = {}
  /\ event = [r \in Runs |-> "none"]
  /\ sha = [r \in Runs |-> 0]
  /\ stage = [r \in Runs |-> "none"]
  /\ number = [r \in Runs |-> 0]
  /\ counter = 0
  /\ floor = 0
  /\ seen = [r \in Runs |-> NoCommit]
  /\ released = {}
  /\ evidence = {}
  /\ reruns = 0
  /\ expired = 0

--------------------------------------------------------------------------------
(* push publishes betas and schedule nightlies: the automatic channels.    *)
Automatic(r) == event[r] \in {"push", "schedule"}

Goto(r, label) == stage' = [stage EXCEPT ![r] = label]

(* A step of a run's jobs that touches only the run and remembers head c.  *)
Works(r, label, c) ==
  /\ Goto(r, label)
  /\ seen' = [seen EXCEPT ![r] = c]
  /\ UNCHANGED <<branchVars, event, sha, released, evidence, reruns, expired>>

(* Mutant of Queued: the run that is pending already keeps its place.      *)
KeepQueued(r) ==
  [stage EXCEPT ![r] = IF \E q \in Runs : stage[q] = "pending" THEN "cancelled" ELSE "pending"]

(* The concurrency group holds one pending run: a newer one replaces it.   *)
Queued(r) ==
  [q \in Runs |-> IF q = r THEN "pending" ELSE IF stage[q] = "pending" THEN "cancelled" ELSE stage[q]]

(* The run with the next ID, for commit c.                                 *)
NewRun(r, kind, c) ==
  /\ stage[r] = "none"
  /\ \A q \in 1..(r - 1) : stage[q] # "none"
  /\ event' = [event EXCEPT ![r] = kind]
  /\ sha' = [sha EXCEPT ![r] = c]
  /\ stage' = Queued(r)
  /\ UNCHANGED <<ledgerVars, head, seen, released, evidence, reruns, expired>>

(* A push moves the default branch; its run is created later, or never.    *)
Push ==
  /\ head < MaxPushes
  /\ head' = head + 1
  /\ due' \in {due \cup {head + 1}} \cup (IF PushesSkip THEN {due} ELSE {})
  /\ UNCHANGED <<queueVars, ledgerVars, seen, released, evidence, expired>>

PushRun(r) ==
  \E c \in due :
    /\ \A d \in due : c <= d
    /\ NewRun(r, "push", c)
    /\ due' = due \ {c}

ScheduleRun(r) == NewRun(r, "schedule", head) /\ UNCHANGED due
DispatchRun(r) == NewRun(r, "dispatch", head) /\ UNCHANGED due

(* A rerun keeps the run's ID, event and commit, and queues again.         *)
Rerun(r) ==
  /\ stage[r] \in Concluded
  /\ reruns < MaxReruns
  /\ reruns' = reruns + 1
  /\ stage' = Queued(r)
  /\ UNCHANGED <<branchVars, event, sha, ledgerVars, seen, released, evidence, expired>>

(* Mutant of Start: the workflow has no concurrency group.                 *)
StartAtOnce(r) ==
  /\ stage[r] = "pending"
  /\ Works(r, "prepare", NoCommit)
  /\ UNCHANGED ledgerVars

(* The pending run starts when no run of the group is at work.             *)
Start(r) ==
  /\ stage[r] = "pending"
  /\ \A q \in Runs : stage[q] \notin AtWork
  /\ Works(r, "prepare", NoCommit)
  /\ UNCHANGED ledgerVars

--------------------------------------------------------------------------------
(* prepare: an automatic beta of a base whose stable tag exists stops here;*)
(* every other run reserves a number, or finds the one it reserved.        *)
Prepare(r) ==
  /\ stage[r] = "prepare"
  /\ \/ /\ event[r] = "push"
        /\ Works(r, "version-required", NoCommit)
        /\ UNCHANGED ledgerVars
     \/ /\ counter' = IF number[r] = 0 THEN (IF counter < floor THEN floor ELSE counter) + 1 ELSE counter
        /\ number' = [number EXCEPT ![r] = IF @ = 0 THEN counter' ELSE @]
        /\ Works(r, "verify", NoCommit)
        /\ UNCHANGED floor

(* The reservation is verified and an automatic run reads the head of the  *)
(* default branch, before and after the candidate is staged.               *)
ReadHead(r) ==
  /\ stage[r] \in {"verify", "reverify"}
  /\ number[r] > floor
  /\ IF Automatic(r) /\ head # sha[r]
     THEN Works(r, IF stage[r] = "verify" THEN "compare" ELSE "recompare", head)
     ELSE Works(r, IF stage[r] = "verify" THEN "reverify" ELSE "search", NoCommit)
  /\ UNCHANGED ledgerVars

PushRuns(c) == {q \in Runs : event[q] = "push" /\ sha[q] = c}

(* Mutant of Supersede: a branch that moved is proof enough.               *)
SupersedeUnproven(r) ==
  /\ stage[r] \in {"compare", "recompare"}
  /\ Works(r, "superseded", NoCommit)
  /\ UNCHANGED ledgerVars

(* The one push run of that head is newer than this run, in whatever       *)
(* status, and the head is still the same.                                 *)
Supersede(r) ==
  /\ stage[r] \in {"compare", "recompare"}
  /\ \E q \in Runs : PushRuns(seen[r]) = {q} /\ q > r
  /\ head = seen[r]
  /\ Works(r, "superseded", NoCommit)
  /\ UNCHANGED ledgerVars

(* A published candidate of a run that completed successfully and whose    *)
(* evidence is retained.                                                   *)
Qualified(q) == q \in released \cap evidence /\ stage[q] = "published"

(* Reservations of the same source that no nightly made.                   *)
Reservations(c) == {q \in Runs : number[q] > 0 /\ sha[q] = c /\ event[q] # "schedule"}
LaterThan(q) == {p \in Reservations(sha[q]) : number[p] > number[q]}

(* Mutant of Probed: only the reservations of push runs are looked at.     *)
ProbedBetas(c) == {q \in Reservations(c) : event[q] = "push"}

(* scheduled_reuse probes the newest reservations of the source.           *)
Probed(c) == {q \in Reservations(c) : Cardinality(LaterThan(q)) < Probes}

(* scheduled_reuse of a nightly; other runs have nothing to search.        *)
Search(r) ==
  /\ stage[r] = "search"
  /\ Works(r, IF /\ event[r] = "schedule"
                 /\ head = sha[r]
                 /\ \E q \in Probed(sha[r]) : Qualified(q)
              THEN "found"
              ELSE "capture", NoCommit)
  /\ UNCHANGED ledgerVars

(* The head is read again before the nightly reports the release it found. *)
Reuse(r) ==
  /\ stage[r] = "found"
  /\ Works(r, IF head = sha[r] THEN "reused" ELSE "capture", NoCommit)
  /\ UNCHANGED ledgerVars

(* The default branch is captured for the confirmations; an automatic      *)
(* candidate must still be its head.                                       *)
Capture(r) ==
  /\ stage[r] = "capture"
  /\ Automatic(r) => head = sha[r]
  /\ Works(r, "consume", head)
  /\ UNCHANGED ledgerVars

(* begin_publication.                                                      *)
Consume(r) ==
  /\ stage[r] = "consume"
  /\ number[r] > floor
  /\ floor' = number[r]
  /\ Works(r, "confirm", seen[r])
  /\ UNCHANGED <<number, counter>>

(* confirm_automatic_source.                                               *)
ConfirmSource(r) ==
  /\ stage[r] = "confirm"
  /\ Automatic(r) => head = seen[r]
  /\ Works(r, "patch", NoCommit)
  /\ UNCHANGED ledgerVars

(* The PATCH that publishes the draft; its answer may be lost.             *)
Publish(r) ==
  /\ stage[r] = "patch"
  /\ released' = released \cup {r}
  /\ Goto(r, "store") \/ Goto(r, "failed")
  /\ UNCHANGED <<branchVars, event, sha, ledgerVars, seen, evidence, reruns, expired>>

StoreEvidence(r) ==
  /\ stage[r] = "store"
  /\ evidence' = evidence \cup {r}
  /\ Goto(r, "published")
  /\ UNCHANGED <<branchVars, event, sha, ledgerVars, seen, released, reruns, expired>>

(* A job fails, times out or loses its runner.                             *)
Fail(r) ==
  /\ stage[r] \in AtWork
  /\ Works(r, "failed", NoCommit)
  /\ UNCHANGED ledgerVars

(* The retention of an artifact ends.                                      *)
Expire(r) ==
  /\ r \in evidence
  /\ expired < MaxExpired
  /\ expired' = expired + 1
  /\ evidence' = evidence \ {r}
  /\ UNCHANGED <<branchVars, queueVars, ledgerVars, seen, released>>

Verify(r) == ReadHead(r) \/ Supersede(r) \/ Search(r) \/ Reuse(r)
Release(r) ==
  \/ Capture(r) \/ Consume(r) \/ ConfirmSource(r) \/ Publish(r) \/ StoreEvidence(r)
Work(r) == Prepare(r) \/ Verify(r) \/ Release(r) \/ Fail(r)

Next ==
  \/ Push
  \/ \E r \in Runs :
       \/ PushRun(r) \/ ScheduleRun(r) \/ DispatchRun(r) \/ Rerun(r)
       \/ Start(r) \/ Work(r) \/ Expire(r)

(* GitHub creates the run of a push and starts a pending run, and every    *)
(* job has a timeout. Nobody has to push, dispatch or rerun.               *)
Fairness == \A r \in Runs : WF_vars(PushRun(r)) /\ WF_vars(Start(r)) /\ WF_vars(Work(r))

Spec == Init /\ [][Next]_vars /\ Fairness

--------------------------------------------------------------------------------
(* Properties.                                                             *)

(* An automatic candidate becomes public only while no automatic candidate *)
(* of a newer commit is, reruns of old runs included (superseded_candidate,*)
(* confirm_automatic_source and the workflow's concurrency group).         *)
AutomaticInOrder ==
  [][\A r \in released' \ released : Automatic(r) =>
       \A q \in released : Automatic(q) => sha[q] <= sha[r]]_vars

(* A nightly never advances the floor past a qualified candidate of its    *)
(* own source that it had to probe, so the accepted RC stays promotable    *)
(* (docs/VERSIONING.md, "Automatic nightly publication reuse").            *)
NightlyKeepsCandidates ==
  [][\A r \in Runs : event[r] = "schedule" /\ stage[r] = "consume" /\ stage'[r] = "confirm" =>
       \A q \in Reservations(sha[r]) : Qualified(q) => Cardinality(LaterThan(q)) >= Probes]_vars

(* Without reruns, a superseded run is followed by a run of a newer commit *)
(* that comes to an outcome of its own, although pending runs are          *)
(* cancelled and pushes may start no run (superseded_candidate).           *)
SupersededIsReplaced ==
  \A r \in Runs : stage[r] = "superseded" ~>
    \E q \in Runs : sha[q] > sha[r] /\ stage[q] \in Outcomes

(* Without reruns, a commit that stays the head and has a run ends with a  *)
(* run of that commit that was neither cancelled nor superseded.           *)
HeadConcludes ==
  \A c \in Commits : head = c /\ PushRuns(c) # {} ~>
    head # c \/ \E q \in Runs : sha[q] = c /\ stage[q] \in Outcomes
================================================================================
