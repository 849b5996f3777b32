----------------------------- MODULE ExecutingRun -----------------------------
(***************************************************************************)
(* One release candidate run and its attempts: the jobs GitHub runs or     *)
(* copies when a run is rerun, the metadata its API shows of them, the     *)
(* publication job that waits for that metadata (wait_for_executing_run    *)
(* and release_gate_ready of scripts/release_control.py), the bounded GETs *)
(* it reads it with (GitHub._read_get), and the promotion of what the run  *)
(* released (promote), which looks at the run and the release twice.       *)
(***************************************************************************)
EXTENDS Integers, FiniteSets

CONSTANTS
  MaxAttempts,  \* bound: attempts of the run
  MaxEdits,     \* bound: edits of the published release by a maintainer
  Wait,         \* the units of time EXECUTING_RUN_WAIT_SECONDS is counted in
  Tries         \* API_READ_ATTEMPTS: whole reads of one GET

ASSUME ExecutingAssumption ==
  /\ MaxAttempts \in Nat \ {0}
  /\ MaxEdits \in Nat
  /\ Wait \in Nat \ {0}
  /\ Tries \in Nat \ {0}

Attempts == 1..MaxAttempts
(* The jobs that matter here; the gate needs the others.                   *)
Needs == {"checks", "fuzz"}
Jobs == Needs \cup {"gate"}
(* The pages of the job list: the gate can be on a later page.             *)
PageOf == [j \in Jobs |-> IF j = "gate" THEN 2 ELSE 1]

VARIABLES
  latest,     \* the run's run_attempt
  ran,        \* ran[a][j]: the attempt in which the job really executed, 0 before
  result,     \* result[a][j]: its conclusion
  listed,     \* listed[a]: the jobs the API shows as completed
  status,     \* status[a]: the run status the API shows while a is the latest
  over,       \* over[a]: how the attempt ended
  pc,         \* where the publication job of the attempt stands
  left,       \* time before its deadline
  tries,      \* whole reads of its current GET that failed
  pages,      \* the job records of its current GET, with the read that brought them
  edition,    \* how often the published release was edited
  released,   \* the attempt whose candidate is public; 0 for none
  promotion,  \* where the promotion stands
  looked,     \* the edition the promotion saw first
  touched     \* history: the run or the release changed between its two looks

runVars == <<latest, ran, result, listed, status, over>>
waitVars == <<left, tries, pages>>
promotionVars == <<edition, promotion, looked, touched>>
vars == <<runVars, pc, waitVars, released, promotionVars>>

Conclusions == {"none", "success", "failure"}
Reading == {"run", "page1", "page2", "detail", "validate"}
Waiting == Reading \cup {"judge", "sleep"}
Ended == {"published", "failed"}
BetweenLooks == {"run1", "jobs1", "look2"}

TypeOK ==
  /\ latest \in Attempts
  /\ ran \in [Attempts -> [Jobs -> 0..MaxAttempts]]
  /\ result \in [Attempts -> [Jobs -> Conclusions]]
  /\ listed \in [Attempts -> SUBSET Jobs]
  /\ status \in [Attempts -> {"queued", "in_progress", "completed"}]
  /\ over \in [Attempts -> Conclusions]
  /\ pc \in [Attempts -> {"absent", "publish"} \cup Waiting \cup Ended]
  /\ left \in [Attempts -> 0..Wait]
  /\ tries \in [Attempts -> 0..(Tries - 1)]
  /\ pages \in [Attempts -> SUBSET [job : Jobs, read : 0..(Tries - 1)]]
  /\ edition \in 0..MaxEdits
  /\ released \in 0..MaxAttempts
  /\ promotion \in {"idle", "look", "run1", "jobs1", "look2", "run2", "jobs2",
                    "write", "promoted", "failed"}
  /\ looked \in 0..MaxEdits
  /\ touched \in BOOLEAN

Init ==
  /\ latest = 1
  /\ ran = [a \in Attempts |-> [j \in Jobs |-> 0]]
  /\ result = [a \in Attempts |-> [j \in Jobs |-> "none"]]
  /\ listed = [a \in Attempts |-> {}]
  /\ status = [a \in Attempts |-> "queued"]
  /\ over = [a \in Attempts |-> "none"]
  /\ pc = [a \in Attempts |-> "absent"]
  /\ left = [a \in Attempts |-> Wait]
  /\ tries = [a \in Attempts |-> 0]
  /\ pages = [a \in Attempts |-> {}]
  /\ edition = 0
  /\ released = 0
  /\ promotion = "idle"
  /\ looked = 0
  /\ touched = FALSE

--------------------------------------------------------------------------------
(* GitHub Actions.                                                         *)

(* A job of the latest attempt executes. The gate runs after its needs and *)
(* succeeds exactly if all of them did.                                    *)
RunJob(j, how) ==
  /\ over[latest] = "none"
  /\ result[latest][j] = "none"
  /\ j = "gate" => /\ \A n \in Needs : result[latest][n] # "none"
                   /\ (how = "success") = (\A n \in Needs : result[latest][n] = "success")
  /\ ran' = [ran EXCEPT ![latest][j] = latest]
  /\ result' = [result EXCEPT ![latest][j] = how]
  /\ UNCHANGED <<latest, listed, status, over, pc, waitVars, released, promotionVars>>

(* The API catches up with a job, or with the run: metadata may lag for as *)
(* long as it likes. A job it does not list and one it shows as unfinished *)
(* are waited for alike.                                                   *)
ListJob(a, j) ==
  /\ result[a][j] # "none"
  /\ j \notin listed[a]
  /\ listed' = [listed EXCEPT ![a] = @ \cup {j}]
  /\ UNCHANGED <<latest, ran, result, status, over, pc, waitVars, released, promotionVars>>

ShowRun(a) ==
  /\ a = latest
  /\ \/ status[a] = "queued" /\ status' = [status EXCEPT ![a] = "in_progress"]
     \/ status[a] # "completed" /\ over[a] # "none" /\ status' = [status EXCEPT ![a] = "completed"]
  /\ UNCHANGED <<latest, ran, result, listed, over, pc, waitVars, released, promotionVars>>

(* The attempt ends: with its publication job, without one when the gate   *)
(* failed, or cancelled, while the process of the job may go on a while.   *)
Conclude(how) ==
  /\ over[latest] = "none"
  /\ how = "success" => pc[latest] = "published"
  /\ over' = [over EXCEPT ![latest] = how]
  /\ UNCHANGED <<latest, ran, result, listed, status, pc, waitVars, released, promotionVars>>

(* A run that is shown as completed, with its jobs, can be rerun. The rerun *)
(* executes the chosen jobs and their dependents; of the others it copies  *)
(* the earlier record, complete with its conclusion.                       *)
Rerun(again) ==
  LET fresh == IF again = {} THEN {} ELSE again \cup {"gate"}
      next == latest + 1
  IN /\ status[latest] = "completed"
     /\ listed[latest] = {j \in Jobs : result[latest][j] # "none"}
     /\ next \in Attempts
     /\ \A j \in Jobs \ fresh : result[latest][j] # "none"
     /\ latest' = next
     /\ ran' = [ran EXCEPT ![next] = [j \in Jobs |-> IF j \in fresh THEN 0 ELSE ran[latest][j]]]
     /\ result' = [result EXCEPT ![next] =
                     [j \in Jobs |-> IF j \in fresh THEN "none" ELSE result[latest][j]]]
     /\ listed' = [listed EXCEPT ![next] = Jobs \ fresh]
     /\ touched' = (touched \/ promotion \in BetweenLooks \cup {"run2"})
     /\ UNCHANGED <<status, over, pc, waitVars, released, edition, promotion, looked>>

(* A maintainer edits the public candidate or replaces a file of it.       *)
EditRelease ==
  /\ released # 0
  /\ edition < MaxEdits
  /\ edition' = edition + 1
  /\ touched' = (touched \/ promotion \in BetweenLooks)
  /\ UNCHANGED <<runVars, pc, waitVars, released, promotion, looked>>

--------------------------------------------------------------------------------
(* The publication job of an attempt.                                      *)

(* The job starts once the gate of its attempt succeeded, executed or      *)
(* copied.                                                                 *)
Start(a) ==
  /\ a = latest
  /\ over[a] = "none"
  /\ result[a]["gate"] = "success"
  /\ pc[a] = "absent"
  /\ pc' = [pc EXCEPT ![a] = "run"]
  /\ UNCHANGED <<runVars, waitVars, released, promotionVars>>

(* The GET at hand is answered whole and the job goes on.                  *)
Answered(a, at, next) ==
  /\ pc[a] = at
  /\ pc' = [pc EXCEPT ![a] = next]
  /\ tries' = [tries EXCEPT ![a] = 0]
  /\ UNCHANGED <<runVars, left, released, promotionVars>>

(* check_execution and validate_run_provenance: the answer is about the    *)
(* attempt this process belongs to, and that has no conclusion yet.        *)
Executing(a) == latest = a /\ status[a] # "completed"

ReadRun(a) ==
  /\ Executing(a)
  /\ Answered(a, "run", IF status[a] = "in_progress" THEN "page1" ELSE "sleep")
  /\ pages' = [pages EXCEPT ![a] = {}]

(* The completed jobs on a page of the list, as it is when it is served.   *)
Page(a, n) == {[job |-> j, read |-> tries[a]] : j \in {i \in listed[a] : PageOf[i] = n}}

ReadPage(a, n, at, next) ==
  /\ pc[a] = at
  /\ pc' = [pc EXCEPT ![a] = next]
  /\ pages' = [pages EXCEPT ![a] = @ \cup Page(a, n)]
  /\ UNCHANGED <<runVars, left, tries, released, promotionVars>>

ReadPages(a) ==
  \/ ReadPage(a, 1, "page1", "page2")
  \/ ReadPage(a, 2, "page2", "judge")

(* Mutant: a page is asked for again without dropping the earlier ones.    *)
ResumePages(a) ==
  /\ pc[a] \in Reading
  /\ tries[a] < Tries - 1
  /\ tries' = [tries EXCEPT ![a] = @ + 1]
  /\ UNCHANGED <<pc, pages, runVars, left, released, promotionVars>>

(* A transport failure, a server error or a timeout: the whole GET is sent *)
(* again, with nothing of the failed answer, and only so many times. Any   *)
(* other failure, a denial among them, ends the job (Fail).                *)
LoseAnswer(a) ==
  /\ pc[a] \in Reading
  /\ tries[a] < Tries - 1
  /\ tries' = [tries EXCEPT ![a] = @ + 1]
  /\ pages' = [pages EXCEPT ![a] = IF pc[a] = "detail" THEN @ ELSE {}]
  /\ pc' = [pc EXCEPT ![a] = IF @ = "page2" THEN "page1" ELSE @]
  /\ UNCHANGED <<runVars, left, released, promotionVars>>

Gates(a) == {r \in pages[a] : r.job = "gate"}

(* Nothing counts that was found out after the deadline.                   *)
InTime(a) == left[a] > 0

(* release_gate_ready with allow_pending: exactly one gate, successful, or *)
(* none or an unfinished one, for which the job waits.                     *)
JudgeGate(a) ==
  /\ \/ /\ Gates(a) = {}
        /\ Answered(a, "judge", "sleep")
     \/ /\ Cardinality(Gates(a)) = 1
        /\ result[a]["gate"] = "success"
        /\ \/ a = 1 /\ InTime(a) /\ Answered(a, "judge", "validate")
           \/ a > 1 /\ Answered(a, "judge", "detail")
  /\ pages' = [pages EXCEPT ![a] = IF pc'[a] = "detail" THEN @ ELSE {}]

(* Mutant of Fresh: the copied record names the attempt it was copied to.  *)
OfThisAttempt(a, jobs) == jobs \subseteq Jobs /\ a \in Attempts

(* _require_fresh_job_timing: a success that did not begin after the start *)
(* of the attempt is a copy.                                               *)
Fresh(a, jobs) == \A j \in jobs : result[a][j] = "success" => ran[a][j] = a

ReadDetail(a) ==
  /\ Fresh(a, {r.job : r \in pages[a]})
  /\ InTime(a)
  /\ Answered(a, "detail", "validate")
  /\ pages' = [pages EXCEPT ![a] = {}]

(* Mutant of Sleep: the wait has no end.                                   *)
SleepOn(a) == Answered(a, "sleep", "run") /\ UNCHANGED pages

Sleep(a) ==
  /\ InTime(a)
  /\ Answered(a, "sleep", "run")
  /\ UNCHANGED pages

Elapse(a) ==
  /\ pc[a] \in Waiting \ {"validate"}
  /\ left[a] > 0
  /\ left' = [left EXCEPT ![a] = @ - 1]
  /\ UNCHANGED <<runVars, pc, tries, pages, released, promotionVars>>

(* validate_validation_run: an RC has one successful fuzz job.             *)
Fuzzed(a) == "fuzz" \in listed[a] /\ result[a]["fuzz"] = "success"

Validate(a) == Fuzzed(a) /\ Answered(a, "validate", "publish") /\ UNCHANGED pages

Publish(a) ==
  /\ pc[a] = "publish"
  /\ released = 0
  /\ released' = a
  /\ pc' = [pc EXCEPT ![a] = "published"]
  /\ UNCHANGED <<runVars, waitVars, promotionVars>>

(* A requirement, a last read or the process itself fails, and what it     *)
(* held in memory is gone.                                                 *)
Fail(a) ==
  /\ pc[a] \in Waiting \cup {"publish"}
  /\ pc' = [pc EXCEPT ![a] = "failed"]
  /\ pages' = [pages EXCEPT ![a] = {}]
  /\ tries' = [tries EXCEPT ![a] = 0]
  /\ left' = [left EXCEPT ![a] = 0]
  /\ UNCHANGED <<runVars, released, promotionVars>>

--------------------------------------------------------------------------------
(* The promotion of the candidate, by another run.                         *)

Promotes(at, next) ==
  /\ promotion = at
  /\ promotion' = next
  /\ UNCHANGED <<runVars, pc, waitVars, released, edition, touched>>

(* release_snapshot.                                                       *)
Look ==
  /\ released # 0
  /\ Promotes("idle", "run1")
  /\ looked' = edition

(* validate_run of a completed run.                                        *)
RunQualifies ==
  /\ latest = released
  /\ status[latest] = "completed"
  /\ over[latest] = "success"

JobsQualify ==
  /\ Fuzzed(released)
  /\ "gate" \in listed[released] /\ result[released]["gate"] = "success"
  /\ released > 1 => Fresh(released, listed[released])

ReadCandidate ==
  /\ \/ Promotes("run1", "jobs1") /\ RunQualifies
     \/ Promotes("jobs1", "look2") /\ JobsQualify
  /\ UNCHANGED looked

(* Mutant: the first snapshot counts.                                      *)
TrustFirstLook == Promotes("look2", "run2") /\ UNCHANGED looked

LookAgain ==
  /\ edition = looked
  /\ Promotes("look2", "run2")
  /\ UNCHANGED looked

Recheck ==
  /\ \/ Promotes("run2", "jobs2") /\ RunQualifies
     \/ Promotes("jobs2", "write") /\ JobsQualify
  /\ UNCHANGED looked

Promote == Promotes("write", "promoted") /\ UNCHANGED looked

PromotionFails ==
  /\ promotion \notin {"idle", "promoted", "failed"}
  /\ Promotes(promotion, "failed")
  /\ UNCHANGED looked

--------------------------------------------------------------------------------
Actions ==
  \/ \E j \in Jobs, how \in {"success", "failure"} : RunJob(j, how)
  \/ \E a \in Attempts : ShowRun(a) \/ \E j \in Jobs : ListJob(a, j)
  \/ \E how \in {"success", "failure"} : Conclude(how)
  \/ \E again \in SUBSET Needs : Rerun(again)
  \/ EditRelease

PublicationJob(a) ==
  \/ ReadRun(a)
  \/ ReadPages(a)
  \/ LoseAnswer(a)
  \/ JudgeGate(a)
  \/ ReadDetail(a)
  \/ Sleep(a)
  \/ Validate(a)
  \/ Publish(a)
  \/ Fail(a)

Promotion ==
  \/ Look
  \/ ReadCandidate
  \/ LookAgain
  \/ Recheck
  \/ Promote
  \/ PromotionFails

Next ==
  \/ Actions
  \/ \E a \in Attempts : Start(a) \/ PublicationJob(a) \/ Elapse(a)
  \/ Promotion

(* A process that runs goes on or fails, and time passes.                  *)
Fairness == \A a \in Attempts : WF_vars(PublicationJob(a)) /\ WF_vars(Elapse(a))

Spec == Init /\ [][Next]_vars /\ Fairness

--------------------------------------------------------------------------------
(* A job publishes only under an attempt that executed the gate and every  *)
(* check itself, all with success, and only if it knew so before its       *)
(* deadline: copied successes of a partial rerun and late metadata         *)
(* authorise nothing (wait_for_executing_run, release_gate_ready).         *)
AttemptProven ==
  \A a \in Attempts : pc[a] \in {"publish", "published"} =>
    /\ left[a] > 0
    /\ \A j \in Jobs : ran[a][j] = a /\ result[a][j] = "success"

(* The list a job judges comes from one GET: nothing of an answer that     *)
(* failed is left in it (_read_get).                                       *)
WholeAnswers ==
  \A a \in Attempts : \A r, q \in pages[a] : r.read = q.read

(* A candidate is promoted only if neither its run was rerun nor its       *)
(* release edited between the two looks of promote.                        *)
PromotedUntouched == promotion = "promoted" => ~touched

(* The wait for the metadata comes to an end, whatever the API shows.      *)
WaitEnds == \A a \in Attempts : pc[a] \in Waiting ~> pc[a] \notin Waiting
================================================================================
