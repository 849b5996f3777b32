--------------------------- MODULE ExecutingRunProofs ---------------------------
(***************************************************************************)
(* Proofs about ExecutingRun, for every number of attempts, every length   *)
(* of the wait and every number of tries.                                  *)
(***************************************************************************)
EXTENDS ExecutingRun, FiniteSetTheorems, TLAPS

Executed(a, j) == ran[a][j] = a
Copied(a, j) == ran[a][j] \notin {0, a}

(* Attempts to come are blank, and records are never of a later attempt.   *)
RecordsInv ==
  /\ released <= latest
  /\ \A a \in Attempts :
       /\ a > latest => /\ listed[a] = {} /\ pc[a] = "absent"
                        /\ \A j \in Jobs : ran[a][j] = 0
       /\ \A j \in Jobs :
            /\ ran[a][j] <= a
            /\ result[a][j] = "none" <=> ran[a][j] = 0
            /\ Copied(a, j) => j \in listed[a]
            /\ j \in listed[a] => result[a][j] # "none"

(* A gate that an attempt executed succeeded over its needs.               *)
GateInv ==
  \A a \in Attempts : Executed(a, "gate") /\ result[a]["gate"] = "success" =>
    \A n \in Needs : result[a][n] = "success"

(* What a job has read: a copied need is in every list that has its page,  *)
(* and the records of a list that is being read come from one read.        *)
PagesInv ==
  \A a \in Attempts :
    /\ pages[a] # {} => pc[a] \in {"page2", "judge", "detail"}
    /\ pc[a] \in {"page2", "judge"} => \A r \in pages[a] : r.read = tries[a]
    /\ \A r \in pages[a] : r.job \in listed[a]
    /\ pc[a] \in {"page2", "judge", "detail"} =>
         \A n \in Needs : Copied(a, n) => \E r \in pages[a] : r.job = n
    /\ pc[a] = "detail" =>
         /\ \E r \in pages[a] : r.job = "gate"
         /\ result[a]["gate"] = "success"

ProvenInv ==
  \A a \in Attempts : pc[a] \in {"validate", "publish", "published"} =>
    /\ left[a] > 0
    /\ \A j \in Jobs : Executed(a, j) /\ result[a][j] = "success"

(* What changed between the looks of a promotion still shows.              *)
PromotionInv ==
  /\ looked <= edition
  /\ promotion # "idle" => released # 0
  /\ promotion \in {"idle", "jobs2", "write", "promoted"} => ~touched
  /\ promotion \in BetweenLooks /\ touched => latest > released \/ edition > looked
  /\ promotion = "run2" /\ touched => latest > released

IInv ==
  /\ TypeOK
  /\ RecordsInv
  /\ GateInv
  /\ PagesInv
  /\ WholeAnswers
  /\ ProvenInv
  /\ PromotionInv

(***************************************************************************)
(* Types.                                                                  *)
(***************************************************************************)
Records == [job : Jobs, read : 0..(Tries - 1)]

(* The steps of GitHub and of people.                                      *)
LEMMA ActionsType ==
  ASSUME TypeOK, Actions
  PROVE  TypeOK'
<1> USE ExecutingAssumption DEF TypeOK, Attempts, Conclusions, promotionVars, waitVars
<1>1. ASSUME NEW j \in Jobs, NEW how \in {"success", "failure"}, RunJob(j, how)
      PROVE  TypeOK'
  <2>1. latest \in 0..MaxAttempts /\ how \in Conclusions
    OBVIOUS
  <2>2. ran[latest] \in [Jobs -> 0..MaxAttempts] /\ result[latest] \in [Jobs -> Conclusions]
    OBVIOUS
  <2>3. /\ [ran[latest] EXCEPT ![j] = latest] \in [Jobs -> 0..MaxAttempts]
        /\ [result[latest] EXCEPT ![j] = how] \in [Jobs -> Conclusions]
    BY <2>1, <2>2, Zenon
  <2>4. /\ ran' = [ran EXCEPT ![latest] = [ran[latest] EXCEPT ![j] = latest]]
        /\ result' = [result EXCEPT ![latest] = [result[latest] EXCEPT ![j] = how]]
    BY <1>1 DEF RunJob
  <2>5. UNCHANGED <<latest, listed, status, over, pc, waitVars, released, promotionVars>>
    BY <1>1 DEF RunJob
  <2>6. ran' \in [Attempts -> [Jobs -> 0..MaxAttempts]]
    BY <2>3, <2>4, Zenon
  <2>7. result' \in [Attempts -> [Jobs -> Conclusions]]
    BY <2>3, <2>4, Zenon
  <2>8. QED
    BY <2>5, <2>6, <2>7
<1>2. ASSUME NEW a \in Attempts, ShowRun(a) \/ \E j \in Jobs : ListJob(a, j)
      PROVE  TypeOK'
  <2>1. CASE ShowRun(a)
    BY <2>1 DEF ShowRun
  <2>2. CASE \E j \in Jobs : ListJob(a, j)
    <3>1. PICK j \in Jobs : ListJob(a, j)
      BY <2>2
    <3>2. listed[a] \cup {j} \in SUBSET Jobs
      OBVIOUS
    <3>3. listed' \in [Attempts -> SUBSET Jobs]
      BY <3>1, <3>2 DEF ListJob
    <3>4. QED
      BY <3>1, <3>3 DEF ListJob
  <2>3. QED
    BY <1>2, <2>1, <2>2
<1>3. ASSUME NEW how \in {"success", "failure"}, Conclude(how)
      PROVE  TypeOK'
  BY <1>3 DEF Conclude
<1>4. ASSUME NEW again \in SUBSET Needs, Rerun(again)
      PROVE  TypeOK'
  <2> DEFINE fresh == IF again = {} THEN {} ELSE again \cup {"gate"}
  <2>1. [j \in Jobs |-> IF j \in fresh THEN 0 ELSE ran[latest][j]] \in [Jobs -> 0..MaxAttempts]
    OBVIOUS
  <2>2. [j \in Jobs |-> IF j \in fresh THEN "none" ELSE result[latest][j]] \in [Jobs -> Conclusions]
    OBVIOUS
  <2>3. /\ latest' \in Attempts
        /\ ran' \in [Attempts -> [Jobs -> 0..MaxAttempts]]
        /\ result' \in [Attempts -> [Jobs -> Conclusions]]
        /\ listed' \in [Attempts -> SUBSET Jobs]
        /\ touched' \in BOOLEAN
    BY <1>4, <2>1, <2>2, Zenon DEF Rerun
  <2>4. QED
    BY <1>4, <2>3 DEF Rerun
<1>5. ASSUME EditRelease
      PROVE  TypeOK'
  BY <1>5 DEF EditRelease, runVars
<1>6. QED
  BY <1>1, <1>2, <1>3, <1>4, <1>5 DEF Actions

(* The steps of the publication jobs.                                      *)
LEMMA JobType ==
  ASSUME TypeOK, NEW a \in Attempts, Start(a) \/ PublicationJob(a) \/ Elapse(a)
  PROVE  TypeOK'
<1> DEFINE Places == {"absent", "publish"} \cup Waiting \cup Ended
<1> USE ExecutingAssumption DEF TypeOK, runVars, promotionVars
<1>1. Page(a, 1) \subseteq Records /\ Page(a, 2) \subseteq Records
  BY DEF Page, Records
<1>2. {"run", "page1", "page2", "judge", "detail", "sleep", "validate", "publish", "published", "failed"}
        \subseteq Places
  BY DEF Waiting, Reading, Ended
<1>3. /\ 0 \in 0..(Tries - 1) /\ 0 \in 0..Wait
      /\ tries[a] < Tries - 1 => tries[a] + 1 \in 0..(Tries - 1)
      /\ left[a] > 0 => left[a] - 1 \in 0..Wait
      /\ a \in 0..MaxAttempts
  BY DEF Attempts
<1>4. ASSUME NEW at, NEW next \in Places, Answered(a, at, next)
      PROVE  /\ pc' \in [Attempts -> Places]
             /\ tries' \in [Attempts -> 0..(Tries - 1)]
  BY <1>3, <1>4 DEF Answered
<1>5. ASSUME NEW at, NEW next \in Places, Answered(a, at, next),
             pages' \in [Attempts -> SUBSET Records]
      PROVE  TypeOK'
  BY <1>4, <1>5 DEF Answered, Records
<1>6. /\ [pages EXCEPT ![a] = {}] \in [Attempts -> SUBSET Records]
      /\ pages \in [Attempts -> SUBSET Records]
  BY DEF Records
<1>7. CASE Start(a)
  BY <1>2, <1>7 DEF Start, waitVars
<1>8. CASE ReadRun(a)
  BY <1>2, <1>5, <1>6, <1>8 DEF ReadRun
<1>9. CASE ReadPages(a)
  <2>1. PICK n \in {1, 2}, at \in Places, next \in Places : ReadPage(a, n, at, next)
    BY <1>2, <1>9 DEF ReadPages
  <2>2. pages[a] \cup Page(a, n) \in SUBSET Records
    BY <1>1, <1>6
  <2>3. pages' \in [Attempts -> SUBSET Records] /\ pc' \in [Attempts -> Places]
    BY <1>6, <2>1, <2>2 DEF ReadPage
  <2>4. QED
    BY <2>1, <2>3 DEF ReadPage, Records
<1>10. CASE LoseAnswer(a)
  <2>1. pages' \in [Attempts -> SUBSET Records] /\ pc' \in [Attempts -> Places]
    BY <1>2, <1>6, <1>10 DEF LoseAnswer
  <2>2. tries' \in [Attempts -> 0..(Tries - 1)]
    BY <1>3, <1>10 DEF LoseAnswer
  <2>3. QED
    BY <1>10, <2>1, <2>2 DEF LoseAnswer, Records
<1>11. CASE JudgeGate(a)
  <2>1. pages' \in [Attempts -> SUBSET Records]
    BY <1>6, <1>11 DEF JudgeGate
  <2>2. PICK next \in Places : Answered(a, "judge", next)
    BY <1>2, <1>11 DEF JudgeGate
  <2>3. QED
    BY <1>5, <2>1, <2>2
<1>12. CASE ReadDetail(a) \/ Validate(a) \/ Sleep(a)
  BY <1>2, <1>5, <1>6, <1>12 DEF ReadDetail, Validate, Sleep
<1>13. CASE Publish(a)
  BY <1>2, <1>3, <1>13 DEF Publish, waitVars
<1>14. CASE Fail(a)
  BY <1>2, <1>3, <1>6, <1>14 DEF Fail, Records
<1>15. CASE Elapse(a)
  BY <1>3, <1>15 DEF Elapse
<1>16. QED
  BY <1>7, <1>8, <1>9, <1>10, <1>11, <1>12, <1>13, <1>14, <1>15 DEF PublicationJob

LEMMA PromotionType ==
  ASSUME TypeOK, Promotion
  PROVE  TypeOK'
BY DEF TypeOK, Promotion, Look, ReadCandidate, LookAgain, Recheck, Promote, PromotionFails, Promotes,
       runVars, waitVars

LEMMA TypeStep ==
  ASSUME TypeOK, [Next]_vars
  PROVE  TypeOK'
<1>1. CASE Next
  BY <1>1, ActionsType, JobType, PromotionType DEF Next
<1>2. CASE UNCHANGED vars
  BY <1>2 DEF TypeOK, vars, runVars, waitVars, promotionVars
<1>3. QED
  BY <1>1, <1>2

(***************************************************************************)
(* What the steps change, record by record.                                *)
(***************************************************************************)
LEMMA RunJobFacts ==
  ASSUME TypeOK, NEW j \in Jobs, NEW how \in {"success", "failure"}, RunJob(j, how)
  PROVE  /\ UNCHANGED <<latest, listed, pc, waitVars, released, promotionVars>>
         /\ result[latest][j] = "none"
         /\ j = "gate" /\ how = "success" => \A n \in Needs : result[latest][n] = "success"
         /\ \A a \in Attempts, i \in Jobs :
              /\ ran'[a][i] = IF a = latest /\ i = j THEN latest ELSE ran[a][i]
              /\ result'[a][i] = IF a = latest /\ i = j THEN how ELSE result[a][i]
<1>1. /\ ran' = [ran EXCEPT ![latest] = [ran[latest] EXCEPT ![j] = latest]]
      /\ result' = [result EXCEPT ![latest] = [result[latest] EXCEPT ![j] = how]]
  BY DEF RunJob
<1>2. /\ ran \in [Attempts -> [Jobs -> 0..MaxAttempts]]
      /\ result \in [Attempts -> [Jobs -> Conclusions]]
      /\ latest \in Attempts
  BY DEF TypeOK
<1>3. \A a \in Attempts, i \in Jobs :
        /\ ran'[a][i] = IF a = latest /\ i = j THEN latest ELSE ran[a][i]
        /\ result'[a][i] = IF a = latest /\ i = j THEN how ELSE result[a][i]
  BY <1>1, <1>2
<1>4. QED
  BY <1>3 DEF RunJob

LEMMA RerunFacts ==
  ASSUME TypeOK, NEW again \in SUBSET Needs, Rerun(again)
  PROVE  \E fresh \in SUBSET Jobs :
         /\ latest' = latest + 1 /\ latest + 1 \in Attempts
         /\ fresh = {} \/ "gate" \in fresh
         /\ \A j \in Jobs \ fresh : result[latest][j] # "none"
         /\ \A i \in Jobs :
              /\ ran'[latest + 1][i] = IF i \in fresh THEN 0 ELSE ran[latest][i]
              /\ result'[latest + 1][i] = IF i \in fresh THEN "none" ELSE result[latest][i]
         /\ listed'[latest + 1] = Jobs \ fresh
         /\ \A a \in Attempts \ {latest + 1} :
              ran'[a] = ran[a] /\ result'[a] = result[a] /\ listed'[a] = listed[a]
         /\ touched' = (touched \/ promotion \in BetweenLooks \cup {"run2"})
         /\ UNCHANGED <<pc, waitVars, released, edition, promotion, looked>>
<1> DEFINE fresh == IF again = {} THEN {} ELSE again \cup {"gate"}
           next == latest + 1
           blank == [j \in Jobs |-> IF j \in fresh THEN 0 ELSE ran[latest][j]]
           none == [j \in Jobs |-> IF j \in fresh THEN "none" ELSE result[latest][j]]
<1>1. fresh \in SUBSET Jobs /\ (fresh = {} \/ "gate" \in fresh)
  BY DEF Jobs
<1>2. /\ next \in Attempts /\ latest' = next
      /\ ran' = [ran EXCEPT ![next] = blank]
      /\ result' = [result EXCEPT ![next] = none]
      /\ listed' = [listed EXCEPT ![next] = Jobs \ fresh]
      /\ \A j \in Jobs \ fresh : result[latest][j] # "none"
      /\ touched' = (touched \/ promotion \in BetweenLooks \cup {"run2"})
      /\ UNCHANGED <<pc, waitVars, released, edition, promotion, looked>>
  BY DEF Rerun
<1>3. DOMAIN ran = Attempts /\ DOMAIN result = Attempts /\ DOMAIN listed = Attempts
  BY DEF TypeOK
<1> HIDE DEF fresh
<1>4. /\ ran'[next] = blank /\ result'[next] = none /\ listed'[next] = Jobs \ fresh
      /\ \A a \in Attempts \ {next} :
           ran'[a] = ran[a] /\ result'[a] = result[a] /\ listed'[a] = listed[a]
  BY <1>2, <1>3
<1>5. \A i \in Jobs :
        /\ ran'[next][i] = IF i \in fresh THEN 0 ELSE ran[latest][i]
        /\ result'[next][i] = IF i \in fresh THEN "none" ELSE result[latest][i]
  BY <1>4
<1>6. QED
  BY <1>1, <1>2, <1>4, <1>5

(* A step of attempt a's job changes nothing of another attempt's.         *)
LEMMA JobFrame ==
  ASSUME TypeOK, NEW a \in Attempts, PublicationJob(a) \/ Elapse(a)
  PROVE  /\ UNCHANGED <<runVars, promotionVars>>
         /\ pc[a] # "absent"
         /\ released' = released \/ (released' = a /\ pc[a] = "publish" /\ released = 0)
         /\ \A b \in Attempts \ {a} :
              pc'[b] = pc[b] /\ left'[b] = left[b] /\ tries'[b] = tries[b] /\ pages'[b] = pages[b]
<1> USE DEF TypeOK
<1>1. CASE ReadRun(a)
  BY <1>1 DEF ReadRun, Answered
<1>2. CASE ReadPages(a)
  BY <1>2 DEF ReadPages, ReadPage
<1>3. CASE LoseAnswer(a)
  BY <1>3 DEF LoseAnswer, Reading
<1>4. CASE JudgeGate(a)
  <2>1. \E next : Answered(a, "judge", next)
    BY <1>4 DEF JudgeGate
  <2>2. \A b \in Attempts \ {a} : pages'[b] = pages[b]
    BY <1>4 DEF JudgeGate
  <2>3. QED
    BY <2>1, <2>2 DEF Answered
<1>5. CASE ReadDetail(a)
  BY <1>5 DEF ReadDetail, Answered
<1>6. CASE Sleep(a) \/ Validate(a)
  BY <1>6 DEF Sleep, Validate, Answered
<1>7. CASE Publish(a)
  BY <1>7 DEF Publish, waitVars
<1>8. CASE Fail(a)
  BY <1>8 DEF Fail, Waiting, Reading
<1>9. CASE Elapse(a)
  BY <1>9 DEF Elapse, Waiting, Reading
<1>10. QED
  BY <1>1, <1>2, <1>3, <1>4, <1>5, <1>6, <1>7, <1>8, <1>9 DEF PublicationJob

(***************************************************************************)
(* The parts of the invariant, one after the other.                        *)
(***************************************************************************)
LEMMA RecordsStep ==
  ASSUME IInv, [Next]_vars
  PROVE  RecordsInv'
<1> USE ExecutingAssumption
<1>a. TypeOK /\ RecordsInv /\ "gate" \in Jobs
  BY DEF IInv, Jobs
<1>0. TypeOK /\ RecordsInv /\ latest \in Nat /\ "gate" \in Jobs
  BY <1>a DEF TypeOK, Attempts
<1>1. ASSUME NEW j \in Jobs, NEW how \in {"success", "failure"}, RunJob(j, how)
      PROVE  RecordsInv'
  <2>1. /\ UNCHANGED <<latest, listed, pc, released>>
        /\ \A a \in Attempts, i \in Jobs :
             /\ ran'[a][i] = IF a = latest /\ i = j THEN latest ELSE ran[a][i]
             /\ result'[a][i] = IF a = latest /\ i = j THEN how ELSE result[a][i]
    BY <1>0, <1>1, RunJobFacts
  <2>2. latest \in Attempts /\ latest # 0
    BY <1>0 DEF TypeOK, Attempts
  <2>3. QED
    BY <1>0, <2>1, <2>2 DEF RecordsInv, Copied, Attempts
<1>2. ASSUME NEW a \in Attempts, NEW j \in Jobs, ListJob(a, j)
      PROVE  RecordsInv'
  <2>1. UNCHANGED <<latest, ran, result, pc, released>> /\ result[a][j] # "none"
    BY <1>2 DEF ListJob
  <2>2. /\ listed'[a] = listed[a] \cup {j}
        /\ \A b \in Attempts \ {a} : listed'[b] = listed[b]
    BY <1>0, <1>2 DEF ListJob, TypeOK
  <2>3. a <= latest
    BY <1>0, <2>1 DEF RecordsInv, Attempts
  <2>4. QED
    BY <1>0, <2>1, <2>2, <2>3 DEF RecordsInv, Copied, Attempts
<1>3. ASSUME NEW again \in SUBSET Needs, Rerun(again)
      PROVE  RecordsInv'
  <2>1. PICK fresh \in SUBSET Jobs :
         /\ latest' = latest + 1 /\ latest + 1 \in Attempts
         /\ \A j \in Jobs \ fresh : result[latest][j] # "none"
         /\ \A i \in Jobs :
              /\ ran'[latest + 1][i] = IF i \in fresh THEN 0 ELSE ran[latest][i]
              /\ result'[latest + 1][i] = IF i \in fresh THEN "none" ELSE result[latest][i]
         /\ listed'[latest + 1] = Jobs \ fresh
         /\ \A a \in Attempts \ {latest + 1} :
              ran'[a] = ran[a] /\ result'[a] = result[a] /\ listed'[a] = listed[a]
         /\ UNCHANGED <<pc, released>>
    BY <1>0, <1>3, RerunFacts
  <2>2. released' <= latest'
    BY <1>0, <2>1 DEF RecordsInv, TypeOK
  <2>3. ASSUME NEW a \in Attempts, a = latest + 1, NEW j \in Jobs
        PROVE  /\ ran'[a][j] <= a
               /\ result'[a][j] = "none" <=> ran'[a][j] = 0
               /\ Copied(a, j)' => j \in listed'[a]
               /\ j \in listed'[a] => result'[a][j] # "none"
    <3>1. ran[latest][j] \in Nat /\ ran[latest][j] <= latest
      BY <1>0 DEF RecordsInv, TypeOK, Attempts
    <3>2. QED
      BY <1>0, <2>1, <2>3, <3>1 DEF RecordsInv, Copied, TypeOK
  <2>4. ASSUME NEW a \in Attempts, a # latest + 1, NEW j \in Jobs
        PROVE  /\ ran'[a][j] <= a
               /\ result'[a][j] = "none" <=> ran'[a][j] = 0
               /\ Copied(a, j)' => j \in listed'[a]
               /\ j \in listed'[a] => result'[a][j] # "none"
    BY <1>0, <2>1, <2>4 DEF RecordsInv, Copied
  <2>5. ASSUME NEW a \in Attempts, a > latest'
        PROVE  listed'[a] = {} /\ pc'[a] = "absent" /\ \A j \in Jobs : ran'[a][j] = 0
    BY <1>0, <2>1, <2>5 DEF RecordsInv, Attempts
  <2>6. QED
    BY <2>2, <2>3, <2>4, <2>5 DEF RecordsInv
<1>4. ASSUME NEW a \in Attempts, Start(a) \/ PublicationJob(a) \/ Elapse(a)
      PROVE  RecordsInv'
  <2>1. UNCHANGED runVars /\ \A b \in Attempts \ {a} : pc'[b] = pc[b]
    BY <1>0, <1>4, JobFrame DEF Start, TypeOK
  <2>2. a <= latest
    BY <1>0, <1>4, JobFrame DEF Start, RecordsInv, Attempts
  <2>3. released' \in {released, a}
    BY <1>0, <1>4, JobFrame DEF Start
  <2>4. QED
    BY <1>0, <2>1, <2>2, <2>3 DEF RecordsInv, Copied, runVars, Attempts
<1>5. CASE \/ \E a \in Attempts : ShowRun(a)
           \/ \E how \in {"success", "failure"} : Conclude(how)
           \/ EditRelease
           \/ Promotion
           \/ UNCHANGED vars
  <2>1. UNCHANGED <<latest, ran, result, listed, pc, released>>
    BY <1>5 DEF ShowRun, Conclude, EditRelease, Promotion, Look, ReadCandidate, LookAgain, Recheck, Promote,
         PromotionFails, Promotes, vars, runVars
  <2>2. QED
    BY <1>0, <2>1 DEF RecordsInv, Copied
<1>6. QED
  BY <1>1, <1>2, <1>3, <1>4, <1>5 DEF Next, Actions

LEMMA GateStep ==
  ASSUME IInv, [Next]_vars
  PROVE  GateInv'
<1>0. TypeOK /\ RecordsInv /\ GateInv /\ "gate" \in Jobs /\ Needs \subseteq Jobs /\ "gate" \notin Needs
  BY DEF IInv, Jobs, Needs
<1>1. ASSUME NEW j \in Jobs, NEW how \in {"success", "failure"}, RunJob(j, how)
      PROVE  GateInv'
  BY <1>0, <1>1, RunJobFacts DEF GateInv, Executed, RecordsInv
<1>2. ASSUME NEW again \in SUBSET Needs, Rerun(again)
      PROVE  GateInv'
  <2>1. PICK fresh \in SUBSET Jobs :
         /\ latest' = latest + 1 /\ latest + 1 \in Attempts
         /\ \A i \in Jobs :
              /\ ran'[latest + 1][i] = IF i \in fresh THEN 0 ELSE ran[latest][i]
         /\ \A a \in Attempts \ {latest + 1} :
              ran'[a] = ran[a] /\ result'[a] = result[a] /\ listed'[a] = listed[a]
    BY <1>0, <1>2, RerunFacts
  <2>2. ran'[latest + 1]["gate"] # latest + 1
    BY <1>0, <2>1 DEF RecordsInv, TypeOK, Attempts
  <2>3. QED
    BY <1>0, <2>1, <2>2 DEF GateInv, Executed
<1>3. ASSUME UNCHANGED <<ran, result>>
      PROVE  GateInv'
  BY <1>0, <1>3 DEF GateInv, Executed
<1>4. ASSUME NEW a \in Attempts, Start(a) \/ PublicationJob(a) \/ Elapse(a)
      PROVE  UNCHANGED <<ran, result>>
  BY <1>0, <1>4, JobFrame DEF Start, runVars
<1>5. CASE \/ \E a \in Attempts : ShowRun(a) \/ \E j \in Jobs : ListJob(a, j)
           \/ \E how \in {"success", "failure"} : Conclude(how)
           \/ EditRelease
           \/ Promotion
           \/ UNCHANGED vars
  <2>1. UNCHANGED <<ran, result>>
    BY <1>5 DEF ShowRun, ListJob, Conclude, EditRelease, Promotion, Look, ReadCandidate, LookAgain, Recheck,
         Promote, PromotionFails, Promotes, vars, runVars
  <2>2. QED
    BY <1>3, <2>1
<1>6. QED
  BY <1>1, <1>2, <1>3, <1>4, <1>5 DEF Next, Actions

LEMMA PagesStep ==
  ASSUME IInv, [Next]_vars
  PROVE  PagesInv' /\ WholeAnswers'
<1> DEFINE Good(a) ==
      /\ pages[a] # {} => pc[a] \in {"page2", "judge", "detail"}
      /\ pc[a] \in {"page2", "judge"} => \A r \in pages[a] : r.read = tries[a]
      /\ \A r \in pages[a] : r.job \in listed[a]
      /\ pc[a] \in {"page2", "judge", "detail"} =>
           \A n \in Needs : Copied(a, n) => \E r \in pages[a] : r.job = n
      /\ pc[a] = "detail" =>
           /\ \E r \in pages[a] : r.job = "gate"
           /\ result[a]["gate"] = "success"
      /\ \A r, q \in pages[a] : r.read = q.read
<1>a. PagesInv /\ WholeAnswers <=> \A a \in Attempts : Good(a)
  BY DEF PagesInv, WholeAnswers
<1>b. PagesInv' /\ WholeAnswers' <=> \A a \in Attempts : Good(a)'
  BY DEF PagesInv, WholeAnswers
<1>0. /\ TypeOK /\ RecordsInv /\ \A a \in Attempts : Good(a)
      /\ Needs \subseteq Jobs /\ "gate" \in Jobs /\ "gate" \notin Needs
  BY <1>a DEF IInv, Jobs, Needs
<1>1. ASSUME NEW j \in Jobs, NEW how \in {"success", "failure"}, RunJob(j, how)
      PROVE  \A a \in Attempts : Good(a)'
  <2>1. /\ UNCHANGED <<pc, tries, pages, listed>>
        /\ result[latest][j] = "none"
        /\ \A a \in Attempts, i \in Jobs :
              /\ ran'[a][i] = IF a = latest /\ i = j THEN latest ELSE ran[a][i]
              /\ result'[a][i] = IF a = latest /\ i = j THEN how ELSE result[a][i]
    BY <1>0, <1>1, RunJobFacts DEF waitVars
  <2>2. QED
    BY <1>0, <2>1 DEF Copied, RecordsInv
<1>2. ASSUME NEW a \in Attempts, NEW j \in Jobs, ListJob(a, j)
      PROVE  \A b \in Attempts : Good(b)'
  <2>1. UNCHANGED <<ran, result, pc, tries, pages>>
    BY <1>2 DEF ListJob, waitVars
  <2>2. \A b \in Attempts : listed[b] \subseteq listed'[b]
    BY <1>0, <1>2 DEF ListJob, TypeOK
  <2>3. QED
    BY <1>0, <2>1, <2>2 DEF Copied
<1>3. ASSUME NEW again \in SUBSET Needs, Rerun(again)
      PROVE  \A a \in Attempts : Good(a)'
  <2>1. /\ latest + 1 \in Attempts
        /\ \A a \in Attempts \ {latest + 1} :
              ran'[a] = ran[a] /\ result'[a] = result[a] /\ listed'[a] = listed[a]
        /\ UNCHANGED <<pc, tries, pages>>
    BY <1>0, <1>3, RerunFacts DEF waitVars
  <2>2. pc[latest + 1] = "absent"
    BY <1>0, <2>1 DEF RecordsInv, TypeOK, Attempts
  <2>3. ASSUME NEW a \in Attempts, a = latest + 1 PROVE Good(a)'
    BY <1>0, <2>1, <2>2, <2>3
  <2>4. ASSUME NEW a \in Attempts, a # latest + 1 PROVE Good(a)'
    BY <1>0, <2>1, <2>4 DEF Copied
  <2>5. QED
    BY <2>3, <2>4
<1>4. ASSUME NEW a \in Attempts, Start(a) \/ PublicationJob(a) \/ Elapse(a)
      PROVE  \A b \in Attempts : Good(b)'
  <2>1. /\ UNCHANGED runVars
        /\ \A b \in Attempts \ {a} : pc'[b] = pc[b] /\ tries'[b] = tries[b] /\ pages'[b] = pages[b]
    BY <1>0, <1>4, JobFrame DEF Start, TypeOK, waitVars
  <2>2. \A b \in Attempts \ {a} : Good(b)'
    BY <1>0, <2>1 DEF Copied, runVars
  <2>3. Good(a)'
    <3> USE <1>0, <2>1 DEF TypeOK, runVars
    <3>1. CASE Start(a)
      BY <3>1 DEF Start, waitVars, Copied
    <3>2. CASE ReadRun(a)
      BY <3>2 DEF ReadRun, Answered
    <3>3. CASE ReadPage(a, 1, "page1", "page2")
      <4>a. pages[a] = {}
        BY <3>3 DEF ReadPage
      <4>b. pages'[a] = pages[a] \cup Page(a, 1) /\ pc'[a] = "page2" /\ tries'[a] = tries[a]
        BY <3>3 DEF ReadPage
      <4>1. pages'[a] = Page(a, 1) /\ pc'[a] = "page2" /\ tries'[a] = tries[a]
        BY <4>a, <4>b
      <4>2. \A r \in Page(a, 1) : r.read = tries[a] /\ r.job \in listed[a]
        BY DEF Page
      <4>3. ASSUME NEW n \in Needs, Copied(a, n) PROVE \E r \in Page(a, 1) : r.job = n
        <5>1. n \in Jobs /\ n \in listed[a]
          BY <4>3 DEF RecordsInv
        <5>2. PageOf[n] = 1
          BY <5>1 DEF PageOf
        <5>3. [job |-> n, read |-> tries[a]] \in Page(a, 1)
          BY <5>1, <5>2 DEF Page
        <5>4. QED
          BY <5>3
      <4>4. QED
        BY <4>1, <4>2, <4>3 DEF Copied
    <3>4. CASE ReadPage(a, 2, "page2", "judge")
      <4>1. pages'[a] = pages[a] \cup Page(a, 2) /\ pc'[a] = "judge" /\ tries'[a] = tries[a] /\ pc[a] = "page2"
        BY <3>4 DEF ReadPage
      <4>2. \A r \in Page(a, 2) : r.read = tries[a] /\ r.job \in listed[a]
        BY DEF Page
      <4>3. QED
        BY <4>1, <4>2 DEF Copied
    <3>5. CASE LoseAnswer(a)
      BY <3>5 DEF LoseAnswer, Reading, Copied
    <3>6. CASE JudgeGate(a)
      <4>1. CASE pc'[a] = "detail"
        <5>1. pages'[a] = pages[a] /\ Cardinality(Gates(a)) = 1 /\ result[a]["gate"] = "success" /\ pc[a] = "judge"
          BY <3>6, <4>1 DEF JudgeGate, Answered
        <5>2. Gates(a) # {}
          <6>1. SUFFICES ASSUME Gates(a) = {} PROVE FALSE
            OBVIOUS
          <6>2. Cardinality(Gates(a)) = 0
            BY <6>1, FS_EmptySet, Zenon
          <6>3. QED
            BY <5>1, <6>2
        <5>3. \E r \in pages[a] : r.job = "gate"
          BY <5>2 DEF Gates
        <5>4. QED
          BY <4>1, <5>1, <5>3 DEF Copied
      <4>2. CASE pc'[a] # "detail"
        <5>1. pages'[a] = {} /\ pc'[a] \in {"sleep", "validate"}
          BY <3>6, <4>2 DEF JudgeGate, Answered
        <5>2. QED
          BY <5>1
      <4>3. QED
        BY <4>1, <4>2
    <3>7. CASE ReadDetail(a)
      BY <3>7 DEF ReadDetail, Answered
    <3>8. CASE Sleep(a) \/ Validate(a)
      BY <3>8 DEF Sleep, Validate, Answered
    <3>9. CASE Publish(a)
      <4>1. pages[a] = {} /\ pages'[a] = pages[a] /\ pc'[a] = "published"
        BY <3>9 DEF Publish, waitVars
      <4>2. QED
        BY <4>1
    <3>10. CASE Fail(a)
      <4>1. pages'[a] = {} /\ pc'[a] = "failed"
        BY <3>10 DEF Fail
      <4>2. QED
        BY <4>1
    <3>11. CASE Elapse(a)
      BY <3>11 DEF Elapse, Copied
    <3>12. QED
      BY <1>4, <3>1, <3>2, <3>3, <3>4, <3>5, <3>6, <3>7, <3>8, <3>9, <3>10, <3>11 DEF PublicationJob, ReadPages
  <2>4. QED
    BY <2>2, <2>3
<1>5. CASE \/ \E a \in Attempts : ShowRun(a)
           \/ \E how \in {"success", "failure"} : Conclude(how)
           \/ EditRelease
           \/ Promotion
           \/ UNCHANGED vars
  <2>1. UNCHANGED <<ran, result, listed, pc, tries, pages>>
    BY <1>5 DEF ShowRun, Conclude, EditRelease, Promotion, Look, ReadCandidate, LookAgain, Recheck,
         Promote, PromotionFails, Promotes, vars, runVars, waitVars
  <2>2. ASSUME NEW a \in Attempts PROVE Good(a)'
    BY <1>0, <2>1, <2>2 DEF Copied
  <2>3. QED
    BY <1>b, <2>2
<1> HIDE DEF Good
<1>6. QED
  BY <1>b, <1>1, <1>2, <1>3, <1>4, <1>5 DEF Next, Actions

(* An attempt is proven where its job has passed the checks: a gate that   *)
(* is fresh ran in this attempt, and then so did its needs, for a copied   *)
(* one would have been on the list and not fresh.                          *)
LEMMA FreshIsProven ==
  ASSUME TypeOK, RecordsInv, GateInv, PagesInv, NEW a \in Attempts,
         pc[a] = "detail", Fresh(a, {r.job : r \in pages[a]})
  PROVE  \A j \in Jobs : Executed(a, j) /\ result[a][j] = "success"
<1>0. "gate" \in Jobs /\ Needs \subseteq Jobs /\ Jobs = Needs \cup {"gate"}
  BY DEF Jobs
<1>1. Executed(a, "gate") /\ result[a]["gate"] = "success"
  BY DEF PagesInv, Fresh, Executed
<1>2. ASSUME NEW n \in Needs
      PROVE  Executed(a, n) /\ result[a][n] = "success"
  <2>1. result[a][n] = "success"
    BY <1>1 DEF GateInv
  <2>2. ~Copied(a, n)
    <3>1. SUFFICES ASSUME Copied(a, n) PROVE FALSE
      OBVIOUS
    <3>2. PICK r \in pages[a] : r.job = n
      BY <3>1 DEF PagesInv
    <3>3. ran[a][n] = a
      BY <2>1, <3>2 DEF Fresh
    <3>4. QED
      BY <3>1, <3>3 DEF Copied
  <2>3. ran[a][n] # 0
    BY <1>0, <2>1 DEF RecordsInv
  <2>4. QED
    BY <2>1, <2>2, <2>3 DEF Copied, Executed
<1>3. QED
  BY <1>0, <1>1, <1>2

(* In the first attempt there is nothing to copy.                          *)
LEMMA FirstIsProven ==
  ASSUME TypeOK, RecordsInv, GateInv, 1 \in Attempts, result[1]["gate"] = "success"
  PROVE  \A j \in Jobs : Executed(1, j) /\ result[1][j] = "success"
<1>0. "gate" \in Jobs /\ Needs \subseteq Jobs /\ Jobs = Needs \cup {"gate"}
  BY DEF Jobs
<1>1. ASSUME NEW j \in Jobs, result[1][j] = "success"
      PROVE  Executed(1, j)
  <2>1. ran[1][j] # 0 /\ ran[1][j] <= 1
    BY <1>1 DEF RecordsInv
  <2>2. ran[1][j] \in Nat
    BY DEF TypeOK
  <2>3. QED
    BY <2>1, <2>2 DEF Executed
<1>2. \A n \in Needs : result[1][n] = "success"
  BY <1>0, <1>1 DEF GateInv
<1>3. QED
  BY <1>0, <1>1, <1>2

LEMMA ProvenStep ==
  ASSUME IInv, [Next]_vars
  PROVE  ProvenInv'
<1> DEFINE Proven(a) == pc[a] \in {"validate", "publish", "published"} =>
             /\ left[a] > 0
             /\ \A j \in Jobs : Executed(a, j) /\ result[a][j] = "success"
<1>b. ProvenInv' <=> \A a \in Attempts : Proven(a)'
  BY DEF ProvenInv
<1>0. /\ TypeOK /\ RecordsInv /\ GateInv /\ PagesInv /\ \A a \in Attempts : Proven(a)
  BY DEF IInv, ProvenInv
<1>1. ASSUME NEW j \in Jobs, NEW how \in {"success", "failure"}, RunJob(j, how)
      PROVE  \A a \in Attempts : Proven(a)'
  <2>1. /\ UNCHANGED <<pc, left>>
        /\ result[latest][j] = "none"
        /\ \A a \in Attempts, i \in Jobs :
              /\ ran'[a][i] = IF a = latest /\ i = j THEN latest ELSE ran[a][i]
              /\ result'[a][i] = IF a = latest /\ i = j THEN how ELSE result[a][i]
    BY <1>0, <1>1, RunJobFacts DEF waitVars
  <2>2. QED
    BY <1>0, <2>1 DEF Executed
<1>2. ASSUME NEW again \in SUBSET Needs, Rerun(again)
      PROVE  \A a \in Attempts : Proven(a)'
  <2>1. /\ latest + 1 \in Attempts
        /\ \A a \in Attempts \ {latest + 1} : ran'[a] = ran[a] /\ result'[a] = result[a]
        /\ UNCHANGED <<pc, left>>
    BY <1>0, <1>2, RerunFacts DEF waitVars
  <2>2. pc[latest + 1] = "absent"
    BY <1>0, <2>1 DEF RecordsInv, TypeOK, Attempts
  <2>3. ASSUME NEW a \in Attempts PROVE Proven(a)'
    BY <1>0, <2>1, <2>2 DEF Executed
  <2>4. QED
    BY <2>3
<1>3. ASSUME NEW a \in Attempts, Start(a) \/ PublicationJob(a) \/ Elapse(a)
      PROVE  \A b \in Attempts : Proven(b)'
  <2>1. /\ UNCHANGED <<ran, result>>
        /\ \A b \in Attempts \ {a} : pc'[b] = pc[b] /\ left'[b] = left[b]
    BY <1>0, <1>3, JobFrame DEF Start, TypeOK, waitVars, runVars
  <2>2. \A b \in Attempts \ {a} : Proven(b)'
    BY <1>0, <2>1 DEF Executed
  <2>3. Proven(a)'
    <3> DEFINE All == \A j \in Jobs : Executed(a, j) /\ result[a][j] = "success"
    <3>0. All' <=> All
      BY <2>1 DEF Executed
    <3>1. DOMAIN pc = Attempts /\ DOMAIN left = Attempts
      BY <1>0 DEF TypeOK
    <3> HIDE DEF All
    <3>2. (pc'[a] \in {"validate", "publish", "published"} => left'[a] > 0 /\ All) => Proven(a)'
      BY <3>0 DEF All
    <3>3. pc[a] \in {"validate", "publish", "published"} => left[a] > 0 /\ All
      BY <1>0 DEF All
    <3>4. CASE Start(a)
      BY <3>1, <3>2, <3>4 DEF Start
    <3>5. CASE ReadRun(a) \/ Sleep(a)
      BY <3>1, <3>2, <3>5 DEF ReadRun, Sleep, Answered
    <3>6. CASE ReadPages(a)
      BY <3>1, <3>2, <3>6 DEF ReadPages, ReadPage
    <3>7. CASE LoseAnswer(a)
      <4>1. left' = left /\ (pc'[a] = pc[a] \/ pc'[a] = "page1")
        BY <3>1, <3>7 DEF LoseAnswer
      <4>2. QED
        BY <3>2, <3>3, <4>1
    <3>8. CASE JudgeGate(a)
      <4>1. CASE pc'[a] \notin {"validate", "publish", "published"}
        BY <3>2, <4>1
      <4>2. CASE pc'[a] \in {"validate", "publish", "published"}
        <5>1. a = 1 /\ left[a] > 0 /\ result[a]["gate"] = "success" /\ left' = left
          BY <3>1, <3>8, <4>2 DEF JudgeGate, Answered, InTime
        <5>2. All
          BY <1>0, <5>1, FirstIsProven DEF All
        <5>3. QED
          BY <3>2, <5>1, <5>2
      <4>3. QED
        BY <4>1, <4>2
    <3>9. CASE ReadDetail(a)
      <4>1. pc[a] = "detail" /\ left[a] > 0 /\ left' = left /\ Fresh(a, {r.job : r \in pages[a]})
        BY <3>9 DEF ReadDetail, Answered, InTime
      <4>2. All
        BY <1>0, <4>1, FreshIsProven DEF All
      <4>3. QED
        BY <3>2, <4>1, <4>2
    <3>10. CASE Validate(a) \/ Publish(a)
      <4>1. left' = left /\ pc[a] \in {"validate", "publish"}
        BY <3>10 DEF Validate, Publish, Answered, waitVars
      <4>2. QED
        BY <3>2, <3>3, <4>1
    <3>11. CASE Fail(a)
      BY <3>1, <3>2, <3>11 DEF Fail
    <3>12. CASE Elapse(a)
      <4>1. pc' = pc /\ pc[a] \notin {"validate", "publish", "published"}
        BY <3>12 DEF Elapse, Waiting, Reading
      <4>2. QED
        BY <3>2, <4>1
    <3>13. QED
      BY <1>3, <3>4, <3>5, <3>6, <3>7, <3>8, <3>9, <3>10, <3>11, <3>12 DEF PublicationJob
  <2>4. QED
    BY <2>2, <2>3
<1>4. CASE \/ \E a \in Attempts : ShowRun(a) \/ \E j \in Jobs : ListJob(a, j)
           \/ \E how \in {"success", "failure"} : Conclude(how)
           \/ EditRelease
           \/ Promotion
           \/ UNCHANGED vars
  <2>1. UNCHANGED <<ran, result, pc, left>>
    BY <1>4 DEF ShowRun, ListJob, Conclude, EditRelease, Promotion, Look, ReadCandidate, LookAgain, Recheck,
         Promote, PromotionFails, Promotes, vars, runVars, waitVars
  <2>2. ASSUME NEW a \in Attempts PROVE Proven(a)'
    BY <1>0, <2>1, <2>2 DEF Executed
  <2>3. QED
    BY <1>b, <2>2
<1> HIDE DEF Proven
<1>5. QED
  BY <1>b, <1>1, <1>2, <1>3, <1>4 DEF Next, Actions

LEMMA PromotionStep ==
  ASSUME IInv, [Next]_vars
  PROVE  PromotionInv'
<1>a. TypeOK /\ PromotionInv /\ released <= latest
  BY DEF IInv, RecordsInv
<1>0. /\ PromotionInv /\ released <= latest
      /\ latest \in Nat /\ released \in Nat /\ edition \in Nat /\ looked \in Nat /\ touched \in BOOLEAN
  BY <1>a DEF TypeOK, Attempts
<1>1. ASSUME NEW again \in SUBSET Needs, Rerun(again)
      PROVE  PromotionInv'
  <2>1. /\ latest' = latest + 1
        /\ touched' = (touched \/ promotion \in BetweenLooks \cup {"run2"})
        /\ UNCHANGED <<released, edition, promotion, looked>>
    BY <1>a, <1>1, RerunFacts
  <2>2. QED
    BY <1>0, <2>1 DEF PromotionInv, BetweenLooks
<1>2. CASE EditRelease
  BY <1>0, <1>2 DEF EditRelease, PromotionInv, BetweenLooks, runVars
<1>3. ASSUME NEW a \in Attempts, Start(a) \/ PublicationJob(a) \/ Elapse(a)
      PROVE  PromotionInv'
  <2>1. /\ UNCHANGED <<latest, edition, promotion, looked, touched>>
        /\ released # 0 => released' = released
    BY <1>a, <1>3, JobFrame DEF Start, runVars, promotionVars
  <2>2. QED
    BY <1>0, <2>1 DEF PromotionInv, BetweenLooks
<1>4. CASE Promotion
  <2>1. UNCHANGED <<latest, released, edition, touched>>
    BY <1>4 DEF Promotion, Look, ReadCandidate, LookAgain, Recheck, Promote, PromotionFails, Promotes, runVars
  <2>2. CASE Look
    BY <1>0, <2>1, <2>2 DEF Look, Promotes, PromotionInv, BetweenLooks
  <2>3. CASE ReadCandidate
    BY <1>0, <2>1, <2>3 DEF ReadCandidate, Promotes, PromotionInv, BetweenLooks
  <2>4. CASE LookAgain
    BY <1>0, <2>1, <2>4 DEF LookAgain, Promotes, PromotionInv, BetweenLooks
  <2>5. CASE Recheck
    BY <1>0, <2>1, <2>5 DEF Recheck, RunQualifies, Promotes, PromotionInv, BetweenLooks
  <2>6. CASE Promote \/ PromotionFails
    BY <1>0, <2>1, <2>6 DEF Promote, PromotionFails, Promotes, PromotionInv, BetweenLooks
  <2>7. QED
    BY <1>4, <2>2, <2>3, <2>4, <2>5, <2>6 DEF Promotion
<1>5. CASE \/ \E j \in Jobs, how \in {"success", "failure"} : RunJob(j, how)
           \/ \E a \in Attempts : ShowRun(a) \/ \E j \in Jobs : ListJob(a, j)
           \/ \E how \in {"success", "failure"} : Conclude(how)
           \/ UNCHANGED vars
  <2>1. UNCHANGED <<latest, released, promotionVars>>
    BY <1>5 DEF RunJob, ShowRun, ListJob, Conclude, vars, runVars
  <2>2. QED
    BY <1>0, <2>1 DEF PromotionInv, BetweenLooks, promotionVars
<1>6. QED
  BY <1>1, <1>2, <1>3, <1>4, <1>5 DEF Next, Actions

LEMMA InitInv == Init => IInv
<1> SUFFICES ASSUME Init PROVE IInv
  OBVIOUS
<1> USE ExecutingAssumption
<1>1. 1 \in Attempts /\ 0 \in 0..(Tries - 1)
  BY DEF Attempts
<1>2. /\ ran \in [Attempts -> [Jobs -> 0..MaxAttempts]]
      /\ result \in [Attempts -> [Jobs -> Conclusions]]
      /\ listed \in [Attempts -> SUBSET Jobs]
      /\ pages \in [Attempts -> SUBSET [job : Jobs, read : 0..(Tries - 1)]]
  BY DEF Init, Conclusions
<1>3. /\ latest \in Attempts
      /\ status \in [Attempts -> {"queued", "in_progress", "completed"}]
      /\ over \in [Attempts -> Conclusions]
      /\ pc \in [Attempts -> {"absent", "publish"} \cup Waiting \cup Ended]
      /\ left \in [Attempts -> 0..Wait]
      /\ tries \in [Attempts -> 0..(Tries - 1)]
  BY <1>1 DEF Init, Conclusions
<1>4. /\ edition \in 0..MaxEdits /\ looked \in 0..MaxEdits /\ released \in 0..MaxAttempts
      /\ promotion = "idle" /\ touched = FALSE
  BY DEF Init
<1>5. TypeOK
  BY <1>2, <1>3, <1>4 DEF TypeOK
<1>6. RecordsInv
  BY <1>1 DEF Init, RecordsInv, Copied, Attempts
<1>7. GateInv /\ PagesInv /\ WholeAnswers /\ ProvenInv
  BY DEF Init, GateInv, PagesInv, WholeAnswers, ProvenInv, Executed, Jobs
<1>8. PromotionInv
  BY DEF Init, PromotionInv, BetweenLooks
<1>9. QED
  BY <1>5, <1>6, <1>7, <1>8 DEF IInv

(* IInv is an invariant of the run, its attempts and the promotion.        *)
THEOREM InvariantHolds == Spec => []IInv
<1>1. IInv /\ [Next]_vars => IInv'
  <2> SUFFICES ASSUME IInv, [Next]_vars PROVE IInv'
    OBVIOUS
  <2>1. TypeOK'
    BY TypeStep DEF IInv
  <2>2. QED
    BY <2>1, RecordsStep, GateStep, PagesStep, ProvenStep, PromotionStep DEF IInv
<1>2. QED
  BY InitInv, <1>1, PTL DEF Spec

(* Every variable keeps its type.                                          *)
THEOREM TypeCorrect == Spec => []TypeOK
<1>1. IInv => TypeOK
  BY DEF IInv
<1>2. QED
  BY <1>1, InvariantHolds, PTL

(* A job publishes only under an attempt that executed the gate and every  *)
(* check itself, with success, and knew so before its deadline, however    *)
(* often the run is rerun and however long the metadata lags               *)
(* (wait_for_executing_run, release_gate_ready).                           *)
THEOREM AttemptsAreProven == Spec => []AttemptProven
<1>1. IInv => AttemptProven
  BY DEF IInv, ProvenInv, AttemptProven, Executed
<1>2. QED
  BY <1>1, InvariantHolds, PTL

(* A job list is never put together from two answers (GitHub._read_get).   *)
THEOREM AnswersAreWhole == Spec => []WholeAnswers
<1>1. IInv => WholeAnswers
  BY DEF IInv
<1>2. QED
  BY <1>1, InvariantHolds, PTL

(* What is promoted was neither rerun nor edited between the two looks of  *)
(* promote.                                                                *)
THEOREM PromotedIsUntouched == Spec => []PromotedUntouched
<1>1. IInv => PromotedUntouched
  BY DEF IInv, PromotionInv, PromotedUntouched
<1>2. QED
  BY <1>1, InvariantHolds, PTL
================================================================================
