-------------------------- MODULE PrepareVersionProofs --------------------------
(***************************************************************************)
(* Proofs about PrepareVersion, for any number of runs, versions, commits  *)
(* and edits.                                                              *)
(***************************************************************************)
EXTENDS PrepareVersion, TLAPS

Commit == [past : SUBSET Nat, version : Versions, edits : SUBSET Nat]
Edits(c) == commits[c].edits

(* No commit is without an edit that one of its past has.                  *)
Growing == \A c \in Ids : \A b \in Past(c) : Edits(b) \subseteq Edits(c)

(* A topic that a run has checked and may push to has no edit that the     *)
(* default branch, as the run read it, is without.                         *)
NothingForeign ==
  \A p \in Preparers :
    pc[p] = "push" /\ job[p].found # None => Edits(job[p].found) \subseteq Edits(job[p].head)

IInv == TypeOK /\ Growing /\ NothingForeign

(***************************************************************************)
(* Commits.                                                                *)
(***************************************************************************)
CommitsType ==
  /\ commits \in Seq(Commit)
  /\ Len(commits) \in 1..MaxCommits
  /\ \A c \in Ids : Past(c) \subseteq 1..c /\ c \in Past(c)

LEMMA TypeParts ==
  TypeOK <=>
    /\ CommitsType
    /\ main \in Ids
    /\ topic \in [Versions -> Ids \union {None}]
    /\ requests \subseteq {v \in Versions : topic[v] # None}
    /\ tagged \subseteq Versions
    /\ touched \subseteq {v \in Versions : topic[v] # None}
    /\ pc \in [Preparers -> {"idle", "list", "topic", "push", "request", "done"}]
    /\ job \in [Preparers -> [head : Ids, target : Versions, listed : Ids \union {None},
                              found : Ids \union {None}]]
BY DEF TypeOK, CommitsType, Commit

LEMMA IdFacts ==
  ASSUME CommitsType
  PROVE  /\ Ids = 1..Len(commits) /\ Len(commits) \in Nat /\ None \notin Ids /\ NewId \notin Ids
         /\ 1 \in Ids /\ NewId \in Nat /\ NewId # None
         /\ \A c \in Ids : Past(c) \subseteq Ids /\ commits[c] \in Commit
<1>1. Ids = 1..Len(commits) /\ Len(commits) \in Nat /\ Len(commits) >= 1
  BY DEF CommitsType, Ids
<1>2. \A c \in Ids : commits[c] \in Commit
  BY <1>1 DEF CommitsType
<1>3. \A c \in Ids : Past(c) \subseteq Ids
  BY <1>1 DEF CommitsType
<1>4. QED
  BY <1>1, <1>2, <1>3 DEF None, NewId

(* A new commit leaves the others as they are, and every commit keeps what *)
(* it had if the new one has what its parents had.                         *)
LEMMA Grown ==
  ASSUME CommitsType, Growing, NEW parents \in SUBSET Ids, NEW tree \in [version : Versions, edits : SUBSET Nat],
         commits' = Append(commits, CommitOf(parents, tree)), Len(commits) < MaxCommits,
         \A c \in parents : Edits(c) \subseteq tree.edits
  PROVE  /\ CommitsType' /\ Growing'
         /\ Ids' = Ids \union {NewId}
         /\ \A c \in Ids : commits'[c] = commits[c]
         /\ commits'[NewId] = CommitOf(parents, tree)
<1> DEFINE new == CommitOf(parents, tree)
<1>1. /\ Ids = 1..Len(commits) /\ Len(commits) \in Nat /\ NewId \notin Ids /\ NewId \in Nat
      /\ \A c \in Ids : Past(c) \subseteq Ids /\ commits[c] \in Commit
      /\ NewId = Len(commits) + 1 /\ MaxCommits \in Nat
  BY IdFacts, PreparationAssumption DEF NewId
<1> DEFINE older == UNION {Past(c) : c \in parents}
<1>2. \A b \in older : \E c \in parents : b \in Past(c)
  OBVIOUS
<1>3. new.past = older \union {NewId} /\ new.version = tree.version /\ new.edits = tree.edits
  BY DEF CommitOf
<1> HIDE DEF older
<1>a. \A b \in older : b \in Ids
  BY <1>1, <1>2
<1>4. new \in Commit
  <2>1. new.past \in SUBSET Nat
    BY <1>1, <1>3, <1>a
  <2>2. new = [past |-> new.past, version |-> new.version, edits |-> new.edits]
    BY DEF CommitOf
  <2>3. new.version \in Versions /\ new.edits \in SUBSET Nat
    BY <1>3
  <2>4. QED
    BY <2>1, <2>2, <2>3 DEF Commit
<1> HIDE DEF new
<1>5. /\ commits' \in Seq(Commit) /\ Len(commits') = Len(commits) + 1
      /\ \A c \in 1..Len(commits) : commits'[c] = commits[c]
      /\ commits'[Len(commits) + 1] = new
      /\ DOMAIN commits' = 1..(Len(commits) + 1)
  <2>1. commits \in Seq(Commit) /\ commits' = Append(commits, new)
    BY DEF CommitsType, new
  <2>2. QED
    BY <1>4, <2>1
<1>6. Ids' = Ids \union {NewId}
  BY <1>1, <1>5 DEF Ids
<1>7. \A c \in Ids : commits'[c] = commits[c]
  BY <1>1, <1>5
<1>8. commits'[NewId] = new
  BY <1>1, <1>5
<1>9. CommitsType'
  <2>1. \A c \in Ids' : commits'[c].past \subseteq 1..c /\ c \in commits'[c].past
    <3>1. \A c \in Ids : commits'[c].past \subseteq 1..c /\ c \in commits'[c].past
      BY <1>7 DEF CommitsType, Past
    <3>2. new.past \subseteq 1..NewId /\ NewId \in new.past
      BY <1>1, <1>3, <1>a
    <3>3. QED
      BY <1>6, <1>8, <3>1, <3>2
  <2>2. Len(commits') \in 1..MaxCommits
    BY <1>1, <1>5
  <2>3. QED
    BY <1>5, <2>1, <2>2 DEF CommitsType, Past
<1>10. Growing'
  <2>1. ASSUME NEW c \in Ids, NEW b \in Past(c) PROVE commits'[b].edits \subseteq commits'[c].edits
    BY <1>1, <1>7, <2>1 DEF Growing, Edits
  <2>2. ASSUME NEW b \in new.past PROVE commits'[b].edits \subseteq commits'[NewId].edits
    <3>1. CASE b = NewId
      BY <3>1
    <3>2. CASE b # NewId
      <4>1. PICK c \in parents : b \in Past(c)
        BY <1>2, <1>3, <2>2, <3>2
      <4>2. Edits(b) \subseteq tree.edits /\ b \in Ids
        BY <1>1, <4>1 DEF Growing
      <4>3. QED
        BY <1>3, <1>7, <1>8, <4>2 DEF Edits
    <3>3. QED
      BY <3>1, <3>2
  <2>3. \A c \in Ids' : \A b \in commits'[c].past : commits'[b].edits \subseteq commits'[c].edits
    BY <1>6, <1>7, <1>8, <2>1, <2>2 DEF Past
  <2>4. QED
    BY <2>3 DEF Growing, Past, Edits
<1>11. QED
  BY <1>6, <1>7, <1>8, <1>9, <1>10 DEF new

(***************************************************************************)
(* Steps.                                                                  *)
(***************************************************************************)
Places == {"idle", "list", "topic", "push", "request", "done"}
Job == [head : Ids, target : Versions, listed : Ids \union {None}, found : Ids \union {None}]
TreeType == [version : Versions, edits : SUBSET Nat]

LEMMA FirstFacts == First \in Versions
BY PreparationAssumption DEF First

LEMMA JobFacts ==
  ASSUME TypeOK
  PROVE  /\ CommitsType /\ main \in Ids /\ topic \in [Versions -> Ids \union {None}]
         /\ pc \in [Preparers -> Places] /\ job \in [Preparers -> Job]
         /\ NoJob \in Job
         /\ [NoJob EXCEPT !.head = main] \in Job
         /\ \A c \in Ids : Tree(c) \in TreeType
<1>1. CommitsType /\ main \in Ids /\ topic \in [Versions -> Ids \union {None}]
      /\ pc \in [Preparers -> Places] /\ job \in [Preparers -> Job]
  BY TypeParts DEF Places, Job
<1>2. NoJob \in Job /\ [NoJob EXCEPT !.head = main] \in Job
  BY <1>1, FirstFacts, IdFacts DEF NoJob, Job
<1>3. \A c \in Ids : Tree(c) \in TreeType
  BY <1>1, IdFacts DEF Tree, TreeType, Commit
<1>4. QED
  BY <1>1, <1>2, <1>3

(* The invariant after a step that keeps the commits and puts no run       *)
(* before a push that was not there.                                       *)
LEMMA Keeps ==
  ASSUME IInv, CommitsType', Growing', Ids \subseteq Ids', \A c \in Ids : commits'[c] = commits[c],
         main' \in Ids', topic' \in [Versions -> Ids' \union {None}],
         requests' \subseteq {v \in Versions : topic'[v] # None}, tagged' \subseteq Versions,
         touched' \subseteq {v \in Versions : topic'[v] # None},
         pc' \in [Preparers -> Places], job' \in [Preparers -> Job'],
         \A p \in Preparers : pc'[p] = "push" => pc[p] = "push" /\ job'[p] = job[p]
  PROVE  IInv'
<1>1. TypeOK'
  BY DEF TypeOK, CommitsType, Commit, Job, Places
<1>2. NothingForeign'
  <2>1. SUFFICES ASSUME NEW p \in Preparers, pc'[p] = "push", job[p].found # None
                 PROVE  commits'[job[p].found].edits \subseteq commits'[job[p].head].edits
    BY DEF NothingForeign, Edits
  <2>2. job[p].found \in Ids /\ job[p].head \in Ids
    BY <2>1, JobFacts DEF IInv, Job
  <2>3. QED
    BY <2>1, <2>2 DEF IInv, NothingForeign, Edits
<1>3. QED
  BY <1>1, <1>2 DEF IInv

LEMMA SameCommits ==
  ASSUME IInv, commits' = commits
  PROVE  /\ CommitsType' /\ Growing' /\ Ids' = Ids /\ Job' = Job
         /\ \A c \in Ids : commits'[c] = commits[c]
BY JobFacts DEF IInv, CommitsType, Growing, Ids, Job, Past, Edits

(* A run moves on with what it has read, and the remote stays as it is.    *)
LEMMA LocalStep ==
  ASSUME IInv, NEW p \in Preparers, NEW place \in Places, NEW j \in Job,
         Goto(p, place), job' = [job EXCEPT ![p] = j], UNCHANGED remoteVars, place # "push"
  PROVE  IInv'
<1>1. TypeOK /\ UNCHANGED <<commits, main, topic, requests, tagged, touched>>
  BY DEF IInv, remoteVars
<1>2. pc' \in [Preparers -> Places] /\ job' \in [Preparers -> Job]
  BY <1>1, JobFacts DEF Goto
<1>3. \A q \in Preparers : pc'[q] = "push" => pc[q] = "push" /\ job'[q] = job[q]
  BY <1>1, JobFacts DEF Goto
<1>4. QED
  BY <1>1, <1>2, <1>3, SameCommits, Keeps DEF TypeOK

LEMMA ReadTopicStep ==
  ASSUME IInv, NEW p \in Preparers, ReadTopic(p)
  PROVE  IInv'
<1>1. TypeOK /\ UNCHANGED <<commits, main, topic, requests, tagged, touched>> /\ Growing
  BY DEF IInv, ReadTopic, remoteVars
<1> DEFINE found == topic[job[p].target]
           j == [job[p] EXCEPT !.found = found]
<1>2. job[p] \in Job /\ found \in Ids \union {None}
  BY <1>1, JobFacts DEF Job
<1>3. j \in Job /\ j.found = found /\ j.head = job[p].head /\ j.head \in Ids
  BY <1>2 DEF Job
<1>4. job' = [job EXCEPT ![p] = j] /\ pc' = [pc EXCEPT ![p] = "push"]
  BY DEF ReadTopic, Goto
<1>5. found # None => Edits(found) \subseteq Edits(job[p].head)
  <2>1. SUFFICES ASSUME found # None PROVE Edits(found) \subseteq Edits(job[p].head)
    OBVIOUS
  <2>2. OwnedTopic(found, job[p].head, job[p].target)
    BY <2>1 DEF ReadTopic
  <2>3. PICK b \in MergeBases(found, job[p].head) : OwnedFrom(b, found, job[p].target)
    BY <2>2 DEF OwnedTopic
  <2>4. b \in Past(job[p].head) /\ Edits(found) = Edits(b)
    BY <2>3 DEF MergeBases, OwnedFrom, Tree, Edits
  <2>5. QED
    BY <1>1, <1>3, <2>4 DEF Growing
<1> HIDE DEF j, found
<1>6. pc' \in [Preparers -> Places] /\ job' \in [Preparers -> Job']
  BY <1>1, <1>3, <1>4, JobFacts, SameCommits DEF Places
<1>7. TypeOK'
  BY <1>1, <1>6, SameCommits DEF TypeOK, CommitsType, Commit, Job, Places
<1>8. NothingForeign'
  <2>1. ASSUME NEW q \in Preparers, pc'[q] = "push", job'[q].found # None
        PROVE  commits[job'[q].found].edits \subseteq commits[job'[q].head].edits
    <3>1. CASE q = p
      <4>1. job'[q] = j
        BY <1>1, <1>4, <3>1, JobFacts
      <4>2. QED
        BY <1>3, <1>5, <2>1, <4>1 DEF Edits
    <3>2. CASE q # p
      BY <1>1, <1>4, <2>1, <3>2, JobFacts DEF IInv, NothingForeign, Edits
    <3>3. QED
      BY <3>1, <3>2
  <2>2. QED
    BY <1>1, <2>1 DEF NothingForeign, Edits
<1>9. QED
  BY <1>1, <1>7, <1>8, SameCommits DEF IInv

(***************************************************************************)
(* What every step does: nothing is lost, and a branch that gets another   *)
(* head has its old one in the past of the new.                            *)
(***************************************************************************)
Forward ==
  /\ main' = main \/ main \in commits'[main'].past
  /\ \A v \in Versions :
       topic[v] # None /\ topic'[v] # topic[v] /\ topic'[v] # None => topic[v] \in commits'[topic'[v]].past
  /\ main' \in Ids' /\ \A c \in Ids : commits'[c] = commits[c]

LEMMA PushStep ==
  ASSUME IInv, NEW p \in Preparers, Push(p)
  PROVE  IInv' /\ Forward
<1> DEFINE v == job[p].target
<1>1. TypeOK /\ Growing /\ UNCHANGED <<main, requests, tagged, touched>> /\ pc[p] = "push"
  BY DEF IInv, Push
<1>2. /\ job[p] \in Job /\ job[p].head \in Ids /\ job[p].found \in Ids \union {None} /\ v \in Versions
      /\ main \in Ids /\ topic \in [Versions -> Ids \union {None}]
      /\ pc \in [Preparers -> Places] /\ job \in [Preparers -> Job] /\ NoJob \in Job /\ CommitsType
  BY <1>1, JobFacts DEF Job
<1>3. NewId \notin Ids /\ None \notin Ids /\ NewId # None
  BY <1>2, IdFacts
<1>4. /\ pc' \in [Preparers -> Places] /\ job' \in [Preparers -> [head : Ids, target : Versions,
                                              listed : Ids \union {None}, found : Ids \union {None, NewId}]]
      /\ \A q \in Preparers : pc'[q] = "push" => pc[q] = "push" /\ job'[q] = job[q]
  <2>1. pc' \in [Preparers -> Places] /\ pc'[p] # "push" /\ \A q \in Preparers : q # p => pc'[q] = pc[q]
    BY <1>2 DEF Push, Goto, End, Places
  <2>2. \A q \in Preparers : q # p => job'[q] = job[q]
    BY <1>2 DEF Push, End
  <2>3. job' \in [Preparers -> [head : Ids, target : Versions,
                                listed : Ids \union {None}, found : Ids \union {None, NewId}]]
    <3>1. CASE End(p)
      BY <1>2, <3>1 DEF End, Job
    <3>2. CASE job' = [job EXCEPT ![p] = [job[p] EXCEPT !.found = IF Updated(p) THEN NewId ELSE job[p].found]]
      BY <1>2, <3>2 DEF Job
    <3>3. QED
      BY <3>1, <3>2 DEF Push
  <2>4. QED
    BY <2>1, <2>2, <2>3
<1>5. CASE ~Updated(p)
  <2>1. UNCHANGED <<commits, topic>>
    BY <1>5 DEF Push
  <2>2. job' \in [Preparers -> Job]
    <3>1. CASE End(p)
      BY <1>2, <3>1 DEF End
    <3>2. CASE job' = [job EXCEPT ![p] = [job[p] EXCEPT !.found = IF Updated(p) THEN NewId ELSE job[p].found]]
      BY <1>2, <1>5, <3>2 DEF Job
    <3>3. QED
      BY <3>1, <3>2 DEF Push
  <2>3. IInv'
    BY <1>1, <1>4, <2>1, <2>2, SameCommits, Keeps DEF TypeOK
  <2>4. QED
    BY <1>1, <1>2, <2>1, <2>3 DEF Forward, Ids
<1>6. CASE Updated(p)
  <2>1. /\ Len(commits) < MaxCommits
        /\ topic[v] # None => topic[v] \in CommitOf(Parents(p), Projection(p)).past
        /\ commits' = Append(commits, CommitOf(Parents(p), Projection(p)))
        /\ topic' = [topic EXCEPT ![v] = NewId]
    BY <1>6 DEF Push
  <2>2. Parents(p) \in SUBSET Ids
    BY <1>2 DEF Parents
  <2>3. Projection(p) \in TreeType /\ Projection(p).edits = Edits(job[p].head)
    BY <1>2, IdFacts DEF Projection, TreeType, Commit, Edits
  <2>4. \A c \in Parents(p) : Edits(c) \subseteq Projection(p).edits
    BY <1>1, <2>3 DEF Parents, IInv, NothingForeign
  <2>5. /\ CommitsType' /\ Growing' /\ Ids' = Ids \union {NewId}
        /\ \A c \in Ids : commits'[c] = commits[c]
        /\ commits'[NewId] = CommitOf(Parents(p), Projection(p))
    BY <1>1, <1>2, <2>1, <2>2, <2>3, <2>4, Grown DEF TreeType
  <2>6. job' \in [Preparers -> Job']
    BY <1>4, <2>5 DEF Job
  <2>7. topic' \in [Versions -> Ids' \union {None}] /\ \A w \in Versions : topic[w] # None => topic'[w] # None
    BY <1>2, <1>3, <2>1, <2>5
  <2>8. requests' \subseteq {w \in Versions : topic'[w] # None} /\ touched' \subseteq {w \in Versions : topic'[w] # None}
    BY <1>1, <2>7 DEF TypeOK
  <2>9. IInv'
    BY <1>1, <1>2, <1>4, <2>5, <2>6, <2>7, <2>8, Keeps DEF TypeOK
  <2>10. \A w \in Versions : topic'[w] # topic[w] => w = v /\ topic'[w] = NewId
    BY <1>2, <2>1
  <2>11. QED
    BY <1>1, <1>2, <2>1, <2>5, <2>9, <2>10 DEF Forward
<1>7. QED
  BY <1>5, <1>6

LEMMA PrepareStep ==
  ASSUME IInv, NEW p \in Preparers, Prepare(p)
  PROVE  IInv' /\ Forward
<1>1. /\ TypeOK /\ CommitsType /\ main \in Ids /\ topic \in [Versions -> Ids \union {None}]
      /\ pc \in [Preparers -> Places] /\ job \in [Preparers -> Job] /\ job[p] \in Job
      /\ NoJob \in Job /\ [NoJob EXCEPT !.head = main] \in Job
  BY JobFacts DEF IInv
<1>2. CASE Push(p)
  BY <1>2, PushStep
<1>3. ~Push(p) => UNCHANGED <<commits, main, topic>>
  BY DEF Prepare, Start, ListRequests, ReadTopic, Unchanged, OpenRequest, Stop, remoteVars
<1>4. ASSUME Start(p) PROVE IInv'
  <2>1. PICK v \in Choosable(commits[main].version) :
          job' = [job EXCEPT ![p] = [NoJob EXCEPT !.head = main, !.target = v]]
    BY <1>4 DEF Start
  <2>2. [NoJob EXCEPT !.head = main, !.target = v] \in Job
    BY <1>1, <2>1 DEF Job, NoJob, Choosable
  <2>3. Goto(p, "list") /\ UNCHANGED remoteVars /\ "list" \in Places
    BY <1>4 DEF Start, Places
  <2>4. QED
    BY <2>1, <2>2, <2>3, LocalStep
<1>5. ASSUME ListRequests(p) PROVE IInv'
  <2>1. job' = [job EXCEPT ![p] = [job[p] EXCEPT !.listed =
                  IF job[p].target \in requests THEN topic[job[p].target] ELSE None]]
    BY <1>5 DEF ListRequests
  <2>2. job[p].target \in Versions /\ topic[job[p].target] \in Ids \union {None}
    BY <1>1 DEF Job
  <2>3. [job[p] EXCEPT !.listed = IF job[p].target \in requests THEN topic[job[p].target] ELSE None] \in Job
    BY <1>1, <2>2 DEF Job
  <2>4. Goto(p, "topic") /\ UNCHANGED remoteVars /\ "topic" \in Places
    BY <1>5 DEF ListRequests, Places
  <2>5. QED
    BY <2>1, <2>3, <2>4, LocalStep
<1>6. ASSUME ReadTopic(p) PROVE IInv'
  BY <1>6, ReadTopicStep
<1>7. ASSUME Unchanged(p) \/ Stop(p) PROVE IInv'
  BY <1>1, <1>7, LocalStep DEF Unchanged, Stop, End, Places
<1>8. ASSUME OpenRequest(p) PROVE IInv'
  <2>1. /\ UNCHANGED <<commits, main, topic, tagged, touched>>
        /\ requests' = requests \union {job[p].target} /\ topic[job[p].target] # None
        /\ job[p].target \in Versions
    BY <1>1, <1>8 DEF OpenRequest, Job
  <2>2. requests' \subseteq {v \in Versions : topic[v] # None}
    BY <1>1, <2>1 DEF TypeOK
  <2>3. pc' \in [Preparers -> Places] /\ job' \in [Preparers -> Job]
    BY <1>1, <1>8 DEF OpenRequest, Goto, End, Places
  <2>4. \A q \in Preparers : pc'[q] = "push" => pc[q] = "push" /\ job'[q] = job[q]
    BY <1>1, <1>8 DEF OpenRequest, Goto, End
  <2>5. QED
    BY <1>1, <2>1, <2>2, <2>3, <2>4, SameCommits, Keeps DEF TypeOK
<1>9. IInv'
  BY <1>2, <1>4, <1>5, <1>6, <1>7, <1>8 DEF Prepare
<1>10. ~Push(p) => Forward
  BY <1>1, <1>3 DEF Forward, Ids
<1>11. QED
  BY <1>2, <1>9, <1>10

(* What a merge takes from either side is there already or stays.          *)
LEMMA MergedKeeps ==
  ASSUME CommitsType, Growing, NEW c \in Ids, NEW d \in Ids, NEW b \in MergeBases(c, d)
  PROVE  /\ Merged(b, c, d) \in TreeType
         /\ Edits(c) \subseteq Merged(b, c, d).edits /\ Edits(d) \subseteq Merged(b, c, d).edits
<1>1. b \in Past(c) /\ b \in Past(d)
  BY DEF MergeBases
<1>2. Edits(b) \subseteq Edits(c) /\ Edits(b) \subseteq Edits(d)
  BY <1>1 DEF Growing
<1>3. commits[c].version \in Versions /\ commits[d].version \in Versions
      /\ Edits(c) \subseteq Nat /\ Edits(d) \subseteq Nat
  BY IdFacts DEF Commit, Edits
<1>4. QED
  BY <1>2, <1>3 DEF Merged, TreeType, Edits

LEMMA OthersStep ==
  ASSUME IInv, Others
  PROVE  IInv' /\ Forward
<1>1. /\ TypeOK /\ Growing /\ CommitsType /\ main \in Ids /\ topic \in [Versions -> Ids \union {None}]
      /\ pc \in [Preparers -> Places] /\ job \in [Preparers -> Job]
      /\ requests \subseteq {v \in Versions : topic[v] # None}
      /\ touched \subseteq {v \in Versions : topic[v] # None} /\ tagged \subseteq Versions
      /\ NewId \notin Ids /\ NewId # None /\ NewId \in Nat /\ None \notin Ids
      /\ UNCHANGED <<pc, job>>
  BY JobFacts, IdFacts DEF IInv, TypeOK, Others, CommitMain, CommitTopic, DeleteTopic, MergeRequest,
                           CloseRequest, ReleaseStable
<1>2. ASSUME NEW c \in Ids
      PROVE  /\ [Tree(c) EXCEPT !.edits = @ \union {NewId}] \in TreeType
             /\ Edits(c) \subseteq [Tree(c) EXCEPT !.edits = @ \union {NewId}].edits
  BY <1>1, JobFacts DEF Tree, TreeType, Edits
<1>3. ASSUME NEW parents \in SUBSET Ids, NEW tree \in TreeType, \A c \in parents : Edits(c) \subseteq tree.edits,
             commits' = Append(commits, CommitOf(parents, tree)), Len(commits) < MaxCommits
      PROVE  /\ CommitsType' /\ Growing' /\ Ids' = Ids \union {NewId} /\ job' \in [Preparers -> Job']
             /\ \A c \in Ids : commits'[c] = commits[c]
             /\ \A c \in parents : c \in commits'[NewId].past
  <2>1. /\ CommitsType' /\ Growing' /\ Ids' = Ids \union {NewId}
        /\ \A c \in Ids : commits'[c] = commits[c]
        /\ commits'[NewId] = CommitOf(parents, tree)
    BY <1>1, <1>3, Grown DEF TreeType
  <2>2. job' \in [Preparers -> Job']
    BY <1>1, <2>1 DEF Job
  <2>3. ASSUME NEW c \in parents PROVE c \in commits'[NewId].past
    <3>1. c \in Past(c)
      BY <1>1, <2>3 DEF CommitsType
    <3>2. QED
      BY <2>1, <2>3, <3>1 DEF CommitOf
  <2>4. QED
    BY <2>1, <2>2, <2>3
<1>4. CASE CommitMain
  <2> DEFINE tree == [Tree(main) EXCEPT !.edits = @ \union {NewId}]
  <2>a. tree \in TreeType /\ Edits(main) \subseteq tree.edits
    BY <1>1, <1>2
  <2>b. commits' = Append(commits, CommitOf({main}, tree)) /\ Len(commits) < MaxCommits
    BY <1>4 DEF CommitMain, MayEdit
  <2> HIDE DEF tree
  <2>c. {main} \in SUBSET Ids /\ \A c \in {main} : Edits(c) \subseteq tree.edits
    BY <1>1, <2>a
  <2>1. /\ CommitsType' /\ Growing' /\ Ids' = Ids \union {NewId} /\ job' \in [Preparers -> Job']
        /\ \A c \in Ids : commits'[c] = commits[c]
        /\ main \in commits'[NewId].past
    BY <1>3, <2>a, <2>b, <2>c
  <2>2. main' = NewId /\ UNCHANGED <<topic, requests, tagged, touched>>
    BY <1>4 DEF CommitMain
  <2>3. IInv'
    BY <1>1, <2>1, <2>2, Keeps
  <2>4. QED
    BY <2>1, <2>2, <2>3 DEF Forward
<1>5. ASSUME NEW v \in Versions, CommitTopic(v) PROVE IInv' /\ Forward
  <2> DEFINE from == IF topic[v] = None THEN main ELSE topic[v]
             tree == [Tree(from) EXCEPT !.edits = @ \union {NewId}]
  <2>1. /\ commits' = Append(commits, CommitOf({from}, tree))
        /\ topic' = [topic EXCEPT ![v] = NewId] /\ touched' = touched \union {v}
        /\ UNCHANGED <<main, requests, tagged>> /\ Len(commits) < MaxCommits
    BY <1>5 DEF CommitTopic, MayEdit
  <2>2. from \in Ids /\ (topic[v] # None => from = topic[v])
    BY <1>1
  <2> HIDE DEF from
  <2>a. tree \in TreeType /\ Edits(from) \subseteq tree.edits
    BY <1>2, <2>2
  <2> HIDE DEF tree
  <2>b. {from} \in SUBSET Ids /\ \A c \in {from} : Edits(c) \subseteq tree.edits
    BY <2>2, <2>a
  <2>3. /\ CommitsType' /\ Growing' /\ Ids' = Ids \union {NewId} /\ job' \in [Preparers -> Job']
        /\ \A c \in Ids : commits'[c] = commits[c]
        /\ from \in commits'[NewId].past
    BY <1>3, <2>1, <2>a, <2>b
  <2>4. topic' \in [Versions -> Ids' \union {None}] /\ topic'[v] = NewId /\ \A w \in Versions : w # v => topic'[w] = topic[w]
    BY <1>1, <2>1, <2>3
  <2>5. requests' \subseteq {w \in Versions : topic'[w] # None} /\ touched' \subseteq {w \in Versions : topic'[w] # None}
    BY <1>1, <2>1, <2>4
  <2>6. IInv'
    BY <1>1, <2>1, <2>3, <2>4, <2>5, Keeps
  <2>7. QED
    BY <1>1, <2>1, <2>2, <2>3, <2>4, <2>6 DEF Forward
<1>6. ASSUME NEW v \in Versions, DeleteTopic(v) PROVE IInv' /\ Forward
  <2>1. /\ topic' = [topic EXCEPT ![v] = None] /\ requests' = requests \ {v} /\ touched' = touched \ {v}
        /\ UNCHANGED <<commits, main, tagged>>
    BY <1>6 DEF DeleteTopic
  <2>2. topic' \in [Versions -> Ids \union {None}] /\ topic'[v] = None /\ \A w \in Versions : w # v => topic'[w] = topic[w]
    BY <1>1, <2>1
  <2>3. requests' \subseteq {w \in Versions : topic'[w] # None} /\ touched' \subseteq {w \in Versions : topic'[w] # None}
    BY <1>1, <2>1, <2>2
  <2>4. IInv'
    BY <1>1, <2>1, <2>2, <2>3, SameCommits, Keeps
  <2>5. QED
    BY <1>1, <2>1, <2>2, <2>4 DEF Forward, Ids
<1>7. ASSUME NEW v \in Versions, MergeRequest(v) PROVE IInv' /\ Forward
  <2>1. topic[v] \in Ids
    BY <1>1, <1>7 DEF MergeRequest
  <2>2. PICK b \in MergeBases(main, topic[v]), squash \in BOOLEAN :
          commits' = Append(commits, CommitOf(IF squash THEN {main} ELSE {main, topic[v]}, Merged(b, main, topic[v])))
    BY <1>7 DEF MergeRequest
  <2> DEFINE parents == IF squash THEN {main} ELSE {main, topic[v]}
             tree == Merged(b, main, topic[v])
  <2>3. /\ main' = NewId /\ requests' = requests \ {v} /\ UNCHANGED <<topic, tagged, touched>>
        /\ Len(commits) < MaxCommits
    BY <1>7 DEF MergeRequest
  <2>4. tree \in TreeType /\ Edits(main) \subseteq tree.edits /\ Edits(topic[v]) \subseteq tree.edits
    BY <1>1, <2>1, MergedKeeps
  <2>5. parents \in SUBSET Ids /\ main \in parents /\ \A c \in parents : c \in {main, topic[v]}
    BY <1>1, <2>1
  <2>6. commits' = Append(commits, CommitOf(parents, tree))
    BY <2>2
  <2> HIDE DEF parents, tree
  <2>7. \A c \in parents : Edits(c) \subseteq tree.edits
    BY <2>4, <2>5
  <2>8. /\ CommitsType' /\ Growing' /\ Ids' = Ids \union {NewId} /\ job' \in [Preparers -> Job']
        /\ \A c \in Ids : commits'[c] = commits[c]
        /\ main \in commits'[NewId].past
    BY <1>3, <2>3, <2>4, <2>5, <2>6, <2>7
  <2>9. IInv'
    BY <1>1, <2>3, <2>8, Keeps
  <2>10. QED
    BY <2>3, <2>8, <2>9 DEF Forward
<1>8. ASSUME NEW v \in Versions, CloseRequest(v) PROVE IInv' /\ Forward
  <2>1. requests' = requests \ {v} /\ UNCHANGED <<commits, main, topic, tagged, touched>>
    BY <1>8 DEF CloseRequest
  <2>2. IInv'
    BY <1>1, <2>1, SameCommits, Keeps
  <2>3. QED
    BY <1>1, <2>1, <2>2 DEF Forward, Ids
<1>9. CASE ReleaseStable
  <2>1. tagged' = tagged \union {commits[main].version} /\ UNCHANGED <<commits, main, topic, requests, touched>>
    BY <1>9 DEF ReleaseStable
  <2>2. commits[main].version \in Versions
    BY <1>1, IdFacts DEF Commit
  <2>3. IInv'
    BY <1>1, <2>1, <2>2, SameCommits, Keeps
  <2>4. QED
    BY <1>1, <2>1, <2>3 DEF Forward, Ids
<1>10. QED
  BY <1>4, <1>5, <1>6, <1>7, <1>8, <1>9 DEF Others

LEMMA NextStep ==
  ASSUME IInv, [Next]_vars
  PROVE  IInv' /\ Forward
<1>1. CASE Next
  BY <1>1, PrepareStep, OthersStep DEF Next
<1>2. CASE UNCHANGED vars
  <2>1. TypeOK /\ UNCHANGED <<commits, main, topic, requests, tagged, touched, pc, job>>
    BY <1>2 DEF vars, IInv
  <2>2. main \in Ids /\ pc \in [Preparers -> Places] /\ job \in [Preparers -> Job]
    BY <2>1, JobFacts
  <2>3. IInv'
    BY <2>1, <2>2, SameCommits, Keeps DEF TypeOK
  <2>4. QED
    BY <2>1, <2>2, <2>3 DEF Forward, Ids
<1>3. QED
  BY <1>1, <1>2

LEMMA InitInv == Init => IInv
<1> SUFFICES ASSUME Init PROVE IInv
  OBVIOUS
<1> DEFINE first == [past |-> {1}, version |-> First, edits |-> {}]
<1>1. commits = <<first>> /\ first \in Commit /\ first.past = {1} /\ first.edits = {}
  BY FirstFacts DEF Init, Commit
<1> HIDE DEF first
<1>2. commits \in Seq(Commit) /\ Len(commits) = 1 /\ commits[1] = first /\ DOMAIN commits = {1}
  BY <1>1
<1>3. CommitsType
  BY <1>1, <1>2, PreparationAssumption DEF CommitsType, Ids, Past
<1>4. Growing
  BY <1>1, <1>2 DEF Growing, Ids, Past, Edits
<1>5. Ids = {1} /\ NoJob \in Job
  BY <1>2, FirstFacts DEF Ids, NoJob, Job
<1>6. TypeOK
  BY <1>3, <1>5 DEF Init, TypeOK, CommitsType, Commit, Job
<1>7. NothingForeign
  BY DEF Init, NothingForeign
<1>8. QED
  BY <1>4, <1>6, <1>7 DEF IInv

(* The inductive invariant of the preparation.                             *)
THEOREM InvariantHolds == Spec => []IInv
BY InitInv, NextStep, PTL DEF Spec

(* Every variable keeps its type, and a commit only has commits in its     *)
(* past that were there when it was made.                                  *)
THEOREM TypeCorrect == Spec => []TypeOK
BY InvariantHolds, PTL DEF IInv

LEMMA WorkKept ==
  ASSUME IInv, [Next]_vars
  PROVE  [/\ commits[main].edits \subseteq commits'[main'].edits
          /\ \A v \in Versions : topic[v] # None /\ topic'[v] # topic[v] /\ topic'[v] # None =>
               /\ topic[v] \in commits'[topic'[v]].past
               /\ EditsIn(topic[v]) \subseteq commits'[topic'[v]].edits]_vars
<1>1. IInv' /\ Forward
  BY NextStep
<1>2. /\ main \in Ids /\ main' \in Ids' /\ topic \in [Versions -> Ids \union {None}]
      /\ topic' \in [Versions -> Ids' \union {None}]
  BY <1>1 DEF IInv, TypeOK
<1>3. ASSUME NEW c \in Ids, NEW d \in Ids', c \in commits'[d].past PROVE commits'[c].edits \subseteq commits'[d].edits
  BY <1>1, <1>3 DEF IInv, Growing, Past, Edits
<1>4. QED
  BY <1>1, <1>2, <1>3 DEF Forward, EditsIn

(* Nothing that people pushed to the default branch or to a topic is lost. *)
THEOREM HumanWorkIsKept == Spec => HumanWorkKept
BY InvariantHolds, WorkKept, PTL DEF Spec, HumanWorkKept

(***************************************************************************)
(* Where the commits ahead of the default branch left it. A topic that a   *)
(* run pushes is good for the next run only if every commit of a version   *)
(* to come has one place on the default branch behind it.                  *)
(***************************************************************************)
Ver(c) == commits[c].version

(* A commit has the past of what is in its past, at no higher a version.   *)
History ==
  \A c \in Ids : \A b \in Past(c) : Past(b) \subseteq Past(c) /\ Ver(b) <= Ver(c)

Running == {p \in Preparers : pc[p] # "idle"}
InLine(a, b) == a \in Past(b) \/ b \in Past(a)

(* What a run took for the head of the default branch was one, and no run  *)
(* goes back behind its version.                                           *)
Heads ==
  /\ \A p \in Running : job[p].head \in Past(main) /\ Ver(job[p].head) <= job[p].target
  /\ \A p \in Running, q \in Running : InLine(job[p].head, job[q].head)

(* c left the default branch at h: what it has of lower versions, h has.   *)
Left(c, h) ==
  /\ h \in Past(c)
  /\ \A b \in Past(c) : Ver(b) < Ver(c) => b \in Past(h)

(* A commit ahead of the default branch left it somewhere, and at a place  *)
(* that every run knows on which side of its own head it is.               *)
Rooted ==
  \A c \in Ids : Ver(main) < Ver(c) =>
    \E h \in Past(main) : Left(c, h) /\ \A p \in Running : InLine(h, job[p].head)

(* A topic that nobody else pushed to is its version on a former head.     *)
OwnRooted ==
  \A v \in Versions : topic[v] # None /\ v \notin touched /\ Ver(main) < v =>
    /\ Ver(topic[v]) = v
    /\ \E h \in Past(main) : Left(topic[v], h) /\ Edits(topic[v]) = Edits(h)

(* A topic that a run may push to either left the default branch before    *)
(* the run's head, or has the right tree already.                          *)
FoundFits ==
  \A p \in Preparers : pc[p] = "push" /\ job[p].found # None =>
    /\ Ver(job[p].found) = job[p].target
    /\ Ver(main) < job[p].target =>
         \/ \A b \in Past(job[p].found) : Ver(b) < job[p].target => b \in Past(job[p].head)
         \/ Projection(p) = Tree(job[p].found)

(* What a run asks to merge has the tree it made.                          *)
PushedFits ==
  \A p \in Preparers : pc[p] \in {"request", "done"} =>
    job[p].found # None /\ Tree(job[p].found) = Projection(p)

Lines == History /\ Heads /\ Rooted /\ OwnRooted /\ FoundFits /\ PushedFits

(***************************************************************************)
(* What a step does to the history of the default branch, and to the jobs. *)
(***************************************************************************)
Onward ==
  /\ Ids \subseteq Ids' /\ \A c \in Ids : commits'[c] = commits[c]
  /\ main' \in Ids' /\ Past(main) \subseteq commits'[main'].past
  /\ Ver(main) <= commits'[main'].version

JobsAge ==
  \A p \in Preparers : pc'[p] # "idle" =>
    \/ pc[p] # "idle" /\ job'[p].head = job[p].head /\ job'[p].target = job[p].target
    \/ job'[p].head = main /\ Ver(main) <= job'[p].target

LEMMA CommitFacts ==
  ASSUME IInv
  PROVE  /\ CommitsType /\ main \in Ids /\ None \notin Ids
         /\ \A c \in Ids : Past(c) \subseteq Ids /\ c \in Past(c) /\ Ver(c) \in Nat /\ Ver(c) \in Versions
         /\ \A p \in Preparers : /\ job[p].head \in Ids /\ job[p].target \in Versions /\ job[p].target \in Nat
                                 /\ job[p].found \in Ids \union {None}
         /\ topic \in [Versions -> Ids \union {None}] /\ Versions \subseteq Nat
<1>1. CommitsType /\ main \in Ids /\ topic \in [Versions -> Ids \union {None}] /\ job \in [Preparers -> Job]
  BY JobFacts DEF IInv
<1>2. \A c \in Ids : Past(c) \subseteq Ids /\ c \in Past(c) /\ commits[c] \in Commit
  BY <1>1, IdFacts DEF CommitsType
<1>3. QED
  BY <1>1, <1>2, IdFacts, PreparationAssumption DEF Commit, Job, Ver

LEMMA OnwardFacts ==
  ASSUME IInv, IInv', Onward
  PROVE  /\ main \in Ids /\ \A c \in Ids : Past(c) \subseteq Ids /\ Ver(c) \in Nat
         /\ \A c \in Ids : /\ Past(c)' = Past(c) /\ Ver(c)' = Ver(c) /\ Edits(c)' = Edits(c)
                          /\ Tree(c)' = Tree(c) /\ c \in Ids'
         /\ Ver(main) <= Ver(main)' /\ Ver(main)' \in Nat /\ Past(main) \subseteq Past(main)'
         /\ topic \in [Versions -> Ids \union {None}] /\ Versions \subseteq Nat
         /\ \A p \in Preparers : /\ job[p].head \in Ids /\ job[p].found \in Ids \union {None}
                                 /\ job[p].target \in Nat
                                 /\ job'[p] = job[p] => Projection(p)' = Projection(p)
<1>1. /\ main \in Ids /\ \A c \in Ids : Past(c) \subseteq Ids /\ Ver(c) \in Nat
      /\ topic \in [Versions -> Ids \union {None}] /\ Versions \subseteq Nat
      /\ \A p \in Preparers : /\ job[p].head \in Ids /\ job[p].found \in Ids \union {None}
                              /\ job[p].target \in Nat
  BY CommitFacts
<1>2. \A c \in Ids : /\ Past(c)' = Past(c) /\ Ver(c)' = Ver(c) /\ Edits(c)' = Edits(c)
                    /\ Tree(c)' = Tree(c) /\ c \in Ids'
  BY DEF Onward, Past, Ver, Edits, Tree
<1>3. Ver(main)' \in Nat
  <2>1. main' \in Ids' /\ commits' \in Seq([past : SUBSET Nat, version : Versions, edits : SUBSET Nat])
    BY DEF IInv, TypeOK
  <2>2. main' \in DOMAIN commits' /\ commits' \in Seq(Commit)
    BY <2>1 DEF Ids, Commit
  <2>a. commits'[main'] \in Commit
    BY <2>2
  <2>b. commits'[main'].version \in Versions
    BY <2>a DEF Commit
  <2>3. QED
    BY <1>1, <2>b DEF Ver
<1>4. Ver(main) <= Ver(main)' /\ Past(main) \subseteq Past(main)'
  BY DEF Onward, Ver, Past
<1>5. ASSUME NEW p \in Preparers, job'[p] = job[p] PROVE Projection(p)' = Projection(p)
  BY <1>1, <1>2, <1>5 DEF Projection, Edits
<1>6. QED
  BY <1>1, <1>2, <1>3, <1>4, <1>5

LEMMA HeadsKept ==
  ASSUME IInv, IInv', Heads, Onward, JobsAge
  PROVE  Heads'
<1>1. ASSUME NEW p \in Preparers, pc'[p] # "idle"
      PROVE  /\ job'[p].head \in Ids /\ job'[p].head \in Past(main) /\ Ver(job'[p].head) <= job'[p].target
             /\ job'[p].head = main \/ (pc[p] # "idle" /\ job'[p].head = job[p].head)
  BY <1>1, CommitFacts DEF JobsAge, Heads, Running
<1>2. ASSUME NEW p \in Preparers, pc'[p] # "idle"
      PROVE  job'[p].head \in Past(main)' /\ Ver(job'[p].head) = commits'[job'[p].head].version
  BY <1>1, <1>2 DEF Onward, Past, Ver
<1>3. ASSUME NEW p \in Preparers, NEW q \in Preparers, pc'[p] # "idle", pc'[q] # "idle"
      PROVE  InLine(job'[p].head, job'[q].head)
  BY <1>1, <1>3, CommitFacts DEF Heads, Running, InLine
<1>4. ASSUME NEW p \in Preparers, NEW q \in Preparers, pc'[p] # "idle", pc'[q] # "idle"
      PROVE  InLine(job[p].head, job[q].head)'
  BY <1>1, <1>3, <1>4 DEF Onward, InLine, Past
<1>5. QED
  BY <1>1, <1>2, <1>4 DEF Heads, Running, Ver

LEMMA RootedKept ==
  ASSUME IInv, IInv', Heads, Rooted, Onward, JobsAge,
         \A c \in Ids' : Ver(main)' < Ver(c)' /\ c \notin Ids =>
           \E h \in Past(main) : Left(c, h)' /\ \A p \in Running : InLine(h, job[p].head)
  PROVE  Rooted'
<1>1. /\ main \in Ids /\ \A c \in Ids : Past(c) \subseteq Ids /\ Ver(c) \in Nat
      /\ \A c \in Ids : Past(c)' = Past(c) /\ Ver(c)' = Ver(c) /\ c \in Ids'
      /\ Ver(main) <= Ver(main)' /\ Ver(main)' \in Nat /\ Past(main) \subseteq Past(main)'
  BY OnwardFacts
<1>2. SUFFICES ASSUME NEW c \in Ids', Ver(main)' < Ver(c)'
               PROVE  \E h \in Past(main)' : Left(c, h)' /\ \A p \in Running' : InLine(h, job[p].head)'
  BY DEF Rooted
<1>3. PICK h \in Past(main) : Left(c, h)' /\ \A p \in Running : InLine(h, job[p].head)
  <2>1. CASE c \in Ids
    <3>1. Ver(main) < Ver(c)
      BY <1>1, <1>2, <2>1
    <3>2. PICK h \in Past(main) : Left(c, h) /\ \A p \in Running : InLine(h, job[p].head)
      BY <2>1, <3>1 DEF Rooted
    <3>3. \A b \in Past(c) : b \in Ids
      BY <1>1, <2>1
    <3>4. h \in Ids
      BY <1>1, <3>2
    <3>5. Left(c, h)'
      BY <1>1, <2>1, <3>2, <3>3, <3>4 DEF Left
    <3>6. QED
      BY <3>2, <3>5
  <2>2. CASE c \notin Ids
    BY <1>2, <2>2
  <2>3. QED
    BY <2>1, <2>2
<1>4. ASSUME NEW p \in Preparers, pc'[p] # "idle" PROVE InLine(h, job[p].head)'
  <2>1. job'[p].head = main \/ (pc[p] # "idle" /\ job'[p].head = job[p].head)
    BY <1>4 DEF JobsAge
  <2>2. InLine(h, job'[p].head) /\ job'[p].head \in Ids /\ h \in Ids
    BY <1>1, <1>3, <2>1, CommitFacts DEF Running, InLine
  <2>3. QED
    BY <1>1, <2>2 DEF InLine
<1>5. QED
  BY <1>1, <1>3, <1>4 DEF Running

LEMMA OwnKept ==
  ASSUME IInv, IInv', OwnRooted, Onward,
         \A v \in Versions : topic'[v] # None /\ v \notin touched' /\ Ver(main)' < v =>
           \/ topic'[v] = topic[v] /\ v \notin touched
           \/ /\ Ver(topic[v])' = v
              /\ \E h \in Past(main) : Left(topic[v], h)' /\ Edits(topic[v])' = Edits(h)
  PROVE  OwnRooted'
<1>1. /\ main \in Ids /\ \A c \in Ids : Past(c) \subseteq Ids /\ Ver(c) \in Nat
      /\ \A c \in Ids : Past(c)' = Past(c) /\ Ver(c)' = Ver(c) /\ Edits(c)' = Edits(c)
      /\ Ver(main) <= Ver(main)' /\ Ver(main)' \in Nat /\ Past(main) \subseteq Past(main)'
      /\ topic \in [Versions -> Ids \union {None}] /\ Versions \subseteq Nat
  BY OnwardFacts
<1>2. SUFFICES ASSUME NEW v \in Versions, topic'[v] # None, v \notin touched', Ver(main)' < v
               PROVE  Ver(topic[v])' = v /\ \E h \in Past(main)' : Left(topic[v], h)' /\ Edits(topic[v])' = Edits(h)'
  BY DEF OwnRooted
<1>3. CASE topic'[v] = topic[v] /\ v \notin touched
  <2>1. Ver(main) < v /\ topic[v] \in Ids
    BY <1>1, <1>2, <1>3
  <2>2. Ver(topic[v]) = v /\ \E h \in Past(main) : Left(topic[v], h) /\ Edits(topic[v]) = Edits(h)
    BY <1>2, <1>3, <2>1 DEF OwnRooted
  <2>3. PICK h \in Past(main) : Left(topic[v], h) /\ Edits(topic[v]) = Edits(h)
    BY <2>2
  <2>a. h \in Ids /\ \A b \in Past(topic[v]) : b \in Ids
    BY <1>1, <2>1
  <2>4. Left(topic[v], h)'
    BY <1>1, <1>3, <2>1, <2>3, <2>a DEF Left
  <2>5. Edits(topic[v])' = Edits(h)' /\ Ver(topic[v])' = v
    BY <1>1, <1>3, <2>1, <2>2, <2>3, <2>a
  <2>6. QED
    BY <1>1, <2>3, <2>4, <2>5
<1>4. CASE /\ Ver(topic[v])' = v
           /\ \E h \in Past(main) : Left(topic[v], h)' /\ Edits(topic[v])' = Edits(h)
  BY <1>1, <1>4
<1>5. QED
  BY <1>2, <1>3, <1>4

Fits(p) ==
  \/ \A b \in Past(job[p].found) : Ver(b) < job[p].target => b \in Past(job[p].head)
  \/ Projection(p) = Tree(job[p].found)

LEMMA FitsKept ==
  ASSUME IInv, IInv', FoundFits, PushedFits, Onward,
         \A p \in Preparers : pc'[p] = "push" /\ job'[p].found # None =>
           \/ pc[p] = "push" /\ job'[p] = job[p]
           \/ UNCHANGED commits /\ Ver(job[p].found)' = job'[p].target /\ (Ver(main)' < job'[p].target => Fits(p)'),
         \A p \in Preparers : pc'[p] \in {"request", "done"} =>
           \/ pc[p] \in {"request", "done"} /\ job'[p] = job[p]
           \/ job'[p].found # None /\ Tree(job[p].found)' = Projection(p)'
  PROVE  FoundFits' /\ PushedFits'
<1>1. /\ main \in Ids /\ \A c \in Ids : Past(c) \subseteq Ids /\ Ver(c) \in Nat
      /\ \A c \in Ids : Past(c)' = Past(c) /\ Ver(c)' = Ver(c) /\ Tree(c)' = Tree(c)
      /\ Ver(main) <= Ver(main)' /\ Ver(main)' \in Nat
      /\ \A p \in Preparers : /\ job[p].head \in Ids /\ job[p].found \in Ids \union {None} /\ job[p].target \in Nat
                              /\ job'[p] = job[p] => Projection(p)' = Projection(p)
  BY OnwardFacts
<1>2. ASSUME NEW p \in Preparers, pc'[p] = "push", job'[p].found # None
      PROVE  Ver(job[p].found)' = job'[p].target /\ (Ver(main)' < job'[p].target => Fits(p)')
  <2>1. CASE pc[p] = "push" /\ job'[p] = job[p]
    <3>1. job[p].found \in Ids /\ Ver(job[p].found) = job[p].target /\ (Ver(main) < job[p].target => Fits(p))
      BY <1>1, <1>2, <2>1 DEF FoundFits, Fits
    <3>2. \A b \in Past(job[p].found) : b \in Ids
      BY <1>1, <3>1
    <3>3. Fits(p) => Fits(p)'
      BY <1>1, <2>1, <3>1, <3>2 DEF Fits
    <3>4. QED
      BY <1>1, <2>1, <3>1, <3>3
  <2>2. QED
    BY <1>2, <2>1
<1>3. ASSUME NEW p \in Preparers, pc'[p] \in {"request", "done"}
      PROVE  job'[p].found # None /\ Tree(job[p].found)' = Projection(p)'
  <2>1. CASE pc[p] \in {"request", "done"} /\ job'[p] = job[p]
    BY <1>1, <2>1 DEF PushedFits
  <2>2. QED
    BY <1>3, <2>1
<1>4. QED
  BY <1>2, <1>3 DEF FoundFits, PushedFits, Fits

(***************************************************************************)
(* The steps.                                                              *)
(***************************************************************************)
LEMMA NewCommit ==
  ASSUME IInv, History, NEW parents \in SUBSET Ids, NEW n, n = NewId, NEW tree \in TreeType, main \in Ids,
         commits' = Append(commits, CommitOf(parents, tree)), Len(commits) < MaxCommits,
         \A c \in parents : Edits(c) \subseteq tree.edits /\ Ver(c) <= tree.version
  PROVE  /\ History' /\ Ids' = Ids \union {n} /\ n \notin Ids /\ n # None
         /\ \A c \in Ids : commits'[c] = commits[c]
         /\ Ver(n)' = tree.version /\ Edits(n)' = tree.edits /\ Tree(n)' = tree
         /\ \A b : b \in commits'[n].past <=> b = n \/ \E c \in parents : b \in Past(c)
         /\ parents \subseteq commits'[n].past
<1>1. /\ Ids' = Ids \union {n} /\ \A c \in Ids : commits'[c] = commits[c]
      /\ commits'[n] = CommitOf(parents, tree)
  BY CommitFacts, Grown DEF IInv, TreeType
<1>2. n \notin Ids /\ n # None /\ \A c \in Ids : Past(c) \subseteq Ids /\ c \in Past(c) /\ Ver(c) \in Nat
  BY CommitFacts, IdFacts
<1> DEFINE new == CommitOf(parents, tree)
           older == UNION {Past(c) : c \in parents}
<1>a. new.past = older \union {n} /\ new.version = tree.version /\ new.edits = tree.edits
  BY DEF CommitOf
<1>b. \A b : b \in older <=> \E c \in parents : b \in Past(c)
  OBVIOUS
<1> HIDE DEF new, older
<1>3. commits'[n].version = tree.version /\ commits'[n].edits = tree.edits
  BY <1>1, <1>a DEF new
<1>4. \A b : b \in commits'[n].past <=> b = n \/ \E c \in parents : b \in Past(c)
  BY <1>1, <1>a, <1>b DEF new
<1>5. tree.version \in Nat /\ tree = [version |-> tree.version, edits |-> tree.edits]
  BY PreparationAssumption DEF TreeType
<1>6. ASSUME NEW c \in Ids, NEW b \in Past(c)
      PROVE  commits'[b].past \subseteq commits'[c].past /\ commits'[b].version <= commits'[c].version
  BY <1>1, <1>2, <1>6 DEF History, Past, Ver
<1>7. ASSUME NEW b \in commits'[n].past
      PROVE  commits'[b].past \subseteq commits'[n].past /\ commits'[b].version <= commits'[n].version
  <2>1. CASE b = n
    <3>1. commits'[n].version \in Nat
      BY <1>3, <1>5
    <3>a. \A k \in Nat : k <= k
      OBVIOUS
    <3>2. commits'[n].version <= commits'[n].version
      BY <3>1, <3>a
    <3>3. QED
      BY <2>1, <3>2
  <2>2. CASE b # n
    <3>1. PICK c \in parents : b \in Past(c)
      BY <1>4, <1>7, <2>2
    <3>2. b \in Ids /\ Past(b) \subseteq Past(c) /\ Ver(b) <= Ver(c) /\ Ver(c) <= tree.version
      BY <1>2, <3>1 DEF History
    <3>3. commits'[b].past = Past(b) /\ commits'[b].version = Ver(b)
      BY <1>1, <3>2 DEF Past, Ver
    <3>4. Ver(b) \in Nat /\ Ver(c) \in Nat
      BY <1>2, <3>2
    <3>5. Ver(b) <= tree.version
      BY <1>5, <3>2, <3>4
    <3>6. Past(b) \subseteq commits'[n].past
      BY <1>4, <3>2
    <3>7. QED
      BY <1>3, <3>3, <3>5, <3>6
  <2>3. QED
    BY <2>1, <2>2
<1>8. History'
  <2>1. \A c \in Ids' : \A b \in commits'[c].past :
          commits'[b].past \subseteq commits'[c].past /\ commits'[b].version <= commits'[c].version
    BY <1>1, <1>6, <1>7 DEF Past
  <2>2. QED
    BY <2>1 DEF History, Past, Ver
<1>9. parents \subseteq commits'[n].past
  BY <1>2, <1>4
<1>10. Ver(n)' = tree.version /\ Edits(n)' = tree.edits /\ Tree(n)' = tree
  BY <1>3, <1>5 DEF Ver, Edits, Tree
<1>11. QED
  BY <1>1, <1>2, <1>4, <1>8, <1>9, <1>10

(* A step that leaves the commits and the default branch as they are.      *)
LEMMA QuietStep ==
  ASSUME IInv, IInv', Lines, UNCHANGED <<commits, main>>, JobsAge,
         \A v \in Versions : topic'[v] # None /\ v \notin touched' => topic'[v] = topic[v] /\ v \notin touched,
         \A p \in Preparers : pc'[p] = "push" /\ job'[p].found # None =>
           \/ pc[p] = "push" /\ job'[p] = job[p]
           \/ Ver(job[p].found)' = job'[p].target /\ (Ver(main)' < job'[p].target => Fits(p)'),
         \A p \in Preparers : pc'[p] \in {"request", "done"} =>
           \/ pc[p] \in {"request", "done"} /\ job'[p] = job[p]
           \/ job'[p].found # None /\ Tree(job[p].found)' = Projection(p)'
  PROVE  Lines'
<1>1. Ids' = Ids /\ History'
  BY DEF Lines, History, Ids, Past, Ver
<1>2. Onward
  <2>1. main \in Ids /\ Ver(main) \in Nat
    BY CommitFacts
  <2>2. QED
    BY <1>1, <2>1 DEF Onward, Past, Ver
<1>3. Heads'
  BY <1>2, HeadsKept DEF Lines
<1>4. Rooted'
  BY <1>1, <1>2, RootedKept DEF Lines
<1>5. OwnRooted'
  BY <1>2, OwnKept DEF Lines
<1>6. FoundFits' /\ PushedFits'
  BY <1>2, FitsKept DEF Lines
<1>7. QED
  BY <1>1, <1>3, <1>4, <1>5, <1>6 DEF Lines

LEMMA PcJob ==
  ASSUME IInv
  PROVE  pc \in [Preparers -> Places] /\ job \in [Preparers -> Job]
BY JobFacts DEF IInv

(* A run reads something, or ends.                                         *)
LEMMA LocalLines ==
  ASSUME IInv, IInv', Lines, NEW p \in Preparers, UNCHANGED <<commits, main, topic, touched>>,
         \A q \in Preparers \ {p} : pc'[q] = pc[q] /\ job'[q] = job[q],
         \/ pc'[p] = "idle"
         \/ /\ pc'[p] \in {"list", "topic"}
            /\ \/ pc[p] # "idle" /\ job'[p].head = job[p].head /\ job'[p].target = job[p].target
               \/ job'[p].head = main /\ Ver(main) <= job'[p].target
         \/ pc'[p] = "done" /\ pc[p] = "request" /\ job'[p] = job[p]
  PROVE  Lines'
<1>1. JobsAge
  BY DEF JobsAge
<1>2. QED
  BY <1>1, QuietStep

LEMMA ReadTopicLines ==
  ASSUME IInv, IInv', Lines, NEW p \in Preparers, ReadTopic(p)
  PROVE  Lines'
<1> DEFINE found == topic[job[p].target]
           head == job[p].head
           target == job[p].target
<1>1. /\ UNCHANGED <<commits, main, topic, touched>> /\ pc[p] = "topic"
      /\ pc' = [pc EXCEPT ![p] = "push"] /\ job' = [job EXCEPT ![p].found = found]
      /\ found # None => OwnedTopic(found, head, target)
  BY DEF ReadTopic, Goto, remoteVars
<1>2. /\ head \in Ids /\ target \in Versions /\ target \in Nat /\ found \in Ids \union {None} /\ main \in Ids
      /\ \A c \in Ids : Past(c) \subseteq Ids /\ c \in Past(c) /\ Ver(c) \in Nat
  BY CommitFacts
<1>3. /\ pc'[p] = "push" /\ job'[p].found = found /\ job'[p].head = head /\ job'[p].target = target
      /\ \A q \in Preparers \ {p} : pc'[q] = pc[q] /\ job'[q] = job[q]
  BY <1>1, PcJob DEF Job
<1>4. JobsAge
  BY <1>1, <1>3 DEF JobsAge
<1>5. ASSUME found # None
      PROVE  /\ Ver(found) = target
             /\ Ver(main) < target =>
                  \/ \A b \in Past(found) : Ver(b) < target => b \in Past(head)
                  \/ [version |-> target, edits |-> Edits(head)] = Tree(found)
  <2>1. PICK b \in MergeBases(found, head) : Tree(found) = [version |-> target, edits |-> Edits(b)]
    BY <1>1, <1>5 DEF OwnedTopic, OwnedFrom, Edits
  <2>2. Ver(found) = target
    BY <2>1 DEF Tree, Ver
  <2>3. ASSUME Ver(main) < target
        PROVE  \/ \A c \in Past(found) : Ver(c) < target => c \in Past(head)
               \/ [version |-> target, edits |-> Edits(head)] = Tree(found)
    <3>1. PICK h \in Past(main) : Left(found, h) /\ InLine(h, head)
      BY <1>1, <1>2, <1>5, <2>2, <2>3 DEF Lines, Rooted, Running
    <3>2. h \in Ids /\ h \in Past(found) /\ \A c \in Past(found) : Ver(c) < target => c \in Past(h)
      BY <1>2, <2>2, <3>1 DEF Left
    <3>3. CASE h \in Past(head)
      <4>1. Past(h) \subseteq Past(head)
        BY <1>2, <3>3 DEF Lines, History
      <4>2. QED
        BY <3>2, <4>1
    <3>4. CASE head \in Past(h)
      <4>1. Past(h) \subseteq Past(found)
        BY <1>2, <1>5, <3>2 DEF Lines, History
      <4>2. b \in Past(head) /\ b \in Past(found) /\ (b \in Past(head) /\ head \in Past(head) \intersect Past(found) => b = head)
        BY <2>1 DEF MergeBases
      <4>3. b = head
        BY <1>2, <3>4, <4>1, <4>2
      <4>4. QED
        BY <2>1, <4>3
    <3>5. QED
      BY <3>1, <3>3, <3>4 DEF InLine
  <2>4. QED
    BY <2>2, <2>3
<1>6. \A c \in Ids : Past(c)' = Past(c) /\ Ver(c)' = Ver(c) /\ Tree(c)' = Tree(c) /\ Edits(c)' = Edits(c)
  BY <1>1 DEF Past, Ver, Tree, Edits
<1>7. ASSUME job'[p].found # None
      PROVE  Ver(job[p].found)' = job'[p].target /\ (Ver(main)' < job'[p].target => Fits(p)')
  <2>1. found \in Ids /\ \A b \in Past(found) : b \in Ids
    BY <1>2, <1>3, <1>7
  <2>2. Projection(p)' = [version |-> target, edits |-> Edits(head)]
    BY <1>1, <1>3 DEF Projection, Edits
  <2>3. Ver(main)' = Ver(main)
    BY <1>1 DEF Ver
  <2>4. Ver(job[p].found)' = Ver(found) /\ Tree(job[p].found)' = Tree(found) /\ Past(job[p].found)' = Past(found)
        /\ Past(job[p].head)' = Past(head)
    BY <1>2, <1>3, <1>6, <2>1
  <2>5. ASSUME Ver(main) < target PROVE Fits(p)'
    <3>1. CASE \A b \in Past(found) : Ver(b) < target => b \in Past(head)
      <4>1. \A b \in Past(job[p].found)' : Ver(b)' < target => b \in Past(job[p].head)'
        BY <1>6, <2>1, <2>4, <3>1
      <4>2. QED
        BY <1>3, <4>1 DEF Fits
    <3>2. CASE [version |-> target, edits |-> Edits(head)] = Tree(found)
      BY <2>2, <2>4, <3>2 DEF Fits
    <3>3. QED
      BY <1>3, <1>5, <1>7, <2>5, <3>1, <3>2
  <2>6. QED
    BY <1>3, <1>5, <1>7, <2>3, <2>4, <2>5
<1>8. QED
  BY <1>1, <1>3, <1>4, <1>7, QuietStep

(* A step that makes one commit.                                           *)
LEMMA OnwardStep ==
  ASSUME IInv, History, NEW n, n = NewId, Ids' = Ids \union {n},
         \A c \in Ids : commits'[c] = commits[c],
         \/ main' = main
         \/ main' = n /\ main \in commits'[n].past /\ Ver(main) <= Ver(n)' /\ History'
  PROVE  Onward
<1>1. main \in Ids /\ Ver(main) \in Nat /\ main \in Ids' /\ Past(main)' = commits'[main'].past
  BY CommitFacts DEF Past
<1>2. CASE main' = main
  BY <1>1, <1>2 DEF Onward, Past, Ver
<1>3. CASE main' = n /\ main \in commits'[n].past /\ Ver(main) <= Ver(n)' /\ History'
  <2>1. commits'[main].past \subseteq commits'[n].past
    BY <1>3 DEF History, Past
  <2>2. commits'[main] = commits[main]
    BY <1>1
  <2>3. QED
    BY <1>3, <2>1, <2>2 DEF Onward, Past, Ver
<1>4. QED
  BY <1>2, <1>3

LEMMA PushLines ==
  ASSUME IInv, IInv', Lines, NEW p \in Preparers, Push(p)
  PROVE  Lines'
<1>0. PICK v, head, found : v = job[p].target /\ head = job[p].head /\ found = job[p].found
  OBVIOUS
<1> DEFINE next == IF Updated(p) THEN NewId ELSE found
<1>1. /\ UNCHANGED <<main, touched>> /\ pc[p] = "push"
      /\ \A q \in Preparers \ {p} : pc'[q] = pc[q] /\ job'[q] = job[q]
      /\ \/ pc'[p] = "idle"
         \/ /\ pc'[p] \in {"request", "done"} /\ job'[p].head = head /\ job'[p].target = v
            /\ job'[p].found = next
  <2>1. ASSUME End(p) PROVE pc'[p] = "idle" /\ \A q \in Preparers \ {p} : pc'[q] = pc[q] /\ job'[q] = job[q]
    BY <1>0, <2>1, PcJob DEF End, Goto
  <2>2. ASSUME Goto(p, IF job[p].listed = None THEN "request" ELSE "done"),
               job' = [job EXCEPT ![p].found = next]
        PROVE  /\ pc'[p] \in {"request", "done"} /\ job'[p].head = head /\ job'[p].target = v
               /\ job'[p].found = next
               /\ \A q \in Preparers \ {p} : pc'[q] = pc[q] /\ job'[q] = job[q]
    BY <1>0, <2>2, PcJob DEF Goto, Job
  <2>3. QED
    BY <1>0, <2>1, <2>2 DEF Push
<1>2. /\ head \in Ids /\ v \in Versions /\ v \in Nat /\ found \in Ids \union {None} /\ main \in Ids
      /\ \A c \in Ids : Past(c) \subseteq Ids /\ c \in Past(c) /\ Ver(c) \in Nat
      /\ topic \in [Versions -> Ids \union {None}]
      /\ head \in Past(main) /\ Ver(head) <= v
  BY <1>0, <1>1, CommitFacts DEF Lines, Heads, Running
<1>3. JobsAge
  BY <1>0, <1>1 DEF JobsAge
<1>4. CASE ~Updated(p)
  <2>1. UNCHANGED <<commits, topic>> /\ found # None /\ Projection(p) = Tree(found)
    BY <1>0, <1>4 DEF Push, Updated
  <2>2. pc'[p] # "idle" => Tree(job[p].found)' = Tree(found) /\ Projection(p)' = Projection(p)
    BY <1>0, <1>1, <1>2, <1>4, <2>1 DEF Tree, Projection
  <2>3. pc'[p] # "idle" => job'[p].found # None
    BY <1>0, <1>1, <1>4, <2>1
  <2>4. QED
    BY <1>0, <1>1, <1>3, <2>1, <2>2, <2>3, QuietStep
<1>5. CASE Updated(p)
  <2>1. PICK n : n = NewId
    OBVIOUS
  <2>2. /\ Len(commits) < MaxCommits /\ commits' = Append(commits, CommitOf(Parents(p), Projection(p)))
        /\ topic' = [topic EXCEPT ![v] = n]
    BY <1>0, <1>5, <2>1 DEF Push
  <2>3. /\ Parents(p) \in SUBSET Ids /\ head \in Parents(p) /\ (found # None => found \in Parents(p))
        /\ \A c \in Parents(p) : c = head \/ (c = found /\ found # None)
    BY <1>0, <1>2, CommitFacts DEF Parents
  <2>4. /\ Projection(p) \in TreeType /\ Projection(p).edits = Edits(head) /\ Projection(p).version = v
    BY <1>0, <1>2, CommitFacts, IdFacts DEF Projection, TreeType, Commit, Edits
  <2>5. ASSUME NEW c \in Parents(p) PROVE Edits(c) \subseteq Projection(p).edits /\ Ver(c) <= Projection(p).version
    <3>1. found # None => Edits(found) \subseteq Edits(head) /\ Ver(found) = v
      BY <1>0, <1>1 DEF IInv, NothingForeign, Lines, FoundFits
    <3>2. QED
      BY <1>0, <1>2, <2>3, <2>4, <3>1
  <2>b. PICK parents \in SUBSET Ids, tree \in TreeType : parents = Parents(p) /\ tree = Projection(p)
    BY <2>3, <2>4
  <2>c. /\ History /\ main \in Ids /\ commits' = Append(commits, CommitOf(parents, tree)) /\ Len(commits) < MaxCommits
        /\ \A c \in parents : Edits(c) \subseteq tree.edits /\ Ver(c) <= tree.version
        /\ tree.version = v /\ tree.edits = Edits(head)
    BY <1>2, <2>2, <2>4, <2>5, <2>b DEF Lines
  <2>d. /\ History' /\ Ids' = Ids \union {n} /\ n \notin Ids /\ n # None
        /\ \A c \in Ids : commits'[c] = commits[c]
        /\ Ver(n)' = tree.version /\ Edits(n)' = tree.edits /\ Tree(n)' = tree
        /\ \A b : b \in commits'[n].past <=> b = n \/ \E c \in parents : b \in Past(c)
        /\ parents \subseteq commits'[n].past
    BY <2>1, <2>c, NewCommit
  <2>6. /\ History' /\ Ids' = Ids \union {n} /\ n \notin Ids /\ n # None
        /\ \A c \in Ids : commits'[c] = commits[c]
        /\ Ver(n)' = v /\ Edits(n)' = Edits(head) /\ Tree(n)' = tree
        /\ \A b : b \in commits'[n].past <=> b = n \/ \E c \in parents : b \in Past(c)
        /\ parents \subseteq commits'[n].past
    BY <2>c, <2>d
  <2>7. Onward
    BY <1>0, <1>1, <2>1, <2>6, OnwardStep DEF Lines
  <2>8. Ver(main)' = Ver(main) /\ \A c \in Ids : Past(c)' = Past(c) /\ Ver(c)' = Ver(c)
    BY <1>0, <1>1, <1>2, <2>6 DEF Ver, Past
  <2>9. ASSUME Ver(main) < v PROVE Left(n, head)'
    <3>1. ASSUME NEW b \in Past(n)', Ver(b)' < Ver(n)' PROVE b \in Past(head)'
      <4>1. b # n
        BY <1>0, <1>2, <2>6, <3>1
      <4>2. PICK c \in parents : b \in Past(c)
        BY <2>6, <3>1, <4>1 DEF Past
      <4>3. b \in Ids /\ Ver(b) < v
        BY <1>0, <1>2, <2>b, <2>3, <2>6, <2>8, <3>1, <4>2
      <4>4. found # None => \A x \in Past(found) : Ver(x) < v => x \in Past(head)
        BY <1>0, <1>1, <1>5, <2>9 DEF Lines, FoundFits, Updated
      <4>5. b \in Past(head)
        BY <2>b, <2>3, <4>2, <4>3, <4>4
      <4>6. QED
        BY <1>0, <1>2, <2>8, <4>5
    <3>2. head \in Past(n)'
      BY <2>b, <2>3, <2>6 DEF Past
    <3>3. QED
      BY <3>1, <3>2 DEF Left
  <2>10. Heads'
    BY <1>3, <2>7, HeadsKept DEF Lines
  <2>11. Rooted'
    <3>1. \A q \in Running : InLine(head, job[q].head)
      BY <1>0, <1>1 DEF Lines, Heads, Running
    <3>2. ASSUME NEW c \in Ids', Ver(main)' < Ver(c)', c \notin Ids
          PROVE  \E h \in Past(main) : Left(c, h)' /\ \A q \in Running : InLine(h, job[q].head)
      BY <1>0, <1>2, <2>6, <2>8, <2>9, <3>1, <3>2
    <3>3. QED
      BY <1>3, <2>7, <3>2, RootedKept DEF Lines
  <2>12. OwnRooted'
    <3>1. topic'[v] = n /\ \A w \in Versions \ {v} : topic'[w] = topic[w]
      BY <1>0, <1>2, <2>2
    <3>2. ASSUME NEW w \in Versions, topic'[w] # None, w \notin touched', Ver(main)' < w
          PROVE  \/ topic'[w] = topic[w] /\ w \notin touched
                 \/ /\ Ver(topic[w])' = w
                    /\ \E h \in Past(main) : Left(topic[w], h)' /\ Edits(topic[w])' = Edits(h)
      <4>1. CASE w = v
        <5>1. Left(topic[w], head)' /\ Ver(topic[w])' = w /\ Edits(topic[w])' = Edits(head)
          BY <2>6, <2>8, <2>9, <3>1, <3>2, <4>1
        <5>2. QED
          BY <1>0, <1>2, <5>1
      <4>2. CASE w # v
        BY <1>0, <1>1, <3>1, <3>2, <4>2
      <4>3. QED
        BY <4>1, <4>2
    <3>3. QED
      BY <2>7, <3>2, OwnKept DEF Lines
  <2>13. FoundFits' /\ PushedFits'
    <3>1. ASSUME pc'[p] \in {"request", "done"} PROVE job'[p].found # None /\ Tree(job[p].found)' = Projection(p)'
      <4>1. job'[p].found = n /\ job'[p].head = head /\ job'[p].target = v
        BY <1>0, <1>1, <1>5, <2>1, <3>1
      <4>2. Projection(p)' = Projection(p)
        BY <1>0, <1>2, <2>6, <4>1 DEF Projection
      <4>3. QED
        BY <2>b, <2>6, <4>1, <4>2
    <3>2. QED
      BY <1>0, <1>1, <2>7, <3>1, FitsKept DEF Lines
  <2>14. QED
    BY <2>6, <2>10, <2>11, <2>12, <2>13 DEF Lines
<1>6. QED
  BY <1>4, <1>5

(* Somebody else makes a commit: the next one of the default branch, or    *)
(* one that follows another at the same version.                           *)
LEMMA OtherCommit ==
  ASSUME IInv, IInv', Lines, UNCHANGED <<pc, job>>,
         NEW n, n = NewId, NEW parents \in SUBSET Ids, NEW tree \in TreeType,
         commits' = Append(commits, CommitOf(parents, tree)), Len(commits) < MaxCommits,
         \A c \in parents : Edits(c) \subseteq tree.edits /\ Ver(c) <= tree.version,
         \/ main' = n /\ main \in parents
         \/ main' = main /\ \E c \in parents : parents = {c} /\ Ver(c) = tree.version,
         \A v \in Versions : v \notin touched' => topic'[v] = topic[v] /\ v \notin touched
  PROVE  Lines'
<1>1. /\ main \in Ids /\ \A c \in Ids : Past(c) \subseteq Ids /\ c \in Past(c) /\ Ver(c) \in Nat
      /\ \A p \in Preparers : job[p].found \in Ids \union {None} /\ job[p].head \in Ids
  BY CommitFacts
<1>a. History
  BY DEF Lines
<1>b. /\ IInv /\ n = NewId /\ parents \in SUBSET Ids /\ tree \in TreeType /\ commits' = Append(commits, CommitOf(parents, tree))
      /\ Len(commits) < MaxCommits
      /\ \A c \in parents : Edits(c) \subseteq tree.edits /\ Ver(c) <= tree.version
  OBVIOUS
<1>2. /\ History' /\ Ids' = Ids \union {n} /\ n \notin Ids /\ n # None
      /\ \A c \in Ids : commits'[c] = commits[c]
      /\ Ver(n)' = tree.version /\ Edits(n)' = tree.edits /\ Tree(n)' = tree
      /\ \A b : b \in commits'[n].past <=> b = n \/ \E c \in parents : b \in Past(c)
      /\ parents \subseteq commits'[n].past
  BY ONLY <1>1, <1>a, <1>b, NewCommit
<1>3. Onward
  BY <1>2, OnwardStep DEF Lines
<1>4. JobsAge
  BY DEF JobsAge
<1>5. Heads'
  BY <1>3, <1>4, HeadsKept DEF Lines
<1>6. Rooted'
  <2>1. ASSUME NEW c \in Ids', Ver(main)' < Ver(c)', c \notin Ids
        PROVE  \E h \in Past(main) : Left(c, h)' /\ \A p \in Running : InLine(h, job[p].head)
    <3>1. c = n
      BY <1>2, <2>1
    <3>2. main' # n
      <4>1. tree.version \in Nat
        BY PreparationAssumption DEF TreeType
      <4>2. ~(tree.version < tree.version)
        BY <4>1
      <4>3. main' = n => Ver(main)' = Ver(n)'
        BY DEF Ver
      <4>4. QED
        BY <1>2, <2>1, <3>1, <4>2, <4>3
    <3>3. PICK d \in parents : parents = {d} /\ Ver(d) = tree.version
      BY <3>2
    <3>4. Ver(main)' = Ver(main)
      BY <1>1, <1>2, <3>2 DEF Ver
    <3>5. Ver(main) < Ver(d)
      BY <1>2, <2>1, <3>1, <3>3, <3>4
    <3>6. PICK h \in Past(main) : Left(d, h) /\ \A p \in Running : InLine(h, job[p].head)
      BY <3>3, <3>5 DEF Lines, Rooted
    <3>7. h \in Ids /\ h \in Past(d) /\ \A b \in Past(d) : b \in Ids
      BY <1>1, <3>3, <3>6 DEF Left
    <3>8. h \in Past(c)'
      BY <1>2, <3>1, <3>3, <3>7 DEF Past
    <3>9. ASSUME NEW b \in Past(c)', Ver(b)' < Ver(c)' PROVE b \in Past(h)'
      <4>1. b # n
        <5>1. tree.version \in Nat
          BY PreparationAssumption DEF TreeType
        <5>2. ~(tree.version < tree.version)
          BY <5>1
        <5>3. QED
          BY <1>2, <3>1, <3>9, <5>2
      <4>2. b \in Past(d)
        BY <1>2, <3>1, <3>3, <3>9, <4>1 DEF Past
      <4>3. Ver(b)' = Ver(b) /\ Ver(c)' = Ver(d)
        BY <1>2, <3>1, <3>3, <3>7, <4>2 DEF Ver
      <4>4. b \in Past(h)
        BY <3>6, <3>9, <4>2, <4>3 DEF Left
      <4>5. QED
        BY <1>2, <3>7, <4>4 DEF Past
    <3>10. Left(c, h)'
      BY <3>8, <3>9 DEF Left
    <3>11. QED
      BY <3>6, <3>10
  <2>2. QED
    BY <1>3, <1>4, <2>1, RootedKept DEF Lines
<1>7. OwnRooted'
  BY <1>3, OwnKept DEF Lines
<1>8. FoundFits' /\ PushedFits'
  BY <1>3, FitsKept DEF Lines
<1>9. QED
  BY <1>2, <1>5, <1>6, <1>7, <1>8 DEF Lines

(* A merge has the later version of the two.                               *)
LEMMA MergedVersion ==
  ASSUME CommitsType, History, NEW c \in Ids, NEW d \in Ids, NEW b \in MergeBases(c, d), ~Conflict(b, c, d),
         \A e \in Ids : Ver(e) \in Nat
  PROVE  Ver(c) <= Merged(b, c, d).version /\ Ver(d) <= Merged(b, c, d).version
<1>1. b \in Past(c) /\ b \in Past(d)
  BY DEF MergeBases
<1>2. b \in Ids /\ Ver(b) <= Ver(c) /\ Ver(b) <= Ver(d)
  BY <1>1, IdFacts DEF History
<1>3. Merged(b, c, d).version = IF Ver(c) = Ver(b) THEN Ver(d) ELSE Ver(c)
  BY DEF Merged, Ver
<1>4. Ver(b) = Ver(c) \/ Ver(b) = Ver(d) \/ Ver(c) = Ver(d)
  BY DEF Conflict, Ver
<1>5. QED
  BY <1>2, <1>3, <1>4

LEMMA OthersLines ==
  ASSUME IInv, IInv', Lines, Others
  PROVE  Lines'
<1>1. /\ main \in Ids /\ CommitsType /\ topic \in [Versions -> Ids \union {None}] /\ UNCHANGED <<pc, job>>
      /\ \A c \in Ids : Ver(c) \in Nat /\ Tree(c) \in TreeType
  BY CommitFacts, JobFacts DEF IInv, Others, CommitMain, CommitTopic, DeleteTopic, MergeRequest, CloseRequest,
                               ReleaseStable
<1>2. PICK n : n = NewId
  OBVIOUS
<1>3. ASSUME NEW c \in Ids
      PROVE  \E tree \in TreeType :
               /\ tree = [Tree(c) EXCEPT !.edits = @ \union {n}]
               /\ Edits(c) \subseteq tree.edits /\ Ver(c) = tree.version /\ Ver(c) <= tree.version
  <2> DEFINE tree == [Tree(c) EXCEPT !.edits = @ \union {n}]
  <2>1. n \in Nat
    BY <1>1, <1>2, IdFacts
  <2>2. tree \in TreeType /\ Edits(c) \subseteq tree.edits /\ Ver(c) = tree.version
    BY <1>1, <2>1 DEF Tree, TreeType, Edits, Ver
  <2>3. Ver(c) <= Ver(c)
    BY <1>1
  <2>4. QED
    BY <2>2, <2>3
<1>4. ASSUME CommitMain PROVE Lines'
  <2>1. PICK tree \in TreeType :
               /\ tree = [Tree(main) EXCEPT !.edits = @ \union {n}]
               /\ Edits(main) \subseteq tree.edits /\ Ver(main) = tree.version /\ Ver(main) <= tree.version
    BY <1>1, <1>3
  <2>2. PICK parents \in SUBSET Ids : parents = {main}
    BY <1>1
  <2>3. /\ commits' = Append(commits, CommitOf(parents, tree)) /\ Len(commits) < MaxCommits
        /\ main' = n /\ UNCHANGED <<topic, touched>> /\ main \in parents
        /\ \A c \in parents : Edits(c) \subseteq tree.edits /\ Ver(c) <= tree.version
    BY <1>2, <1>4, <2>1, <2>2 DEF CommitMain, MayEdit
  <2>4. QED
    BY <1>1, <1>2, <2>3, OtherCommit
<1>5. ASSUME NEW v \in Versions, CommitTopic(v) PROVE Lines'
  <2>1. PICK from \in Ids : from = IF topic[v] = None THEN main ELSE topic[v]
    BY <1>1
  <2>2. PICK tree \in TreeType :
               /\ tree = [Tree(from) EXCEPT !.edits = @ \union {n}]
               /\ Edits(from) \subseteq tree.edits /\ Ver(from) = tree.version /\ Ver(from) <= tree.version
    BY <1>3
  <2>3. PICK parents \in SUBSET Ids : parents = {from}
    OBVIOUS
  <2>4. /\ commits' = Append(commits, CommitOf(parents, tree)) /\ Len(commits) < MaxCommits
        /\ main' = main /\ \E c \in parents : parents = {c} /\ Ver(c) = tree.version
        /\ \A c \in parents : Edits(c) \subseteq tree.edits /\ Ver(c) <= tree.version
    BY <1>2, <1>5, <2>1, <2>2, <2>3 DEF CommitTopic, MayEdit
  <2>5. \A w \in Versions : w \notin touched' => topic'[w] = topic[w] /\ w \notin touched
    BY <1>1, <1>5 DEF CommitTopic
  <2>6. QED
    BY <1>1, <1>2, <2>4, <2>5, OtherCommit
<1>6. ASSUME NEW v \in Versions, MergeRequest(v) PROVE Lines'
  <2>1. topic[v] \in Ids
    BY <1>1, <1>6 DEF MergeRequest, IInv, TypeOK
  <2>2. PICK b \in MergeBases(main, topic[v]), squash \in BOOLEAN :
          /\ ~Conflict(b, main, topic[v])
          /\ commits' = Append(commits, CommitOf(IF squash THEN {main} ELSE {main, topic[v]}, Merged(b, main, topic[v])))
    BY <1>6 DEF MergeRequest
  <2>3. PICK tree \in TreeType : tree = Merged(b, main, topic[v])
    BY <1>1, <2>1, MergedKeeps DEF IInv
  <2>4. PICK parents \in SUBSET Ids : parents = IF squash THEN {main} ELSE {main, topic[v]}
    BY <1>1, <2>1
  <2>5. Edits(main) \subseteq tree.edits /\ Edits(topic[v]) \subseteq tree.edits
    BY <1>1, <2>1, <2>3, MergedKeeps DEF IInv
  <2>6. Ver(main) <= tree.version /\ Ver(topic[v]) <= tree.version
    BY <1>1, <2>1, <2>2, <2>3, MergedVersion DEF Lines
  <2>7. /\ commits' = Append(commits, CommitOf(parents, tree)) /\ Len(commits) < MaxCommits
        /\ main' = n /\ UNCHANGED <<topic, touched>> /\ main \in parents
        /\ \A c \in parents : Edits(c) \subseteq tree.edits /\ Ver(c) <= tree.version
    BY <1>2, <1>6, <2>2, <2>3, <2>4, <2>5, <2>6 DEF MergeRequest
  <2>8. QED
    BY <1>1, <1>2, <2>7, OtherCommit
<1>7. ASSUME UNCHANGED <<commits, main>>,
             \A v \in Versions : topic'[v] # None /\ v \notin touched' => topic'[v] = topic[v] /\ v \notin touched
      PROVE  Lines'
  <2>1. JobsAge
    BY <1>1 DEF JobsAge
  <2>2. QED
    BY <1>1, <1>7, <2>1, QuietStep
<1>8. ASSUME NEW v \in Versions, DeleteTopic(v) PROVE Lines'
  <2>1. \A w \in Versions : topic'[w] # None /\ w \notin touched' => topic'[w] = topic[w] /\ w \notin touched
    BY <1>1, <1>8 DEF DeleteTopic
  <2>2. QED
    BY <1>7, <1>8, <2>1 DEF DeleteTopic
<1>9. ASSUME NEW v \in Versions, CloseRequest(v) PROVE Lines'
  BY <1>7, <1>9 DEF CloseRequest
<1>10. ASSUME ReleaseStable PROVE Lines'
  BY <1>7, <1>10 DEF ReleaseStable
<1>11. QED
  BY <1>4, <1>5, <1>6, <1>8, <1>9, <1>10 DEF Others

LEMMA PrepareLines ==
  ASSUME IInv, IInv', Lines, NEW p \in Preparers, Prepare(p)
  PROVE  Lines'
<1>1. ASSUME Start(p) PROVE Lines'
  <2>1. PICK v \in Choosable(commits[main].version) :
          job' = [job EXCEPT ![p] = [NoJob EXCEPT !.head = main, !.target = v]]
    BY <1>1 DEF Start
  <2>2. Ver(main) <= v
    BY <2>1, CommitFacts DEF Choosable, Ver
  <2>3. job'[p].head = main /\ job'[p].target = v /\ \A q \in Preparers \ {p} : job'[q] = job[q]
    BY <2>1, PcJob DEF NoJob
  <2>4. /\ pc'[p] = "list" /\ \A q \in Preparers \ {p} : pc'[q] = pc[q]
        /\ UNCHANGED <<commits, main, topic, touched>>
    BY <1>1, PcJob DEF Start, Goto, remoteVars
  <2>5. QED
    BY <2>2, <2>3, <2>4, LocalLines
<1>2. ASSUME ListRequests(p) PROVE Lines'
  <2>1. /\ pc[p] = "list" /\ pc'[p] = "topic" /\ \A q \in Preparers \ {p} : pc'[q] = pc[q]
        /\ UNCHANGED <<commits, main, topic, touched>>
    BY <1>2, PcJob DEF ListRequests, Goto, remoteVars
  <2>2. /\ job'[p].head = job[p].head /\ job'[p].target = job[p].target
        /\ \A q \in Preparers \ {p} : job'[q] = job[q]
    BY <1>2, PcJob DEF ListRequests, Job
  <2>3. QED
    BY <2>1, <2>2, LocalLines
<1>3. ASSUME End(p), UNCHANGED <<commits, main, topic, touched>> PROVE Lines'
  <2>1. pc'[p] = "idle" /\ \A q \in Preparers \ {p} : pc'[q] = pc[q] /\ job'[q] = job[q]
    BY <1>3, PcJob DEF End, Goto
  <2>2. QED
    BY <1>3, <2>1, LocalLines
<1>4. ASSUME Unchanged(p) \/ Stop(p) PROVE Lines'
  BY <1>3, <1>4 DEF Unchanged, Stop, remoteVars
<1>5. ASSUME OpenRequest(p) PROVE Lines'
  <2>1. pc[p] = "request" /\ UNCHANGED <<commits, main, topic, touched>>
    BY <1>5 DEF OpenRequest
  <2>2. CASE Goto(p, "done") /\ UNCHANGED job
    <3>1. /\ pc'[p] = "done" /\ job'[p] = job[p]
          /\ \A q \in Preparers \ {p} : pc'[q] = pc[q] /\ job'[q] = job[q]
      BY <2>2, PcJob DEF Goto
    <3>2. QED
      BY <2>1, <3>1, LocalLines
  <2>3. CASE End(p)
    BY <1>3, <2>1, <2>3
  <2>4. QED
    BY <1>5, <2>2, <2>3 DEF OpenRequest
<1>6. QED
  BY <1>1, <1>2, <1>4, <1>5, ReadTopicLines, PushLines DEF Prepare

LEMMA LinesStep ==
  ASSUME IInv, IInv', Lines, [Next]_vars
  PROVE  Lines'
<1>1. CASE Next
  BY <1>1, PrepareLines, OthersLines DEF Next
<1>2. CASE UNCHANGED vars
  <2>1. UNCHANGED <<commits, main, topic, touched, pc, job>>
    BY <1>2 DEF vars
  <2>2. JobsAge
    BY <2>1 DEF JobsAge
  <2>3. QED
    BY <2>1, <2>2, QuietStep
<1>3. QED
  BY <1>1, <1>2

LEMMA InitLines == Init => Lines
<1> SUFFICES ASSUME Init PROVE Lines
  OBVIOUS
<1>1. IInv /\ main = 1 /\ pc = [p \in Preparers |-> "idle"] /\ topic = [v \in Versions |-> None]
  BY InitInv DEF Init
<1> DEFINE first == [past |-> {1}, version |-> First, edits |-> {}]
<1>2. commits = <<first>> /\ first.past = {1}
  BY DEF Init
<1> HIDE DEF first
<1>3. Ids = {1} /\ Past(1) = {1}
  BY <1>2 DEF Ids, Past
<1>4. Ver(1) \in Nat
  BY <1>1, <1>3, CommitFacts
<1>5. Ver(1) <= Ver(1) /\ ~(Ver(1) < Ver(1))
  BY <1>4
<1>6. History
  BY <1>3, <1>5 DEF History
<1>7. Rooted
  BY <1>1, <1>3, <1>5 DEF Rooted
<1>8. Heads /\ OwnRooted /\ FoundFits /\ PushedFits
  BY <1>1 DEF Heads, Running, OwnRooted, FoundFits, PushedFits
<1>9. QED
  BY <1>6, <1>7, <1>8 DEF Lines

(* Commits ahead of the default branch left it at one place each, and what *)
(* a run has read or pushed fits where its own head is.                    *)
THEOREM LinesHold == Spec => []Lines
<1>1. IInv /\ IInv' /\ Lines /\ [Next]_vars => Lines'
  BY LinesStep
<1>2. QED
  BY <1>1, InitLines, InvariantHolds, PTL DEF Spec

LEMMA OwnAccepted ==
  ASSUME IInv, Lines
  PROVE  OwnTopicAccepted
<1>1. SUFFICES ASSUME NEW v \in Versions, topic[v] # None, v \notin touched, commits[main].version < v,
                      NEW b \in MergeBases(topic[v], main)
               PROVE  OwnedFrom(b, topic[v], v)
  BY DEF OwnTopicAccepted
<1>2. Ver(topic[v]) = v /\ \E h \in Past(main) : Left(topic[v], h) /\ Edits(topic[v]) = Edits(h)
  BY <1>1 DEF Lines, OwnRooted, Ver
<1>3. PICK h \in Past(main) : Left(topic[v], h) /\ Edits(topic[v]) = Edits(h)
  BY <1>2
<1>4. /\ main \in Ids /\ \A c \in Ids : Past(c) \subseteq Ids /\ Ver(c) \in Nat
      /\ topic[v] \in Ids /\ v \in Nat
  BY <1>1, CommitFacts
<1>5. b \in Past(main) /\ b \in Past(topic[v])
      /\ \A e \in Past(topic[v]) \intersect Past(main) : b \in Past(e) => b = e
  BY <1>1 DEF MergeBases
<1>6. Ver(b) <= Ver(main) /\ Ver(main) < v /\ b \in Ids
  BY <1>1, <1>4, <1>5 DEF Lines, History, Ver
<1>7. Ver(b) < Ver(topic[v])
  BY <1>2, <1>4, <1>6
<1>8. b = h
  BY <1>3, <1>5, <1>7 DEF Left
<1>9. QED
  BY <1>2, <1>3, <1>8 DEF OwnedFrom, Tree, Ver, Edits

(* A run that dies between its push and its pull request leaves a topic    *)
(* that every later run takes for the command's own.                       *)
THEOREM OwnTopicIsAccepted == Spec => []OwnTopicAccepted
<1>1. IInv /\ Lines => OwnTopicAccepted
  BY OwnAccepted
<1>2. QED
  BY <1>1, InvariantHolds, LinesHold, PTL

LEMMA Merges ==
  ASSUME IInv, Lines
  PROVE  PullRequestMerges
<1>1. SUFFICES ASSUME NEW p \in Preparers, pc[p] = "done", main = job[p].head,
                      topic[job[p].target] = job[p].found,
                      NEW b \in MergeBases(main, topic[job[p].target])
               PROVE  LET c == topic[job[p].target]
                      IN  /\ Conflict(b, main, c) => Tree(c) = Projection(p)
                          /\ ~Conflict(b, main, c) => Merged(b, main, c) = Projection(p)
  BY DEF PullRequestMerges
<1>2. PICK c : c = topic[job[p].target]
  OBVIOUS
<1>3. Tree(c) = Projection(p) /\ c # None
  BY <1>1, <1>2 DEF Lines, PushedFits
<1>4. Ver(c) = job[p].target /\ Edits(c) = Edits(main)
  BY <1>1, <1>3 DEF Tree, Projection, Ver, Edits
<1>5. /\ main \in Ids /\ c \in Ids /\ job[p].target \in Nat
      /\ \A e \in Ids : Past(e) \subseteq Ids /\ Ver(e) \in Nat
  BY <1>1, <1>2, <1>3, CommitFacts
<1>6. b \in Past(main) /\ b \in Past(c)
  BY <1>1, <1>2 DEF MergeBases
<1>7. b \in Ids /\ Ver(b) <= Ver(main) /\ Ver(main) <= Ver(c)
  BY <1>1, <1>4, <1>5, <1>6 DEF Lines, History, Heads, Running
<1>8. ASSUME ~Conflict(b, main, c) PROVE Merged(b, main, c) = Projection(p)
  <2>1. Ver(b) = Ver(main) \/ Ver(b) = Ver(c) \/ Ver(main) = Ver(c)
    BY <1>8 DEF Conflict, Ver
  <2>2. (IF Ver(main) = Ver(b) THEN Ver(c) ELSE Ver(main)) = job[p].target
    BY <1>4, <1>5, <1>7, <2>1
  <2>3. {e \in Edits(main) \union Edits(c) :
           IF e \in Edits(b) THEN e \in Edits(main) \intersect Edits(c) ELSE TRUE} = Edits(main)
    BY <1>4
  <2>4. QED
    BY <1>1, <2>2, <2>3 DEF Merged, Projection, Ver, Edits
<1>9. QED
  BY <1>2, <1>3, <1>8

(* A returned pull request gives the default branch the version and        *)
(* nothing else.                                                           *)
THEOREM RequestsMerge == Spec => []PullRequestMerges
<1>1. IInv /\ Lines => PullRequestMerges
  BY Merges
<1>2. QED
  BY <1>1, InvariantHolds, LinesHold, PTL
================================================================================
