----------------------------- MODULE PrepareVersion -----------------------------
(***************************************************************************)
(* scripts/prepare_version.py --pr: operators, each in a clone of their    *)
(* own, raise the base version in a pull request. The runs share the       *)
(* default branch, one topic branch per version and its pull request with  *)
(* everybody else, and nothing holds any of them still between two calls.  *)
(*                                                                         *)
(* A commit's tree is its base version, in every declared file alike, and  *)
(* the edits of people it contains, named by the commit that brought them. *)
(***************************************************************************)
EXTENDS Integers, Sequences, FiniteSets

CONSTANTS
  Preparers,  \* runs of the command
  Versions,   \* base versions, in their order
  MaxCommits, \* bound: commits on the remote
  MaxEdits    \* bound: those of them that people edited something in

ASSUME PreparationAssumption ==
  /\ Versions \subseteq Nat
  /\ \E v \in Versions : \A w \in Versions : v <= w
  /\ MaxCommits \in Nat \ {0}
  /\ MaxEdits \in Nat

VARIABLES
  commits,   \* the commits that were pushed, in the order in which they were
  main,      \* the head of the default branch
  topic,     \* the head of release/version-v, or None
  requests,  \* the versions with an open pull request from that branch
  tagged,    \* the versions with a stable tag
  touched,   \* topics that somebody else pushed to since they were created
  pc,        \* where each run stands
  job        \* what it has read: head, target, the head of the listed pull
             \* request, and the topic it found or pushed

remoteVars == <<commits, main, topic, requests, tagged, touched>>
vars == <<commits, main, topic, requests, tagged, touched, pc, job>>

None == 0
Ids == DOMAIN commits
Tree(c) == [version |-> commits[c].version, edits |-> commits[c].edits]
Past(c) == commits[c].past

First == CHOOSE v \in Versions : \A w \in Versions : v <= w
NoJob == [head |-> 1, target |-> First, listed |-> None, found |-> None]

TypeOK ==
  /\ commits \in Seq([past : SUBSET Nat, version : Versions, edits : SUBSET Nat])
  /\ Len(commits) \in 1..MaxCommits
  /\ \A c \in Ids : Past(c) \subseteq 1..c /\ c \in Past(c)
  /\ main \in Ids
  /\ topic \in [Versions -> Ids \union {None}]
  /\ requests \subseteq {v \in Versions : topic[v] # None}
  /\ tagged \subseteq Versions
  /\ touched \subseteq {v \in Versions : topic[v] # None}
  /\ pc \in [Preparers -> {"idle", "list", "topic", "push", "request", "done"}]
  /\ job \in [Preparers -> [head : Ids, target : Versions, listed : Ids \union {None},
                            found : Ids \union {None}]]

Init ==
  /\ commits = <<[past |-> {1}, version |-> First, edits |-> {}]>>
  /\ main = 1
  /\ topic = [v \in Versions |-> None]
  /\ requests = {}
  /\ tagged = {}
  /\ touched = {}
  /\ pc = [p \in Preparers |-> "idle"]
  /\ job = [p \in Preparers |-> NoJob]

(***************************************************************************)
(* Git                                                                     *)
(***************************************************************************)
NewId == Len(commits) + 1
CommitOf(parents, tree) ==
  [past |-> (UNION {Past(c) : c \in parents}) \union {NewId},
   version |-> tree.version, edits |-> tree.edits]

\* git merge-base prints one of these.
MergeBases(c, d) ==
  {b \in Past(c) \intersect Past(d) :
     \A e \in Past(c) \intersect Past(d) : b \in Past(e) => b = e}

\* A three-way merge conflicts where both sides changed the version.
Conflict(b, c, d) ==
  /\ commits[b].version \notin {commits[c].version, commits[d].version}
  /\ commits[c].version # commits[d].version
Merged(b, c, d) ==
  [version |-> IF commits[c].version = commits[b].version THEN commits[d].version
                                                          ELSE commits[c].version,
   edits |-> {e \in commits[c].edits \union commits[d].edits :
                IF e \in commits[b].edits
                  THEN e \in commits[c].edits \intersect commits[d].edits ELSE TRUE}]

(***************************************************************************)
(* prepare(pull_request=True), call by call                                *)
(***************************************************************************)
Goto(p, place) == pc' = [pc EXCEPT ![p] = place]
End(p) == Goto(p, "idle") /\ job' = [job EXCEPT ![p] = NoJob]

\* choose_version: whatever is asked for, and the next patch if nothing is, is no
\* downgrade and has no stable tag.
Choosable(current) == {v \in Versions : v >= current /\ v \notin tagged}

\* _validate_preparation_checkout, advertised_tags and choose_version: a clean clone at
\* the head of the default branch. The tags are read after the head; what may be chosen
\* then could have been chosen at once.
Start(p) ==
  /\ pc[p] = "idle"
  /\ \E v \in Choosable(commits[main].version) :
       job' = [job EXCEPT ![p] = [NoJob EXCEPT !.head = main, !.target = v]]
  /\ Goto(p, "list")
  /\ UNCHANGED remoteVars

\* gh pr list and own_pull_requests
ListRequests(p) ==
  /\ pc[p] = "list"
  /\ LET v == job[p].target
     IN  job' = [job EXCEPT ![p].listed = IF v \in requests THEN topic[v] ELSE None]
  /\ Goto(p, "topic")
  /\ UNCHANGED remoteVars

\* verify_owned_topic: the topic is one of the common ancestors with the version
\* projected into it, byte for byte.
OwnedFrom(b, c, v) == Tree(c) = [version |-> v, edits |-> commits[b].edits]

\* mutant: a topic of that name is taken for one of the command's own
AnyTopic(c, head, v) == c # None

OwnedTopic(c, head, v) == \E b \in MergeBases(c, head) : OwnedFrom(b, c, v)

\* remote_topic and the checks of _preparation_topic
ReadTopic(p) ==
  /\ pc[p] = "topic"
  /\ LET found == topic[job[p].target]
     IN  /\ job[p].listed \in {None, found}
         /\ found # None => OwnedTopic(found, job[p].head, job[p].target)
         /\ job' = [job EXCEPT ![p].found = found]
  /\ Goto(p, "push")
  /\ UNCHANGED remoteVars

\* sync_versions in a worktree of the head, then write-tree.
Projection(p) == [version |-> job[p].target, edits |-> commits[job[p].head].edits]

\* The default branch has the version already, and nobody asks for it.
Nothing(p) == job[p].listed = None /\ Projection(p) = Tree(job[p].head)

Unchanged(p) ==
  /\ pc[p] = "push"
  /\ Nothing(p)
  /\ End(p)
  /\ UNCHANGED remoteVars

\* mutant: a topic that is there stays as it is
Created(p) == job[p].found = None

Updated(p) == job[p].found = None \/ Projection(p) # Tree(job[p].found)

\* mutant: the new commit only follows the topic
TopicParent(p) == IF job[p].found = None THEN {job[p].head} ELSE {job[p].found}

Parents(p) == {job[p].head, job[p].found} \ {None}

\* git push without force: it is refused unless the topic is in the past of the new
\* commit. An accepted push may be reported as failed, which ends the run.
Push(p) ==
  /\ pc[p] = "push"
  /\ ~Nothing(p)
  /\ LET v == job[p].target
         commit == CommitOf(Parents(p), Projection(p))
     IN  IF Updated(p)
           THEN /\ Len(commits) < MaxCommits
                /\ topic[v] # None => topic[v] \in commit.past
                /\ commits' = Append(commits, commit)
                /\ topic' = [topic EXCEPT ![v] = NewId]
           ELSE UNCHANGED <<commits, topic>>
  /\ \/ /\ Goto(p, IF job[p].listed = None THEN "request" ELSE "done")
        /\ job' = [job EXCEPT ![p].found = IF Updated(p) THEN NewId ELSE @]
     \/ End(p)
  /\ UNCHANGED <<main, requests, tagged, touched>>

\* gh pr create: GitHub refuses a second one, a branch that is gone and one that has
\* nothing to merge.
OpenRequest(p) ==
  /\ pc[p] = "request"
  /\ LET v == job[p].target
     IN  /\ v \notin requests
         /\ topic[v] # None /\ topic[v] \notin Past(main)
         /\ requests' = requests \union {v}
  /\ (Goto(p, "done") /\ UNCHANGED job) \/ End(p)
  /\ UNCHANGED <<commits, main, topic, tagged, touched>>

\* A check or a call fails, the process dies, or it has reported its pull request. The
\* clone and its worktree are local.
Stop(p) ==
  /\ pc[p] # "idle"
  /\ End(p)
  /\ UNCHANGED remoteVars

Prepare(p) ==
  \/ Start(p) \/ ListRequests(p) \/ ReadTopic(p)
  \/ Unchanged(p) \/ Push(p) \/ OpenRequest(p) \/ Stop(p)

(***************************************************************************)
(* Everybody else                                                          *)
(***************************************************************************)
MayEdit ==
  /\ Len(commits) < MaxCommits
  /\ Cardinality({c \in Ids : c \in commits[c].edits}) < MaxEdits

\* Somebody edits the default branch.
CommitMain ==
  /\ MayEdit
  /\ commits' = Append(commits, CommitOf({main}, [Tree(main) EXCEPT !.edits = @ \union {NewId}]))
  /\ main' = NewId
  /\ UNCHANGED <<topic, requests, tagged, touched, pc, job>>

\* Somebody edits a topic, or creates one for a version to come.
CommitTopic(v) ==
  /\ MayEdit
  /\ topic[v] # None \/ commits[main].version < v
  /\ LET from == IF topic[v] = None THEN main ELSE topic[v]
     IN  commits' = Append(commits, CommitOf({from}, [Tree(from) EXCEPT !.edits = @ \union {NewId}]))
  /\ topic' = [topic EXCEPT ![v] = NewId]
  /\ touched' = touched \union {v}
  /\ UNCHANGED <<main, requests, tagged, pc, job>>

DeleteTopic(v) ==
  /\ topic[v] # None
  /\ topic' = [topic EXCEPT ![v] = None]
  /\ requests' = requests \ {v}
  /\ touched' = touched \ {v}
  /\ UNCHANGED <<commits, main, tagged, pc, job>>

\* A pull request is merged, as a merge commit or squashed.
MergeRequest(v) ==
  /\ v \in requests
  /\ Len(commits) < MaxCommits
  /\ \E b \in MergeBases(main, topic[v]), squash \in BOOLEAN :
       /\ ~Conflict(b, main, topic[v])
       /\ commits' = Append(commits, CommitOf(IF squash THEN {main} ELSE {main, topic[v]},
                                              Merged(b, main, topic[v])))
  /\ main' = NewId
  /\ requests' = requests \ {v}
  /\ UNCHANGED <<topic, tagged, touched, pc, job>>

CloseRequest(v) ==
  /\ v \in requests
  /\ requests' = requests \ {v}
  /\ UNCHANGED <<commits, main, topic, tagged, touched, pc, job>>

\* A stable release of the base that the default branch has.
ReleaseStable ==
  /\ commits[main].version \notin tagged
  /\ tagged' = tagged \union {commits[main].version}
  /\ UNCHANGED <<commits, main, topic, requests, touched, pc, job>>

Others ==
  \/ CommitMain \/ ReleaseStable
  \/ \E v \in Versions :
       CommitTopic(v) \/ DeleteTopic(v) \/ MergeRequest(v) \/ CloseRequest(v)

Next == Others \/ \E p \in Preparers : Prepare(p)

Spec == Init /\ [][Next]_vars

(***************************************************************************)
(* Properties.                                                             *)
(***************************************************************************)
\* An edit that somebody pushed to a topic is neither overwritten nor left out of what
\* the command pushes after it, and no merge of a prepared version takes an edit off
\* the default branch, whoever pushed in between (prepare_version.py:231, :381).
EditsIn(c) == IF c = None THEN {} ELSE commits[c].edits
HumanWorkKept ==
  [][/\ commits[main].edits \subseteq commits'[main'].edits
     /\ \A v \in Versions : topic[v] # None /\ topic'[v] # topic[v] /\ topic'[v] # None =>
          /\ topic[v] \in commits'[topic'[v]].past
          /\ EditsIn(topic[v]) \subseteq commits'[topic'[v]].edits]_vars

\* A topic that only the command pushed to is its own for every later run, however its
\* runs ended and the default branch moved on, as long as the version is still to be
\* prepared: a run that dies between push and pull request does not stand in the way
\* of the next (prepare_version.py:231, :381).
OwnTopicAccepted ==
  \A v \in Versions :
    topic[v] # None /\ v \notin touched /\ commits[main].version < v =>
      \A b \in MergeBases(topic[v], main) : OwnedFrom(b, topic[v], v)

\* A pull request the command returned merges into the default branch it was prepared
\* for, and gives that branch plus the version and nothing else ("avoiding textual
\* conflicts", prepare_version.py:363), unless somebody pushed to the topic or merged
\* another version before. The exception is a topic that was prepared before
\* the default branch took another version: if it has the right tree already nothing is
\* pushed, and its pull request keeps its conflict.
PullRequestMerges ==
  \A p \in Preparers :
    LET v == job[p].target
    IN  pc[p] = "done" /\ v \in requests /\ main = job[p].head /\ topic[v] = job[p].found =>
          \A b \in MergeBases(main, topic[v]) :
            /\ Conflict(b, main, topic[v]) => Tree(topic[v]) = Projection(p)
            /\ ~Conflict(b, main, topic[v]) => Merged(b, main, topic[v]) = Projection(p)
================================================================================
