--------------------------- MODULE ReleasePublisher ---------------------------
(***************************************************************************)
(* The transaction that publishes one release (_publish_prepared,          *)
(* create_release_once and _reconcile_created_release of                   *)
(* scripts/release_control.py), for several publication attempts and a     *)
(* maintainer that meet on the same tag.                                   *)
(*                                                                         *)
(* Each request to GitHub is a step. A write may be applied and its answer *)
(* lost, and the POST that creates the release may be handled after the    *)
(* attempt stopped waiting for it.                                         *)
(***************************************************************************)
EXTENDS Integers

CONSTANTS
  Publishers,   \* publication attempts; each marks its release with its own nonce
  Maintainer,   \* whoever else writes releases and tags
  Commits,      \* commits a tag or the default branch may point to
  NoCommit,     \* no tag
  Assets,       \* names of the staged files
  MaxReleases,  \* bound: releases ever created under the tag
  MaxMeddling   \* bound: steps of the maintainer

ASSUME PublisherAssumption ==
  /\ Maintainer \notin Publishers
  /\ NoCommit \notin Commits
  /\ MaxReleases \in Nat
  /\ MaxMeddling \in Nat

NoId == 0
Ids == 1..MaxReleases
Modes == {"automatic", "dispatched", "promotion"}
Bytes == {"absent", "staged", "damaged"}
Release == [state : {"none", "draft", "published", "deleted"},
            by : Publishers \cup {Maintainer}, assets : [Assets -> Bytes]]

VARIABLES
  tag,       \* the commit the release tag points to, or NoCommit
  head,      \* the commit of the default branch
  releases,  \* the releases of the tag by release ID
  mode,      \* automatic candidate, dispatched candidate or byte promotion
  sha,       \* the commit an attempt publishes
  pc,        \* where the attempt's _publish_prepared stands
  source,    \* the default-branch head the attempt captured
  release,   \* the release ID the attempt works on, or NoId
  seen,      \* releases of the tag in the attempt's first inventory
  left,      \* staged files the attempt has not uploaded, or not verified, yet
  pending,   \* attempts whose create POST GitHub has still to handle
  meddling,  \* steps the maintainer took
  moved,     \* history: whether the maintainer ever moved or deleted the tag
  exposed    \* history: attempts under which he did so after they had read the tag back

githubVars == <<tag, head, releases>>
vars == <<tag, head, releases, mode, sha, pc, source, release, seen, left, pending, meddling,
          moved, exposed>>
meddlingVars == <<meddling, moved, exposed>>

Ended == {"done", "failed"}
Reading == {"list", "relist", "adopt"}
Filling == {"upload", "verify", "confirm", "patch"}
PC == {"idle", "absent", "tag", "create"} \cup Reading \cup Filling \cup Ended

TypeOK ==
  /\ tag \in Commits \cup {NoCommit}
  /\ head \in Commits
  /\ releases \in [Ids -> Release]
  /\ mode \in [Publishers -> Modes]
  /\ sha \in [Publishers -> Commits]
  /\ pc \in [Publishers -> PC]
  /\ source \in [Publishers -> Commits]
  /\ release \in [Publishers -> Ids \cup {NoId}]
  /\ seen \in [Publishers -> SUBSET Ids]
  /\ left \in [Publishers -> SUBSET Assets]
  /\ pending \subseteq Publishers
  /\ meddling \in Nat
  /\ moved \in BOOLEAN
  /\ exposed \in SUBSET Publishers

Empty == [a \in Assets |-> "absent"]

Init ==
  /\ tag = NoCommit
  /\ head \in Commits
  /\ releases = [i \in Ids |-> [state |-> "none", by |-> Maintainer, assets |-> Empty]]
  /\ mode \in [Publishers -> Modes]
  /\ sha \in [Publishers -> Commits]
  /\ pc = [p \in Publishers |-> "idle"]
  /\ source = [p \in Publishers |-> head]
  /\ release = [p \in Publishers |-> NoId]
  /\ seen = [p \in Publishers |-> {}]
  /\ left = [p \in Publishers |-> {}]
  /\ pending = {}
  /\ meddling = 0
  /\ moved = FALSE
  /\ exposed = {}

--------------------------------------------------------------------------------
Goto(p, label) == pc' = [pc EXCEPT ![p] = label]

(* GitHub applied the write: the attempt goes on, or the answer is lost.   *)
Applied(p, label) == Goto(p, label) \/ Goto(p, "failed")

(* What the release list shows under the tag.                              *)
Listed == {i \in Ids : releases[i].state \in {"draft", "published"}}

(* GitHub gives every release a new ID and allows many drafts of a tag.    *)
NewRelease(i, who) ==
  /\ releases[i].state = "none"
  /\ \A j \in Ids : j < i => releases[j].state # "none"
  /\ releases' = [releases EXCEPT ![i] = [state |-> "draft", by |-> who, assets |-> Empty]]

(* publish_versioned captures the default branch for its confirmations; an *)
(* automatic candidate must still be its head.                             *)
Begin(p) ==
  /\ pc[p] = "idle"
  /\ mode[p] = "automatic" => head = sha[p]
  /\ source' = [source EXCEPT ![p] = head]
  /\ Goto(p, "absent")
  /\ UNCHANGED <<githubVars, mode, sha, release, seen, left, pending, meddlingVars>>

EnsureAbsent(p) ==
  /\ pc[p] = "absent"
  /\ tag = NoCommit
  /\ Listed = {}
  /\ Goto(p, "tag")
  /\ UNCHANGED <<githubVars, mode, sha, source, release, seen, left, pending, meddlingVars>>

(* Mutant of CreateTag: a tag that exists is good enough.                  *)
ReuseTag(p) ==
  /\ pc[p] = "tag"
  /\ tag' = IF tag = NoCommit THEN sha[p] ELSE tag
  /\ Applied(p, "create")
  /\ UNCHANGED <<head, releases, mode, sha, source, release, seen, left, pending, meddlingVars>>

(* POST git/refs: GitHub refuses a tag that exists.                        *)
CreateTag(p) ==
  /\ pc[p] = "tag"
  /\ tag = NoCommit
  /\ tag' = sha[p]
  /\ Applied(p, "create")
  /\ UNCHANGED <<head, releases, mode, sha, source, release, seen, left, pending, meddlingVars>>

(* create_release_once got its answer.                                     *)
CreateAnswered(p) ==
  /\ pc[p] = "create"
  /\ \E i \in Ids : NewRelease(i, p) /\ release' = [release EXCEPT ![p] = i]
  /\ left' = [left EXCEPT ![p] = Assets]
  /\ Goto(p, "upload")
  /\ UNCHANGED <<tag, head, mode, sha, source, seen, pending, meddlingVars>>

(* Mutant of CreateAmbiguous: the POST is sent again.                      *)
ReplayCreate(p) ==
  /\ pc[p] = "create"
  /\ \/ (\E i \in Ids : NewRelease(i, p)) /\ UNCHANGED pending
     \/ pending' = pending \cup {p} /\ UNCHANGED releases
  /\ UNCHANGED <<tag, head, mode, sha, pc, source, release, seen, left, meddlingVars>>

(* The outcome is ambiguous: the draft exists, will exist, or never will.  *)
(* Only the versioned callers read back; a promotion gives up.             *)
CreateAmbiguous(p) ==
  /\ pc[p] = "create"
  /\ \/ (\E i \in Ids : NewRelease(i, p)) /\ UNCHANGED pending
     \/ pending' = pending \cup {p} /\ UNCHANGED releases
     \/ UNCHANGED <<releases, pending>>
  /\ Goto(p, IF mode[p] = "promotion" THEN "failed" ELSE "list")
  /\ UNCHANGED <<tag, head, mode, sha, source, release, seen, left, meddlingVars>>

(* GitHub handles a POST whose sender timed out.                           *)
LateCreate(p) ==
  /\ p \in pending
  /\ \E i \in Ids : NewRelease(i, p)
  /\ pending' = pending \ {p}
  /\ UNCHANGED <<tag, head, mode, sha, pc, source, release, seen, left, meddlingVars>>

(* _reconcile_created_release: the confirmation and the first inventory.   *)
ListOnce(p) ==
  /\ pc[p] = "list"
  /\ head = source[p]
  /\ seen' = [seen EXCEPT ![p] = Listed]
  /\ Goto(p, "relist")
  /\ UNCHANGED <<githubVars, mode, sha, source, release, left, pending, meddlingVars>>

(* Mutant of OwnEmptyDraft: the nonce in the body is not compared.         *)
AnyEmptyDraft(i, p) ==
  /\ releases[i].state = "draft"
  /\ releases[i].assets = Empty

(* The release is an empty draft that carries this attempt's own request.  *)
OwnEmptyDraft(i, p) ==
  /\ releases[i].state = "draft"
  /\ releases[i].by = p
  /\ releases[i].assets = Empty

(* The second inventory is the first and shows one release of the tag.     *)
ListAgain(p) ==
  /\ pc[p] = "relist"
  /\ Listed = seen[p]
  /\ \E i \in Ids :
       /\ Listed = {i}
       /\ OwnEmptyDraft(i, p)
       /\ release' = [release EXCEPT ![p] = i]
  /\ Goto(p, "adopt")
  /\ UNCHANGED <<githubVars, mode, sha, source, seen, left, pending, meddlingVars>>

(* The release by its ID, the tag, the confirmation, the release again.    *)
Adopt(p) ==
  /\ pc[p] = "adopt"
  /\ OwnEmptyDraft(release[p], p)
  /\ tag = sha[p]
  /\ head = source[p]
  /\ left' = [left EXCEPT ![p] = Assets]
  /\ Goto(p, "upload")
  /\ UNCHANGED <<githubVars, mode, sha, source, release, seen, pending, meddlingVars>>

(* GitHub stores one file of the attempt, whole or damaged; it refuses a   *)
(* second file of that name. A lost answer ends the attempt.               *)
Upload(p, a) ==
  /\ pc[p] = "upload"
  /\ a \in left[p]
  /\ releases[release[p]].state # "deleted"
  /\ releases[release[p]].assets[a] = "absent"
  /\ \E b \in {"staged", "damaged"} : releases' = [releases EXCEPT ![release[p]].assets[a] = b]
  /\ \/ left' = [left EXCEPT ![p] = @ \ {a}] /\ UNCHANGED pc
     \/ Goto(p, "failed") /\ UNCHANGED left
  /\ UNCHANGED <<tag, head, mode, sha, source, release, seen, pending, meddlingVars>>

(* Mutant of Inventory: the files are taken for verified.                  *)
NothingToVerify(p) ==
  /\ pc[p] = "upload"
  /\ left[p] = {}
  /\ releases[release[p]].state # "deleted"
  /\ \A a \in Assets : releases[release[p]].assets[a] # "absent"
  /\ Goto(p, "verify")
  /\ UNCHANGED <<githubVars, mode, sha, source, release, seen, left, pending, meddlingVars>>

(* The loop over the staged files ends and the inventory is compared.      *)
Inventory(p) ==
  /\ pc[p] = "upload"
  /\ left[p] = {}
  /\ releases[release[p]].state # "deleted"
  /\ \A a \in Assets : releases[release[p]].assets[a] # "absent"
  /\ left' = [left EXCEPT ![p] = Assets]
  /\ Goto(p, "verify")
  /\ UNCHANGED <<githubVars, mode, sha, source, release, seen, pending, meddlingVars>>

(* verify_uploaded_asset downloads a file and compares it.                 *)
Verify(p, a) ==
  /\ pc[p] = "verify"
  /\ a \in left[p]
  /\ releases[release[p]].state # "deleted"
  /\ releases[release[p]].assets[a] = "staged"
  /\ left' = [left EXCEPT ![p] = @ \ {a}]
  /\ UNCHANGED <<githubVars, mode, sha, pc, source, release, seen, pending, meddlingVars>>

(* Mutant of ReadTag: the downloads are not awaited.                       *)
ReadTagEarly(p) ==
  /\ pc[p] = "verify"
  /\ tag = sha[p]
  /\ Goto(p, "confirm")
  /\ UNCHANGED <<githubVars, mode, sha, source, release, seen, left, pending, meddlingVars>>

(* Mutant of ReadTag: the tag this attempt created is still its own.       *)
TrustTag(p) ==
  /\ pc[p] = "verify"
  /\ left[p] = {}
  /\ Goto(p, "confirm")
  /\ UNCHANGED <<githubVars, mode, sha, source, release, seen, left, pending, meddlingVars>>

(* The tag is read back once every file is verified.                       *)
ReadTag(p) ==
  /\ pc[p] = "verify"
  /\ left[p] = {}
  /\ tag = sha[p]
  /\ Goto(p, "confirm")
  /\ UNCHANGED <<githubVars, mode, sha, source, release, seen, left, pending, meddlingVars>>

(* confirm_automatic_source; other modes have nothing to confirm.          *)
ConfirmPublish(p) ==
  /\ pc[p] = "confirm"
  /\ mode[p] = "automatic" => head = source[p]
  /\ Goto(p, "patch")
  /\ UNCHANGED <<githubVars, mode, sha, source, release, seen, left, pending, meddlingVars>>

(* The PATCH that publishes the draft. GitHub allows one published release *)
(* of a tag and creates a tag that is missing.                             *)
Publish(p) ==
  /\ pc[p] = "patch"
  /\ releases[release[p]].state # "deleted"
  /\ \A i \in Ids : releases[i].state = "published" => i = release[p]
  /\ releases' = [releases EXCEPT ![release[p]].state = "published"]
  /\ tag' = IF tag = NoCommit THEN sha[p] ELSE tag
  /\ Applied(p, "done")
  /\ UNCHANGED <<head, mode, sha, source, release, seen, left, pending, meddlingVars>>

Fail(p) ==
  /\ pc[p] \notin Ended
  /\ Goto(p, "failed")
  /\ UNCHANGED <<githubVars, mode, sha, source, release, seen, left, pending, meddlingVars>>

--------------------------------------------------------------------------------
(* The maintainer writes a draft of his own, deletes an unpublished one,   *)
(* pushes to the default branch, moves or deletes the tag.                 *)
Meddle ==
  /\ meddling < MaxMeddling
  /\ meddling' = meddling + 1
  /\ UNCHANGED <<mode, sha, pc, source, release, seen, left, pending>>

DraftByHand ==
  /\ Meddle
  /\ \E i \in Ids : NewRelease(i, Maintainer)
  /\ UNCHANGED <<tag, head, moved, exposed>>

DeleteDraft ==
  /\ Meddle
  /\ \E i \in Ids :
       /\ releases[i].state = "draft"
       /\ releases' = [releases EXCEPT ![i].state = "deleted"]
  /\ UNCHANGED <<tag, head, moved, exposed>>

PushDefaultBranch ==
  /\ Meddle
  /\ head' \in Commits \ {head}
  /\ UNCHANGED <<tag, releases, moved, exposed>>

MoveTag ==
  /\ Meddle
  /\ tag' \in (Commits \cup {NoCommit}) \ {tag}
  /\ moved' = TRUE
  /\ exposed' = exposed \cup {p \in Publishers : pc[p] \in {"confirm", "patch"}}
  /\ UNCHANGED <<head, releases>>

Create(p) == CreateAnswered(p) \/ CreateAmbiguous(p) \/ LateCreate(p)
Reconcile(p) == ListOnce(p) \/ ListAgain(p) \/ Adopt(p)
Fill(p) == \E a \in Assets : Upload(p, a) \/ Verify(p, a)
Finish(p) == Inventory(p) \/ ReadTag(p) \/ ConfirmPublish(p) \/ Publish(p)

Next ==
  \/ \E p \in Publishers :
       \/ Begin(p) \/ EnsureAbsent(p) \/ CreateTag(p) \/ Create(p) \/ Reconcile(p)
       \/ Fill(p) \/ Finish(p) \/ Fail(p)
  \/ DraftByHand \/ DeleteDraft \/ PushDefaultBranch \/ MoveTag

Spec == Init /\ [][Next]_vars

--------------------------------------------------------------------------------
(* An attempt uploads to, verifies and publishes only the release its own  *)
(* POST created, also when the answer was lost and others draft releases   *)
(* of the same tag meanwhile (_reconcile_created_release).                 *)
WorksOnOwnRelease ==
  \A p \in Publishers : release[p] # NoId => releases[release[p]].by = p

(* A published release holds every staged file, each byte as staged:       *)
(* failed, partial or damaged uploads never leave the draft                *)
(* (verify_uploaded_asset before the PATCH).                               *)
PublishedWhole ==
  \A i \in Ids : releases[i].state = "published" =>
    releases[i].by \in Publishers /\ \A a \in Assets : releases[i].assets[a] = "staged"

(* An attempt creates at most one release, whatever happened to the answer *)
(* of its POST (create_release_once: never replay the POST).               *)
CreateNeverReplayed ==
  \A i, j \in Ids : releases[i].by = releases[j].by /\ releases[i].by \in Publishers => i = j

(* While nobody moves tags, creating the tag is a lock: of the attempts    *)
(* that race for a tag only one ever creates a release.                    *)
TagIsLock ==
  ~moved =>
    \A i, j \in Ids : releases[i].by \in Publishers /\ releases[j].by \in Publishers => i = j

(* A release becomes public under the commit it was built from, whoever    *)
(* raced for the tag and wherever it was moved during the uploads (the tag *)
(* is read back before the PATCH); only a tag that is moved after that     *)
(* last look can be missed.                                                *)
PublishedAtItsCommit ==
  [][\A i \in Ids :
       releases[i].state # "published" /\ releases'[i].state = "published" =>
         releases[i].by \in exposed \/ tag' = sha[releases[i].by]]_vars

(* The inductive invariant. Posted: p went past its tag, or left a POST or *)
(* a release behind.                                                       *)
Before == {"idle", "absent", "tag", "create"}
Made(p) == {i \in Ids : releases[i].by = p}
Posted(p) ==
  pc[p] \in {"create", "done"} \cup Reading \cup Filling \/ p \in pending \/ Made(p) # {}

(* No POST is left to handle once p has a release, and p knows its own.    *)
OneRelease(p) ==
  /\ pc[p] \in Before \/ p \in pending => Made(p) = {} /\ release[p] = NoId
  /\ pc[p] \in Before => p \notin pending
  /\ pc[p] \in {"adopt"} \cup Filling => release[p] # NoId
  /\ release[p] # NoId => release[p] \in Made(p)

(* Files that were verified are whole.                                     *)
FilesVerified(p) ==
  /\ pc[p] = "verify" => \A a \in Assets \ left[p] : releases[release[p]].assets[a] = "staged"
  /\ pc[p] \in {"confirm", "patch"} => \A a \in Assets : releases[release[p]].assets[a] = "staged"

TagHeld ==
  ~moved =>
    /\ \A p \in Publishers : Posted(p) => tag = sha[p]
    /\ \A p, q \in Publishers : Posted(p) /\ Posted(q) => p = q

TransactionInv ==
  /\ TypeOK
  /\ \A i \in Ids : releases[i].state = "none" => releases[i].by = Maintainer
  /\ \A p \in Publishers : OneRelease(p) /\ FilesVerified(p)
  /\ CreateNeverReplayed
  /\ PublishedWhole
  /\ TagHeld
================================================================================
