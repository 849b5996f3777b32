------------------------ MODULE ReleasePublisherProofs ------------------------
(***************************************************************************)
(* Proofs about ReleasePublisher, for any attempts, commits, files and     *)
(* bounds: the type invariant, the inductive invariant TransactionInv and what       *)
(* follows from it.                                                        *)
(***************************************************************************)
EXTENDS ReleasePublisher, TLAPS

(* A new release changes no other release of the tag.                      *)
LEMMA NewReleaseType ==
  ASSUME TypeOK, NEW i \in Ids, NEW who \in Publishers \cup {Maintainer}, NewRelease(i, who)
  PROVE  /\ releases' \in [Ids -> Release]
         /\ \A j \in Ids : j # i => releases'[j] = releases[j]
         /\ releases[i].state = "none"
         /\ releases'[i].state = "draft"
         /\ releases'[i].by = who
         /\ releases'[i].assets = Empty
<1>1. Empty \in [Assets -> Bytes]
  BY DEF Empty, Bytes
<1>2. QED
  BY <1>1 DEF TypeOK, NewRelease, Release

(* What a step of attempt p may do to the locals of the attempts.          *)
LEMMA GotoType ==
  ASSUME TypeOK, NEW p \in Publishers, NEW label \in PC, Goto(p, label)
  PROVE  pc' \in [Publishers -> PC]
BY DEF TypeOK, Goto

(* An upload stores one file, which the release did not have.              *)
LEMMA UploadType ==
  ASSUME TypeOK, NEW p \in Publishers, NEW a \in Assets, Upload(p, a)
  PROVE  /\ releases' \in [Ids -> Release]
         /\ \A i \in Ids : i # release[p] => releases'[i] = releases[i]
         /\ \A i \in Ids :
              /\ releases'[i].state = releases[i].state
              /\ releases'[i].by = releases[i].by
<1> DEFINE old == releases[release[p]]
<1>1. PICK b \in {"staged", "damaged"} :
        releases' = [releases EXCEPT ![release[p]] = [old EXCEPT !.assets = [old.assets EXCEPT ![a] = b]]]
  BY DEF Upload
<1>2. CASE release[p] \in Ids
  <2>1. old \in Release
    BY <1>2 DEF TypeOK
  <2>2. [old.assets EXCEPT ![a] = b] \in [Assets -> Bytes]
    BY <2>1 DEF Release, Bytes
  <2>3. [old EXCEPT !.assets = [old.assets EXCEPT ![a] = b]] \in Release
    BY <2>1, <2>2 DEF Release
  <2>4. releases' \in [Ids -> Release]
    BY <1>1, <2>3 DEF TypeOK
  <2>5. /\ [old EXCEPT !.assets = [old.assets EXCEPT ![a] = b]].state = old.state
        /\ [old EXCEPT !.assets = [old.assets EXCEPT ![a] = b]].by = old.by
    BY <2>1 DEF Release
  <2>6. QED
    BY <1>1, <1>2, <2>4, <2>5 DEF TypeOK
<1>3. CASE release[p] \notin Ids
  <2>1. releases' = releases
    BY <1>1, <1>3 DEF TypeOK
  <2>2. QED
    BY <2>1 DEF TypeOK
<1>4. QED
  BY <1>2, <1>3

(* A release a maintainer deletes changes its state only.                  *)
LEMMA DeleteType ==
  ASSUME TypeOK, DeleteDraft
  PROVE  releases' \in [Ids -> Release]
<1>1. PICK i \in Ids : releases' = [releases EXCEPT ![i] = [releases[i] EXCEPT !.state = "deleted"]]
  BY DEF DeleteDraft
<1>2. releases[i] \in Release
  BY DEF TypeOK
<1>3. [releases[i] EXCEPT !.state = "deleted"] \in Release
  BY <1>2 DEF Release
<1>4. QED
  BY <1>1, <1>3 DEF TypeOK

(* The PATCH changes the state of one release.                             *)
LEMMA PublishType ==
  ASSUME TypeOK, NEW p \in Publishers, Publish(p)
  PROVE  /\ releases' \in [Ids -> Release]
         /\ \A i \in Ids :
              /\ i # release[p] => releases'[i] = releases[i]
              /\ releases'[i].by = releases[i].by
              /\ releases'[i].assets = releases[i].assets
              /\ releases'[i].state = IF i = release[p] THEN "published" ELSE releases[i].state
<1> DEFINE new == [releases[release[p]] EXCEPT !.state = "published"]
<1>1. releases' = [releases EXCEPT ![release[p]] = new]
  BY DEF Publish
<1>2. CASE release[p] \in Ids
  <2>1. releases[release[p]] \in Release
    BY <1>2 DEF TypeOK
  <2>2. new \in Release /\ new.state = "published"
        /\ new.by = releases[release[p]].by /\ new.assets = releases[release[p]].assets
    BY <2>1 DEF Release
  <2>3. QED
    BY <1>1, <1>2, <2>2 DEF TypeOK
<1>3. CASE release[p] \notin Ids
  BY <1>1, <1>3 DEF TypeOK
<1>4. QED
  BY <1>2, <1>3

(* The type invariant is preserved by every step.                          *)
LEMMA TypeStep ==
  ASSUME TypeOK, [Next]_vars
  PROVE  TypeOK'
<1> USE PublisherAssumption DEF TypeOK, PC, Reading, Filling, Ended, Goto, Applied
<1>1. ASSUME NEW p \in Publishers, Begin(p)
      PROVE  TypeOK'
  BY <1>1 DEF Begin, githubVars, meddlingVars
<1>2. ASSUME NEW p \in Publishers, EnsureAbsent(p)
      PROVE  TypeOK'
  BY <1>2 DEF EnsureAbsent, githubVars, meddlingVars
<1>3. ASSUME NEW p \in Publishers, CreateTag(p)
      PROVE  TypeOK'
  BY <1>3 DEF CreateTag, meddlingVars
<1>4. ASSUME NEW p \in Publishers, CreateAnswered(p)
      PROVE  TypeOK'
  <2>1. PICK i \in Ids : NewRelease(i, p) /\ release' = [release EXCEPT ![p] = i]
    BY <1>4 DEF CreateAnswered
  <2>2. releases' \in [Ids -> Release]
    BY <2>1, NewReleaseType
  <2>3. release' \in [Publishers -> Ids \cup {NoId}]
    BY <2>1
  <2>4. QED
    BY <1>4, <2>2, <2>3 DEF CreateAnswered, meddlingVars
<1>5. ASSUME NEW p \in Publishers, CreateAmbiguous(p)
      PROVE  TypeOK'
  <2>1. releases' \in [Ids -> Release]
    BY <1>5, NewReleaseType DEF CreateAmbiguous
  <2>2. pending' \subseteq Publishers
    BY <1>5 DEF CreateAmbiguous
  <2>3. QED
    BY <1>5, <2>1, <2>2 DEF CreateAmbiguous, meddlingVars
<1>6. ASSUME NEW p \in Publishers, LateCreate(p)
      PROVE  TypeOK'
  <2>1. releases' \in [Ids -> Release]
    BY <1>6, NewReleaseType DEF LateCreate
  <2>2. QED
    BY <1>6, <2>1 DEF LateCreate, meddlingVars
<1>7. ASSUME NEW p \in Publishers, Reconcile(p)
      PROVE  TypeOK'
  <2>1. CASE ListOnce(p)
    BY <2>1 DEF ListOnce, Listed, githubVars, meddlingVars
  <2>2. CASE ListAgain(p)
    BY <2>2 DEF ListAgain, githubVars, meddlingVars
  <2>3. CASE Adopt(p)
    BY <2>3 DEF Adopt, githubVars, meddlingVars
  <2>4. QED
    BY <1>7, <2>1, <2>2, <2>3 DEF Reconcile
<1>8. ASSUME NEW p \in Publishers, NEW a \in Assets, Upload(p, a)
      PROVE  TypeOK'
  <2>1. releases' \in [Ids -> Release]
    BY <1>8, UploadType
  <2>2. QED
    BY <1>8, <2>1 DEF Upload, meddlingVars
<1>9. ASSUME NEW p \in Publishers, NEW a \in Assets, Verify(p, a)
      PROVE  TypeOK'
  BY <1>9 DEF Verify, githubVars, meddlingVars
<1>10. ASSUME NEW p \in Publishers, Finish(p)
       PROVE  TypeOK'
  <2>1. CASE Inventory(p)
    BY <2>1 DEF Inventory, githubVars, meddlingVars
  <2>2. CASE ReadTag(p)
    BY <2>2 DEF ReadTag, githubVars, meddlingVars
  <2>3. CASE ConfirmPublish(p)
    BY <2>3 DEF ConfirmPublish, githubVars, meddlingVars
  <2>4. CASE Publish(p)
    <3>1. releases' \in [Ids -> Release]
      BY <2>4, PublishType
    <3>2. tag' \in Commits \cup {NoCommit}
      BY <2>4 DEF Publish
    <3>3. QED
      BY <2>4, <3>1, <3>2 DEF Publish, meddlingVars
  <2>5. QED
    BY <1>10, <2>1, <2>2, <2>3, <2>4 DEF Finish
<1>11. ASSUME NEW p \in Publishers, Fail(p)
       PROVE  TypeOK'
  BY <1>11 DEF Fail, githubVars, meddlingVars
<1>12. CASE DraftByHand
  <2>1. releases' \in [Ids -> Release]
    BY <1>12, NewReleaseType DEF DraftByHand
  <2>2. QED
    BY <1>12, <2>1 DEF DraftByHand, Meddle
<1>13. CASE DeleteDraft
  <2>1. releases' \in [Ids -> Release]
    BY <1>13, DeleteType
  <2>2. QED
    BY <1>13, <2>1 DEF DeleteDraft, Meddle
<1>14. CASE PushDefaultBranch
  BY <1>14 DEF PushDefaultBranch, Meddle
<1>15. CASE MoveTag
  BY <1>15 DEF MoveTag, Meddle
<1>16. CASE UNCHANGED vars
  BY <1>16 DEF vars
<1>17. QED
  BY <1>1, <1>2, <1>3, <1>4, <1>5, <1>6, <1>7, <1>8, <1>9, <1>10, <1>11, <1>12, <1>13,
     <1>14, <1>15, <1>16 DEF Next, Create, Fill

(* An attempt that a step leaves alone keeps what TransactionInv says of it.         *)
LEMMA OthersKeep ==
  ASSUME TransactionInv, NEW q \in Publishers,
         pc'[q] = pc[q], release'[q] = release[q], left'[q] = left[q],
         q \in pending' <=> q \in pending,
         Made(q)' = Made(q),
         \A i \in Made(q) : releases'[i].assets = releases[i].assets
  PROVE  OneRelease(q)' /\ FilesVerified(q)' /\ (Posted(q)' <=> Posted(q))
<1>1. OneRelease(q)' /\ (Posted(q)' <=> Posted(q))
  BY DEF TransactionInv, OneRelease, Posted
<1>2. pc[q] \in {"verify", "confirm", "patch"} => release[q] \in Made(q)
  BY DEF TransactionInv, OneRelease, Filling
<1>3. FilesVerified(q)'
  BY <1>2 DEF TransactionInv, FilesVerified
<1>4. QED
  BY <1>1, <1>3

(* Steps that read GitHub, or stop, change only the attempt itself.        *)
LEMMA QuietStep ==
  ASSUME TransactionInv, TypeOK', NEW p \in Publishers,
         UNCHANGED <<tag, releases, sha, pending, moved>>,
         \A q \in Publishers \ {p} :
           pc'[q] = pc[q] /\ release'[q] = release[q] /\ left'[q] = left[q],
         OneRelease(p)', FilesVerified(p)', Posted(p)' => Posted(p)
  PROVE  TransactionInv'
<1>1. \A q \in Publishers : Made(q)' = Made(q)
  BY DEF Made
<1>2. ASSUME NEW q \in Publishers
      PROVE  OneRelease(q)' /\ FilesVerified(q)' /\ (Posted(q)' => Posted(q))
  <2>1. CASE q = p
    BY <2>1
  <2>2. CASE q # p
    BY <1>1, <2>2, OthersKeep
  <2>3. QED
    BY <2>1, <2>2
<1>3. TagHeld'
  BY <1>2 DEF TransactionInv, TagHeld
<1>4. CreateNeverReplayed' /\ PublishedWhole'
  BY DEF TransactionInv, CreateNeverReplayed, PublishedWhole
<1>5. QED
  BY <1>2, <1>3, <1>4 DEF TransactionInv

(* An attempt's POST, in time or late, makes the one release it ever makes.*)
LEMMA CreateStep ==
  ASSUME TransactionInv, TypeOK', NEW p \in Publishers, NEW i \in Ids, NewRelease(i, p),
         Made(p) = {}, Posted(p), p \notin pending', pending' \subseteq pending,
         pending \ {p} \subseteq pending',
         UNCHANGED <<tag, sha, moved>>,
         \A q \in Publishers \ {p} :
           pc'[q] = pc[q] /\ release'[q] = release[q] /\ left'[q] = left[q],
         pc'[p] \notin Before \cup {"verify", "confirm", "patch"},
         pc'[p] \in {"adopt"} \cup Filling => release'[p] = i,
         release'[p] \in {NoId, i}
  PROVE  TransactionInv'
<1> USE PublisherAssumption
<1>1. TypeOK
  BY DEF TransactionInv
<1>2. /\ \A j \in Ids : j # i => releases'[j] = releases[j]
      /\ releases[i].state = "none" /\ releases'[i].state = "draft" /\ releases'[i].by = p
  BY <1>1, NewReleaseType
<1>3. releases[i].by = Maintainer
  BY <1>2 DEF TransactionInv
<1>4. Made(p)' = {i}
  BY <1>2 DEF Made
<1>5. \A q \in Publishers \ {p} : Made(q)' = Made(q) /\ i \notin Made(q)
  BY <1>2, <1>3 DEF Made
<1>6. OneRelease(p)' /\ FilesVerified(p)'
  <2>1. i # NoId
    BY DEF Ids, NoId
  <2>2. QED
    BY <1>4, <2>1 DEF OneRelease, FilesVerified
<1>7. ASSUME NEW q \in Publishers
      PROVE  OneRelease(q)' /\ FilesVerified(q)' /\ (Posted(q)' => Posted(q))
  <2>1. CASE q = p
    BY <1>6, <2>1
  <2>2. CASE q # p
    <3>1. \A j \in Made(q) : releases'[j].assets = releases[j].assets
      BY <1>2, <1>5, <2>2 DEF Made
    <3>2. QED
      BY <1>5, <2>2, <3>1, OthersKeep
  <2>3. QED
    BY <2>1, <2>2
<1>8. TagHeld'
  BY <1>7 DEF TransactionInv, TagHeld
<1>9. CreateNeverReplayed'
  BY <1>2, <1>3 DEF TransactionInv, CreateNeverReplayed, Made
<1>10. PublishedWhole'
  BY <1>2 DEF TransactionInv, PublishedWhole
<1>11. \A j \in Ids : releases'[j].state = "none" => releases'[j].by = Maintainer
  BY <1>2 DEF TransactionInv
<1>12. QED
  BY <1>7, <1>8, <1>9, <1>10, <1>11 DEF TransactionInv

(* The steps up to the tag, and an attempt that fails.                     *)
LEMMA BeginStep ==
  ASSUME TransactionInv, TypeOK', NEW p \in Publishers,
         Begin(p) \/ EnsureAbsent(p) \/ Fail(p)
  PROVE  TransactionInv'
<1> USE DEF Goto, githubVars, meddlingVars
<1>1. TypeOK
  BY DEF TransactionInv
<1>2. /\ UNCHANGED <<tag, releases, sha, pending, moved, release, left>>
      /\ \A q \in Publishers \ {p} : pc'[q] = pc[q]
      /\ (pc[p] \in Before /\ pc'[p] \in {"absent", "tag"}) \/ pc'[p] = "failed"
  BY <1>1 DEF TypeOK, Begin, EnsureAbsent, Fail, Before
<1>3. Made(p)' = Made(p)
  BY <1>2 DEF Made
<1>4. OneRelease(p)' /\ FilesVerified(p)' /\ (Posted(p)' => Posted(p))
  BY <1>2, <1>3 DEF TransactionInv, OneRelease, FilesVerified, Posted, Before, Filling, Reading
<1>5. QED
  BY <1>2, <1>4, QuietStep

(* The attempt that creates the tag finds none, so no attempt posted.      *)
LEMMA CreateTagStep ==
  ASSUME TransactionInv, TypeOK', NEW p \in Publishers, CreateTag(p)
  PROVE  TransactionInv'
<1> USE PublisherAssumption DEF Goto, Applied, meddlingVars
<1>1. TypeOK
  BY DEF TransactionInv
<1>2. /\ UNCHANGED <<releases, sha, pending, moved, release, left>>
      /\ \A q \in Publishers \ {p} : pc'[q] = pc[q]
      /\ pc[p] = "tag" /\ pc'[p] \in {"create", "failed"}
      /\ tag = NoCommit /\ tag' = sha[p]
  BY <1>1 DEF TypeOK, CreateTag
<1>3. \A q \in Publishers : Made(q)' = Made(q)
  BY <1>2 DEF Made
<1>4. OneRelease(p)' /\ FilesVerified(p)'
  BY <1>2, <1>3 DEF TransactionInv, OneRelease, FilesVerified, Before, Filling
<1>5. ASSUME NEW q \in Publishers \ {p}
      PROVE  OneRelease(q)' /\ FilesVerified(q)' /\ (Posted(q)' => Posted(q))
  BY <1>2, <1>3, OthersKeep
<1>6. ~moved => \A q \in Publishers : ~Posted(q)
  BY <1>1, <1>2 DEF TransactionInv, TagHeld, TypeOK
<1>7. TagHeld'
  BY <1>2, <1>5, <1>6 DEF TagHeld
<1>8. CreateNeverReplayed' /\ PublishedWhole'
  BY <1>2 DEF TransactionInv, CreateNeverReplayed, PublishedWhole
<1>9. \A i \in Ids : releases'[i].state = "none" => releases'[i].by = Maintainer
  BY <1>2 DEF TransactionInv
<1>10. QED
  BY <1>4, <1>5, <1>7, <1>8, <1>9 DEF TransactionInv

(* The POST and what may become of it.                                     *)
LEMMA PostStep ==
  ASSUME TransactionInv, TypeOK', NEW p \in Publishers, Create(p)
  PROVE  TransactionInv'
<1> USE DEF Goto, meddlingVars
<1>1. TypeOK
  BY DEF TransactionInv
<1>2. CASE CreateAnswered(p)
  <2>1. PICK i \in Ids : NewRelease(i, p) /\ release' = [release EXCEPT ![p] = i]
    BY <1>2 DEF CreateAnswered
  <2>2. /\ UNCHANGED <<tag, sha, pending, moved>>
        /\ pc[p] = "create" /\ pc'[p] = "upload" /\ release'[p] = i
        /\ \A q \in Publishers \ {p} :
             pc'[q] = pc[q] /\ release'[q] = release[q] /\ left'[q] = left[q]
    BY <1>1, <1>2, <2>1 DEF TypeOK, CreateAnswered
  <2>3. Made(p) = {} /\ p \notin pending /\ Posted(p)
    BY <2>2 DEF TransactionInv, OneRelease, Posted, Before
  <2>4. QED
    BY <2>1, <2>2, <2>3, CreateStep DEF Before
<1>3. CASE CreateAmbiguous(p)
  <2>1. /\ UNCHANGED <<tag, sha, moved, release, left>>
        /\ pc[p] = "create" /\ pc'[p] \in {"failed", "list"}
        /\ \A q \in Publishers \ {p} : pc'[q] = pc[q]
    BY <1>1, <1>3 DEF TypeOK, CreateAmbiguous
  <2>2. Made(p) = {} /\ p \notin pending /\ Posted(p) /\ release[p] = NoId
    BY <2>1 DEF TransactionInv, OneRelease, Posted, Before
  <2>3. CASE \E i \in Ids : NewRelease(i, p) /\ UNCHANGED pending
    BY <2>1, <2>2, <2>3, CreateStep DEF Before, Filling
  <2>4. CASE UNCHANGED releases /\ pending' \in {pending, pending \cup {p}}
    <3>1. \A q \in Publishers : Made(q)' = Made(q)
      BY <2>4 DEF Made
    <3>2. OneRelease(p)' /\ FilesVerified(p)'
      BY <2>1, <2>2, <3>1 DEF OneRelease, FilesVerified, Before, Filling
    <3>3. ASSUME NEW q \in Publishers
          PROVE  OneRelease(q)' /\ FilesVerified(q)' /\ (Posted(q)' => Posted(q))
      <4>1. CASE q = p
        BY <2>2, <3>2, <4>1
      <4>2. CASE q # p
        BY <2>1, <2>4, <3>1, <4>2, OthersKeep
      <4>3. QED
        BY <4>1, <4>2
    <3>4. TagHeld'
      BY <2>1, <3>3 DEF TransactionInv, TagHeld
    <3>5. CreateNeverReplayed' /\ PublishedWhole'
      BY <2>4 DEF TransactionInv, CreateNeverReplayed, PublishedWhole
    <3>6. \A i \in Ids : releases'[i].state = "none" => releases'[i].by = Maintainer
      BY <2>4 DEF TransactionInv
    <3>7. QED
      BY <3>3, <3>4, <3>5, <3>6 DEF TransactionInv
  <2>5. QED
    BY <1>3, <2>3, <2>4 DEF CreateAmbiguous
<1>4. CASE LateCreate(p)
  <2>1. PICK i \in Ids : NewRelease(i, p)
    BY <1>4 DEF LateCreate
  <2>2. /\ UNCHANGED <<tag, sha, moved, pc, release, left>>
        /\ p \in pending /\ pending' = pending \ {p}
    BY <1>4 DEF LateCreate
  <2>3. Made(p) = {} /\ Posted(p) /\ release[p] = NoId
    BY <2>2 DEF TransactionInv, OneRelease, Posted
  <2>4. pc[p] \notin Before \cup {"adopt"} \cup Filling
    BY <2>2, <2>3 DEF TransactionInv, OneRelease
  <2>5. QED
    BY <2>1, <2>2, <2>3, <2>4, CreateStep DEF Filling
<1>5. QED
  BY <1>2, <1>3, <1>4 DEF Create

(* Reading back an ambiguous POST finds the attempt's own release or fails.*)
LEMMA ReconcileStep ==
  ASSUME TransactionInv, TypeOK', NEW p \in Publishers, Reconcile(p)
  PROVE  TransactionInv'
<1> USE DEF Goto, githubVars, meddlingVars
<1>1. TypeOK
  BY DEF TransactionInv
<1>2. CASE ListOnce(p)
  <2>1. /\ UNCHANGED <<tag, releases, sha, pending, moved, release, left>>
        /\ \A q \in Publishers \ {p} : pc'[q] = pc[q]
        /\ pc[p] = "list" /\ pc'[p] = "relist"
    BY <1>1, <1>2 DEF TypeOK, ListOnce
  <2>2. Made(p)' = Made(p)
    BY <2>1 DEF Made
  <2>3. OneRelease(p)' /\ FilesVerified(p)' /\ Posted(p)
    BY <2>1, <2>2 DEF TransactionInv, OneRelease, FilesVerified, Posted, Before, Filling, Reading
  <2>4. QED
    BY <2>1, <2>3, QuietStep
<1>3. CASE ListAgain(p)
  <2>1. PICK i \in Ids : OwnEmptyDraft(i, p) /\ release' = [release EXCEPT ![p] = i]
    BY <1>3 DEF ListAgain
  <2>2. /\ UNCHANGED <<tag, releases, sha, pending, moved, left>>
        /\ \A q \in Publishers \ {p} : pc'[q] = pc[q] /\ release'[q] = release[q]
        /\ pc[p] = "relist" /\ pc'[p] = "adopt" /\ release'[p] = i
    BY <1>1, <1>3, <2>1 DEF TypeOK, ListAgain
  <2>3. Made(p)' = Made(p) /\ i \in Made(p)
    BY <2>1, <2>2 DEF Made, OwnEmptyDraft
  <2>4. i # NoId
    BY DEF Ids, NoId
  <2>5. OneRelease(p)' /\ FilesVerified(p)' /\ Posted(p)
    BY <2>2, <2>3, <2>4 DEF TransactionInv, OneRelease, FilesVerified, Posted, Before, Filling, Reading
  <2>6. QED
    BY <2>2, <2>5, QuietStep
<1>4. CASE Adopt(p)
  <2>1. /\ UNCHANGED <<tag, releases, sha, pending, moved, release>>
        /\ \A q \in Publishers \ {p} : pc'[q] = pc[q] /\ left'[q] = left[q]
        /\ pc[p] = "adopt" /\ pc'[p] = "upload"
    BY <1>1, <1>4 DEF TypeOK, Adopt
  <2>2. Made(p)' = Made(p)
    BY <2>1 DEF Made
  <2>3. OneRelease(p)' /\ FilesVerified(p)' /\ Posted(p)
    BY <2>1, <2>2 DEF TransactionInv, OneRelease, FilesVerified, Posted, Before, Filling, Reading
  <2>4. QED
    BY <2>1, <2>3, QuietStep
<1>5. QED
  BY <1>2, <1>3, <1>4 DEF Reconcile

(* An upload goes to the attempt's own release, which cannot be out yet:   *)
(* it still lacks the file.                                                *)
LEMMA UploadStep ==
  ASSUME TransactionInv, TypeOK', NEW p \in Publishers, NEW a \in Assets, Upload(p, a)
  PROVE  TransactionInv'
<1>1. TypeOK
  BY DEF TransactionInv
<1>2. /\ UNCHANGED <<tag, sha, pending, moved, release>>
      /\ \A q \in Publishers \ {p} : pc'[q] = pc[q] /\ left'[q] = left[q]
      /\ pc[p] = "upload" /\ pc'[p] \in {"upload", "failed"}
      /\ releases[release[p]].assets[a] = "absent"
  BY <1>1 DEF TypeOK, Upload, Goto, meddlingVars
<1>3. /\ \A i \in Ids : i # release[p] => releases'[i] = releases[i]
      /\ \A i \in Ids : releases'[i].state = releases[i].state /\ releases'[i].by = releases[i].by
  BY <1>1, UploadType
<1>4. release[p] \in Made(p)
  BY <1>2 DEF TransactionInv, OneRelease, Filling
<1>5. \A q \in Publishers : Made(q)' = Made(q)
  BY <1>3 DEF Made
<1>6. OneRelease(p)' /\ FilesVerified(p)' /\ Posted(p)
  BY <1>2, <1>5 DEF TransactionInv, OneRelease, FilesVerified, Posted, Before, Filling
<1>7. ASSUME NEW q \in Publishers
      PROVE  OneRelease(q)' /\ FilesVerified(q)' /\ (Posted(q)' => Posted(q))
  <2>1. CASE q = p
    BY <1>6, <2>1
  <2>2. CASE q # p
    <3>1. release[p] \notin Made(q)
      BY <1>4, <2>2 DEF Made
    <3>2. \A i \in Made(q) : releases'[i].assets = releases[i].assets
      BY <1>3, <3>1 DEF Made
    <3>3. QED
      BY <1>2, <1>5, <2>2, <3>2, OthersKeep
  <2>3. QED
    BY <2>1, <2>2
<1>8. releases[release[p]].state # "published"
  BY <1>2, <1>4 DEF TransactionInv, PublishedWhole, Made
<1>9. PublishedWhole'
  BY <1>3, <1>8 DEF TransactionInv, PublishedWhole
<1>10. CreateNeverReplayed'
  BY <1>3 DEF TransactionInv, CreateNeverReplayed
<1>11. TagHeld'
  BY <1>2, <1>7 DEF TransactionInv, TagHeld
<1>12. \A i \in Ids : releases'[i].state = "none" => releases'[i].by = Maintainer
  BY <1>3 DEF TransactionInv
<1>13. QED
  BY <1>7, <1>9, <1>10, <1>11, <1>12 DEF TransactionInv

(* Verification, and the checks that follow it.                            *)
LEMMA VerifyStep ==
  ASSUME TransactionInv, TypeOK', NEW p \in Publishers,
         \/ Inventory(p) \/ ReadTag(p) \/ ConfirmPublish(p)
         \/ \E a \in Assets : Verify(p, a)
  PROVE  TransactionInv'
<1> USE DEF Goto, githubVars, meddlingVars
<1>1. TypeOK
  BY DEF TransactionInv
<1>2. /\ UNCHANGED <<tag, releases, sha, pending, moved, release>>
      /\ \A q \in Publishers \ {p} : pc'[q] = pc[q] /\ left'[q] = left[q]
      /\ pc[p] \in Filling /\ pc'[p] \in Filling
  BY <1>1 DEF TypeOK, Inventory, ReadTag, ConfirmPublish, Verify, Filling
<1>3. Made(p)' = Made(p)
  BY <1>2 DEF Made
<1>4. OneRelease(p)' /\ Posted(p)
  BY <1>2, <1>3 DEF TransactionInv, OneRelease, Posted, Before, Filling
<1>5. FilesVerified(p)'
  <2>1. CASE Inventory(p)
    BY <1>1, <2>1 DEF TypeOK, Inventory, FilesVerified
  <2>2. CASE ReadTag(p)
    BY <1>1, <2>2 DEF TransactionInv, TypeOK, ReadTag, FilesVerified
  <2>3. CASE ConfirmPublish(p)
    BY <1>1, <2>3 DEF TransactionInv, TypeOK, ConfirmPublish, FilesVerified
  <2>4. ASSUME NEW a \in Assets, Verify(p, a)
        PROVE  FilesVerified(p)'
    <3>1. left'[p] = left[p] \ {a} /\ pc'[p] = "verify" /\ pc[p] = "verify"
          /\ UNCHANGED <<releases, release>> /\ releases[release[p]].assets[a] = "staged"
      BY <1>1, <2>4 DEF TypeOK, Verify
    <3>2. \A b \in Assets \ left'[p] : b = a \/ b \in Assets \ left[p]
      BY <3>1
    <3>3. QED
      BY <3>1, <3>2 DEF TransactionInv, FilesVerified
  <2>5. QED
    BY <2>1, <2>2, <2>3, <2>4
<1>6. QED
  BY <1>2, <1>4, <1>5, QuietStep

(* The PATCH publishes the attempt's own release, whole.                   *)
LEMMA PublishStep ==
  ASSUME TransactionInv, TypeOK', NEW p \in Publishers, Publish(p)
  PROVE  TransactionInv'
<1> USE PublisherAssumption
<1>1. TypeOK
  BY DEF TransactionInv
<1>2. /\ UNCHANGED <<sha, pending, moved, release, left>>
      /\ \A q \in Publishers \ {p} : pc'[q] = pc[q]
      /\ pc[p] = "patch" /\ pc'[p] \in {"done", "failed"}
      /\ tag' = IF tag = NoCommit THEN sha[p] ELSE tag
  BY <1>1 DEF TypeOK, Publish, Applied, Goto, meddlingVars
<1>3. \A i \in Ids :
        /\ i # release[p] => releases'[i] = releases[i]
        /\ releases'[i].by = releases[i].by
        /\ releases'[i].assets = releases[i].assets
        /\ releases'[i].state = IF i = release[p] THEN "published" ELSE releases[i].state
  BY <1>1, PublishType
<1>4. release[p] \in Made(p) /\ \A a \in Assets : releases[release[p]].assets[a] = "staged"
  BY <1>2 DEF TransactionInv, OneRelease, FilesVerified, Filling
<1>5. \A q \in Publishers : Made(q)' = Made(q)
  BY <1>3 DEF Made
<1>6. OneRelease(p)' /\ FilesVerified(p)' /\ Posted(p)
  BY <1>2, <1>5 DEF TransactionInv, OneRelease, FilesVerified, Posted, Before, Filling
<1>7. ASSUME NEW q \in Publishers
      PROVE  OneRelease(q)' /\ FilesVerified(q)' /\ (Posted(q)' => Posted(q))
  <2>1. CASE q = p
    BY <1>6, <2>1
  <2>2. CASE q # p
    <3>1. \A i \in Made(q) : releases'[i].assets = releases[i].assets
      BY <1>3 DEF Made
    <3>2. QED
      BY <1>2, <1>5, <2>2, <3>1, OthersKeep
  <2>3. QED
    BY <2>1, <2>2
<1>8. PublishedWhole'
  BY <1>3, <1>4 DEF TransactionInv, PublishedWhole, Made
<1>9. CreateNeverReplayed'
  BY <1>3 DEF TransactionInv, CreateNeverReplayed
<1>10. ~moved => tag' = tag
  BY <1>1, <1>2, <1>6 DEF TransactionInv, TagHeld, TypeOK
<1>11. TagHeld'
  BY <1>2, <1>7, <1>10 DEF TransactionInv, TagHeld
<1>12. \A i \in Ids : releases'[i].state = "none" => releases'[i].by = Maintainer
  BY <1>3 DEF TransactionInv
<1>13. QED
  BY <1>7, <1>8, <1>9, <1>11, <1>12 DEF TransactionInv

(* What the maintainer does to drafts, branch and tag.                     *)
LEMMA MaintainerStep ==
  ASSUME TransactionInv, TypeOK', DraftByHand \/ DeleteDraft \/ PushDefaultBranch \/ MoveTag
  PROVE  TransactionInv'
<1> USE PublisherAssumption
<1>1. TypeOK
  BY DEF TransactionInv
<1>2. UNCHANGED <<sha, pc, release, left, pending>> /\ (moved' \/ (UNCHANGED <<tag, moved>>))
  BY DEF DraftByHand, DeleteDraft, PushDefaultBranch, MoveTag, Meddle
<1>3. /\ \A i \in Ids :
           /\ releases'[i].by = releases[i].by \/ releases[i].state = "none"
           /\ releases[i].state = "none" => releases'[i].by = Maintainer
           /\ releases[i].state # "none" => /\ releases'[i].assets = releases[i].assets
                                           /\ releases'[i].state # "none"
           /\ releases'[i].state = "published" => releases[i].state = "published"
  <2>1. CASE DraftByHand
    <3>1. PICK i \in Ids : NewRelease(i, Maintainer)
      BY <2>1 DEF DraftByHand
    <3>2. /\ \A j \in Ids : j # i => releases'[j] = releases[j]
          /\ releases[i].state = "none" /\ releases'[i].state = "draft"
          /\ releases'[i].by = Maintainer
      BY <1>1, <3>1, NewReleaseType
    <3>3. QED
      BY <3>2 DEF TransactionInv
  <2>2. CASE DeleteDraft
    <3>1. PICK i \in Ids : /\ releases[i].state = "draft"
                          /\ releases' = [releases EXCEPT ![i].state = "deleted"]
      BY <2>2 DEF DeleteDraft
    <3>2. /\ releases'[i].state = "deleted"
          /\ releases'[i].by = releases[i].by
          /\ releases'[i].assets = releases[i].assets
          /\ \A j \in Ids : j # i => releases'[j] = releases[j]
      BY <1>1, <3>1 DEF TypeOK, Release
    <3>3. QED
      BY <3>1, <3>2 DEF TransactionInv
  <2>3. CASE PushDefaultBranch \/ MoveTag
    BY <2>3 DEF PushDefaultBranch, MoveTag, TransactionInv
  <2>4. QED
    BY <2>1, <2>2, <2>3
<1>4. \A i \in Ids : releases'[i].by = releases[i].by
  BY <1>3 DEF TransactionInv
<1>5. \A q \in Publishers : Made(q)' = Made(q)
  BY <1>4 DEF Made
<1>6. ASSUME NEW q \in Publishers
      PROVE  OneRelease(q)' /\ FilesVerified(q)' /\ (Posted(q)' => Posted(q))
  <2>1. \A i \in Made(q) : releases'[i].assets = releases[i].assets
    BY <1>3 DEF Made, TransactionInv
  <2>2. QED
    BY <1>2, <1>5, <2>1, OthersKeep
<1>7. TagHeld'
  BY <1>2, <1>6 DEF TransactionInv, TagHeld
<1>8. CreateNeverReplayed'
  BY <1>4 DEF TransactionInv, CreateNeverReplayed
<1>9. PublishedWhole'
  BY <1>3, <1>4 DEF TransactionInv, PublishedWhole
<1>10. \A i \in Ids : releases'[i].state = "none" => releases'[i].by = Maintainer
  BY <1>3, <1>4 DEF TransactionInv
<1>11. QED
  BY <1>6, <1>7, <1>8, <1>9, <1>10 DEF TransactionInv

(* No attempt has posted yet.                                              *)
LEMMA InvariantInit == Init => TransactionInv
<1> SUFFICES ASSUME Init PROVE TransactionInv
  OBVIOUS
<1> USE PublisherAssumption DEF Init
<1>1. Empty \in [Assets -> Bytes]
  BY DEF Empty, Bytes
<1>2. [state |-> "none", by |-> Maintainer, assets |-> Empty] \in Release
  BY <1>1 DEF Release
<1>3. TypeOK
  BY <1>2 DEF TypeOK, PC
<1>4. \A i \in Ids : releases[i].state = "none" /\ releases[i].by = Maintainer
  OBVIOUS
<1>5. \A p \in Publishers : Made(p) = {} /\ ~Posted(p)
  BY <1>4 DEF Made, Posted, Reading, Filling
<1>6. \A p \in Publishers : OneRelease(p) /\ FilesVerified(p)
  BY <1>5 DEF OneRelease, FilesVerified, Filling
<1>7. CreateNeverReplayed /\ PublishedWhole
  BY <1>4 DEF CreateNeverReplayed, PublishedWhole
<1>8. TagHeld
  BY <1>5 DEF TagHeld
<1>9. QED
  BY <1>3, <1>4, <1>6, <1>7, <1>8 DEF TransactionInv

(* Every step preserves TransactionInv.                                              *)
LEMMA InvariantStep == TransactionInv /\ [Next]_vars => TransactionInv'
<1> SUFFICES ASSUME TransactionInv, [Next]_vars PROVE TransactionInv'
  OBVIOUS
<1>1. TypeOK'
  BY TypeStep DEF TransactionInv
<1>2. ASSUME NEW p \in Publishers, Begin(p) \/ EnsureAbsent(p) \/ Fail(p)
      PROVE  TransactionInv'
  BY <1>1, <1>2, BeginStep
<1>3. ASSUME NEW p \in Publishers, CreateTag(p)
      PROVE  TransactionInv'
  BY <1>1, <1>3, CreateTagStep
<1>4. ASSUME NEW p \in Publishers, Create(p)
      PROVE  TransactionInv'
  BY <1>1, <1>4, PostStep
<1>5. ASSUME NEW p \in Publishers, Reconcile(p)
      PROVE  TransactionInv'
  BY <1>1, <1>5, ReconcileStep
<1>6. ASSUME NEW p \in Publishers, Fill(p)
      PROVE  TransactionInv'
  BY <1>1, <1>6, UploadStep, VerifyStep DEF Fill
<1>7. ASSUME NEW p \in Publishers, Finish(p)
      PROVE  TransactionInv'
  BY <1>1, <1>7, VerifyStep, PublishStep DEF Finish
<1>8. CASE DraftByHand \/ DeleteDraft \/ PushDefaultBranch \/ MoveTag
  BY <1>1, <1>8, MaintainerStep
<1>9. CASE UNCHANGED vars
  <2>1. UNCHANGED <<tag, releases, sha, pc, release, left, pending, moved>>
    BY <1>9 DEF vars
  <2>2. \A p \in Publishers : Made(p)' = Made(p)
    BY <2>1 DEF Made
  <2>3. ASSUME NEW p \in Publishers
        PROVE  OneRelease(p)' /\ FilesVerified(p)' /\ (Posted(p)' => Posted(p))
    BY <2>1, <2>2, OthersKeep
  <2>4. TagHeld' /\ CreateNeverReplayed' /\ PublishedWhole'
    BY <2>1, <2>3 DEF TransactionInv, TagHeld, CreateNeverReplayed, PublishedWhole
  <2>5. QED
    BY <1>1, <2>1, <2>3, <2>4 DEF TransactionInv
<1>10. QED
  BY <1>2, <1>3, <1>4, <1>5, <1>6, <1>7, <1>8, <1>9 DEF Next

(* TransactionInv is an invariant of the publication.                                *)
THEOREM InvariantHolds == Spec => []TransactionInv
<1>1. QED
  BY InvariantInit, InvariantStep, PTL DEF Spec

(* Every variable keeps its type.                                          *)
THEOREM TypeCorrect == Spec => []TypeOK
<1>1. TransactionInv => TypeOK
  BY DEF TransactionInv
<1>2. QED
  BY <1>1, InvariantHolds, PTL

(* Whatever answers are lost or late and whatever the maintainer drafts,   *)
(* an attempt works on the release its own POST made                       *)
(* (_reconcile_created_release).                                           *)
THEOREM AttemptsKeepApart == Spec => []WorksOnOwnRelease
<1>1. TransactionInv => WorksOnOwnRelease
  BY DEF TransactionInv, OneRelease, Made, WorksOnOwnRelease
<1>2. QED
  BY <1>1, InvariantHolds, PTL

(* What is public is whole: every staged file, as staged                   *)
(* (verify_uploaded_asset before the PATCH).                               *)
THEOREM PublicIsWhole == Spec => []PublishedWhole
<1>1. TransactionInv => PublishedWhole
  BY DEF TransactionInv
<1>2. QED
  BY <1>1, InvariantHolds, PTL

(* An attempt makes at most one release (create_release_once).             *)
THEOREM PostsOnce == Spec => []CreateNeverReplayed
<1>1. TransactionInv => CreateNeverReplayed
  BY DEF TransactionInv
<1>2. QED
  BY <1>1, InvariantHolds, PTL

(* While nobody moves the tag, creating it is a lock                       *)
(* (_publish_prepared).                                                    *)
THEOREM TagLocks == Spec => []TagIsLock
<1>1. ASSUME TransactionInv, ~moved, NEW i \in Ids, NEW j \in Ids,
             releases[i].by \in Publishers, releases[j].by \in Publishers
      PROVE  i = j
  <2>1. Posted(releases[i].by) /\ Posted(releases[j].by)
    BY <1>1 DEF Posted, Made
  <2>2. releases[i].by = releases[j].by
    BY <1>1, <2>1 DEF TransactionInv, TagHeld
  <2>3. QED
    BY <1>1, <2>2 DEF TransactionInv, CreateNeverReplayed
<1>2. TransactionInv => TagIsLock
  BY <1>1 DEF TagIsLock
<1>3. QED
  BY <1>2, InvariantHolds, PTL

(***************************************************************************)
(* The tag a release is published under.                                   *)
(***************************************************************************)
(* The tag stands as an attempt read it back, unless it was moved since.   *)
TagRead(p) == pc[p] \in {"confirm", "patch"} => p \in exposed \/ tag = sha[p]
TagInv == \A p \in Publishers : TagRead(p)

(* Nobody creates a tag that an attempt has read back and that still is.   *)
LEMMA TagKept ==
  ASSUME TransactionInv, TagInv, NEW p \in Publishers, NEW c, UNCHANGED <<sha, exposed>>,
         tag' = IF tag = NoCommit THEN c ELSE tag,
         pc'[p] \in {"confirm", "patch"} => pc[p] \in {"confirm", "patch"} \/ tag = sha[p]
  PROVE  TagRead(p)'
<1>1. sha[p] # NoCommit
  BY PublisherAssumption DEF TransactionInv, TypeOK
<1>2. QED
  BY <1>1 DEF TagInv, TagRead

LEMMA TagStep ==
  ASSUME TransactionInv, TagInv, [Next]_vars
  PROVE  TagInv'
<1> SUFFICES ASSUME NEW q \in Publishers PROVE TagRead(q)'
  BY DEF TagInv
<1> USE DEF Goto, Applied, githubVars, meddlingVars
<1>1. TypeOK
  BY DEF TransactionInv
<1>2. ASSUME NEW p \in Publishers,
             Begin(p) \/ EnsureAbsent(p) \/ Create(p) \/ Reconcile(p) \/ Fill(p) \/ Inventory(p) \/ Fail(p)
      PROVE  TagRead(q)'
  <2>1. UNCHANGED <<tag, sha, exposed>>
    BY <1>2 DEF Begin, EnsureAbsent, Create, CreateAnswered, CreateAmbiguous, LateCreate, Reconcile, ListOnce,
                ListAgain, Adopt, Fill, Upload, Verify, Inventory, Fail
  <2>2. pc'[q] = pc[q] \/ pc'[q] \notin {"confirm", "patch"}
    BY <1>1, <1>2
       DEF TypeOK, Begin, EnsureAbsent, Create, CreateAnswered, CreateAmbiguous, LateCreate, Reconcile, ListOnce,
           ListAgain, Adopt, Fill, Upload, Verify, Inventory, Fail
  <2>3. QED
    BY <2>1, <2>2 DEF TagInv, TagRead
<1>3. ASSUME NEW p \in Publishers, ReadTag(p) \/ ConfirmPublish(p) PROVE TagRead(q)'
  <2>1. UNCHANGED <<tag, sha, exposed>>
    BY <1>3 DEF ReadTag, ConfirmPublish
  <2>2. pc'[q] \in {"confirm", "patch"} => pc[q] \in {"confirm", "patch"} \/ tag = sha[q]
    BY <1>1, <1>3 DEF TypeOK, ReadTag, ConfirmPublish
  <2>3. QED
    BY <2>1, <2>2 DEF TagInv, TagRead
<1>4. ASSUME NEW p \in Publishers, CreateTag(p) \/ Publish(p) PROVE TagRead(q)'
  <2>1. UNCHANGED <<sha, exposed>> /\ tag' = IF tag = NoCommit THEN sha[p] ELSE tag
    BY <1>4 DEF CreateTag, Publish
  <2>2. pc'[q] \in {"confirm", "patch"} => pc[q] \in {"confirm", "patch"}
    BY <1>1, <1>4 DEF TypeOK, CreateTag, Publish
  <2>3. QED
    BY <2>1, <2>2, TagKept
<1>5. CASE MoveTag
  <2>1. pc' = pc /\ exposed' = exposed \cup {p \in Publishers : pc[p] \in {"confirm", "patch"}}
    BY <1>5 DEF MoveTag, Meddle
  <2>2. QED
    BY <2>1 DEF TagRead
<1>6. CASE DraftByHand \/ DeleteDraft \/ PushDefaultBranch \/ UNCHANGED vars
  <2>1. UNCHANGED <<tag, sha, pc, exposed>>
    BY <1>6 DEF DraftByHand, DeleteDraft, PushDefaultBranch, Meddle, vars
  <2>2. QED
    BY <2>1 DEF TagInv, TagRead
<1>7. QED
  BY <1>2, <1>3, <1>4, <1>5, <1>6 DEF Next, Finish

(* Only the PATCH makes a release public, and its attempt's own.           *)
LEMMA PublicStep ==
  ASSUME TransactionInv, TagInv, [Next]_vars, NEW i \in Ids,
         releases[i].state # "published", releases'[i].state = "published"
  PROVE  releases[i].by \in exposed \/ tag' = sha[releases[i].by]
<1> USE DEF Goto, Applied, githubVars, meddlingVars
<1>1. TypeOK
  BY DEF TransactionInv
<1>2. ASSUME NEW p \in Publishers, Publish(p)
      PROVE  releases[i].by \in exposed \/ tag' = sha[releases[i].by]
  <2>1. i = release[p]
    BY <1>1, <1>2, PublishType
  <2>2. pc[p] = "patch" /\ tag' = IF tag = NoCommit THEN sha[p] ELSE tag
    BY <1>2 DEF Publish
  <2>3. releases[i].by = p
    BY <2>1, <2>2 DEF TransactionInv, OneRelease, Filling, Made
  <2>4. QED
    BY <2>2, <2>3 DEF TagInv, TagRead
<1>3. ASSUME NEW j \in Ids, NEW who \in Publishers \cup {Maintainer}, NewRelease(j, who) PROVE FALSE
  BY <1>1, <1>3, NewReleaseType
<1>4. ASSUME NEW p \in Publishers, NEW a \in Assets, Upload(p, a) PROVE FALSE
  BY <1>1, <1>4, UploadType
<1>5. releases' # releases
  OBVIOUS
<1>6. ~DeleteDraft
  BY <1>1 DEF DeleteDraft, TypeOK, Release
<1>7. ASSUME NEW p \in Publishers, Create(p) PROVE FALSE
  BY <1>3, <1>5, <1>7 DEF Create, CreateAnswered, CreateAmbiguous, LateCreate
<1>8. ~DraftByHand
  BY <1>3 DEF DraftByHand
<1>9. ASSUME NEW p \in Publishers,
             \/ Begin(p) \/ EnsureAbsent(p) \/ CreateTag(p) \/ Reconcile(p) \/ Inventory(p) \/ ReadTag(p)
             \/ ConfirmPublish(p) \/ Fail(p) \/ \E a \in Assets : Verify(p, a)
      PROVE  FALSE
  BY <1>5, <1>9 DEF Begin, EnsureAbsent, CreateTag, Reconcile, ListOnce, ListAgain, Adopt, Inventory, ReadTag,
                    ConfirmPublish, Fail, Verify
<1>10. ~PushDefaultBranch /\ ~MoveTag /\ ~UNCHANGED vars
  BY <1>5 DEF PushDefaultBranch, MoveTag, vars
<1>11. QED
  BY <1>2, <1>4, <1>6, <1>7, <1>8, <1>9, <1>10 DEF Next, Fill, Finish

(* A release becomes public under the commit its attempt was built from,   *)
(* unless the tag was moved after the attempt read it back                 *)
(* (_publish_prepared).                                                    *)
THEOREM PublishedUnderCommit == Spec => PublishedAtItsCommit
<1>1. Init => TagInv
  BY DEF Init, TagInv, TagRead
<1>2. Spec => []TagInv
  BY <1>1, TagStep, InvariantHolds, PTL DEF Spec
<1>3. ASSUME TransactionInv, TagInv, [Next]_vars
      PROVE  [\A i \in Ids :
                releases[i].state # "published" /\ releases'[i].state = "published" =>
                  releases[i].by \in exposed \/ tag' = sha[releases[i].by]]_vars
  BY <1>3, PublicStep
<1>4. QED
  BY <1>2, <1>3, InvariantHolds, PTL DEF Spec, PublishedAtItsCommit

================================================================================
