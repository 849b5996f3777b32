-------------------------- MODULE VersionedBuildProofs --------------------------
(***************************************************************************)
(* Proofs about VersionedBuild, for any version files, plans and edits.    *)
(***************************************************************************)
EXTENDS VersionedBuild, TLAPS

(* The files a sync works with are as committed or as its plan makes them. *)
AsPlanned(tree, p) == \A f \in Paths : tree[f] \in {Committed, Expected(p)[f]}

(* Nobody edited between the check and the read of a sync, or nobody has   *)
(* edited since the check: then what it read is as it was checked.         *)
ReadInv ==
  /\ pc \in SyncSteps => mine \in Plans /\ tried \in {NoPlan, mine}
  /\ pc = "read" /\ (~slipped \/ tried # NoPlan) => AsPlanned(files, mine)
  /\ pc \in SyncSteps \ {"read"} /\ (~slipped \/ tried # NoPlan) => AsPlanned(originals, mine)

(* The evidence of a sync names the committed files with its versions.     *)
EvidenceInv ==
  ~slipped =>
    /\ inputs # Absent => inputs.after = Expected(inputs.plan)
    /\ staged # Absent => staged.after = Expected(staged.plan)

(* Between its last check and its replacement a file is as it was read,    *)
(* unless an edit races with the replacement.                              *)
ReplaceInv ==
  pc = "replace" =>
    /\ position <= Len(Files)
    /\ raced \/ files[Files[position]] = originals[Files[position]]

(* An image is labelled after the archive was written.                     *)
LabelInv == pc = "label" => dist \in [label : {Missing} \cup Versions, docs : Trees]

(* One version, and nothing else, in all the files.                        *)
Plain(v) == [version |-> v, touched |-> FALSE]

(* What nobody edited has nothing but its version changed.                 *)
CleanInv == ~slipped => \A f \in Paths \ edited : ~files[f].touched

(* The versions were compared when the package began: what it copied is    *)
(* alike, and what it has not yet copied still has the same version.       *)
CopyInv ==
  /\ pc = "idle" => position = 1
  /\ pc = "snapshot" /\ ~slipped /\ ~tainted =>
       \E v \in Versions :
         /\ \A i \in 1..(position - 1) : copies[Files[i]] = Plain(v)
         /\ \A i \in position..Len(Files) : files[Files[i]].version = v

(* So is an archive, wherever it is.                                       *)
AllPlain(d) == d # Empty => \E v \in Versions : \A f \in Paths : d.docs[f] = Plain(v)
ArchiveInv ==
  ~slipped /\ ~tainted =>
    /\ AllPlain(dist)
    /\ staged # Absent => AllPlain(staged.dist)

PackInv == CleanInv /\ CopyInv /\ ArchiveInv

IInv ==
  /\ TypeOK /\ ReadInv /\ EvidenceInv /\ ReplaceInv /\ LabelInv /\ PackInv
  /\ MixedResumes /\ AcceptedAsPlanned

(***************************************************************************)
(* Versions and files.                                                     *)
(***************************************************************************)
LEMMA PlanFacts ==
  /\ NoPlan \notin Plans
  /\ \A p \in Plans : Package(p) \in Versions
  /\ Stable \in Versions /\ Missing \notin Versions
  /\ \A p \in Plans : Package(p) # Missing
BY BuildAssumption DEF NoPlan, Package, Versions, Stable, Missing

LEMMA FileFacts ==
  /\ Len(Files) \in Nat /\ DOMAIN Files = 1..Len(Files)
  /\ \A i \in 1..Len(Files) : Files[i] \in Paths
  /\ Positions = 1..(Len(Files) + 1)
<1>1. Files \in Seq(STRING)
  BY BuildAssumption
<1>2. Len(Files) \in Nat /\ DOMAIN Files = 1..Len(Files)
  BY <1>1
<1>3. QED
  BY <1>2 DEF Paths, Positions

LEMMA TreeNotEmpty == \A tree \in Trees : tree # <<>>
<1>1. Len(Files) # 0
  BY BuildAssumption
<1>2. Files[1] \in Paths
  BY <1>1, FileFacts
<1>3. DOMAIN <<>> = {}
  OBVIOUS
<1>4. QED
  BY <1>2, <1>3 DEF Trees

LEMMA EditFacts ==
  ASSUME NEW p \in Plans
  PROVE  /\ \A doc \in Documents : Edit(doc, p) \in Documents
         /\ \A tree \in Trees : EditAll(tree, p) \in Trees
         /\ CommittedTree \in Trees /\ Expected(p) \in Trees
<1>1. \A doc \in Documents : Edit(doc, p) \in Documents
  BY PlanFacts DEF Documents, Edit
<1>2. \A tree \in Trees : EditAll(tree, p) \in Trees
  BY <1>1 DEF Trees, EditAll
<1>3. CommittedTree \in Trees
  BY PlanFacts DEF CommittedTree, Trees, Documents, Committed
<1>4. QED
  BY <1>1, <1>2, <1>3 DEF Expected

(* Applying a plan to files that are as committed or as it makes them      *)
(* gives what it makes of the committed ones.                              *)
LEMMA EditAsPlanned ==
  ASSUME NEW p \in Plans, NEW tree, AsPlanned(tree, p)
  PROVE  /\ \A f \in Paths : Edit(tree[f], p) = Expected(p)[f]
         /\ EditAll(tree, p) = Expected(p)
<1>1. ASSUME NEW f \in Paths PROVE Edit(tree[f], p) = Expected(p)[f]
  <2>1. Expected(p)[f] = Edit(Committed, p)
    BY DEF Expected, EditAll, CommittedTree
  <2>2. Edit(Edit(Committed, p), p) = Edit(Committed, p)
    BY DEF Edit, Committed
  <2>3. tree[f] = Committed \/ tree[f] = Edit(Committed, p)
    BY <2>1 DEF AsPlanned
  <2>4. QED
    BY <2>1, <2>2, <2>3
<1>2. EditAll(tree, p) = [f \in Paths |-> Expected(p)[f]]
  BY <1>1 DEF EditAll
<1>3. Expected(p) = [f \in Paths |-> Expected(p)[f]]
  BY DEF Expected, EditAll
<1>4. QED
  BY <1>1, <1>2, <1>3

(***************************************************************************)
(* Types.                                                                  *)
(***************************************************************************)
LEMMA CommandFacts ==
  ASSUME TypeOK
  PROVE  /\ inputs # Absent => inputs \in [plan : Plans, after : Trees]
         /\ staged # Absent => staged \in [plan : Plans, after : Trees, dist : Dists]
         /\ Forget => /\ mine' \in Plans \cup {NoPlan} /\ originals' \in Trees
                      /\ position' \in Positions /\ copies' \in Trees
<1>1. CommittedTree \in Trees
  BY PlanFacts DEF CommittedTree, Trees, Documents, Committed
<1>2. 1 \in Positions
  BY FileFacts
<1>3. QED
  BY <1>1, <1>2 DEF TypeOK, Evidence, Receipts, Forget

LEMMA SyncType ==
  ASSUME IInv, Sync
  PROVE  TypeOK'
<1>0. TypeOK /\ (pc \in SyncSteps => mine \in Plans) /\ (pc = "replace" => position <= Len(Files))
  BY DEF IInv, ReadInv, ReplaceInv
<1>1. CASE Verify \/ ReadInputs \/ Recheck \/ Replaced
  BY <1>0, <1>1, FileFacts DEF Verify, ReadInputs, Recheck, Replaced, TypeOK, disk, memory, history, Step, SyncSteps
<1>2. CASE SkipFile \/ CheckFile
  <2>1. position' \in Positions
    <3>1. position \in 1..(Len(Files) + 1) /\ position <= Len(Files) /\ position' \in {position, position + 1}
      BY <1>0, <1>2, FileFacts DEF SkipFile, CheckFile, memory, TypeOK
    <3>2. QED
      BY <3>1, FileFacts
  <2>2. pc' \in SyncSteps /\ raced' \in BOOLEAN
    BY <1>0, <1>2 DEF SkipFile, CheckFile, Step, SyncSteps, history, TypeOK
  <2>3. QED
    BY <1>0, <1>2, <2>1, <2>2 DEF SkipFile, CheckFile, TypeOK, disk, memory, history
<1>3. CASE ReplaceFile
  <2>0. mine \in Plans /\ position <= Len(Files)
    BY <1>0, <1>3 DEF ReplaceFile, Step, SyncSteps
  <2>1. Edit(originals[Files[position]], mine) \in Documents
    BY <1>0, <2>0, FileFacts, EditFacts DEF TypeOK, Trees
  <2>2. files' \in Trees
    BY <1>0, <1>3, <2>1 DEF ReplaceFile, TypeOK, Trees
  <2>3. position' \in Positions
    BY <1>0, <1>3, <2>0, FileFacts DEF ReplaceFile, TypeOK
  <2>4. QED
    BY <1>0, <1>3, <2>2, <2>3 DEF ReplaceFile, TypeOK, Step, SyncSteps
<1>4. CASE WriteEvidence
  <2>1. mine \in Plans
    BY <1>0, <1>4 DEF WriteEvidence, Step, SyncSteps
  <2>2. inputs' \in Evidence
    BY <1>0, <1>4, <2>1, EditFacts DEF WriteEvidence, TypeOK, Evidence
  <2>3. QED
    BY <1>0, <1>4, <2>2, CommandFacts DEF WriteEvidence, TypeOK, history, Step
<1>5. QED
  BY <1>1, <1>2, <1>3, <1>4 DEF Sync

LEMMA BuildType ==
  ASSUME TypeOK, LabelInv, Build
  PROVE  TypeOK' /\ LabelInv'
<1>1. CASE StartPackage
  BY <1>1 DEF StartPackage, LabelInv, TypeOK, disk, memory, history, Step, PackSteps
<1>2. CASE CopyFile
  <2>1. position' \in Positions /\ files[Files[position]] \in Documents
    <3>1. position \in 1..(Len(Files) + 1) /\ position <= Len(Files) /\ position' = position + 1
      BY <1>2, FileFacts DEF CopyFile, TypeOK
    <3>2. QED
      BY <3>1, FileFacts DEF TypeOK, Trees
  <2>2. copies' \in Trees
    BY <1>2, <2>1 DEF CopyFile, TypeOK, Trees
  <2>3. QED
    BY <1>2, <2>1, <2>2 DEF CopyFile, LabelInv, TypeOK, disk, history, Step, PackSteps
<1>3. CASE Archive
  <2>1. dist' \in [label : {Missing} \cup Versions, docs : Trees] /\ dist' \in Dists
    BY <1>3 DEF Archive, TypeOK, Dists
  <2>2. QED
    BY <1>3, <2>1 DEF Archive, LabelInv, TypeOK, memory, history, Step, PackSteps
<1>4. CASE BuildImage
  <2>1. CheckedVersion \in Versions
    BY PlanFacts DEF CheckedVersion, TypeOK
  <2>2. dist' \in Dists
    BY <1>4, <2>1 DEF BuildImage, LabelInv, Dists, Step
  <2>3. QED
    BY <1>4, <2>2, CommandFacts DEF BuildImage, LabelInv, TypeOK, history, Step
<1>5. QED
  BY <1>1, <1>2, <1>3, <1>4 DEF Build

LEMMA StageType ==
  ASSUME TypeOK, Stage
  PROVE  TypeOK' /\ LabelInv'
<1>1. CASE StartStage \/ InspectPackages
  BY <1>1 DEF StartStage, InspectPackages, LabelInv, TypeOK, disk, memory, history, Step, StageSteps
<1>2. CASE CreateReceipt
  <2>1. plan \in Plans /\ inputs # Absent
    BY <1>2 DEF CreateReceipt, InputsUnchanged, TypeOK
  <2>2. staged' \in Receipts
    BY <1>2, <2>1, CommandFacts DEF CreateReceipt, TypeOK, Receipts
  <2>3. QED
    BY <1>2, <2>2, CommandFacts DEF CreateReceipt, LabelInv, TypeOK, history, Step
<1>3. QED
  BY <1>1, <1>2 DEF Stage

LEMMA ChangeType ==
  ASSUME TypeOK, LabelInv, NEW f \in Paths, NEW doc \in Documents, ChangeFile(f, doc), edits' \in 0..MaxEdits
  PROVE  TypeOK' /\ LabelInv'
BY DEF ChangeFile, TypeOK, LabelInv, memory, Trees

LEMMA EditType ==
  ASSUME TypeOK, NEW f \in Paths, EditFile(f) \/ Restore(f)
  PROVE  edits' \in 0..MaxEdits /\ \E doc \in Documents : ChangeFile(f, doc)
<1>1. files[f] \in Documents /\ Committed \in Documents /\ edits \in 0..MaxEdits /\ MaxEdits \in Nat
  BY PlanFacts, BuildAssumption DEF TypeOK, Trees, Documents, Committed
<1>2. CASE Restore(f)
  BY <1>1, <1>2 DEF Restore
<1>3. CASE EditFile(f)
  <2>1. edits' \in 0..MaxEdits
    BY <1>1, <1>3 DEF EditFile
  <2>2. PICK doc \in {[files[f] EXCEPT !.touched = TRUE]}
                     \cup {[files[f] EXCEPT !.version = v] : v \in Versions \cup {Ambiguous}} : ChangeFile(f, doc)
    BY <1>3 DEF EditFile
  <2>3. doc \in Documents
    BY <1>1 DEF Documents
  <2>4. QED
    BY <2>1, <2>2, <2>3
<1>4. QED
  BY <1>2, <1>3

LEMMA TypeStep ==
  ASSUME IInv, [Next]_vars
  PROVE  TypeOK' /\ LabelInv'
<1>0. TypeOK /\ LabelInv
  BY DEF IInv
<1>1. CASE Sync
  <2>1. pc' # "label"
    BY <1>1 DEF Sync, Verify, ReadInputs, Recheck, SkipFile, CheckFile, ReplaceFile, Replaced, WriteEvidence, Step
  <2>2. QED
    BY <1>1, <2>1, SyncType DEF LabelInv
<1>2. CASE Build
  BY <1>0, <1>2, BuildType
<1>3. CASE Stage
  BY <1>0, <1>3, StageType
<1>4. CASE Fail
  BY <1>0, <1>4, CommandFacts DEF Fail, TypeOK, LabelInv, disk, history
<1>5. ASSUME NEW f \in Paths, EditFile(f) \/ Restore(f) PROVE TypeOK' /\ LabelInv'
  BY <1>0, <1>5, EditType, ChangeType
<1>6. CASE (\E p \in Plans : PlacePlan(p)) \/ Clean
  BY <1>0, <1>6 DEF PlacePlan, Clean, TypeOK, LabelInv, memory, history, Dists, Receipts
<1>7. ASSUME NEW p \in Plans, Accept(p) PROVE TypeOK' /\ LabelInv'
  BY <1>0, <1>7 DEF Accept, TypeOK, LabelInv, memory, history
<1>8. CASE UNCHANGED vars
  BY <1>0, <1>8 DEF vars, TypeOK, LabelInv, disk, memory, history
<1>9. QED
  BY <1>1, <1>2, <1>3, <1>4, <1>5, <1>6, <1>7, <1>8 DEF Next, Operator

(***************************************************************************)
(* The invariant is kept.                                                  *)
(***************************************************************************)
(* What was once overlooked stays on record.                               *)
LEMMA HistoryGrows ==
  ASSUME IInv, [Next]_vars
  PROVE  (slipped => slipped') /\ (tainted => tainted')
<1>1. CASE Sync
  BY <1>1 DEF Sync, Verify, ReadInputs, Recheck, SkipFile, CheckFile, ReplaceFile, Replaced, WriteEvidence, history
<1>2. CASE Build
  <2>1. CASE CopyFile
    BY <2>1, Zenon DEF CopyFile
  <2>2. CASE StartPackage \/ Archive \/ BuildImage
    BY <2>2 DEF StartPackage, Archive, BuildImage, history
  <2>3. QED
    BY <1>2, <2>1, <2>2 DEF Build
<1>3. CASE Stage \/ Fail
  BY <1>3 DEF Stage, StartStage, InspectPackages, CreateReceipt, Fail, history
<1>4. ASSUME NEW f \in Paths, EditFile(f) \/ Restore(f) PROVE (slipped => slipped') /\ (tainted => tainted')
  <2>1. \E doc \in Documents : ChangeFile(f, doc)
    BY <1>4, EditType DEF IInv
  <2>2. QED
    BY <2>1 DEF ChangeFile
<1>5. CASE (\E p \in Plans : PlacePlan(p) \/ Accept(p)) \/ Clean \/ UNCHANGED vars
  BY <1>5 DEF PlacePlan, Accept, Clean, vars, history
<1>6. QED
  BY <1>1, <1>2, <1>3, <1>4, <1>5 DEF Next, Operator

LEMMA VerifyStep ==
  ASSUME IInv, Verify
  PROVE  ReadInv' /\ MixedResumes'
<1>1. /\ pc' = "read" /\ mine' = plan /\ tried' = plan /\ files' = files /\ plan \in Plans
      /\ AsPlanned(files, plan)
  BY DEF IInv, TypeOK, Verify, VerifyCheckout, AsPlanned, Step, disk
<1>2. QED
  BY <1>1 DEF ReadInv, MixedResumes, VerifyCheckout, AsPlanned, SyncSteps

(* A replacement puts what the plan makes of the file.                     *)
LEMMA ReplaceStep ==
  ASSUME IInv, ReplaceFile
  PROVE  ReadInv' /\ MixedResumes'
<1>1. /\ pc = "replace" /\ pc' = "check" /\ mine' = mine /\ originals' = originals
      /\ UNCHANGED <<tried, slipped>>
      /\ files' = [files EXCEPT ![Files[position]] = Edit(originals[Files[position]], mine)]
  BY DEF ReplaceFile, Step
<1>2. mine \in Plans /\ tried \in {NoPlan, mine} /\ position \in 1..Len(Files)
  BY <1>1, FileFacts DEF IInv, ReadInv, ReplaceInv, SyncSteps, TypeOK
<1>3. ReadInv'
  BY <1>1, <1>2 DEF IInv, ReadInv, SyncSteps
<1>4. ASSUME tried # NoPlan PROVE AsPlanned(files', mine)
  <2>1. AsPlanned(originals, mine) /\ AsPlanned(files, mine)
    BY <1>1, <1>2, <1>4 DEF IInv, ReadInv, SyncSteps, MixedResumes, VerifyCheckout, AsPlanned
  <2>2. Files[position] \in Paths /\ DOMAIN files = Paths
    BY <1>2, FileFacts DEF IInv, TypeOK, Trees
  <2>3. Edit(originals[Files[position]], mine) = Expected(mine)[Files[position]]
    BY <1>2, <2>1, <2>2, EditAsPlanned
  <2>4. QED
    BY <1>1, <2>1, <2>2, <2>3 DEF AsPlanned
<1>5. MixedResumes'
  BY <1>1, <1>2, <1>4 DEF MixedResumes, VerifyCheckout, AsPlanned
<1>6. QED
  BY <1>3, <1>5

LEMMA SyncStep ==
  ASSUME IInv, Sync
  PROVE  ReadInv' /\ EvidenceInv' /\ ReplaceInv' /\ MixedResumes'
<1>1. /\ UNCHANGED <<staged, slipped>> /\ (~WriteEvidence => UNCHANGED inputs)
      /\ ~(Verify \/ ReplaceFile) => UNCHANGED <<files, tried>>
  BY DEF Sync, Verify, ReadInputs, Recheck, SkipFile, CheckFile, ReplaceFile, Replaced, WriteEvidence,
         disk, history
<1>2. EvidenceInv'
  <2>1. CASE WriteEvidence
    <3>1. inputs' = [plan |-> mine, after |-> EditAll(originals, mine)] /\ pc = "evidence"
      BY <2>1 DEF WriteEvidence, Step
    <3>2. ~slipped => EditAll(originals, mine) = Expected(mine)
      BY <3>1, EditAsPlanned DEF IInv, ReadInv, SyncSteps
    <3>3. QED
      BY <1>1, <3>1, <3>2 DEF IInv, EvidenceInv
  <2>2. CASE ~WriteEvidence
    BY <1>1, <2>2 DEF IInv, EvidenceInv
  <2>3. QED
    BY <2>1, <2>2
<1>3. ReplaceInv'
  <2>1. CASE CheckFile
    BY <2>1 DEF CheckFile, ReplaceInv, disk, memory
  <2>2. pc' # "replace" \/ CheckFile
    BY DEF Sync, Verify, ReadInputs, Recheck, SkipFile, ReplaceFile, Replaced, WriteEvidence, Step
  <2>3. QED
    BY <2>1, <2>2 DEF ReplaceInv
<1>4. ~(Verify \/ ReplaceFile) => MixedResumes'
  BY <1>1 DEF IInv, MixedResumes, VerifyCheckout
<1>5. ~(Verify \/ ReplaceFile) => ReadInv'
  <2>1. SUFFICES ASSUME ~(Verify \/ ReplaceFile), pc' # "idle" PROVE ReadInv'
    BY DEF ReadInv, SyncSteps
  <2>2. pc \in SyncSteps /\ pc' \in SyncSteps \ {"read"} /\ UNCHANGED mine
    BY <2>1 DEF Sync, ReadInputs, Recheck, SkipFile, CheckFile, Replaced, WriteEvidence, Step, SyncSteps, memory
  <2>3. CASE pc = "read"
    <3>1. originals' = files
      BY <2>1, <2>3 DEF Sync, ReadInputs, Recheck, SkipFile, CheckFile, Replaced, WriteEvidence, Step
    <3>2. QED
      BY <1>1, <2>1, <2>2, <2>3, <3>1 DEF IInv, ReadInv, SyncSteps
  <2>4. CASE pc # "read"
    <3>1. originals' = originals
      BY <2>1, <2>4 DEF Sync, ReadInputs, Recheck, SkipFile, CheckFile, Replaced, WriteEvidence, Step, memory
    <3>2. QED
      BY <1>1, <2>1, <2>2, <2>4, <3>1 DEF IInv, ReadInv, SyncSteps
  <2>5. QED
    BY <2>3, <2>4
<1>6. QED
  BY <1>2, <1>3, <1>4, <1>5, VerifyStep, ReplaceStep

(* The other commands leave the files and the evidence of a sync alone.    *)
LEMMA CommandStep ==
  ASSUME IInv, Build \/ Stage \/ Fail
  PROVE  ReadInv' /\ EvidenceInv' /\ ReplaceInv' /\ MixedResumes'
<1>1. /\ UNCHANGED <<files, inputs, tried, slipped>>
      /\ pc' \notin SyncSteps
  BY DEF Build, StartPackage, CopyFile, Archive, BuildImage, Stage, StartStage, InspectPackages, CreateReceipt,
         Fail, disk, history, Step, SyncSteps
<1>2. ReadInv' /\ ReplaceInv' /\ MixedResumes'
  BY <1>1 DEF IInv, ReadInv, ReplaceInv, MixedResumes, VerifyCheckout, SyncSteps
<1>3. EvidenceInv'
  <2>1. CASE CreateReceipt
    BY <1>1, <2>1 DEF CreateReceipt, InputsUnchanged, IInv, EvidenceInv
  <2>2. CASE ~CreateReceipt
    <3>1. staged' = staged
      BY <2>2 DEF Build, StartPackage, CopyFile, Archive, BuildImage, Stage, StartStage, InspectPackages,
                  Fail, disk
    <3>2. QED
      BY <1>1, <3>1 DEF IInv, EvidenceInv
  <2>3. QED
    BY <2>1, <2>2
<1>4. QED
  BY <1>2, <1>3

(* An edit is noticed: by the checkout it leaves behind, by the sync it    *)
(* falls into, or by the replacement it races with.                        *)
LEMMA ChangeStep ==
  ASSUME IInv, NEW f \in Paths, NEW doc, ChangeFile(f, doc)
  PROVE  ReadInv' /\ EvidenceInv' /\ ReplaceInv' /\ MixedResumes'
<1>1. /\ UNCHANGED <<plan, inputs, staged, pc, mine, originals, position>>
      /\ tried' = NoPlan /\ slipped' = (slipped \/ pc = "read") /\ raced' = (raced \/ pc = "replace")
  BY DEF ChangeFile, memory
<1>2. QED
  BY <1>1 DEF IInv, ReadInv, EvidenceInv, ReplaceInv, MixedResumes, SyncSteps

(* An archive of files that are alike, with the version of the plan in one *)
(* of those inspected, is what the plan makes of the committed files.      *)
LEMMA PlainAsExpected ==
  ASSUME NEW p \in Plans, NEW d, d \in Dists, d # Empty, AllPlain(d),
         \A f \in Inspected : d.docs[f].version = Package(p)
  PROVE  d.docs = Expected(p)
<1>1. PICK v \in Versions : \A f \in Paths : d.docs[f] = Plain(v)
  BY DEF AllPlain
<1>2. PICK g \in Inspected : g \in Paths
  BY BuildAssumption DEF Paths
<1>3. v = Package(p)
  BY <1>1, <1>2 DEF Plain
<1>4. d.docs \in Trees
  BY DEF Dists
<1>5. \A f \in Paths : Expected(p)[f] = Plain(Package(p))
  BY DEF Expected, EditAll, CommittedTree, Edit, Committed, Plain
<1>6. Expected(p) \in Trees
  BY EditFacts
<1>7. QED
  BY <1>1, <1>3, <1>4, <1>5, <1>6 DEF Trees

LEMMA AcceptStep ==
  ASSUME IInv, NEW p \in Plans, Accept(p)
  PROVE  AcceptedAsPlanned'
<1>1. /\ staged # Absent /\ staged.plan = p /\ Declared(staged.dist, p) /\ accepted' = staged
      /\ UNCHANGED <<slipped, tainted>>
  BY DEF Accept, history
<1>2. /\ staged.dist.label = Package(p)
      /\ \A f \in Inspected : staged.dist.docs[f].version = Package(p)
  BY <1>1 DEF Declared, Inspect
<1>3. ~slipped => staged.after = Expected(p)
  BY <1>1 DEF IInv, EvidenceInv
<1>4. ~slipped /\ ~tainted => staged.dist.docs = Expected(p)
  <2>1. staged.dist \in Dists
    BY <1>1, CommandFacts DEF IInv
  <2>2. staged.dist # Empty
    BY <1>1 DEF Declared, Empty
  <2>3. ~slipped /\ ~tainted => AllPlain(staged.dist)
    BY <1>1 DEF IInv, PackInv, ArchiveInv
  <2>4. QED
    BY <1>2, <2>1, <2>2, <2>3, PlainAsExpected
<1>5. QED
  BY <1>1, <1>2, <1>3, <1>4 DEF AcceptedAsPlanned

LEMMA AcceptedStep ==
  ASSUME IInv, [Next]_vars
  PROVE  AcceptedAsPlanned'
<1>1. CASE \E p \in Plans : Accept(p)
  BY <1>1, AcceptStep
<1>2. CASE accepted' = accepted
  BY <1>2, HistoryGrows DEF IInv, AcceptedAsPlanned
<1>3. QED
  BY <1>1, <1>2
     DEF Next, Sync, Verify, ReadInputs, Recheck, SkipFile, CheckFile, ReplaceFile, Replaced, WriteEvidence,
         Build, StartPackage, CopyFile, Archive, BuildImage, Stage, StartStage, InspectPackages, CreateReceipt,
         Fail, Operator, PlacePlan, EditFile, Restore, ChangeFile, Clean, vars, disk

(* A replacement writes what the plan makes of a file as it was read.      *)
LEMMA CleanStep ==
  ASSUME IInv, [Next]_vars
  PROVE  CleanInv'
<1>0. TypeOK /\ CleanInv
  BY DEF IInv, PackInv
<1>1. CASE ReplaceFile
  <2>1. /\ pc = "replace" /\ slipped' = slipped /\ edited' = edited \ {Files[position]}
        /\ files' = [files EXCEPT ![Files[position]] = Edit(originals[Files[position]], mine)]
    BY <1>1 DEF ReplaceFile, Step
  <2>2. mine \in Plans /\ position \in 1..Len(Files) /\ DOMAIN files = Paths
    BY <1>0, <2>1, FileFacts DEF IInv, ReadInv, ReplaceInv, SyncSteps, TypeOK, Trees
  <2>3. SUFFICES ASSUME ~slipped PROVE \A f \in Paths \ edited' : ~files'[f].touched
    BY <2>1 DEF CleanInv
  <2>4. Files[position] \in Paths /\ AsPlanned(originals, mine)
    BY <2>1, <2>2, <2>3, FileFacts DEF IInv, ReadInv, SyncSteps
  <2>5. Edit(originals[Files[position]], mine) = Expected(mine)[Files[position]]
    BY <2>2, <2>4, EditAsPlanned
  <2>6. ~Expected(mine)[Files[position]].touched
    BY <2>4 DEF Expected, EditAll, CommittedTree, Edit, Committed
  <2>7. QED
    BY <1>0, <2>1, <2>2, <2>3, <2>4, <2>5, <2>6 DEF CleanInv
<1>2. ASSUME NEW f \in Paths, EditFile(f) \/ Restore(f) PROVE CleanInv'
  <2>1. PICK doc \in Documents : ChangeFile(f, doc)
    BY <1>0, <1>2, EditType
  <2>2. /\ files' = [files EXCEPT ![f] = doc]
        /\ edited' = IF doc = Committed THEN edited \ {f} ELSE edited \cup {f}
        /\ slipped' = (slipped \/ pc = "read")
    BY <2>1 DEF ChangeFile
  <2>3. DOMAIN files = Paths
    BY <1>0 DEF TypeOK, Trees
  <2>4. ASSUME NEW g \in Paths \ edited', ~slipped' PROVE ~files'[g].touched
    <3>1. CASE g = f
      <4>1. doc = Committed
        BY <2>2, <2>4, <3>1
      <4>2. QED
        BY <2>2, <2>3, <3>1, <4>1 DEF Committed
    <3>2. CASE g # f
      <4>1. g \in Paths \ edited /\ ~slipped
        BY <2>2, <2>4, <3>2
      <4>2. QED
        BY <1>0, <2>2, <2>3, <3>2, <4>1 DEF CleanInv
    <3>3. QED
      BY <3>1, <3>2
  <2>5. QED
    BY <2>4 DEF CleanInv
<1>3. CASE UNCHANGED <<files, edited, slipped>>
  BY <1>0, <1>3 DEF CleanInv
<1>4. QED
  <2>1. CASE Sync /\ ~ReplaceFile
    BY <1>3, <2>1 DEF Sync, Verify, ReadInputs, Recheck, SkipFile, CheckFile, Replaced, WriteEvidence, disk, history
  <2>2. CASE Build \/ Stage \/ Fail
    BY <1>3, <2>2 DEF Build, StartPackage, CopyFile, Archive, BuildImage, Stage, StartStage, InspectPackages,
                      CreateReceipt, Fail, disk, history
  <2>3. CASE (\E p \in Plans : PlacePlan(p) \/ Accept(p)) \/ Clean \/ UNCHANGED vars
    BY <1>3, <2>3 DEF PlacePlan, Accept, Clean, vars, disk, history
  <2>4. QED
    BY <1>1, <1>2, <2>1, <2>2, <2>3 DEF Next, Operator

(* The versions are compared once, before the first file is copied; a      *)
(* change of a file that is still to be copied taints the package.         *)
LEMMA StartCopies ==
  ASSUME IInv, StartPackage
  PROVE  CopyInv'
<1>1. /\ pc = "idle" /\ pc' = "snapshot" /\ Checked /\ position = 1
      /\ UNCHANGED <<files, plan, position, copies>>
  BY DEF IInv, PackInv, CopyInv, StartPackage, Step, disk, memory
<1>2. CheckedVersion \in Versions /\ plan \in Plans \cup {NoPlan}
  BY PlanFacts DEF CheckedVersion, IInv, TypeOK
<1>3. ASSUME NEW f \in Paths PROVE files[f].version = CheckedVersion
  <2>1. CASE plan = NoPlan
    BY <1>1, <2>1 DEF Checked, CheckedVersion
  <2>2. CASE plan # NoPlan
    <3>1. files[f] = Edit(files[f], plan) /\ files[f] \in Documents
      BY <1>1, <2>2 DEF Checked, InSync, IInv, TypeOK, Trees
    <3>2. Edit(files[f], plan).version = Package(plan)
      BY <3>1 DEF Edit, Documents
    <3>3. QED
      BY <2>2, <3>1, <3>2 DEF CheckedVersion
  <2>3. QED
    BY <2>1, <2>2
<1>4. \A i \in 1..Len(Files) : files[Files[i]].version = CheckedVersion
  BY <1>3, FileFacts
<1>5. 1..(1 - 1) = {}
  OBVIOUS
<1>6. QED
  BY <1>1, <1>2, <1>4, <1>5 DEF CopyInv

LEMMA CopyOne ==
  ASSUME IInv, CopyFile
  PROVE  CopyInv'
<1>1. /\ pc = "snapshot" /\ pc' = "snapshot" /\ position' = position + 1
      /\ copies' = [copies EXCEPT ![Files[position]] = files[Files[position]]]
      /\ tainted' = (tainted \/ Files[position] \in edited)
      /\ UNCHANGED <<files, slipped>> /\ position \in 1..Len(Files)
  BY FileFacts DEF CopyFile, Step, disk, IInv, TypeOK
<1>2. SUFFICES ASSUME ~slipped, ~tainted'
               PROVE  \E v \in Versions :
                        /\ \A i \in 1..(position' - 1) : copies'[Files[i]] = Plain(v)
                        /\ \A i \in position'..Len(Files) : files'[Files[i]].version = v
  BY <1>1 DEF CopyInv
<1>3. PICK v \in Versions :
        /\ \A i \in 1..(position - 1) : copies[Files[i]] = Plain(v)
        /\ \A i \in position..Len(Files) : files[Files[i]].version = v
  BY <1>1, <1>2 DEF IInv, PackInv, CopyInv
<1>4. /\ Files[position] \in Paths /\ DOMAIN copies = Paths /\ Len(Files) \in Nat
      /\ files[Files[position]] \in Documents
  BY <1>1, FileFacts DEF IInv, TypeOK, Trees
<1>5. files[Files[position]].version = v /\ ~files[Files[position]].touched
  <2>1. position \in position..Len(Files)
    BY <1>1
  <2>2. QED
    BY <1>1, <1>2, <1>3, <1>4, <2>1 DEF IInv, PackInv, CleanInv
<1>6. files[Files[position]] = Plain(v)
  BY <1>4, <1>5 DEF Documents, Plain
<1>7. ASSUME NEW i \in 1..(position' - 1) PROVE copies'[Files[i]] = Plain(v)
  <2>1. i \in 1..(position - 1) \/ i = position
    BY <1>1, FileFacts
  <2>2. Files[i] \in Paths
    <3>1. i \in 1..Len(Files)
      BY <1>1, FileFacts
    <3>2. QED
      BY <3>1, FileFacts
  <2>3. QED
    BY <1>1, <1>3, <1>4, <1>6, <2>1, <2>2
<1>8. ASSUME NEW i \in position'..Len(Files) PROVE files'[Files[i]].version = v
  <2>1. i \in position..Len(Files)
    BY <1>1, <1>4
  <2>2. QED
    BY <1>1, <1>3, <2>1
<1>9. QED
  BY <1>7, <1>8

LEMMA ChangeCopies ==
  ASSUME IInv, NEW f \in Paths, NEW doc, ChangeFile(f, doc)
  PROVE  CopyInv'
<1>1. /\ UNCHANGED <<pc, position, copies>> /\ files' = [files EXCEPT ![f] = doc]
      /\ slipped' = (slipped \/ pc = "read") /\ tainted' = (tainted \/ Uncopied(f))
  BY DEF ChangeFile, memory
<1>2. SUFFICES ASSUME pc = "snapshot", ~slipped, ~tainted, ~Uncopied(f)
               PROVE  \E v \in Versions :
                        /\ \A i \in 1..(position - 1) : copies[Files[i]] = Plain(v)
                        /\ \A i \in position..Len(Files) : files'[Files[i]].version = v
  BY <1>1 DEF CopyInv, IInv, PackInv
<1>3. \A i \in position..Len(Files) : files'[Files[i]] = files[Files[i]]
  BY <1>1, <1>2 DEF Uncopied, IInv, TypeOK, Trees
<1>4. QED
  BY <1>2, <1>3 DEF IInv, PackInv, CopyInv

LEMMA CopyStep ==
  ASSUME IInv, [Next]_vars
  PROVE  CopyInv'
<1>0. TypeOK /\ CopyInv
  BY DEF IInv, PackInv
<1>1. ASSUME NEW f \in Paths, EditFile(f) \/ Restore(f) PROVE CopyInv'
  BY <1>0, <1>1, EditType, ChangeCopies
<1>2. CASE Sync \/ Archive \/ BuildImage \/ Stage \/ Fail
  <2>1. pc' # "snapshot" /\ (pc' = "idle" => position' = 1)
    BY <1>2 DEF Sync, Verify, ReadInputs, Recheck, SkipFile, CheckFile, ReplaceFile, Replaced, WriteEvidence,
                Archive, BuildImage, Stage, StartStage, InspectPackages, CreateReceipt, Fail, Forget, Step
  <2>2. QED
    BY <2>1 DEF CopyInv
<1>3. CASE (\E p \in Plans : PlacePlan(p) \/ Accept(p)) \/ Clean \/ UNCHANGED vars
  <2>1. UNCHANGED <<files, pc, position, copies, slipped, tainted>>
    BY <1>3 DEF PlacePlan, Accept, Clean, vars, disk, memory, history
  <2>2. QED
    BY <1>0, <2>1 DEF CopyInv
<1>4. QED
  BY <1>1, <1>2, <1>3, StartCopies, CopyOne DEF Next, Operator, Build

(* An archive is written from copies that are alike, and only moved on.    *)
LEMMA ArchiveStep ==
  ASSUME IInv, [Next]_vars
  PROVE  ArchiveInv'
<1>0. TypeOK /\ ArchiveInv /\ CopyInv /\ LabelInv
  BY DEF IInv, PackInv
<1>1. (slipped => slipped') /\ (tainted => tainted')
  BY HistoryGrows
<1>2. SUFFICES ASSUME ~slipped, ~tainted
               PROVE  AllPlain(dist') /\ (staged' # Absent => AllPlain(staged'.dist))
  BY <1>1 DEF ArchiveInv, AllPlain
<1>3. AllPlain(dist) /\ (staged # Absent => AllPlain(staged.dist))
  BY <1>0, <1>2 DEF ArchiveInv
<1>4. CASE Archive
  <2>1. pc = "snapshot" /\ position = Len(Files) + 1 /\ dist'.docs = copies /\ staged' = staged
    BY <1>4 DEF Archive, Step
  <2>2. PICK v \in Versions : \A i \in 1..(position - 1) : copies[Files[i]] = Plain(v)
    BY <1>0, <1>2, <2>1 DEF CopyInv
  <2>3. \A f \in Paths : copies[f] = Plain(v)
    <3>1. position - 1 = Len(Files)
      BY <2>1, FileFacts
    <3>2. QED
      BY <2>2, <3>1, FileFacts DEF Paths
  <2>4. QED
    BY <1>3, <2>1, <2>3 DEF AllPlain
<1>5. CASE BuildImage
  <2>1. dist # Empty /\ dist'.docs = dist.docs /\ staged' = staged
    BY <1>0, <1>5, TreeNotEmpty DEF BuildImage, LabelInv, Step, Empty
  <2>2. QED
    BY <1>3, <2>1 DEF AllPlain
<1>6. CASE CreateReceipt
  <2>1. staged'.dist = dist /\ dist' = dist
    BY <1>6 DEF CreateReceipt
  <2>2. QED
    BY <1>3, <2>1
<1>7. CASE dist' \in {dist, Empty} /\ staged' \in {staged, Absent}
  BY <1>3, <1>7 DEF AllPlain
<1>8. QED
  <2>1. CASE Sync \/ StartPackage \/ CopyFile \/ StartStage \/ InspectPackages \/ Fail
    BY <1>7, <2>1 DEF Sync, Verify, ReadInputs, Recheck, SkipFile, CheckFile, ReplaceFile, Replaced,
                      WriteEvidence, StartPackage, CopyFile, StartStage, InspectPackages, Fail, disk
  <2>2. CASE Operator \/ (\E p \in Plans : Accept(p)) \/ UNCHANGED vars
    BY <1>7, <2>2 DEF Operator, PlacePlan, EditFile, Restore, ChangeFile, Clean, Accept, vars, disk
  <2>3. QED
    BY <1>4, <1>5, <1>6, <2>1, <2>2 DEF Next, Build, Stage

LEMMA PackStep ==
  ASSUME IInv, [Next]_vars
  PROVE  PackInv'
BY CleanStep, CopyStep, ArchiveStep DEF PackInv

LEMMA InductiveStep ==
  ASSUME IInv, [Next]_vars
  PROVE  IInv'
<1> SUFFICES ReadInv' /\ EvidenceInv' /\ ReplaceInv' /\ MixedResumes'
  BY TypeStep, PackStep, AcceptedStep DEF IInv
<1>1. CASE Sync
  BY <1>1, SyncStep
<1>2. CASE Build \/ Stage \/ Fail
  BY <1>2, CommandStep
<1>3. ASSUME NEW f \in Paths, EditFile(f) \/ Restore(f)
      PROVE  ReadInv' /\ EvidenceInv' /\ ReplaceInv' /\ MixedResumes'
  BY <1>3, EditType, ChangeStep DEF IInv
<1>4. ASSUME (\E p \in Plans : PlacePlan(p) \/ Accept(p)) \/ Clean \/ UNCHANGED vars
      PROVE  ReadInv' /\ EvidenceInv' /\ ReplaceInv' /\ MixedResumes'
  <2>1. UNCHANGED <<files, inputs, pc, mine, originals, position, tried, slipped, raced>> /\ staged' \in {staged, Absent}
    BY <1>4 DEF PlacePlan, Accept, Clean, vars, disk, memory, history
  <2>2. ReadInv' /\ ReplaceInv' /\ MixedResumes'
    BY <2>1 DEF IInv, ReadInv, ReplaceInv, MixedResumes, VerifyCheckout, SyncSteps
  <2>3. EvidenceInv'
    BY <2>1 DEF IInv, EvidenceInv
  <2>4. QED
    BY <2>2, <2>3
<1>5. QED
  BY <1>1, <1>2, <1>3, <1>4 DEF Next, Operator

LEMMA InitInv == Init => IInv
<1> SUFFICES ASSUME Init PROVE IInv
  OBVIOUS
<1>1. CommittedTree \in Trees /\ 1 \in Positions
  BY PlanFacts, FileFacts DEF CommittedTree, Trees, Documents, Committed
<1>a. inputs \in Evidence /\ staged \in Receipts /\ accepted \in Receipts /\ dist \in Dists
  BY DEF Init, Evidence, Receipts, Dists
<1>b. /\ files \in Trees /\ originals \in Trees /\ copies \in Trees /\ position \in Positions
      /\ plan \in Plans \cup {NoPlan} /\ mine \in Plans \cup {NoPlan} /\ tried \in Plans \cup {NoPlan}
  BY <1>1 DEF Init
<1>c. edits \in 0..MaxEdits
  <2>1. edits = 0 /\ MaxEdits \in Nat
    BY BuildAssumption DEF Init
  <2>2. QED
    BY <2>1
<1>d. slipped \in BOOLEAN /\ raced \in BOOLEAN /\ edited \in SUBSET Paths /\ tainted \in BOOLEAN
  BY Zenon DEF Init
<1>e. pc \in {"idle"} \cup SyncSteps \cup PackSteps \cup StageSteps
  BY Zenon DEF Init
<1>2. TypeOK
  BY <1>a, <1>b, <1>c, <1>d, <1>e, Zenon DEF TypeOK
<1>3. ReadInv /\ EvidenceInv /\ ReplaceInv /\ LabelInv /\ MixedResumes /\ AcceptedAsPlanned
  BY DEF Init, ReadInv, EvidenceInv, ReplaceInv, LabelInv, MixedResumes, AcceptedAsPlanned, SyncSteps
<1>4. PackInv
  BY DEF Init, PackInv, CleanInv, CopyInv, ArchiveInv, AllPlain, CommittedTree, Committed
<1>5. QED
  BY <1>2, <1>3, <1>4 DEF IInv

(* The inductive invariant of the build.                                   *)
THEOREM InvariantHolds == Spec => []IInv
BY InitInv, InductiveStep, PTL DEF Spec

(***************************************************************************)
(* What follows.                                                           *)
(***************************************************************************)
(* Every variable keeps its type.                                          *)
THEOREM TypeCorrect == Spec => []TypeOK
BY InvariantHolds, PTL DEF IInv

(* What the publisher accepts for a plan carries its version; unless an    *)
(* edit slipped into a sync, the receipt's files are the committed ones    *)
(* with that version, and so is the archive unless an edit was packed.     *)
THEOREM AcceptedIsPlanned == Spec => []AcceptedAsPlanned
BY InvariantHolds, PTL DEF IInv

(* The plan last applied to an unedited checkout can be applied again.     *)
THEOREM MixedCanResume == Spec => []MixedResumes
BY InvariantHolds, PTL DEF IInv

LEMMA KeptStep ==
  ASSUME IInv, [Next]_vars
  PROVE  [pc = "replace" /\ files' # files /\ pc' = "check" =>
            raced \/ files[Files[position]] = originals[Files[position]]]_vars
BY DEF IInv, ReplaceInv

(* A replacement loses no edit that did not race with it.                  *)
THEOREM EditsAreKept == Spec => EditsKept
BY InvariantHolds, KeptStep, PTL DEF Spec, EditsKept
================================================================================
