---------------------------- MODULE VersionedBuild ----------------------------
(***************************************************************************)
(* The build of one release in one checkout, from its frozen plan to the   *)
(* files the publisher accepts: version_plan.py sync edits the declared    *)
(* version files, package_release.py packs a snapshot of them,             *)
(* stage_release_assets.py and version_receipt.py bind the packages to the *)
(* plan, and the publisher checks the receipt again. The commands run one  *)
(* after another, each may die at any step and be run again under the same *)
(* or another plan, and an operator edits the checkout meanwhile.          *)
(***************************************************************************)
EXTENDS Integers, Sequences

CONSTANTS
  Files,      \* the declared version files, in the order of their names
  Inspected,  \* those whose copy in the archive has its version inspected
  Plans,      \* release plans for the commit checked out
  MaxEdits    \* bound: edits of version files by the operator

ASSUME BuildAssumption ==
  /\ Files \in Seq(STRING) /\ Files # <<>>
  /\ \A i, j \in DOMAIN Files : Files[i] = Files[j] => i = j
  /\ Inspected \subseteq {Files[i] : i \in DOMAIN Files} /\ Inspected # {}
  /\ \A p \in Plans : p.channel \in {"beta", "rc"} /\ p.sequence \in Nat \ {0}
  /\ MaxEdits \in Nat

Paths == {Files[i] : i \in DOMAIN Files}
Positions == 1..(Len(Files) + 1)

(* The version a package carries: candidates that are promoted as they are *)
(* carry the stable version of the base (projections).                     *)
Stable == [channel |-> "stable", sequence |-> 0]
Package(p) == IF p.channel = "rc" THEN Stable ELSE p
Versions == {Stable} \cup Plans
Ambiguous == [channel |-> "ambiguous", sequence |-> 0]
Missing == [channel |-> "missing", sequence |-> 0]
NoPlan == [channel |-> "none", sequence |-> 0]

(* A version file: what its selector finds, one version or no single one,  *)
(* and whether the rest of it is as committed.                             *)
Documents == [version : Versions \cup {Ambiguous}, touched : BOOLEAN]
Committed == [version |-> Stable, touched |-> FALSE]
Trees == [Paths -> Documents]

VARIABLES
  files,      \* the version files of the checkout
  plan,       \* .release-plan.json
  inputs,     \* .release-inputs.json: the plan, and the files as they were left
  dist,       \* release-dist: the archived files and the label of the image
  staged,     \* release-assets: the packages with their receipt
  accepted,   \* what the publisher accepted, with its plan
  pc,         \* the step of the command that runs
  mine,       \* the plan it works with
  originals,  \* the files it read
  position,   \* the file it is at
  copies,     \* the snapshot it takes
  edits,      \* how often the operator edited a file
  tried,      \* history: the plan last applied to the checkout, if nobody edited it since
  slipped,    \* history: an edit fell between the check and the read of a sync
  raced,      \* history: an edit fell between the last check of a file and its replacement
  edited,     \* history: the files whose content is an edit of the operator
  tainted     \* history: a package copied such a file, or one changed since the package began

disk == <<files, plan, inputs, dist, staged, accepted>>
memory == <<mine, originals, position, copies>>
history == <<edits, tried, slipped, raced, edited, tainted>>
vars == <<disk, pc, memory, history>>

Absent == [plan |-> NoPlan]
Evidence == {Absent} \cup [plan : Plans, after : Trees]
Empty == [label |-> Missing, docs |-> <<>>]
Dists == {Empty} \cup [label : {Missing} \cup Versions, docs : Trees]
Receipts == {Absent} \cup [plan : Plans, after : Trees, dist : Dists]

SyncSteps == {"read", "recheck", "check", "replace", "evidence"}
PackSteps == {"snapshot", "archive", "label"}
StageSteps == {"inspect", "receipt"}

TypeOK ==
  /\ files \in Trees
  /\ plan \in Plans \cup {NoPlan}
  /\ inputs \in Evidence
  /\ dist \in Dists
  /\ staged \in Receipts
  /\ accepted \in Receipts
  /\ pc \in {"idle"} \cup SyncSteps \cup PackSteps \cup StageSteps
  /\ mine \in Plans \cup {NoPlan}
  /\ originals \in Trees
  /\ position \in Positions
  /\ copies \in Trees
  /\ edits \in 0..MaxEdits
  /\ tried \in Plans \cup {NoPlan}
  /\ slipped \in BOOLEAN /\ raced \in BOOLEAN
  /\ edited \in SUBSET Paths /\ tainted \in BOOLEAN

CommittedTree == [f \in Paths |-> Committed]

Init ==
  /\ files = CommittedTree
  /\ plan = NoPlan
  /\ inputs = Absent
  /\ dist = Empty
  /\ staged = Absent
  /\ accepted = Absent
  /\ pc = "idle"
  /\ mine = NoPlan
  /\ originals = CommittedTree
  /\ position = 1
  /\ copies = CommittedTree
  /\ edits = 0
  /\ tried = NoPlan
  /\ slipped = FALSE
  /\ raced = FALSE
  /\ edited = {}
  /\ tainted = FALSE

--------------------------------------------------------------------------------
(* version_plan.py: the edit of one file and of all of them.               *)

(* The selector of a file finds exactly one place that the package owns.   *)
Selected(doc) == doc.version # Ambiguous

(* An edit replaces the version at that place and nothing else.            *)
Edit(doc, p) == [doc EXCEPT !.version = Package(p)]
EditAll(tree, p) == [f \in Paths |-> Edit(tree[f], p)]
Expected(p) == EditAll(CommittedTree, p)

(* sync_versions with check: every declared field carries the projection.  *)
InSync(p) == \A f \in Paths : Selected(files[f]) /\ files[f] = Edit(files[f], p)

(* Mutants: a mixed checkout is refused; only the versions are compared.   *)
VerifyWhole(p) == files \in {CommittedTree, Expected(p)}

(* verify_checkout: each file is as committed or as the plan makes it.     *)
VerifyCheckout(p) == \A f \in Paths : files[f] \in {Committed, Expected(p)[f]}

Step(from, to) == pc = from /\ pc' = to

Verify ==
  /\ plan # NoPlan
  /\ VerifyCheckout(plan)
  /\ Step("idle", "read")
  /\ mine' = plan
  /\ tried' = plan
  /\ UNCHANGED <<disk, originals, position, copies, edits, slipped, raced, edited, tainted>>

ReadInputs ==
  /\ \A f \in Paths : Selected(files[f])
  /\ Step("read", "recheck")
  /\ originals' = files
  /\ position' = 1
  /\ UNCHANGED <<disk, mine, copies, history>>

(* Nothing is written unless every file is still as it was read.           *)
Recheck ==
  /\ files = originals
  /\ Step("recheck", "check")
  /\ UNCHANGED <<disk, memory, history>>

Drifts(f) == originals[f] # Edit(originals[f], mine)

(* Mutant: the file after one that needs no edit is passed over as well.   *)
SkipTwoFiles ==
  /\ position <= Len(Files)
  /\ ~Drifts(Files[position])
  /\ Step("check", "check")
  /\ position' = position + 2
  /\ UNCHANGED <<disk, mine, originals, copies, history>>

(* Files that need no edit are passed over.                                *)
SkipFile ==
  /\ position <= Len(Files)
  /\ ~Drifts(Files[position])
  /\ Step("check", "check")
  /\ position' = position + 1
  /\ UNCHANGED <<disk, mine, originals, copies, history>>

(* Mutant: the one check of all files is enough.                           *)
TrustRecheck ==
  /\ position <= Len(Files)
  /\ Drifts(Files[position])
  /\ Step("check", "replace")
  /\ raced' = FALSE
  /\ UNCHANGED <<disk, memory, edits, tried, slipped, edited, tainted>>

CheckFile ==
  /\ position <= Len(Files)
  /\ Drifts(Files[position])
  /\ files[Files[position]] = originals[Files[position]]
  /\ Step("check", "replace")
  /\ raced' = FALSE
  /\ UNCHANGED <<disk, memory, edits, tried, slipped, edited, tainted>>

ReplaceFile ==
  /\ Step("replace", "check")
  /\ files' = [files EXCEPT ![Files[position]] = Edit(originals[Files[position]], mine)]
  /\ position' = position + 1
  /\ edited' = edited \ {Files[position]}
  /\ UNCHANGED <<plan, inputs, dist, staged, accepted, mine, originals, copies>>
  /\ UNCHANGED <<edits, tried, slipped, raced, tainted>>

Replaced ==
  /\ position = Len(Files) + 1
  /\ Step("check", "evidence")
  /\ UNCHANGED <<disk, memory, history>>

(* A command that ended, or died, leaves only what is on disk.             *)
Forget ==
  /\ mine' = NoPlan
  /\ originals' = CommittedTree
  /\ position' = 1
  /\ copies' = CommittedTree

WriteEvidence ==
  /\ Step("evidence", "idle")
  /\ inputs' = [plan |-> mine, after |-> EditAll(originals, mine)]
  /\ Forget
  /\ UNCHANGED <<files, plan, dist, staged, accepted, history>>

--------------------------------------------------------------------------------
(* package_release.py.                                                     *)

(* checked_version: the tree agrees with the plan, or with the committed   *)
(* base where there is none.                                               *)
Checked == IF plan = NoPlan THEN \A f \in Paths : files[f].version = Stable ELSE InSync(plan)
CheckedVersion == IF plan = NoPlan THEN Stable ELSE Package(plan)

(* Mutant: the check before the image is labelled is enough.               *)
PackUnchecked ==
  /\ dist = Empty
  /\ Step("idle", "snapshot")
  /\ UNCHANGED <<disk, memory, history>>

StartPackage ==
  /\ dist = Empty
  /\ Checked
  /\ Step("idle", "snapshot")
  /\ UNCHANGED <<disk, memory, history>>

CopyFile ==
  /\ position <= Len(Files)
  /\ Step("snapshot", "snapshot")
  /\ copies' = [copies EXCEPT ![Files[position]] = files[Files[position]]]
  /\ position' = position + 1
  /\ tainted' = (tainted \/ Files[position] \in edited)
  /\ UNCHANGED <<disk, mine, originals, edits, tried, slipped, raced, edited>>

Archive ==
  /\ position = Len(Files) + 1
  /\ Step("snapshot", "label")
  /\ dist' = [label |-> Missing, docs |-> copies]
  /\ UNCHANGED <<files, plan, inputs, staged, accepted, memory, history>>

(* labels: the tree is checked again and the image carries its version.    *)
BuildImage ==
  /\ Checked
  /\ Step("label", "idle")
  /\ dist' = [dist EXCEPT !.label = CheckedVersion]
  /\ Forget
  /\ UNCHANGED <<files, plan, inputs, staged, accepted, history>>

--------------------------------------------------------------------------------
(* stage_release_assets.py and version_receipt.py.                         *)

(* The files are as the evidence says they were left by the sync.          *)
InputsUnchanged == inputs # Absent /\ files = inputs.after

StartStage ==
  /\ dist # Empty
  /\ staged = Absent
  /\ plan # NoPlan
  /\ InSync(plan)
  /\ InputsUnchanged
  /\ Step("idle", "inspect")
  /\ mine' = plan
  /\ UNCHANGED <<disk, originals, position, copies, history>>

(* verify_artifact: the versions inside the packages are the plan's.       *)
Inspect(d, p) ==
  /\ \A f \in Inspected : d.docs[f].version = Package(p)
  /\ d.label \in {Missing, Package(p)}

InspectPackages ==
  /\ Step("inspect", "receipt")
  /\ Inspect(dist, mine)
  /\ UNCHANGED <<disk, memory, history>>

(* create_receipt reads plan and evidence again.                           *)
CreateReceipt ==
  /\ plan # NoPlan
  /\ inputs.plan = plan
  /\ InputsUnchanged
  /\ Step("receipt", "idle")
  /\ staged' = [plan |-> plan, after |-> inputs.after, dist |-> dist]
  /\ Forget
  /\ UNCHANGED <<files, plan, inputs, dist, accepted, history>>

(* validate_input_fields: the fields the receipt lists are the plan's.     *)
FieldsMatch(after, p) == \A f \in Paths : after[f].version = Package(p)

(* verify_declared_artifacts: no declared package is missing.              *)
Declared(d, p) == d.label # Missing /\ Inspect(d, p)

(* verify_receipts, by the publisher with the plan it was given.           *)
Accept(p) ==
  /\ staged # Absent
  /\ staged.plan = p
  /\ FieldsMatch(staged.after, p)
  /\ Declared(staged.dist, p)
  /\ accepted' = staged
  /\ UNCHANGED <<files, plan, inputs, dist, staged, pc, memory, history>>

(* A command fails or dies. What it had already written stays, except for  *)
(* a staging directory, which is removed.                                  *)
Fail ==
  /\ pc # "idle"
  /\ pc' = "idle"
  /\ Forget
  /\ UNCHANGED <<disk, history>>

--------------------------------------------------------------------------------
(* The operator.                                                           *)

(* The plan of the run is downloaded, or another one put in its place.     *)
PlacePlan(p) ==
  /\ plan # p
  /\ plan' = p
  /\ UNCHANGED <<files, inputs, dist, staged, accepted, pc, memory, history>>

(* A file that the snapshot still has to copy.                             *)
Uncopied(f) == pc = "snapshot" /\ \E i \in position..Len(Files) : Files[i] = f

ChangeFile(f, doc) ==
  /\ files[f] # doc
  /\ files' = [files EXCEPT ![f] = doc]
  /\ tried' = NoPlan
  /\ slipped' = (slipped \/ pc = "read")
  /\ raced' = (raced \/ pc = "replace")
  /\ edited' = IF doc = Committed THEN edited \ {f} ELSE edited \cup {f}
  /\ tainted' = (tainted \/ Uncopied(f))
  /\ UNCHANGED <<plan, inputs, dist, staged, accepted, pc, memory>>

EditFile(f) ==
  /\ edits < MaxEdits
  /\ edits' = edits + 1
  /\ \E doc \in {[files[f] EXCEPT !.touched = TRUE]}
                \cup {[files[f] EXCEPT !.version = v] : v \in Versions \cup {Ambiguous}} :
       ChangeFile(f, doc)

(* git checkout of the committed file.                                     *)
Restore(f) == ChangeFile(f, Committed) /\ UNCHANGED edits

(* Directories of an earlier build are removed.                            *)
Clean ==
  /\ \/ dist # Empty /\ dist' = Empty /\ UNCHANGED staged
     \/ staged # Absent /\ staged' = Absent /\ UNCHANGED dist
  /\ pc = "idle"
  /\ UNCHANGED <<files, plan, inputs, accepted, pc, memory, history>>

--------------------------------------------------------------------------------
Sync ==
  \/ Verify \/ ReadInputs \/ Recheck
  \/ SkipFile \/ CheckFile \/ ReplaceFile \/ Replaced
  \/ WriteEvidence

Build == StartPackage \/ CopyFile \/ Archive \/ BuildImage

Stage == StartStage \/ InspectPackages \/ CreateReceipt

Operator ==
  \/ \E p \in Plans : PlacePlan(p)
  \/ \E f \in Paths : EditFile(f) \/ Restore(f)
  \/ Clean

(* The checkout is followed up to the release it leads to.                 *)
Next ==
  /\ accepted = Absent
  /\ Sync \/ Build \/ Stage \/ Fail \/ Operator \/ \E p \in Plans : Accept(p)

Spec == Init /\ [][Next]_vars

--------------------------------------------------------------------------------
(* What the publisher accepts for a plan was built for it, whatever was    *)
(* built, half built or edited in the checkout before. The image and every *)
(* inspected file carry the plan's version. The files the receipt lists    *)
(* are the committed ones with nothing but that version in them, unless an *)
(* edit fell between verify_checkout and the read of a sync. So are all    *)
(* the files packed in the archive, unless besides an edit was packed: the *)
(* packager looks at versions only, and before it copies, and staging      *)
(* looks at the checkout, where an edit may have been undone by then.      *)
AcceptedAsPlanned ==
  accepted # Absent =>
    /\ accepted.dist.label = Package(accepted.plan)
    /\ \A f \in Inspected : accepted.dist.docs[f].version = Package(accepted.plan)
    /\ ~slipped => accepted.after = Expected(accepted.plan)
    /\ ~slipped /\ ~tainted => accepted.dist.docs = Expected(accepted.plan)

(* A sync that died between two replacements leaves a mixed checkout; the  *)
(* same plan can be applied to it again (verify_checkout).                 *)
MixedResumes == tried # NoPlan => VerifyCheckout(tried)

(* A replacement takes the place of the content it was made from: an edit  *)
(* by somebody else is only lost if it falls between the last check of the *)
(* file and its replacement (_apply_version_edits).                        *)
EditsKept ==
  [][pc = "replace" /\ files' # files /\ pc' = "check" =>
       raced \/ files[Files[position]] = originals[Files[position]]]_vars
================================================================================
