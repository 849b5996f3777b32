----------------------------- MODULE NativeOutputs -----------------------------
(***************************************************************************)
(* How a native container assembly puts its files into the output          *)
(* directory (scripts/assemble_native_container.py, with merge_archives of *)
(* scripts/merge_oci_archives.py and detach of                             *)
(* scripts/release_provenance.py). Under a detached provenance policy the  *)
(* image, its sidecar and the evidence are prepared in a private staging   *)
(* directory, linked one by one and rolled back by inode; otherwise the    *)
(* image is linked first and the evidence after it.                        *)
(*                                                                         *)
(* Several runs may assemble into one directory, any call may fail, a run  *)
(* may die at any point, and an operator creates, replaces, removes and    *)
(* hard-links files there. A file is named by the run that wrote it and by *)
(* the name it was written for; an inode number is not used again.         *)
(***************************************************************************)
EXTENDS Integers, Sequences

CONSTANTS
  Runs,        \* runs that assemble into the directory
  None,        \* no file
  Foreign,     \* a file of somebody else
  MaxMeddles,  \* bound: steps of the operator
  SwapsSeen    \* whether the operator may swap a file a rollback has just compared

ASSUME OutputsAssumption ==
  /\ MaxMeddles \in Nat
  /\ SwapsSeen \in BOOLEAN
  /\ None # Foreign

Names == {"output", "sidecar", "evidence"}
Files == Runs \X Names

ASSUME FilesAssumption == {None, Foreign} \intersect Files = {}

VARIABLES
  detached,  \* the policy declares detached provenance for this output
  dir,       \* the file behind each name of the output directory
  staged,    \* names linked in the staging directory of a run
  hidden,    \* names of a run whose hidden temporary was not removed
  linked,    \* names the run linked into the output directory
  pc,        \* where the run stands
  at,        \* the position of the run in a loop over the outputs
  failing,   \* an exception is on its way up
  fault,     \* the worst that failed in the run: no call, a call, a removal of
             \* its own file whose failure was suppressed
  taken,     \* files the operator replaced or removed
  aliased,   \* files the operator hard-linked elsewhere
  meddles    \* steps of the operator so far

runVars == <<staged, hidden, linked, pc, at, failing, fault>>
operatorVars == <<taken, aliased, meddles>>
vars == <<detached, dir, staged, hidden, linked, pc, at, failing, fault,
          taken, aliased, meddles>>

AtWork == {"start", "build", "evidence", "undo", "link", "unstage", "check",
           "compare", "remove", "discard"}
Ended == {"returned", "failed", "crashed"}

\* mutant: the evidence is linked before the files it speaks of
EvidenceFirst == IF detached THEN <<"evidence", "output", "sidecar">> ELSE <<"output", "evidence">>

\* publish_detached_outputs(staging, (output, sidecar, evidence))
Order == IF detached THEN <<"output", "sidecar", "evidence">> ELSE <<"output", "evidence">>
Outputs == {Order[i] : i \in DOMAIN Order}
Current(r) == Order[at[r]]

TypeOK ==
  /\ detached \in BOOLEAN
  /\ dir \in [Names -> Files \union {None, Foreign}]
  /\ staged \in [Runs -> SUBSET Names]
  /\ hidden \in [Runs -> SUBSET Names]
  /\ linked \in [Runs -> SUBSET Names]
  /\ pc \in [Runs -> AtWork \union Ended]
  /\ at \in [Runs -> DOMAIN Order]
  /\ failing \in [Runs -> BOOLEAN]
  /\ fault \in [Runs -> {"none", "call", "removal"}]
  /\ taken \subseteq Files
  /\ aliased \subseteq Files
  /\ meddles \in 0..MaxMeddles

Init ==
  /\ detached \in BOOLEAN
  /\ dir \in [Names -> {None, Foreign}]
  /\ staged = [r \in Runs |-> {}]
  /\ hidden = [r \in Runs |-> {}]
  /\ linked = [r \in Runs |-> {}]
  /\ pc = [r \in Runs |-> "start"]
  /\ at = [r \in Runs |-> 1]
  /\ failing = [r \in Runs |-> FALSE]
  /\ fault = [r \in Runs |-> "none"]
  /\ taken = {}
  /\ aliased = {}
  /\ meddles = 0

(***************************************************************************)
(* Moves of a run.                                                         *)
(***************************************************************************)
At(r, place) == pc[r] = place
Go(r, place) ==
  /\ pc' = [pc EXCEPT ![r] = place]
  /\ at' = [at EXCEPT ![r] = 1]

\* The next round of the loop over the outputs, or what follows the loop.
NextOutput(r, after) ==
  IF at[r] < Len(Order)
    THEN /\ at' = [at EXCEPT ![r] = @ + 1]
         /\ UNCHANGED pc
    ELSE Go(r, after)

Fault(r, kind) == fault' = [fault EXCEPT ![r] = kind]
Raise(r, kind, handler) ==
  /\ Fault(r, kind)
  /\ failing' = [failing EXCEPT ![r] = TRUE]
  /\ Go(r, handler)

\* A file of the directory that another name leads to as well.
Aliased(f) == f[2] \in staged[f[1]] \/ f[2] \in hidden[f[1]] \/ f \in aliased

\* os.link refuses a name that exists and never replaces what is there.
CanLink(o) == dir[o] = None

\* The unlink of a hidden temporary, suppressed when it fails: of the file of
\* name o the temporary stays behind or not.
DropTemporary(r, o) ==
  hidden' \in {hidden, [hidden EXCEPT ![r] = @ \union {o}]}

(***************************************************************************)
(* assemble: the destinations must be new, then the archives are built.    *)
(***************************************************************************)
Start(r) ==
  /\ At(r, "start")
  /\ \/ /\ \A o \in Outputs : dir[o] = None
        /\ Go(r, "build")
        /\ UNCHANGED <<failing, fault>>
     \/ /\ \E o \in Outputs : dir[o] # None
        /\ Raise(r, "call", "failed")
  /\ UNCHANGED <<detached, dir, staged, hidden, linked, operatorVars>>

\* The image and its sidecar are written to the staging directory, and the
\* assembled inputs are verified; a failure leaves the staging to be discarded.
Detach(r) ==
  /\ At(r, "build")
  /\ detached
  /\ \/ /\ staged' = [staged EXCEPT ![r] = {"output", "sidecar"}]
        /\ Go(r, "evidence")
        /\ UNCHANGED <<failing, fault>>
     \/ /\ staged' \in {[staged EXCEPT ![r] = s] : s \in {{}, {"output", "sidecar"}}}
        /\ Raise(r, "call", "discard")
  /\ UNCHANGED <<detached, dir, hidden, linked, operatorVars>>

StageEvidence(r) ==
  /\ At(r, "evidence")
  /\ detached
  /\ \/ /\ staged' = [staged EXCEPT ![r] = @ \union {"evidence"}]
        /\ DropTemporary(r, "evidence")
        /\ Go(r, "link")
        /\ UNCHANGED <<failing, fault>>
     \/ /\ Raise(r, "call", "discard")
        /\ UNCHANGED <<staged, hidden>>
  /\ UNCHANGED <<detached, dir, linked, operatorVars>>

(***************************************************************************)
(* publish_detached_outputs, one system call a step.                       *)
(***************************************************************************)
LinkOutput(r) ==
  /\ At(r, "link")
  /\ \/ /\ CanLink(Current(r))
        /\ dir' = [dir EXCEPT ![Current(r)] = <<r, Current(r)>>]
        /\ linked' = [linked EXCEPT ![r] = @ \union {Current(r)}]
        /\ NextOutput(r, "unstage")
        /\ UNCHANGED <<failing, fault>>
     \/ /\ Raise(r, "call", "compare")
        /\ UNCHANGED <<dir, linked>>
  /\ UNCHANGED <<detached, staged, hidden, operatorVars>>

\* mutant: only the links are inside the try
UnlinkStagedOutsideTry(r) ==
  /\ At(r, "unstage")
  /\ \/ /\ staged' = [staged EXCEPT ![r] = @ \ {Current(r)}]
        /\ NextOutput(r, "check")
        /\ UNCHANGED <<failing, fault>>
     \/ /\ Raise(r, "call", "discard")
        /\ UNCHANGED staged
  /\ UNCHANGED <<detached, dir, hidden, linked, operatorVars>>

UnlinkStaged(r) ==
  /\ At(r, "unstage")
  /\ \/ /\ staged' = [staged EXCEPT ![r] = @ \ {Current(r)}]
        /\ NextOutput(r, "check")
        /\ UNCHANGED <<failing, fault>>
     \/ /\ Raise(r, "call", "compare")
        /\ UNCHANGED staged
  /\ UNCHANGED <<detached, dir, hidden, linked, operatorVars>>

\* mutant: the links of a published file are not counted
Present(o) == dir[o] # None

\* st_nlink is 1; a name that is gone makes stat fail, which is as good as no.
Unaliased(o) == dir[o] = Foreign \/ (dir[o] \in Files /\ ~Aliased(dir[o]))

CheckUnaliased(r) ==
  /\ At(r, "check")
  /\ \/ /\ Unaliased(Current(r))
        /\ NextOutput(r, "discard")
        /\ UNCHANGED <<failing, fault>>
     \/ /\ ~Unaliased(Current(r))
        /\ Raise(r, fault[r], "compare")
     \/ Raise(r, "call", "compare")
  /\ UNCHANGED <<detached, dir, staged, hidden, linked, operatorVars>>

\* mutant: any file under the name is taken for the run's own
SomeFile(r, o) == dir[o] # None

\* os.path.samestat of what is there now with what the run linked.
SameFile(r, o) == dir[o] = <<r, o>>

\* One round of the rollback up to the removal. A name the run did not link is
\* not in its list; a stat that fails is suppressed and the file stays.
CompareLinked(r) ==
  /\ At(r, "compare")
  /\ \/ /\ Current(r) \in linked[r]
        /\ SameFile(r, Current(r))
        /\ pc' = [pc EXCEPT ![r] = "remove"]
        /\ UNCHANGED <<at, fault>>
     \/ /\ ~(Current(r) \in linked[r] /\ SameFile(r, Current(r)))
        /\ NextOutput(r, "discard")
        /\ UNCHANGED fault
     \/ /\ Current(r) \in linked[r]
        /\ Fault(r, "removal")
        /\ NextOutput(r, "discard")
  /\ UNCHANGED <<detached, dir, staged, hidden, linked, failing, operatorVars>>

\* output.unlink() removes whatever the name stands for by now.
RemoveLinked(r) ==
  /\ At(r, "remove")
  /\ \/ /\ dir' = [dir EXCEPT ![Current(r)] = None]
        /\ UNCHANGED fault
     \/ /\ Fault(r, "removal")
        /\ UNCHANGED dir
  /\ IF at[r] < Len(Order)
       THEN /\ at' = [at EXCEPT ![r] = @ + 1]
            /\ pc' = [pc EXCEPT ![r] = "compare"]
       ELSE Go(r, "discard")
  /\ UNCHANGED <<detached, staged, hidden, linked, failing, operatorVars>>

\* The staging directory goes with the hidden temporary in it, or stays when its
\* removal fails; either way the outcome of the run stands.
Discard(r) ==
  /\ At(r, "discard")
  /\ \/ /\ staged' = [staged EXCEPT ![r] = {}]
        /\ hidden' = [hidden EXCEPT ![r] = {}]
     \/ UNCHANGED <<staged, hidden>>
  /\ Go(r, IF failing[r] THEN "failed" ELSE "returned")
  /\ UNCHANGED <<detached, dir, linked, failing, fault, operatorVars>>

(***************************************************************************)
(* Without detached provenance the two files are linked where they belong. *)
(* A crash between a link and the removal of its temporary is a removal    *)
(* that failed, followed by a crash.                                       *)
(***************************************************************************)
MergeArchives(r) ==
  /\ At(r, "build")
  /\ ~detached
  /\ \/ /\ CanLink("output")
        /\ dir' = [dir EXCEPT !["output"] = <<r, "output">>]
        /\ linked' = [linked EXCEPT ![r] = @ \union {"output"}]
        /\ DropTemporary(r, "output")
        /\ Go(r, "evidence")
        /\ UNCHANGED <<failing, fault>>
     \/ /\ Raise(r, "call", "failed")
        /\ UNCHANGED <<dir, linked, hidden>>
  /\ UNCHANGED <<detached, staged, operatorVars>>

\* verify_assembled_inputs, then publish_evidence.
PublishEvidence(r) ==
  /\ At(r, "evidence")
  /\ ~detached
  /\ \/ /\ CanLink("evidence")
        /\ dir' = [dir EXCEPT !["evidence"] = <<r, "evidence">>]
        /\ linked' = [linked EXCEPT ![r] = @ \union {"evidence"}]
        /\ DropTemporary(r, "evidence")
        /\ Go(r, "returned")
        /\ UNCHANGED <<failing, fault>>
     \/ /\ Raise(r, "call", "undo")
        /\ UNCHANGED <<dir, linked, hidden>>
  /\ UNCHANGED <<detached, staged, operatorVars>>

\* output.unlink() with no look at whose file it is.
Undo(r) ==
  /\ At(r, "undo")
  /\ \/ /\ dir' = [dir EXCEPT !["output"] = None]
        /\ UNCHANGED fault
     \/ /\ Fault(r, "removal")
        /\ UNCHANGED dir
  /\ Go(r, "failed")
  /\ UNCHANGED <<detached, staged, hidden, linked, failing, operatorVars>>

Crash(r) ==
  /\ pc[r] \in AtWork
  /\ Go(r, "crashed")
  /\ UNCHANGED <<detached, dir, staged, hidden, linked, failing, fault, operatorVars>>

(***************************************************************************)
(* The operator.                                                           *)
(***************************************************************************)
Meddle ==
  /\ meddles < MaxMeddles
  /\ meddles' = meddles + 1
  /\ UNCHANGED <<detached, runVars>>

CreateFile(o) ==
  /\ Meddle
  /\ dir[o] = None
  /\ dir' = [dir EXCEPT ![o] = Foreign]
  /\ UNCHANGED <<taken, aliased>>

\* A file is replaced, or taken away. Between the comparison and the removal of a
\* rollback there is a moment where this goes unseen.
TakeFile(o) ==
  /\ Meddle
  /\ dir[o] \in Files
  /\ SwapsSeen \/ \A r \in Runs : ~(At(r, "remove") /\ Current(r) = o)
  /\ \E f \in {None, Foreign} : dir' = [dir EXCEPT ![o] = f]
  /\ taken' = taken \union {dir[o]}
  /\ UNCHANGED aliased

AliasFile(o) ==
  /\ Meddle
  /\ dir[o] \in Files
  /\ aliased' = aliased \union {dir[o]}
  /\ UNCHANGED <<dir, taken>>

RunStep(r) ==
  \/ Start(r) \/ Detach(r) \/ StageEvidence(r) \/ LinkOutput(r) \/ UnlinkStaged(r)
  \/ CheckUnaliased(r) \/ CompareLinked(r) \/ RemoveLinked(r) \/ Discard(r)
  \/ MergeArchives(r) \/ PublishEvidence(r) \/ Undo(r) \/ Crash(r)

Next ==
  \/ \E r \in Runs : RunStep(r)
  \/ \E o \in Names : CreateFile(o) \/ TakeFile(o) \/ AliasFile(o)

Spec == Init /\ [][Next]_vars

(***************************************************************************)
(* Properties.                                                             *)
(***************************************************************************)
\* The operator took the file away or, without detached provenance, took some
\* run's image away: the undo of that run may then remove the image of another.
Disturbed(r, o) ==
  \/ <<r, o>> \in taken
  \/ ~detached /\ o = "output" /\ \E q \in Runs : <<q, o>> \in taken

\* A run that returned left its whole set in place, each file under its name and,
\* with detached provenance, under no other of its own: whatever rival runs linked,
\* compared and rolled back meanwhile, only the operator can have broken the set
\* (publish_detached_outputs, assemble_native_container.py:192).
ReturnedWhole ==
  \A r \in Runs : \A o \in Outputs :
    pc[r] = "returned" /\ ~Disturbed(r, o) =>
      /\ dir[o] = <<r, o>>
      /\ detached => o \notin staged[r] \union hidden[r]

\* A run that failed left none of its files in the directory, wherever in the
\* sequence of links it failed, unless a removal itself failed: the names are free
\* for a retry (assemble_native_container.py:209-213, 359-361).
RolledBack ==
  \A r \in Runs : pc[r] = "failed" /\ fault[r] # "removal" => \A o \in Names : dir[o] # <<r, o>>

\* While nobody touched the files, evidence in the directory means that the image
\* it speaks of, and its sidecar, are there too; only a rollback under way, or one
\* cut short, is allowed to show evidence alone (assemble_native_container.py:358).
EvidenceComesLast ==
  \A r \in Runs :
    dir["evidence"] = <<r, "evidence">> /\ ~failing[r] =>
      \A o \in Outputs : dir[o] = <<r, o>> \/ Disturbed(r, o)

\* A run removes or replaces no file of the operator and none of another run: it
\* links only free names, and its rollback takes only what is still its own
\* ("without overwriting or deleting foreign files", assemble_native_container.py:193).
\* The image without detached provenance is left out: its undo does not look.
ForeignKept ==
  [][meddles' = meddles =>
       \A o \in Names :
         dir[o] # None /\ dir'[o] # dir[o] /\ (detached \/ o # "output") =>
           \E r \in Runs : dir[o] = <<r, o>> /\ pc[r] = "remove" /\ pc'[r] # "remove"]_vars

\* With nobody else at work, a run in which nothing failed but the removal of
\* hidden temporaries still publishes ("Cleanup must neither roll back a published
\* evidence/OCI pair", "A hidden temporary orphan is safe",
\* assemble_native_container.py:185-187).
CleanupNeverRollsBack ==
  \A r \in Runs : pc[r] = "failed" => fault[r] # "none"
================================================================================
