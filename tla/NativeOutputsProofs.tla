-------------------------- MODULE NativeOutputsProofs --------------------------
(***************************************************************************)
(* Proofs about NativeOutputs, for any number of runs and any steps of the *)
(* operator. What a run must not lose or remove can only be kept if nobody *)
(* swaps a file between the comparison and the removal of a rollback:      *)
(* those theorems assume SwapsSeen = FALSE.                                *)
(***************************************************************************)
EXTENDS NativeOutputs, TLAPS

Whole(r, o) == dir[o] = <<r, o>> \/ Disturbed(r, o)
Clean(r, o) == Disturbed(r, o) \/ o \notin staged[r] \union hidden[r]
Gone(r, o) == fault[r] = "removal" \/ dir[o] # <<r, o>>

(* A file of a run lies under the name it was written for, and the run     *)
(* knows that it linked it.                                                *)
FilesInv ==
  \A o \in Names : dir[o] \in Files => \E r \in Runs : dir[o] = <<r, o>> /\ o \in linked[r]

(* Where a run can be, and whether an exception brought it there.          *)
PlaceInv(r) ==
  /\ pc[r] \in {"link", "unstage", "check", "compare", "remove", "discard"} => detached
  /\ pc[r] = "undo" => ~detached
  /\ pc[r] \in {"start", "build", "evidence", "link", "unstage", "check", "returned"} => ~failing[r]
  /\ pc[r] \in {"compare", "remove", "undo", "failed"} => failing[r]

(* What it has linked by then: the evidence last.                          *)
LinkedInv(r) ==
  /\ linked[r] \subseteq Outputs
  /\ "evidence" \in linked[r] => linked[r] = Outputs
  /\ pc[r] \in {"start", "build"} => linked[r] = {}
  /\ pc[r] = "evidence" => linked[r] = IF detached THEN {} ELSE {"output"}
  /\ pc[r] = "undo" => linked[r] = {"output"}
  /\ pc[r] = "link" => linked[r] = {Order[k] : k \in 1..(at[r] - 1)}
  /\ pc[r] \in {"unstage", "check", "returned"} => linked[r] = Outputs
  /\ pc[r] = "discard" /\ ~failing[r] => linked[r] = Outputs

(* What it linked is there, unless the operator took it or the run rolls   *)
(* it back.                                                                *)
WholeInv(r) ==
  /\ ~failing[r] => \A o \in linked[r] : Whole(r, o)
  /\ pc[r] = "undo" => Whole(r, "output")

(* What the alias check found out still holds.                             *)
CleanInv(r) ==
  /\ pc[r] = "check" => \A k \in 1..(at[r] - 1) : Clean(r, Order[k])
  /\ pc[r] = "discard" /\ ~failing[r] => \A o \in Outputs : Clean(r, o)
  /\ pc[r] = "returned" /\ detached => \A o \in Outputs : Clean(r, o)

(* What the rollback has dealt with is gone, and what it is about to       *)
(* remove is its own.                                                      *)
BackInv(r) ==
  /\ pc[r] \in {"compare", "remove"} => \A k \in 1..(at[r] - 1) : Gone(r, Order[k])
  /\ pc[r] = "discard" /\ failing[r] => \A o \in Names : Gone(r, o)
  /\ pc[r] = "failed" => \A o \in Names : Gone(r, o)
  /\ pc[r] = "remove" => dir[Current(r)] = <<r, Current(r)>>

RunInv(r) == PlaceInv(r) /\ LinkedInv(r) /\ WholeInv(r) /\ CleanInv(r) /\ BackInv(r)

IInv == TypeOK /\ FilesInv /\ \A r \in Runs : RunInv(r)

(***************************************************************************)
(* Facts about names and files.                                            *)
(***************************************************************************)
LEMMA OrderFacts ==
  /\ Len(Order) \in {2, 3} /\ DOMAIN Order = 1..Len(Order)
  /\ Order[1] = "output" /\ Order[Len(Order)] = "evidence"
  /\ \A k \in DOMAIN Order : Order[k] \in Names
  /\ \A k, i \in DOMAIN Order : Order[k] = Order[i] => k = i
  /\ Len(Order) = IF detached THEN 3 ELSE 2
  /\ Outputs = IF detached THEN Names ELSE {"output", "evidence"}
<1>1. CASE detached
  <2>1. Order = <<"output", "sidecar", "evidence">>
    BY <1>1 DEF Order
  <2>2. Len(Order) = 3 /\ DOMAIN Order = 1..3
    BY <2>1
  <2>3. Order[1] = "output" /\ Order[2] = "sidecar" /\ Order[3] = "evidence"
    BY <2>1
  <2>4. \A k \in 1..3 : k = 1 \/ k = 2 \/ k = 3
    OBVIOUS
  <2>5. Outputs = Names
    BY <2>2, <2>3, <2>4 DEF Outputs, Names
  <2>6. QED
    BY <1>1, <2>2, <2>3, <2>4, <2>5 DEF Names
<1>2. CASE ~detached
  <2>1. Order = <<"output", "evidence">>
    BY <1>2 DEF Order
  <2>2. Len(Order) = 2 /\ DOMAIN Order = 1..2
    BY <2>1
  <2>3. Order[1] = "output" /\ Order[2] = "evidence"
    BY <2>1
  <2>4. \A k \in 1..2 : k = 1 \/ k = 2
    OBVIOUS
  <2>5. Outputs = {"output", "evidence"}
    BY <2>2, <2>3, <2>4 DEF Outputs
  <2>6. QED
    BY <1>2, <2>2, <2>3, <2>4, <2>5 DEF Names
<1>3. QED
  BY <1>1, <1>2

LEMMA FileFacts ==
  ASSUME NEW r \in Runs, NEW o \in Names
  PROVE  <<r, o>> \in Files /\ <<r, o>> # None /\ <<r, o>> # Foreign
BY FilesAssumption DEF Files

(***************************************************************************)
(* Types.                                                                  *)
(***************************************************************************)
Places == AtWork \union Ended

LEMMA GoType ==
  ASSUME TypeOK, NEW r \in Runs, NEW place \in Places, Go(r, place), UNCHANGED detached
  PROVE  pc' \in [Runs -> Places] /\ at' \in [Runs -> DOMAIN Order']
BY OrderFacts DEF TypeOK, Go, Places, Order

LEMMA NextType ==
  ASSUME TypeOK, NEW r \in Runs, NEW after \in Places, NextOutput(r, after), UNCHANGED detached
  PROVE  pc' \in [Runs -> Places] /\ at' \in [Runs -> DOMAIN Order']
<1>1. Order' = Order
  BY DEF Order
<1>2. CASE at[r] < Len(Order)
  BY <1>1, <1>2, OrderFacts DEF TypeOK, NextOutput, Places
<1>3. CASE ~(at[r] < Len(Order))
  BY <1>3, GoType DEF NextOutput
<1>4. QED
  BY <1>2, <1>3

LEMMA RunType ==
  ASSUME TypeOK, NEW r \in Runs, RunStep(r)
  PROVE  TypeOK'
<1>0. /\ Current(r) \in Names /\ <<r, Current(r)>> \in Files /\ (Order' = Order \/ detached' # detached)
      /\ <<r, "output">> \in Files /\ <<r, "evidence">> \in Files
      /\ "output" \in Names /\ "evidence" \in Names /\ "sidecar" \in Names
  BY OrderFacts DEF TypeOK, Current, Files, Names, Order
<1>1. /\ {"start", "build", "evidence", "undo", "link", "unstage", "check", "compare", "remove",
           "discard", "returned", "failed", "crashed"} = Places
      /\ \A w : w \in Places => w \in AtWork \union Ended
  BY DEF Places, AtWork, Ended
<1>2. ASSUME NEW kind \in {"none", "call", "removal"}, NEW place \in Places, Raise(r, kind, place), UNCHANGED detached
      PROVE  /\ pc' \in [Runs -> Places] /\ at' \in [Runs -> DOMAIN Order']
             /\ failing' \in [Runs -> BOOLEAN] /\ fault' \in [Runs -> {"none", "call", "removal"}]
  BY <1>2, GoType DEF Raise, Fault, TypeOK
<1>3. fault[r] \in {"none", "call", "removal"} /\ (Order' = Order \/ detached' # detached)
  BY <1>0 DEF TypeOK
<1>4. ASSUME UNCHANGED <<detached, operatorVars>>,
             dir' \in [Names -> Files \union {None, Foreign}],
             staged' \in [Runs -> SUBSET Names], hidden' \in [Runs -> SUBSET Names],
             linked' \in [Runs -> SUBSET Names], pc' \in [Runs -> Places],
             at' \in [Runs -> DOMAIN Order'], failing' \in [Runs -> BOOLEAN],
             fault' \in [Runs -> {"none", "call", "removal"}]
      PROVE  TypeOK'
  BY <1>4 DEF TypeOK, operatorVars, Places
<1>5. /\ dir \in [Names -> Files \union {None, Foreign}]
      /\ staged \in [Runs -> SUBSET Names] /\ hidden \in [Runs -> SUBSET Names]
      /\ linked \in [Runs -> SUBSET Names] /\ failing \in [Runs -> BOOLEAN]
      /\ fault \in [Runs -> {"none", "call", "removal"}]
      /\ pc \in [Runs -> Places] /\ at \in [Runs -> DOMAIN Order]
  BY DEF TypeOK, Places
<1>6. \A o \in Names : DropTemporary(r, o) => hidden' \in [Runs -> SUBSET Names]
  <2>1. SUFFICES ASSUME NEW o \in Names, DropTemporary(r, o) PROVE hidden' \in [Runs -> SUBSET Names]
    OBVIOUS
  <2>2. hidden[r] \union {o} \in SUBSET Names
    BY <1>5
  <2>3. [hidden EXCEPT ![r] = @ \union {o}] \in [Runs -> SUBSET Names]
    BY <1>5, <2>2
  <2>4. QED
    BY <1>5, <2>1, <2>3 DEF DropTemporary
<1>7. \A o \in Names : /\ [linked EXCEPT ![r] = @ \union {o}] \in [Runs -> SUBSET Names]
                        /\ [staged EXCEPT ![r] = @ \union {o}] \in [Runs -> SUBSET Names]
                        /\ [staged EXCEPT ![r] = @ \ {o}] \in [Runs -> SUBSET Names]
  BY <1>5
<1>8. \A o \in Names, f \in Files \union {None, Foreign} :
        [dir EXCEPT ![o] = f] \in [Names -> Files \union {None, Foreign}]
  BY <1>5
<1>9. CASE Start(r)
  BY <1>1, <1>2, <1>4, <1>5, <1>9, GoType DEF Start
<1>10. CASE Detach(r)
  <2>1. /\ [staged EXCEPT ![r] = {"output", "sidecar"}] \in [Runs -> SUBSET Names]
        /\ \A x \in {{}, {"output", "sidecar"}} : [staged EXCEPT ![r] = x] \in [Runs -> SUBSET Names]
    BY <1>0, <1>5
  <2>2. staged' \in [Runs -> SUBSET Names]
    BY <1>10, <2>1 DEF Detach
  <2>3. QED
    BY <1>1, <1>2, <1>4, <1>5, <1>10, <2>2, GoType DEF Detach
<1>11. CASE StageEvidence(r)
  BY <1>0, <1>1, <1>2, <1>4, <1>5, <1>6, <1>7, <1>11, GoType DEF StageEvidence
<1>12. CASE LinkOutput(r)
  BY <1>0, <1>1, <1>2, <1>4, <1>5, <1>7, <1>8, <1>12, NextType DEF LinkOutput
<1>13. CASE UnlinkStaged(r)
  BY <1>0, <1>1, <1>2, <1>4, <1>5, <1>7, <1>13, NextType DEF UnlinkStaged
<1>14. CASE CheckUnaliased(r)
  BY <1>1, <1>2, <1>3, <1>4, <1>5, <1>14, NextType DEF CheckUnaliased
<1>15. CASE CompareLinked(r)
  <2>1. pc' \in [Runs -> Places] /\ at' \in [Runs -> DOMAIN Order']
    BY <1>0, <1>1, <1>5, <1>15, NextType DEF CompareLinked
  <2>2. fault' \in [Runs -> {"none", "call", "removal"}]
    BY <1>5, <1>15 DEF CompareLinked, Fault
  <2>3. QED
    BY <1>4, <1>5, <1>15, <2>1, <2>2 DEF CompareLinked
<1>16. CASE RemoveLinked(r)
  <2>1. dir' \in [Names -> Files \union {None, Foreign}] /\ fault' \in [Runs -> {"none", "call", "removal"}]
    BY <1>0, <1>5, <1>8, <1>16 DEF RemoveLinked, Fault
  <2>2. pc' \in [Runs -> Places] /\ at' \in [Runs -> DOMAIN Order']
    <3>1. CASE at[r] < Len(Order)
      <4>1. at[r] + 1 \in DOMAIN Order /\ Order' = Order
        BY <1>5, <1>16, <3>1, OrderFacts DEF RemoveLinked, Order
      <4>2. /\ at' = [at EXCEPT ![r] = at[r] + 1]
            /\ pc' = [pc EXCEPT ![r] = "compare"]
        BY <1>16, <3>1 DEF RemoveLinked
      <4>3. "compare" \in Places
        BY <1>1
      <4>4. QED
        BY <1>5, <4>1, <4>2, <4>3
    <3>2. CASE ~(at[r] < Len(Order))
      BY <1>1, <1>16, <3>2, GoType DEF RemoveLinked
    <3>3. QED
      BY <3>1, <3>2
  <2>3. QED
    BY <1>4, <1>5, <1>16, <2>1, <2>2 DEF RemoveLinked
<1>17. CASE Discard(r)
  <2>1. staged' \in [Runs -> SUBSET Names] /\ hidden' \in [Runs -> SUBSET Names]
    BY <1>5, <1>17 DEF Discard
  <2>2. pc' \in [Runs -> Places] /\ at' \in [Runs -> DOMAIN Order']
    BY <1>1, <1>17, GoType DEF Discard
  <2>3. QED
    BY <1>4, <1>5, <1>17, <2>1, <2>2 DEF Discard
<1>18. CASE MergeArchives(r)
  BY <1>0, <1>1, <1>2, <1>4, <1>5, <1>6, <1>7, <1>8, <1>18, GoType DEF MergeArchives
<1>19. CASE PublishEvidence(r)
  BY <1>0, <1>1, <1>2, <1>4, <1>5, <1>6, <1>7, <1>8, <1>19, GoType DEF PublishEvidence
<1>20. CASE Undo(r)
  <2>1. dir' \in [Names -> Files \union {None, Foreign}] /\ fault' \in [Runs -> {"none", "call", "removal"}]
    BY <1>0, <1>5, <1>8, <1>20 DEF Undo, Fault
  <2>2. QED
    BY <1>1, <1>4, <1>5, <1>20, <2>1, GoType DEF Undo
<1>21. CASE Crash(r)
  BY <1>1, <1>4, <1>5, <1>21, GoType DEF Crash
<1>22. QED
  BY <1>9, <1>10, <1>11, <1>12, <1>13, <1>14, <1>15, <1>16, <1>17, <1>18, <1>19, <1>20, <1>21 DEF RunStep

LEMMA OperatorType ==
  ASSUME TypeOK, NEW o \in Names, CreateFile(o) \/ TakeFile(o) \/ AliasFile(o)
  PROVE  TypeOK'
<1>1. Meddle /\ Order' = Order
  BY DEF CreateFile, TakeFile, AliasFile, Meddle, Order
<1>2. meddles' \in 0..MaxMeddles /\ UNCHANGED <<detached, runVars>>
  BY <1>1, OutputsAssumption DEF Meddle, TypeOK
<1>3. dir' \in [Names -> Files \union {None, Foreign}]
  BY DEF TypeOK, CreateFile, TakeFile, AliasFile
<1>4. taken' \subseteq Files /\ aliased' \subseteq Files
  BY DEF TypeOK, CreateFile, TakeFile, AliasFile
<1>5. QED
  BY <1>1, <1>2, <1>3, <1>4 DEF TypeOK, runVars

LEMMA TypeStep ==
  ASSUME TypeOK, [Next]_vars
  PROVE  TypeOK'
<1>1. CASE Next
  BY <1>1, RunType, OperatorType DEF Next
<1>2. CASE UNCHANGED vars
  BY <1>2 DEF TypeOK, vars, Order
<1>3. QED
  BY <1>1, <1>2

LEMMA InitType == Init => TypeOK
<1> SUFFICES ASSUME Init PROVE TypeOK
  OBVIOUS
<1>1. /\ dir \in [Names -> Files \union {None, Foreign}]
      /\ staged \in [Runs -> SUBSET Names] /\ hidden \in [Runs -> SUBSET Names]
      /\ linked \in [Runs -> SUBSET Names]
  BY DEF Init
<1>2. at \in [Runs -> DOMAIN Order]
  BY OrderFacts DEF Init
<1>3. /\ pc \in [Runs -> AtWork \union Ended] /\ failing \in [Runs -> BOOLEAN]
      /\ fault \in [Runs -> {"none", "call", "removal"}]
  BY DEF Init, AtWork
<1>4. detached \in BOOLEAN /\ taken \subseteq Files /\ aliased \subseteq Files /\ meddles \in 0..MaxMeddles
  BY OutputsAssumption DEF Init
<1>5. QED
  BY <1>1, <1>2, <1>3, <1>4 DEF TypeOK

(* Every variable keeps its type.                                          *)
THEOREM TypeCorrect == Spec => []TypeOK
BY InitType, TypeStep, PTL DEF Spec

(***************************************************************************)
(* What a step leaves alone.                                               *)
(***************************************************************************)
Same(q) == /\ staged'[q] = staged[q] /\ hidden'[q] = hidden[q] /\ linked'[q] = linked[q]
           /\ pc'[q] = pc[q] /\ at'[q] = at[q] /\ failing'[q] = failing[q] /\ fault'[q] = fault[q]

LEMMA RunFrame ==
  ASSUME TypeOK, NEW r \in Runs, RunStep(r)
  PROVE  /\ UNCHANGED <<detached, taken, aliased, meddles>>
         /\ \A q \in Runs \ {r} : Same(q)
         /\ linked[r] \subseteq linked'[r]
<1>0. \A f, g, d : [f EXCEPT ![r] = d] = g => \A q \in DOMAIN f \ {r} : g[q] = f[q]
  OBVIOUS
<1>1. /\ DOMAIN staged = Runs /\ DOMAIN hidden = Runs /\ DOMAIN linked = Runs /\ DOMAIN pc = Runs
      /\ DOMAIN at = Runs /\ DOMAIN failing = Runs /\ DOMAIN fault = Runs
  BY DEF TypeOK
<1>2. UNCHANGED <<detached, taken, aliased, meddles>>
  BY DEF RunStep, Start, Detach, StageEvidence, LinkOutput, UnlinkStaged, CheckUnaliased, CompareLinked,
         RemoveLinked, Discard, MergeArchives, PublishEvidence, Undo, Crash, operatorVars
<1>3. \A q \in Runs \ {r} : pc'[q] = pc[q] /\ at'[q] = at[q]
  BY <1>1 DEF RunStep, Start, Detach, StageEvidence, LinkOutput, UnlinkStaged, CheckUnaliased, CompareLinked,
         RemoveLinked, Discard, MergeArchives, PublishEvidence, Undo, Crash, Raise, Go, NextOutput
<1>4. \A q \in Runs \ {r} : failing'[q] = failing[q] /\ fault'[q] = fault[q]
  BY <1>1 DEF RunStep, Start, Detach, StageEvidence, LinkOutput, UnlinkStaged, CheckUnaliased, CompareLinked,
         RemoveLinked, Discard, MergeArchives, PublishEvidence, Undo, Crash, Raise, Fault
<1>5. \A q \in Runs \ {r} : staged'[q] = staged[q]
  BY <1>1 DEF RunStep, Start, Detach, StageEvidence, LinkOutput, UnlinkStaged, CheckUnaliased, CompareLinked,
         RemoveLinked, Discard, MergeArchives, PublishEvidence, Undo, Crash
<1>6. \A q \in Runs \ {r} : hidden'[q] = hidden[q]
  BY <1>1 DEF RunStep, Start, Detach, StageEvidence, LinkOutput, UnlinkStaged, CheckUnaliased, CompareLinked,
         RemoveLinked, Discard, MergeArchives, PublishEvidence, Undo, Crash, DropTemporary
<1>7. /\ \A q \in Runs \ {r} : linked'[q] = linked[q]
      /\ linked[r] \subseteq linked'[r]
  BY <1>1 DEF RunStep, Start, Detach, StageEvidence, LinkOutput, UnlinkStaged, CheckUnaliased, CompareLinked,
         RemoveLinked, Discard, MergeArchives, PublishEvidence, Undo, Crash
<1>8. QED
  BY <1>2, <1>3, <1>4, <1>5, <1>6, <1>7 DEF Same

(* What a step of run r may do to the directory: link a free name, remove  *)
(* a file of its own or, without detached provenance, undo its image.      *)
LEMMA DirFrame ==
  ASSUME TypeOK, NEW r \in Runs, RunInv(r), RunStep(r), NEW o \in Names, dir'[o] # dir[o]
  PROVE  \/ dir[o] = None /\ dir'[o] = <<r, o>> /\ o \in linked'[r]
         \/ /\ dir[o] = <<r, o>> /\ dir'[o] = None
            /\ detached /\ pc[r] = "remove" /\ pc'[r] # "remove"
         \/ o = "output" /\ ~detached /\ dir'[o] = None /\ Whole(r, o) /\ pc[r] = "undo"
<1>1. /\ DOMAIN dir = Names /\ DOMAIN linked = Runs /\ DOMAIN pc = Runs
      /\ Current(r) \in Names /\ "output" \in Names /\ "evidence" \in Names
  BY OrderFacts DEF TypeOK, Current, Names
<1>2. CASE LinkOutput(r)
  BY <1>1, <1>2 DEF LinkOutput, CanLink
<1>3. CASE RemoveLinked(r)
  <2>1. dir' = [dir EXCEPT ![Current(r)] = None] /\ At(r, "remove")
    BY <1>3 DEF RemoveLinked
  <2>2. o = Current(r) /\ dir'[o] = None
    BY <1>1, <2>1
  <2>3. dir[o] = <<r, o>> /\ detached
    BY <2>1, <2>2 DEF RunInv, BackInv, PlaceInv, At
  <2>4. pc'[r] # "remove"
    BY <1>1, <1>3 DEF RemoveLinked, Go
  <2>5. QED
    BY <2>1, <2>2, <2>3, <2>4 DEF At
<1>4. CASE Undo(r)
  <2>1. dir' = [dir EXCEPT !["output"] = None] /\ At(r, "undo")
    BY <1>4 DEF Undo
  <2>2. o = "output" /\ dir'[o] = None
    BY <1>1, <2>1
  <2>3. QED
    BY <2>1, <2>2 DEF RunInv, WholeInv, PlaceInv, At
<1>5. CASE MergeArchives(r)
  BY <1>1, <1>5 DEF MergeArchives, CanLink
<1>6. CASE PublishEvidence(r)
  BY <1>1, <1>6 DEF PublishEvidence, CanLink
<1>7. CASE \/ Start(r) \/ Detach(r) \/ StageEvidence(r) \/ UnlinkStaged(r) \/ CheckUnaliased(r)
           \/ CompareLinked(r) \/ Discard(r) \/ Crash(r)
  BY <1>7 DEF Start, Detach, StageEvidence, UnlinkStaged, CheckUnaliased, CompareLinked, Discard, Crash
<1>8. QED
  BY <1>2, <1>3, <1>4, <1>5, <1>6, <1>7 DEF RunStep

(* A run keeps its invariant while others link, remove and undo.           *)
LEMMA QuietRun ==
  ASSUME TypeOK, NEW q \in Runs, RunInv(q), Same(q), UNCHANGED detached, taken \subseteq taken',
         \A o \in Names : dir'[o] = <<q, o>> => dir[o] = <<q, o>>,
         \A o \in Names : dir[o] = <<q, o>> => dir'[o] = <<q, o>> \/ Disturbed(q, o)',
         pc[q] = "remove" => dir'[Current(q)] = dir[Current(q)]
  PROVE  RunInv(q)'
<1>1. /\ Order' = Order /\ Outputs' = Outputs /\ Current(q)' = Current(q)
      /\ \A o \in Outputs : o \in Names
      /\ \A k \in DOMAIN Order : Order[k] \in Names
      /\ Current(q) \in Names
      /\ "output" \in Names
      /\ \A k \in 1..(at[q] - 1) : k \in DOMAIN Order
  <2>1. Order' = Order
    BY DEF Order
  <2>2. at[q] \in DOMAIN Order /\ at'[q] = at[q]
    BY DEF TypeOK, Same
  <2>3. Outputs' = Outputs /\ Current(q)' = Current(q)
    BY <2>1, <2>2 DEF Outputs, Current
  <2>4. /\ \A o \in Outputs : o \in Names
        /\ \A k \in DOMAIN Order : Order[k] \in Names
        /\ \A k \in 1..(at[q] - 1) : k \in DOMAIN Order
    BY <2>2, OrderFacts DEF Names
  <2>5. QED
    BY <2>1, <2>2, <2>3, <2>4 DEF Current, Names
<1>2. ASSUME NEW o \in Names, Whole(q, o) PROVE Whole(q, o)'
  BY <1>2 DEF Whole, Disturbed
<1>3. ASSUME NEW o \in Names, Clean(q, o) PROVE Clean(q, o)'
  BY <1>3 DEF Clean, Disturbed, Same
<1>a. ASSUME NEW o \in Names, Gone(q, o) PROVE Gone(q, o)'
  BY <1>a DEF Gone, Same
<1>4. PlaceInv(q)'
  BY DEF RunInv, PlaceInv, Same
<1>5. LinkedInv(q)'
  BY <1>1 DEF RunInv, LinkedInv, Same
<1>6. /\ pc'[q] = pc[q] /\ at'[q] = at[q] /\ failing'[q] = failing[q] /\ linked'[q] = linked[q]
      /\ linked[q] \subseteq Names
  BY DEF Same, TypeOK
<1>7. WholeInv(q)'
  BY <1>1, <1>2, <1>6 DEF WholeInv, RunInv
<1>8. CleanInv(q)'
  BY <1>1, <1>3, <1>6 DEF CleanInv, RunInv
<1>9. BackInv(q)'
  BY <1>1, <1>a, <1>6 DEF BackInv, RunInv
<1>10. QED
  BY <1>4, <1>5, <1>7, <1>8, <1>9 DEF RunInv

(***************************************************************************)
(* The steps of a run keep its own invariant.                              *)
(***************************************************************************)
LEMMA Unlinked ==
  ASSUME FilesInv, NEW r \in Runs, NEW o \in Names, o \notin linked[r]
  PROVE  dir[o] # <<r, o>>
<1>1. SUFFICES ASSUME dir[o] = <<r, o>> PROVE FALSE
  OBVIOUS
<1>2. dir[o] \in Files
  BY <1>1, FileFacts
<1>3. PICK q \in Runs : dir[o] = <<q, o>> /\ o \in linked[q]
  BY <1>2 DEF FilesInv
<1>4. q = r
  BY <1>1, <1>3
<1>5. QED
  BY <1>3, <1>4

LEMMA SameOrder ==
  ASSUME UNCHANGED detached
  PROVE  Order' = Order /\ Outputs' = Outputs
BY DEF Order, Outputs

(* A run that leaves the directory to itself and goes where nothing has to *)
(* hold of a loop.                                                         *)
LEMMA StartStep ==
  ASSUME TypeOK, FilesInv, NEW r \in Runs, RunInv(r), Start(r) \/ Detach(r) \/ StageEvidence(r) \/ Crash(r)
  PROVE  RunInv(r)'
<1>1. /\ DOMAIN pc = Runs /\ DOMAIN at = Runs /\ DOMAIN failing = Runs /\ DOMAIN fault = Runs
      /\ failing[r] \in BOOLEAN
  BY DEF TypeOK
<1>2. /\ UNCHANGED <<detached, dir, linked, taken>>
      /\ Order' = Order /\ Outputs' = Outputs
  BY SameOrder DEF Start, Detach, StageEvidence, Crash, operatorVars
<1>3. CASE Crash(r)
  <2>1. pc'[r] = "crashed" /\ failing'[r] = failing[r]
    BY <1>1, <1>3 DEF Crash, Go
  <2>2. PlaceInv(r)' /\ CleanInv(r)' /\ BackInv(r)'
    BY <2>1 DEF PlaceInv, CleanInv, BackInv
  <2>3. LinkedInv(r)' /\ WholeInv(r)'
    BY <1>2, <2>1 DEF RunInv, LinkedInv, WholeInv, Whole, Disturbed
  <2>4. QED
    BY <2>2, <2>3 DEF RunInv
<1>4. CASE ~Crash(r) /\ failing' = failing
  <2>1. /\ pc[r] \in {"start", "build", "evidence"} /\ ~failing'[r] /\ ~failing[r]
        /\ pc'[r] = IF pc[r] = "start" THEN "build" ELSE IF pc[r] = "build" THEN "evidence" ELSE "link"
        /\ pc[r] # "start" => detached
        /\ at'[r] = 1
    BY <1>1, <1>4 DEF Start, Detach, StageEvidence, Go, At, Raise, RunInv, PlaceInv
  <2>2. PlaceInv(r)' /\ CleanInv(r)' /\ BackInv(r)'
    BY <1>2, <2>1 DEF PlaceInv, CleanInv, BackInv
  <2>3. WholeInv(r)'
    BY <1>2, <2>1 DEF RunInv, WholeInv, Whole, Disturbed
  <2>4. LinkedInv(r)'
    <3>1. {Order[k] : k \in 1..(1 - 1)} = {}
      OBVIOUS
    <3>2. QED
      BY <1>2, <2>1, <3>1 DEF RunInv, LinkedInv
  <2>5. QED
    BY <2>2, <2>3, <2>4 DEF RunInv
<1>5. CASE ~Crash(r) /\ failing' # failing
  <2>1. /\ failing'[r] /\ linked[r] = {}
        /\ \/ pc'[r] = "failed"
           \/ pc'[r] = "discard" /\ detached
    BY <1>1, <1>5 DEF Start, Detach, StageEvidence, Go, At, Raise, RunInv, LinkedInv
  <2>2. \A o \in Names : Gone(r, o)'
    BY <1>2, <2>1, Unlinked DEF Gone
  <2>3. QED
    BY <1>2, <2>1, <2>2 DEF RunInv, PlaceInv, CleanInv, BackInv, WholeInv, LinkedInv
<1>6. QED
  BY <1>3, <1>4, <1>5

(* One round of a loop: the position moves on, or the loop ends at its     *)
(* last output.                                                            *)
LEMMA LoopFacts ==
  ASSUME TypeOK, NEW r \in Runs, NEW after, NextOutput(r, after)
  PROVE  /\ Current(r) = Order[at[r]] /\ Current(r) \in Outputs /\ Current(r) \in Names
         /\ \/ /\ at'[r] = at[r] + 1 /\ pc'[r] = pc[r] /\ at[r] < Len(Order)
            \/ /\ at'[r] = 1 /\ pc'[r] = after /\ at[r] = Len(Order)
<1>1. /\ DOMAIN pc = Runs /\ DOMAIN at = Runs /\ at[r] \in 1..Len(Order) /\ Len(Order) \in Nat
      /\ Current(r) = Order[at[r]]
  BY OrderFacts DEF TypeOK, Current
<1>2. Current(r) \in Outputs /\ Current(r) \in Names
  BY <1>1, OrderFacts DEF Outputs
<1>3. QED
  BY <1>1, <1>2 DEF NextOutput, Go

(* What holds of the outputs before a position and of the one at it holds  *)
(* of those before the next, and at the last position of all of them.      *)
LEMMA RoundFacts ==
  ASSUME TypeOK, NEW r \in Runs
  PROVE  /\ \A k \in 1..((at[r] + 1) - 1) : k \in 1..(at[r] - 1) \/ k = at[r]
         /\ 1..(1 - 1) = {}
         /\ at[r] = Len(Order) => \A o \in Outputs : \E k \in 1..((at[r] + 1) - 1) : o = Order[k]
<1>1. at[r] \in 1..Len(Order) /\ Len(Order) \in Nat
  BY OrderFacts DEF TypeOK
<1>2. \A o \in Outputs : \E k \in 1..Len(Order) : o = Order[k]
  BY OrderFacts DEF Outputs
<1>3. QED
  BY <1>1, <1>2

LEMMA LinkStep ==
  ASSUME TypeOK, FilesInv, NEW r \in Runs, RunInv(r), LinkOutput(r)
  PROVE  RunInv(r)'
<1>0. /\ DOMAIN pc = Runs /\ DOMAIN at = Runs /\ DOMAIN failing = Runs /\ DOMAIN dir = Names
      /\ DOMAIN linked = Runs /\ DOMAIN fault = Runs
  BY DEF TypeOK
<1>1. /\ UNCHANGED <<detached, taken>> /\ Order' = Order /\ Outputs' = Outputs
      /\ pc[r] = "link" /\ detached /\ ~failing[r]
      /\ linked[r] = {Order[k] : k \in 1..(at[r] - 1)}
      /\ \A o \in linked[r] : Whole(r, o)
      /\ linked[r] \subseteq Outputs
  BY SameOrder DEF LinkOutput, At, operatorVars, RunInv, PlaceInv, LinkedInv, WholeInv
<1>2. CASE NextOutput(r, "unstage") /\ UNCHANGED <<failing, fault>>
  <2>1. /\ CanLink(Current(r))
        /\ dir' = [dir EXCEPT ![Current(r)] = <<r, Current(r)>>]
        /\ linked'[r] = linked[r] \union {Current(r)}
    BY <1>0, <1>1, <1>2 DEF LinkOutput, Raise, Go
  <2>2. /\ Current(r) = Order[at[r]] /\ Current(r) \in Outputs /\ Current(r) \in Names
        /\ at[r] \in 1..Len(Order) /\ Len(Order) \in Nat
    BY <1>2, LoopFacts, OrderFacts DEF TypeOK
  <2>3. linked'[r] = {Order[k] : k \in 1..((at[r] + 1) - 1)}
    <3>1. \A k : k \in 1..((at[r] + 1) - 1) <=> k \in 1..(at[r] - 1) \/ k = at[r]
      BY <2>2
    <3>2. QED
      BY <1>1, <2>1, <2>2, <3>1
  <2>4. WholeInv(r)'
    <3>1. ASSUME NEW o, o = Current(r) PROVE Whole(r, o)'
      BY <1>0, <2>1, <2>2, <3>1 DEF Whole
    <3>2. ASSUME NEW o \in linked[r] PROVE Whole(r, o)'
      <4>1. o # Current(r) => dir'[o] = dir[o]
        BY <1>0, <2>1
      <4>2. QED
        BY <1>1, <3>1, <4>1 DEF Whole, Disturbed
    <3>3. pc'[r] # "undo"
      BY <1>1, <1>2, LoopFacts
    <3>4. QED
      BY <2>1, <3>1, <3>2, <3>3 DEF WholeInv
  <2>5. CASE at[r] < Len(Order)
    <3>1. at'[r] = at[r] + 1 /\ pc'[r] = "link"
      BY <1>1, <1>2, <2>5, LoopFacts DEF NextOutput
    <3>2. "evidence" \notin linked'[r]
      BY <2>2, <2>3, <2>5, OrderFacts
    <3>3. LinkedInv(r)'
      BY <1>1, <2>1, <2>2, <2>3, <3>1, <3>2 DEF LinkedInv
    <3>4. QED
      BY <1>1, <1>2, <2>4, <3>1, <3>3 DEF RunInv, PlaceInv, CleanInv, BackInv
  <2>6. CASE at[r] = Len(Order)
    <3>1. at'[r] = 1 /\ pc'[r] = "unstage"
      BY <1>2, <2>6, LoopFacts
    <3>2. linked'[r] = Outputs
      BY <1>1, <2>1, <2>2, <2>3, <2>6, RoundFacts
    <3>3. LinkedInv(r)'
      BY <1>1, <3>1, <3>2 DEF LinkedInv
    <3>4. QED
      BY <1>1, <1>2, <2>4, <3>1, <3>3 DEF RunInv, PlaceInv, CleanInv, BackInv
  <2>7. QED
    BY <2>2, <2>5, <2>6
<1>3. CASE Raise(r, "call", "compare") /\ UNCHANGED <<dir, linked>>
  <2>1. pc'[r] = "compare" /\ failing'[r] /\ at'[r] = 1
    BY <1>0, <1>3 DEF Raise, Go
  <2>2. LinkedInv(r)'
    BY <1>1, <1>3, <2>1 DEF LinkedInv, RunInv
  <2>3. QED
    BY <1>1, <1>3, <2>1, <2>2, RoundFacts DEF RunInv, PlaceInv, CleanInv, BackInv, WholeInv
<1>4. QED
  BY <1>2, <1>3 DEF LinkOutput

LEMMA UnstageStep ==
  ASSUME TypeOK, FilesInv, NEW r \in Runs, RunInv(r), UnlinkStaged(r)
  PROVE  RunInv(r)'
<1>0. DOMAIN pc = Runs /\ DOMAIN at = Runs /\ DOMAIN failing = Runs /\ DOMAIN fault = Runs
  BY DEF TypeOK
<1>1. /\ UNCHANGED <<detached, dir, linked, taken>> /\ Order' = Order /\ Outputs' = Outputs
      /\ pc[r] = "unstage" /\ detached /\ ~failing[r] /\ linked[r] = Outputs
  BY SameOrder DEF UnlinkStaged, At, operatorVars, RunInv, PlaceInv, LinkedInv
<1>2. CASE NextOutput(r, "check") /\ UNCHANGED failing
  <2>1. pc'[r] = "unstage" \/ (pc'[r] = "check" /\ at'[r] = 1)
    BY <1>1, <1>2, LoopFacts
  <2>2. LinkedInv(r)' /\ WholeInv(r)' /\ PlaceInv(r)'
    BY <1>1, <1>2, <2>1 DEF RunInv, LinkedInv, WholeInv, PlaceInv, Whole, Disturbed
  <2>3. CleanInv(r)' /\ BackInv(r)'
    BY <1>1, <2>1, RoundFacts DEF CleanInv, BackInv
  <2>4. QED
    BY <2>2, <2>3 DEF RunInv
<1>3. CASE Raise(r, "call", "compare")
  <2>1. pc'[r] = "compare" /\ failing'[r] /\ at'[r] = 1
    BY <1>0, <1>3 DEF Raise, Go
  <2>2. QED
    BY <1>1, <2>1, RoundFacts DEF RunInv, PlaceInv, LinkedInv, CleanInv, BackInv, WholeInv
<1>4. QED
  BY <1>2, <1>3 DEF UnlinkStaged

(* The alias check of a file that is the run's own finds no other link.    *)
LEMMA CheckStep ==
  ASSUME TypeOK, FilesInv, NEW r \in Runs, RunInv(r), CheckUnaliased(r)
  PROVE  RunInv(r)'
<1>0. /\ DOMAIN pc = Runs /\ DOMAIN at = Runs /\ DOMAIN failing = Runs /\ DOMAIN fault = Runs
      /\ at[r] \in 1..Len(Order) /\ Len(Order) \in Nat
  BY OrderFacts DEF TypeOK
<1>1. /\ UNCHANGED <<detached, dir, staged, hidden, linked, taken>> /\ Order' = Order /\ Outputs' = Outputs
      /\ pc[r] = "check" /\ detached /\ ~failing[r] /\ linked[r] = Outputs
      /\ \A k \in 1..(at[r] - 1) : Clean(r, Order[k])
      /\ \A o \in Outputs : Whole(r, o)
  BY SameOrder DEF CheckUnaliased, At, operatorVars, RunInv, PlaceInv, LinkedInv, CleanInv, WholeInv
<1>2. CASE NextOutput(r, "discard") /\ UNCHANGED failing /\ Unaliased(Current(r))
  <2>1. Current(r) = Order[at[r]] /\ Current(r) \in Outputs /\ Current(r) \in Names
    BY <1>2, LoopFacts
  <2>2. Clean(r, Order[at[r]])
    <3>1. SUFFICES ASSUME dir[Current(r)] = <<r, Current(r)>> PROVE Clean(r, Order[at[r]])
      BY <1>1, <2>1 DEF Whole, Clean
    <3>2. ~Aliased(<<r, Current(r)>>)
      BY <1>2, <2>1, <3>1, FileFacts DEF Unaliased
    <3>3. QED
      BY <2>1, <3>2 DEF Aliased, Clean
  <2>3. \A k \in 1..((at[r] + 1) - 1) : Clean(r, Order[k])
    BY <1>1, <2>2, RoundFacts
  <2>4. LinkedInv(r)' /\ WholeInv(r)' /\ PlaceInv(r)' /\ BackInv(r)'
    <3>1. pc'[r] \in {"check", "discard"} /\ failing'[r] = failing[r]
      BY <1>1, <1>2, LoopFacts
    <3>2. QED
      BY <1>1, <3>1 DEF RunInv, LinkedInv, WholeInv, PlaceInv, BackInv, Whole, Disturbed
  <2>5. CleanInv(r)'
    <3>1. ASSUME NEW o, Clean(r, o) PROVE Clean(r, o)'
      BY <1>1, <3>1 DEF Clean, Disturbed
    <3>2. CASE at'[r] = at[r] + 1 /\ pc'[r] = "check"
      BY <1>1, <2>3, <3>1, <3>2 DEF CleanInv
    <3>3. CASE at[r] = Len(Order) /\ pc'[r] = "discard"
      <4>1. \A o \in Outputs : Clean(r, o)
        BY <2>3, <3>3, RoundFacts
      <4>2. QED
        BY <1>1, <3>1, <3>3, <4>1 DEF CleanInv
    <3>4. QED
      BY <1>1, <1>2, <3>2, <3>3, LoopFacts
  <2>6. QED
    BY <2>4, <2>5 DEF RunInv
<1>3. CASE \E kind : Raise(r, kind, "compare")
  <2>1. pc'[r] = "compare" /\ failing'[r] /\ at'[r] = 1
    BY <1>0, <1>3 DEF Raise, Go
  <2>2. QED
    BY <1>1, <2>1, RoundFacts DEF RunInv, PlaceInv, LinkedInv, CleanInv, BackInv, WholeInv
<1>4. QED
  BY <1>2, <1>3 DEF CheckUnaliased

(* One round of the rollback: the output it was at is dealt with as well,  *)
(* and after the last one all of them are.                                 *)
LEMMA RollbackRound ==
  ASSUME TypeOK, NEW r \in Runs, RunInv(r), detached, failing[r], UNCHANGED <<detached, linked, failing>>,
         \A k \in 1..((at[r] + 1) - 1) : fault'[r] = "removal" \/ dir'[Order[k]] # <<r, Order[k]>>,
         \/ at'[r] = at[r] + 1 /\ pc'[r] = "compare"
         \/ at[r] = Len(Order) /\ at'[r] = 1 /\ pc'[r] = "discard"
  PROVE  RunInv(r)'
<1>1. Order' = Order /\ Outputs' = Outputs /\ Outputs = Names
  BY SameOrder, OrderFacts
<1>2. LinkedInv(r)' /\ WholeInv(r)' /\ PlaceInv(r)' /\ CleanInv(r)'
  BY <1>1 DEF RunInv, LinkedInv, WholeInv, PlaceInv, CleanInv
<1>3. BackInv(r)'
  <2>1. CASE at'[r] = at[r] + 1 /\ pc'[r] = "compare"
    BY <1>1, <2>1 DEF BackInv, Gone
  <2>2. CASE at[r] = Len(Order) /\ pc'[r] = "discard"
    <3>1. ASSUME NEW o \in Names PROVE fault'[r] = "removal" \/ dir'[o] # <<r, o>>
      <4>1. PICK k \in 1..((at[r] + 1) - 1) : o = Order[k]
        BY <1>1, <2>2, RoundFacts
      <4>2. QED
        BY <4>1
    <3>2. QED
      BY <2>2, <3>1 DEF BackInv, Gone
  <2>3. QED
    BY <2>1, <2>2
<1>4. QED
  BY <1>2, <1>3 DEF RunInv

LEMMA CompareStep ==
  ASSUME TypeOK, FilesInv, NEW r \in Runs, RunInv(r), CompareLinked(r)
  PROVE  RunInv(r)'
<1>0. /\ DOMAIN pc = Runs /\ DOMAIN at = Runs /\ DOMAIN fault = Runs
      /\ Current(r) \in Names /\ Current(r) = Order[at[r]] /\ at[r] \in DOMAIN Order
  BY OrderFacts DEF TypeOK, Current
<1>1. /\ UNCHANGED <<detached, dir, linked, taken, failing>> /\ Order' = Order /\ Outputs' = Outputs
      /\ pc[r] = "compare" /\ detached /\ failing[r]
      /\ \A k \in 1..(at[r] - 1) : Gone(r, Order[k])
  BY SameOrder DEF CompareLinked, At, operatorVars, RunInv, PlaceInv, BackInv
<1>2. CASE SameFile(r, Current(r)) /\ pc' = [pc EXCEPT ![r] = "remove"] /\ UNCHANGED <<at, fault>>
  <2>1. pc'[r] = "remove" /\ dir'[Current(r)] = <<r, Current(r)>> /\ Current(r)' = Current(r)
    BY <1>0, <1>1, <1>2 DEF SameFile, Current
  <2>2. BackInv(r)'
    BY <1>1, <1>2, <2>1 DEF BackInv, Gone
  <2>3. LinkedInv(r)' /\ WholeInv(r)' /\ PlaceInv(r)' /\ CleanInv(r)'
    BY <1>1, <2>1 DEF RunInv, LinkedInv, WholeInv, PlaceInv, CleanInv
  <2>4. QED
    BY <2>2, <2>3 DEF RunInv
<1>3. CASE NextOutput(r, "discard") /\ (fault'[r] = "removal" \/ (fault' = fault /\ dir[Current(r)] # <<r, Current(r)>>))
  <2>1. \A k \in 1..((at[r] + 1) - 1) : fault'[r] = "removal" \/ dir'[Order[k]] # <<r, Order[k]>>
    BY <1>0, <1>1, <1>3, RoundFacts DEF Gone
  <2>2. \/ at'[r] = at[r] + 1 /\ pc'[r] = "compare"
        \/ at[r] = Len(Order) /\ at'[r] = 1 /\ pc'[r] = "discard"
    BY <1>1, <1>3, LoopFacts
  <2>3. QED
    BY <1>1, <2>1, <2>2, RollbackRound
<1>4. Current(r) \notin linked[r] \/ ~SameFile(r, Current(r)) => dir[Current(r)] # <<r, Current(r)>>
  BY <1>0, Unlinked DEF SameFile
<1>5. QED
  BY <1>0, <1>2, <1>3, <1>4 DEF CompareLinked, Fault

LEMMA RemoveStep ==
  ASSUME TypeOK, FilesInv, NEW r \in Runs, RunInv(r), RemoveLinked(r)
  PROVE  RunInv(r)'
<1>0. /\ DOMAIN pc = Runs /\ DOMAIN at = Runs /\ DOMAIN fault = Runs /\ DOMAIN dir = Names
      /\ Current(r) \in Names /\ Current(r) = Order[at[r]] /\ at[r] \in 1..Len(Order)
      /\ Len(Order) \in Nat
      /\ \A k \in 1..(at[r] - 1) : Order[k] \in Names /\ Order[k] # Order[at[r]]
  <2>1. DOMAIN pc = Runs /\ DOMAIN at = Runs /\ DOMAIN fault = Runs /\ DOMAIN dir = Names
    BY DEF TypeOK
  <2>2. at[r] \in 1..Len(Order) /\ Len(Order) \in Nat
    BY OrderFacts DEF TypeOK
  <2>3. Current(r) = Order[at[r]] /\ Current(r) \in Names
    BY <2>2, OrderFacts DEF Current
  <2>4. \A k \in 1..(at[r] - 1) : k \in DOMAIN Order /\ k # at[r]
    BY <2>2, OrderFacts
  <2>5. \A k \in 1..(at[r] - 1) : Order[k] \in Names /\ Order[k] # Order[at[r]]
    BY <2>2, <2>4, OrderFacts
  <2>6. QED
    BY <2>1, <2>2, <2>3, <2>5
<1>1. /\ UNCHANGED <<detached, linked, taken, failing>>
      /\ pc[r] = "remove" /\ detached /\ failing[r]
      /\ \A k \in 1..(at[r] - 1) : Gone(r, Order[k])
  BY DEF RemoveLinked, At, operatorVars, RunInv, PlaceInv, BackInv
<1>2. \A k \in 1..((at[r] + 1) - 1) : fault'[r] = "removal" \/ dir'[Order[k]] # <<r, Order[k]>>
  <2>1. CASE dir' = [dir EXCEPT ![Current(r)] = None] /\ fault' = fault
    <3>1. dir'[Order[at[r]]] # <<r, Order[at[r]]>>
      BY <1>0, <2>1, FileFacts
    <3>2. \A k \in 1..(at[r] - 1) : dir'[Order[k]] = dir[Order[k]]
      BY <1>0, <2>1
    <3>3. QED
      BY <1>1, <2>1, <3>1, <3>2, RoundFacts DEF Gone
  <2>2. CASE Fault(r, "removal")
    BY <1>0, <2>2 DEF Fault
  <2>3. QED
    BY <2>1, <2>2 DEF RemoveLinked
<1>3. \/ at'[r] = at[r] + 1 /\ pc'[r] = "compare"
      \/ at[r] = Len(Order) /\ at'[r] = 1 /\ pc'[r] = "discard"
  BY <1>0 DEF RemoveLinked, Go
<1>4. QED
  BY <1>1, <1>2, <1>3, RollbackRound

LEMMA DiscardStep ==
  ASSUME TypeOK, FilesInv, NEW r \in Runs, RunInv(r), Discard(r)
  PROVE  RunInv(r)'
<1>0. /\ DOMAIN pc = Runs /\ DOMAIN staged = Runs /\ DOMAIN hidden = Runs
  BY DEF TypeOK
<1>1. /\ UNCHANGED <<detached, dir, linked, taken, failing, fault>> /\ Outputs' = Outputs
      /\ pc[r] = "discard" /\ detached
      /\ staged'[r] \subseteq staged[r] /\ hidden'[r] \subseteq hidden[r]
      /\ pc'[r] = IF failing[r] THEN "failed" ELSE "returned"
  BY <1>0, SameOrder DEF Discard, Go, At, operatorVars, RunInv, PlaceInv
<1>2. PlaceInv(r)' /\ LinkedInv(r)' /\ WholeInv(r)'
  BY <1>1 DEF RunInv, PlaceInv, LinkedInv, WholeInv, Whole, Disturbed
<1>3. BackInv(r)'
  BY <1>1 DEF RunInv, BackInv, Gone
<1>4. CleanInv(r)'
  BY <1>1 DEF RunInv, CleanInv, Clean, Disturbed
<1>5. QED
  BY <1>2, <1>3, <1>4 DEF RunInv

LEMMA MergeStep ==
  ASSUME TypeOK, FilesInv, NEW r \in Runs, RunInv(r), MergeArchives(r)
  PROVE  RunInv(r)'
<1>0. /\ DOMAIN pc = Runs /\ DOMAIN failing = Runs /\ DOMAIN fault = Runs /\ DOMAIN dir = Names
      /\ DOMAIN linked = Runs /\ "output" \in Names
  BY DEF TypeOK, Names
<1>1. /\ UNCHANGED <<detached, taken>> /\ Outputs' = Outputs
      /\ pc[r] = "build" /\ ~detached /\ ~failing[r] /\ linked[r] = {}
      /\ Outputs = {"output", "evidence"}
  BY SameOrder, OrderFacts DEF MergeArchives, At, operatorVars, RunInv, PlaceInv, LinkedInv
<1>2. CASE /\ dir' = [dir EXCEPT !["output"] = <<r, "output">>]
           /\ linked' = [linked EXCEPT ![r] = linked[r] \union {"output"}]
           /\ Go(r, "evidence") /\ UNCHANGED <<failing, fault>>
  <2>1. pc'[r] = "evidence" /\ dir'["output"] = <<r, "output">> /\ linked'[r] = {"output"}
    BY <1>0, <1>1, <1>2 DEF Go
  <2>2. WholeInv(r)'
    BY <1>2, <2>1 DEF WholeInv, Whole
  <2>3. PlaceInv(r)' /\ LinkedInv(r)' /\ CleanInv(r)' /\ BackInv(r)'
    BY <1>1, <1>2, <2>1 DEF PlaceInv, LinkedInv, CleanInv, BackInv
  <2>4. QED
    BY <2>2, <2>3 DEF RunInv
<1>3. CASE Raise(r, "call", "failed") /\ UNCHANGED <<dir, linked>>
  <2>1. pc'[r] = "failed" /\ failing'[r]
    BY <1>0, <1>3 DEF Raise, Go
  <2>2. \A o \in Names : Gone(r, o)'
    BY <1>1, <1>3, Unlinked DEF Gone
  <2>3. QED
    BY <1>1, <1>3, <2>1, <2>2 DEF RunInv, PlaceInv, CleanInv, BackInv, WholeInv, LinkedInv
<1>4. QED
  BY <1>2, <1>3 DEF MergeArchives

LEMMA EvidenceStep ==
  ASSUME TypeOK, FilesInv, NEW r \in Runs, RunInv(r), PublishEvidence(r)
  PROVE  RunInv(r)'
<1>0. /\ DOMAIN pc = Runs /\ DOMAIN failing = Runs /\ DOMAIN fault = Runs /\ DOMAIN dir = Names
      /\ DOMAIN linked = Runs /\ "output" \in Names /\ "evidence" \in Names
  BY DEF TypeOK, Names
<1>1. /\ UNCHANGED <<detached, taken>> /\ Outputs' = Outputs
      /\ pc[r] = "evidence" /\ ~detached /\ ~failing[r] /\ linked[r] = {"output"}
      /\ Outputs = {"output", "evidence"} /\ Whole(r, "output")
  BY SameOrder, OrderFacts DEF PublishEvidence, At, operatorVars, RunInv, PlaceInv, LinkedInv, WholeInv
<1>2. CASE /\ dir' = [dir EXCEPT !["evidence"] = <<r, "evidence">>]
           /\ linked' = [linked EXCEPT ![r] = linked[r] \union {"evidence"}]
           /\ Go(r, "returned") /\ UNCHANGED <<failing, fault>>
  <2>1. /\ pc'[r] = "returned" /\ dir'["evidence"] = <<r, "evidence">> /\ linked'[r] = Outputs
        /\ dir'["output"] = dir["output"]
    BY <1>0, <1>1, <1>2 DEF Go
  <2>2. WholeInv(r)'
    BY <1>1, <1>2, <2>1 DEF WholeInv, Whole, Disturbed
  <2>3. PlaceInv(r)' /\ LinkedInv(r)' /\ CleanInv(r)' /\ BackInv(r)'
    BY <1>1, <1>2, <2>1 DEF PlaceInv, LinkedInv, CleanInv, BackInv
  <2>4. QED
    BY <2>2, <2>3 DEF RunInv
<1>3. CASE Raise(r, "call", "undo") /\ UNCHANGED <<dir, linked>>
  <2>1. pc'[r] = "undo" /\ failing'[r]
    BY <1>0, <1>3 DEF Raise, Go
  <2>2. WholeInv(r)'
    BY <1>1, <1>3, <2>1 DEF WholeInv, Whole, Disturbed
  <2>3. QED
    BY <1>1, <1>3, <2>1, <2>2 DEF RunInv, PlaceInv, CleanInv, BackInv, LinkedInv
<1>4. QED
  BY <1>2, <1>3 DEF PublishEvidence

LEMMA UndoStep ==
  ASSUME TypeOK, FilesInv, NEW r \in Runs, RunInv(r), Undo(r)
  PROVE  RunInv(r)'
<1>0. /\ DOMAIN pc = Runs /\ DOMAIN fault = Runs /\ DOMAIN dir = Names /\ "output" \in Names
  BY DEF TypeOK, Names
<1>1. /\ UNCHANGED <<detached, linked, taken, failing>> /\ Outputs' = Outputs
      /\ pc[r] = "undo" /\ ~detached /\ failing[r] /\ linked[r] = {"output"}
      /\ pc'[r] = "failed"
  BY <1>0, SameOrder DEF Undo, Go, At, operatorVars, RunInv, PlaceInv, LinkedInv
<1>2. \A o \in Names : Gone(r, o)'
  <2>1. CASE dir' = [dir EXCEPT !["output"] = None]
    <3>1. dir'["output"] # <<r, "output">>
      BY <1>0, <2>1, FileFacts
    <3>2. \A o \in Names : o # "output" => dir'[o] = dir[o] /\ o \notin linked[r]
      BY <1>0, <1>1, <2>1
    <3>3. QED
      BY <3>1, <3>2, Unlinked DEF Gone
  <2>2. CASE Fault(r, "removal")
    BY <1>0, <2>2 DEF Fault, Gone
  <2>3. QED
    BY <2>1, <2>2 DEF Undo
<1>3. QED
  BY <1>1, <1>2 DEF RunInv, PlaceInv, CleanInv, BackInv, WholeInv, LinkedInv
LEMMA OwnStep ==
  ASSUME TypeOK, FilesInv, NEW r \in Runs, RunInv(r), RunStep(r)
  PROVE  RunInv(r)'
BY StartStep, LinkStep, UnstageStep, CheckStep, CompareStep, RemoveStep, DiscardStep, MergeStep,
   EvidenceStep, UndoStep DEF RunStep

(***************************************************************************)
(* The steps of a run and of the operator keep what the others rely on.    *)
(***************************************************************************)
LEMMA OthersStep ==
  ASSUME TypeOK, NEW r \in Runs, RunInv(r), RunStep(r), NEW q \in Runs \ {r}, RunInv(q)
  PROVE  RunInv(q)'
<1>1. UNCHANGED <<detached, taken>> /\ Same(q)
  BY RunFrame
<1>2. ASSUME NEW o \in Names, dir'[o] = <<q, o>> PROVE dir[o] = <<q, o>>
  BY <1>2, DirFrame, FileFacts
<1>3. ASSUME NEW o \in Names, dir[o] = <<q, o>> PROVE dir'[o] = <<q, o>> \/ Disturbed(q, o)'
  <2>1. SUFFICES ASSUME dir'[o] # dir[o] PROVE Disturbed(q, o)'
    BY <1>3
  <2>2. o = "output" /\ ~detached /\ Whole(r, o)
    BY <1>3, <2>1, DirFrame, FileFacts
  <2>3. Disturbed(r, o)
    BY <1>3, <2>2 DEF Whole
  <2>4. \E p \in Runs : <<p, o>> \in taken
    BY <2>3 DEF Disturbed
  <2>5. QED
    BY <1>1, <2>2, <2>4 DEF Disturbed
<1>4. pc[q] = "remove" => dir'[Current(q)] = dir[Current(q)]
  <2>1. SUFFICES ASSUME pc[q] = "remove", dir'[Current(q)] # dir[Current(q)] PROVE FALSE
    OBVIOUS
  <2>2. Current(q) \in Names
    BY OrderFacts DEF TypeOK, Current
  <2>3. dir[Current(q)] = <<q, Current(q)>> /\ detached
    BY <2>1 DEF RunInv, BackInv, PlaceInv
  <2>4. QED
    BY <2>1, <2>2, <2>3, DirFrame, FileFacts
<1>5. QED
  BY <1>1, <1>2, <1>3, <1>4, QuietRun

LEMMA FilesStep ==
  ASSUME TypeOK, FilesInv, NEW r \in Runs, RunInv(r), RunStep(r)
  PROVE  FilesInv'
<1>1. SUFFICES ASSUME NEW o \in Names, dir'[o] \in Files
               PROVE  \E q \in Runs : dir'[o] = <<q, o>> /\ o \in linked'[q]
  BY DEF FilesInv, Files
<1>2. CASE dir'[o] = dir[o]
  <2>1. PICK q \in Runs : dir[o] = <<q, o>> /\ o \in linked[q]
    BY <1>1, <1>2 DEF FilesInv
  <2>2. o \in linked'[q]
    BY <2>1, RunFrame DEF Same
  <2>3. QED
    BY <1>2, <2>1, <2>2
<1>3. CASE dir'[o] # dir[o]
  <2>1. dir'[o] = <<r, o>> /\ o \in linked'[r]
    BY <1>1, <1>3, DirFrame, FilesAssumption
  <2>2. QED
    BY <2>1
<1>4. QED
  BY <1>2, <1>3

(* The operator never puts a file of a run anywhere, and what it takes is  *)
(* known to be taken.                                                      *)
LEMMA OperatorStep ==
  ASSUME SwapsSeen = FALSE, TypeOK, FilesInv, \A q \in Runs : RunInv(q),
         NEW o \in Names, CreateFile(o) \/ TakeFile(o) \/ AliasFile(o)
  PROVE  FilesInv' /\ \A q \in Runs : RunInv(q)'
<1>1. /\ UNCHANGED <<detached, staged, hidden, linked, pc, at, failing, fault>>
      /\ taken \subseteq taken' /\ DOMAIN dir = Names
  BY DEF CreateFile, TakeFile, AliasFile, Meddle, runVars, TypeOK
<1>2. ASSUME NEW n \in Names, dir'[n] # dir[n]
      PROVE  /\ n = o /\ dir'[n] \in {None, Foreign}
             /\ dir[n] \in Files => dir[n] \in taken' /\ \A q \in Runs : ~(pc[q] = "remove" /\ Current(q) = n)
  <2>1. CASE CreateFile(o)
    BY <1>1, <1>2, <2>1, FilesAssumption DEF CreateFile
  <2>2. CASE TakeFile(o)
    <3>1. PICK f \in {None, Foreign} : dir' = [dir EXCEPT ![o] = f]
      BY <2>2 DEF TakeFile
    <3>2. n = o /\ dir'[n] = f
      BY <1>1, <1>2, <3>1
    <3>3. dir[o] \in taken' /\ \A q \in Runs : ~(pc[q] = "remove" /\ Current(q) = o)
      BY <2>2 DEF TakeFile, At
    <3>4. QED
      BY <3>2, <3>3
  <2>3. CASE AliasFile(o)
    BY <1>2, <2>3 DEF AliasFile
  <2>4. QED
    BY <2>1, <2>2, <2>3
<1>3. FilesInv'
  <2>1. SUFFICES ASSUME NEW n \in Names, dir'[n] \in Files
                 PROVE  \E q \in Runs : dir'[n] = <<q, n>> /\ n \in linked'[q]
    BY DEF FilesInv, Files
  <2>2. dir'[n] = dir[n]
    BY <1>2, <2>1, FilesAssumption
  <2>3. QED
    BY <1>1, <2>1, <2>2 DEF FilesInv
<1>4. ASSUME NEW q \in Runs PROVE RunInv(q)'
  <2>1. Same(q)
    BY <1>1 DEF Same
  <2>2. ASSUME NEW n \in Names, dir'[n] = <<q, n>> PROVE dir[n] = <<q, n>>
    BY <1>2, <2>2, FileFacts
  <2>3. ASSUME NEW n \in Names, dir[n] = <<q, n>> PROVE dir'[n] = <<q, n>> \/ Disturbed(q, n)'
    BY <1>2, <2>3, FileFacts DEF Disturbed
  <2>4. pc[q] = "remove" => dir'[Current(q)] = dir[Current(q)]
    <3>1. SUFFICES ASSUME pc[q] = "remove", dir'[Current(q)] # dir[Current(q)] PROVE FALSE
      OBVIOUS
    <3>2. Current(q) \in Names
      BY OrderFacts DEF TypeOK, Current
    <3>3. dir[Current(q)] = <<q, Current(q)>>
      BY <3>1 DEF RunInv, BackInv
    <3>4. dir[Current(q)] \in Files
      BY <3>2, <3>3, FileFacts
    <3>5. QED
      BY <1>2, <3>1, <3>2, <3>4
  <2>5. QED
    BY <1>1, <2>1, <2>2, <2>3, <2>4, QuietRun
<1>5. QED
  BY <1>3, <1>4

LEMMA InitInv == Init => IInv
<1> SUFFICES ASSUME Init PROVE IInv
  OBVIOUS
<1>1. FilesInv
  BY FilesAssumption DEF Init, FilesInv
<1>2. ASSUME NEW r \in Runs PROVE RunInv(r)
  <2>1. pc[r] = "start" /\ linked[r] = {} /\ ~failing[r]
    BY DEF Init
  <2>2. QED
    BY <2>1 DEF RunInv, PlaceInv, LinkedInv, WholeInv, CleanInv, BackInv
<1>3. QED
  BY <1>1, <1>2, InitType DEF IInv

LEMMA InductiveStep ==
  ASSUME SwapsSeen = FALSE, IInv, [Next]_vars
  PROVE  IInv'
<1>0. TypeOK /\ FilesInv /\ (\A q \in Runs : RunInv(q)) /\ TypeOK'
  BY TypeStep DEF IInv
<1>1. CASE UNCHANGED vars
  <2>1. ASSUME NEW q \in Runs PROVE RunInv(q)'
    BY <1>0, <1>1, QuietRun DEF vars, Same
  <2>2. FilesInv'
    BY <1>0, <1>1 DEF vars, FilesInv, Files
  <2>3. QED
    BY <1>0, <2>1, <2>2 DEF IInv
<1>2. ASSUME NEW r \in Runs, RunStep(r) PROVE IInv'
  <2>1. ASSUME NEW q \in Runs PROVE RunInv(q)'
    <3>1. CASE q = r
      BY <1>0, <1>2, <3>1, OwnStep
    <3>2. CASE q # r
      BY <1>0, <1>2, <3>2, OthersStep
    <3>3. QED
      BY <3>1, <3>2
  <2>2. FilesInv'
    BY <1>0, <1>2, FilesStep
  <2>3. QED
    BY <1>0, <2>1, <2>2 DEF IInv
<1>3. ASSUME NEW o \in Names, CreateFile(o) \/ TakeFile(o) \/ AliasFile(o) PROVE IInv'
  BY <1>0, <1>3, OperatorStep DEF IInv
<1>4. QED
  BY <1>1, <1>2, <1>3 DEF Next

(* The inductive invariant of the assembly.                                *)
THEOREM InvariantHolds == ASSUME SwapsSeen = FALSE PROVE Spec => []IInv
BY InitInv, InductiveStep, PTL DEF Spec
(***************************************************************************)
(* What follows.                                                           *)
(***************************************************************************)
LEMMA WholeFromInv == IInv => ReturnedWhole
<1> SUFFICES ASSUME IInv, NEW r \in Runs, NEW o \in Outputs, pc[r] = "returned", ~Disturbed(r, o)
             PROVE  dir[o] = <<r, o>> /\ (detached => o \notin staged[r] \union hidden[r])
  BY DEF ReturnedWhole
<1>1. RunInv(r)
  BY DEF IInv
<1>2. ~failing[r] /\ linked[r] = Outputs
  BY <1>1 DEF RunInv, PlaceInv, LinkedInv
<1>3. Whole(r, o)
  BY <1>1, <1>2 DEF RunInv, WholeInv
<1>4. detached => Clean(r, o)
  BY <1>1 DEF RunInv, CleanInv
<1>5. QED
  BY <1>3, <1>4 DEF Whole, Clean

LEMMA RolledBackFromInv == IInv => RolledBack
BY DEF IInv, RunInv, BackInv, Gone, RolledBack

LEMMA LastFromInv == IInv => EvidenceComesLast
<1> SUFFICES ASSUME IInv, NEW r \in Runs, dir["evidence"] = <<r, "evidence">>, ~failing[r], NEW o \in Outputs
             PROVE  dir[o] = <<r, o>> \/ Disturbed(r, o)
  BY DEF EvidenceComesLast
<1>1. RunInv(r) /\ FilesInv
  BY DEF IInv
<1>2. "evidence" \in linked[r]
  BY <1>1, Unlinked DEF Names
<1>3. linked[r] = Outputs
  BY <1>1, <1>2 DEF RunInv, LinkedInv
<1>4. QED
  BY <1>1, <1>3 DEF RunInv, WholeInv, Whole

(* A run that returned left its whole set in place unless the operator     *)
(* took of it, and under no second name when the provenance is detached.   *)
THEOREM ReturnsWhole == ASSUME SwapsSeen = FALSE PROVE Spec => []ReturnedWhole
BY InvariantHolds, WholeFromInv, PTL

(* A run that failed left nothing behind unless a removal failed.          *)
THEOREM RollsBack == ASSUME SwapsSeen = FALSE PROVE Spec => []RolledBack
BY InvariantHolds, RolledBackFromInv, PTL

(* Evidence is in the directory only with the files it speaks of.          *)
THEOREM EvidenceIsLast == ASSUME SwapsSeen = FALSE PROVE Spec => []EvidenceComesLast
BY InvariantHolds, LastFromInv, PTL

LEMMA KeptStep ==
  ASSUME IInv, [Next]_vars, meddles' = meddles, NEW o \in Names,
         dir[o] # None, dir'[o] # dir[o], detached \/ o # "output"
  PROVE  \E r \in Runs : dir[o] = <<r, o>> /\ pc[r] = "remove" /\ pc'[r] # "remove"
<1>1. ~UNCHANGED vars
  BY DEF vars
<1>2. ASSUME NEW n \in Names, CreateFile(n) \/ TakeFile(n) \/ AliasFile(n) PROVE FALSE
  BY <1>2 DEF CreateFile, TakeFile, AliasFile, Meddle, IInv, TypeOK
<1>3. PICK r \in Runs : RunStep(r)
  BY <1>1, <1>2 DEF Next
<1>4. TypeOK /\ RunInv(r)
  BY DEF IInv
<1>5. dir[o] = <<r, o>> /\ pc[r] = "remove" /\ pc'[r] # "remove"
  BY <1>3, <1>4, DirFrame
<1>6. QED
  BY <1>5

LEMMA ForeignStep ==
  ASSUME IInv, [Next]_vars
  PROVE  [meddles' = meddles =>
            \A o \in Names :
              dir[o] # None /\ dir'[o] # dir[o] /\ (detached \/ o # "output") =>
                \E r \in Runs : dir[o] = <<r, o>> /\ pc[r] = "remove" /\ pc'[r] # "remove"]_vars
BY KeptStep

(* No run removes or replaces a file that is not its own, the image undone *)
(* without detached provenance left out.                                   *)
THEOREM ForeignIsKept == ASSUME SwapsSeen = FALSE PROVE Spec => ForeignKept
BY InvariantHolds, ForeignStep, PTL DEF Spec, ForeignKept
================================================================================
