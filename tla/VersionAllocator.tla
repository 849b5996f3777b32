--------------------------- MODULE VersionAllocator ---------------------------
(***************************************************************************)
(* What the version ledger promises, with none of its mechanism: a run     *)
(* atomically reserves one plan whose native build number and tag nobody   *)
(* else holds, a reservation is never changed or withdrawn, and the        *)
(* publication floor only ever moves up, to the number of a reserved plan. *)
(* ReleaseLedger implements this with a file on a Git branch, remote reads *)
(* and compare-and-swap writes.                                            *)
(***************************************************************************)
EXTENDS Integers

CONSTANTS
  Runs,     \* Actions workflow runs
  Plan,     \* release plans: records with at least a number and a tag
  NoPlan    \* the run has reserved nothing

VARIABLES
  reserved, \* reserved[r]: the plan run r holds, or NoPlan
  floor     \* the publication floor

vars == <<reserved, floor>>

Holders == {r \in Runs : reserved[r] # NoPlan}

Init ==
  /\ reserved = [r \in Runs |-> NoPlan]
  /\ floor = 0

(* A run without a plan takes a number above every number given out so far *)
(* and above the floor, and a tag no plan carries. Numbers may be skipped. *)
Reserve(r) ==
  LET p == reserved'[r]
  IN /\ reserved[r] = NoPlan
     /\ p \in Plan
     /\ p.number > floor
     /\ \A q \in Holders : reserved[q].number < p.number /\ reserved[q].tag # p.tag
     /\ reserved' = [reserved EXCEPT ![r] = p]
     /\ UNCHANGED floor

(* A publication consumes the number of a reserved plan that is above the  *)
(* floor, and with it every smaller number still unused.                   *)
Consume(r) ==
  /\ reserved[r] # NoPlan
  /\ reserved[r].number > floor
  /\ floor' = reserved[r].number
  /\ UNCHANGED reserved

Next ==
  \E r \in Runs : Reserve(r) \/ Consume(r)

Spec == Init /\ [][Next]_vars
===============================================================================
