--------------------------- MODULE MCReleaseLedger ---------------------------
(***************************************************************************)
(* TLC instances of ReleaseLedger: a run is told apart from another only   *)
(* by its identity, so runs are interchangeable.                           *)
(***************************************************************************)
EXTENDS ReleaseLedger, TLC

Symmetry == Permutations(Runs)
==============================================================================
