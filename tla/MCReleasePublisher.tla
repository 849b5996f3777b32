-------------------------- MODULE MCReleasePublisher --------------------------
(***************************************************************************)
(* TLC instances of ReleasePublisher. Attempts, commits and files are      *)
(* interchangeable: attempts differ only in the mode and commit Init       *)
(* chooses for them.                                                       *)
(***************************************************************************)
EXTENDS ReleasePublisher, TLC

Symmetry == Permutations(Publishers) \cup Permutations(Commits) \cup Permutations(Assets)
===============================================================================
