---------------------------- MODULE MCPrepareVersion ----------------------------
EXTENDS PrepareVersion, TLC

Symmetry == Permutations(Preparers)
================================================================================
