---------------------------- MODULE MCNativeOutputs ----------------------------
\* NativeOutputs on small instances. The runs are interchangeable: no definition
\* orders or names them, and the properties checked with symmetry are safety.
EXTENDS NativeOutputs, TLC

Symmetry == Permutations(Runs)
================================================================================
