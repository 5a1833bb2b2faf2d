--------------------------- MODULE MCTestPipeline ---------------------------
EXTENDS TestPipeline, TLC

\* Operation ids are opaque.
Symmetry == Permutations(Op)
=============================================================================
