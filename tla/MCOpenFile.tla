----------------------------- MODULE MCOpenFile -----------------------------
EXTENDS OpenFile, TLC

Symmetry == Permutations(Proc)
=============================================================================
