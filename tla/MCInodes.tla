------------------------------ MODULE MCInodes ------------------------------
EXTENDS Inodes, MCRequests, TLC

Symmetry == Permutations(Proc) \cup Permutations(Inum \ {Root})
=============================================================================
