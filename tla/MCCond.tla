------------------------------- MODULE MCCond -------------------------------
EXTENDS Cond, TLC
Symmetry == Permutations(G)
=============================================================================
