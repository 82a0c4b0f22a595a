-------------------------------- MODULE MCFD --------------------------------
(* Three goroutines on two FDs that use one pollDesc.                      *)
EXTENDS FD, TLC

MCSets == {-1, 1}
MCSymmetry == Permutations(G)
=============================================================================
