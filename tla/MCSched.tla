------------------------------ MODULE MCSched -------------------------------
(* Threads and Ps are interchangeable. *)
EXTENDS Sched, TLC

MCSymmetry == Permutations(M) \cup Permutations(P)
=============================================================================
