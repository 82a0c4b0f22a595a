------------------------------ MODULE MCSyncMap ------------------------------
(* Two goroutines that make any number of any calls on two keys.           *)
EXTENDS SyncMap, TLC

MCCalls == A!Call
MCSymmetry == Permutations(G) \cup Permutations(Keys) \cup Permutations(Values)

(* States that differ in entries nobody refers to are one.                 *)
MCView == <<mu, read, dirty, misses, [e \in Entries \ Unused |-> p[e]], st, res, seen>>
=============================================================================
