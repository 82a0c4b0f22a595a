----------------------------- MODULE MCRunQueue -----------------------------
(* One P that makes goroutines runnable and starts with a full ring, and a *)
(* thief; the counters wrap on the way.                                    *)
EXTENDS RunQueue

MCFilled == [p \in P |-> IF p \in Makers THEN <<1, 2, 3, 4>> ELSE <<>>]
=============================================================================
