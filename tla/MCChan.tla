------------------------------- MODULE MCChan -------------------------------
(***************************************************************************)
(* Channel 1 is unbuffered, 2 has room for one value, 3 for two.           *)
(***************************************************************************)
EXTENDS Chan, TLC

Symmetric == Permutations(G)
Capacities == 1 :> 0 @@ 2 :> 1 @@ 3 :> 2

Op(kind, cases) == [kind |-> kind, cases |-> cases]
On(c, kinds) == {Op(kind, {<<c, dir>>}) : kind \in kinds, dir \in {"send", "recv"}}
Close(c) == Op("close", {<<c, "close">>})

(* Selects over both channels, one with both directions of a channel, one  *)
(* with a default; their partners; and close.                              *)
Selects ==
  {Op("block", {<<1, "send">>}), Close(1),
   Op("block", {<<1, "send">>, <<1, "recv">>}), Op("block", {<<1, "send">>, <<2, "recv">>}),
   Op("block", {<<1, "recv">>, <<2, "send">>}), Op("try", {<<1, "recv">>, <<2, "recv">>})}

(* Operations on one channel, blocking or not, and close.                  *)
Unbuffered == On(1, {"block", "try"}) \cup {Close(1)}
Ring == On(3, {"block", "try"}) \cup {Close(3)}

AllPrograms == {Selects, Unbuffered, Ring}
OnlyUnbuffered == {Unbuffered}
=============================================================================
