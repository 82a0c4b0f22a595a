------------------------------ MODULE MCTimers ------------------------------
(***************************************************************************)
(* A timer beside a function, and a timer beside a ticker.                 *)
(***************************************************************************)
EXTENDS Timers, TLC

CONSTANTS t1, t2

TimerAndFunc == t1 :> "timer" @@ t2 :> "func"
TimerAndTicker == t1 :> "timer" @@ t2 :> "ticker"
Both == {TimerAndFunc, TimerAndTicker}
OnlyFunc == {TimerAndFunc}
=============================================================================
