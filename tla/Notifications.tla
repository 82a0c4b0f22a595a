--------------------------- MODULE Notifications ---------------------------
(***************************************************************************)
(* What a notification list promises to sync.Cond (sync/runtime.go:27-44,  *)
(* sync/cond.go:36-76): waiters are notified in the order in which they    *)
(* began to wait, each of them once, and a wait ends only with a           *)
(* notification.                                                           *)
(***************************************************************************)
EXTENDS Sequences, Naturals

CONSTANT G  \* the goroutines

VARIABLES
  waiting,  \* goroutines that wait and are not notified, the oldest first
  notified  \* goroutines that were notified and have not returned yet

promiseVars == <<waiting, notified>>

Init == waiting = <<>> /\ notified = {}

Wait(g) ==
  /\ g \notin notified /\ \A i \in DOMAIN waiting : waiting[i] # g
  /\ waiting' = Append(waiting, g)
  /\ UNCHANGED notified

(* A Signal notifies one waiter, a Broadcast all that wait.  Those that    *)
(* begin to wait while Broadcast runs may or may not be among them.        *)
Notify(n) ==
  /\ waiting' = SubSeq(waiting, n + 1, Len(waiting))
  /\ notified' = notified \cup {waiting[i] : i \in 1..n}

Return(g) ==
  /\ g \in notified
  /\ notified' = notified \ {g}
  /\ UNCHANGED waiting

Next == (\E g \in G : Wait(g) \/ Return(g)) \/ \E n \in 1..Len(waiting) : Notify(n)

Spec == Init /\ [][Next]_promiseVars
=============================================================================
