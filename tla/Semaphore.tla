----------------------------- MODULE Semaphore -----------------------------
(***************************************************************************)
(* What the runtime's semaphores promise to package sync                   *)
(* (src/sync/runtime.go:11-25): Semacquire waits until the count is        *)
(* positive and then takes one unit, Semrelease adds one unit.  A unit     *)
(* released before anybody sleeps is kept for the next one to come.  The   *)
(* promise says nothing of the order in which sleepers get their units:    *)
(* the code does not keep one (see module Sema).                           *)
(***************************************************************************)
EXTENDS Naturals

CONSTANTS
  G,     \* the goroutines
  Addr,  \* the semaphore addresses
  None   \* no address: the goroutine is not inside Semacquire

VARIABLES
  count, \* the units available at each address
  wants  \* the address a goroutine is acquiring, or None

semVars == <<count, wants>>

Init ==
  /\ count = [a \in Addr |-> 0]
  /\ wants = [g \in G |-> None]

(* Semacquire is called; the caller blocks in it until Grant.              *)
Request(g, a) ==
  /\ wants[g] = None
  /\ wants' = [wants EXCEPT ![g] = a]
  /\ UNCHANGED count

(* Semacquire returns: exactly one unit is taken.                          *)
Grant(g) ==
  /\ wants[g] # None
  /\ count[wants[g]] > 0
  /\ count' = [count EXCEPT ![wants[g]] = @ - 1]
  /\ wants' = [wants EXCEPT ![g] = None]

(* Semrelease adds a unit at once; it never blocks the caller for a unit.  *)
Release(g, a) ==
  /\ wants[g] = None
  /\ count' = [count EXCEPT ![a] = @ + 1]
  /\ UNCHANGED wants

Next == \E g \in G : Grant(g) \/ \E a \in Addr : Request(g, a) \/ Release(g, a)

Spec == Init /\ [][Next]_semVars
=============================================================================
