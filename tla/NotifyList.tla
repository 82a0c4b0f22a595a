----------------------------- MODULE NotifyList -----------------------------
(***************************************************************************)
(* notifyList, the ticket list under sync.Cond (runtime/sema.go:443-601).  *)
(* wait and notify are unsigned integers that wrap around.  A step is an   *)
(* access to one of them or a critical section of l.lock; the fast paths   *)
(* of the two notify calls read wait and then notify, without the lock, in *)
(* two steps.                                                              *)
(***************************************************************************)
EXTENDS Integers, Sequences, FiniteSets, SequencesExt

CONSTANTS
  G,      \* the goroutines
  None,   \* no goroutine
  Half,   \* half of the range of the two counters, 2^31 in the code
  MaxLag  \* bound: tickets issued while a goroutine is between add and wait

(* The "unwrapped" difference of tickets is bounded by 2^31: there are not *)
(* that many goroutines (sema.go:453-457).                                 *)
ASSUME NotifyListAssumption ==
  /\ IsFiniteSet(G) /\ None \notin G /\ Half \in Nat
  /\ Cardinality(G) <= Half /\ MaxLag \in 1..Half

VARIABLES
  wait, notify,  \* l.wait, l.notify
  list,          \* the goroutines of the sudogs from l.head to l.tail
  lock,          \* l.lock: its holder, or None
  pc,            \* where a goroutine is
  ticket,        \* s.ticket, and local t of notifyListWait
  seen,          \* in a notify call: the value of l.wait it read
  took,          \* in a notify call: the sudogs it has to ready
  before,        \* history: waiters of the time of a notify call, still waiting
  order          \* history: those that wait, in the order in which they came

listVars == <<wait, notify, list, lock, pc, ticket, seen, took>>
vars == <<listVars, before, order>>

Ticket == 0..(2 * Half - 1)
Plus(a, b) == (a + b) % (2 * Half)
Minus(a, b) == Plus(a, 2 * Half - b)

(* Mutant: tickets are compared as plain unsigned numbers.                 *)
LessUnsigned(a, b) == a < b

(* less(a, b): int32(a-b) < 0                                              *)
Less(a, b) == Minus(a, b) >= Half

WaitPC == {"added", "parked", "woken"}
OnePC == {"one", "one2", "onelock", "onestore"}
AllPC == {"all", "all2", "alllock", "allstore"}
NotifyPC == OnePC \cup AllPC \cup {"ready"}

Init ==
  /\ wait = 0 /\ notify = 0
  /\ list = <<>>
  /\ lock = None
  /\ pc = [g \in G |-> "idle"]
  /\ ticket = [g \in G |-> 0]
  /\ seen = [g \in G |-> 0]
  /\ took = [g \in G |-> <<>>]
  /\ before = [g \in G |-> {}]
  /\ order = <<>>

At(g, l) == pc[g] = l
Forget(g) == seen' = [seen EXCEPT ![g] = 0]  \* the local is not used again
Goto(g, l) == pc' = [pc EXCEPT ![g] = l]

----------------------------------------------------------------------------
(* notifyListAdd: the next ticket.                                         *)
NotifyListAdd(g) ==
  /\ At(g, "idle")
  /\ \A h \in G : At(h, "added") => Minus(wait, ticket[h]) < MaxLag
  /\ ticket' = [ticket EXCEPT ![g] = wait]
  /\ wait' = Plus(wait, 1)
  /\ Goto(g, "added")
  /\ UNCHANGED <<notify, list, lock, seen, took>>

(* Mutant: park without looking whether the ticket was notified.           *)
NotifyListWaitBlind(g) ==
  /\ At(g, "added")
  /\ lock = None
  /\ Goto(g, "parked")
  /\ list' = Append(list, g)
  /\ UNCHANGED <<wait, notify, lock, ticket, seen, took>>

(* notifyListWait: return if the ticket has been notified, else enqueue    *)
(* and park.                                                               *)
NotifyListWait(g) ==
  /\ At(g, "added")
  /\ lock = None
  /\ \/ /\ Less(ticket[g], notify)
        /\ Goto(g, "idle")
        /\ UNCHANGED list
        /\ ticket' = [ticket EXCEPT ![g] = 0]
     \/ /\ ~Less(ticket[g], notify)
        /\ Goto(g, "parked")
        /\ list' = Append(list, g)
        /\ UNCHANGED ticket
  /\ UNCHANGED <<wait, notify, lock, seen, took>>

(* notifyListWait returns after the park.                                  *)
WaitReturn(g) ==
  /\ At(g, "woken")
  /\ Goto(g, "idle")
  /\ ticket' = [ticket EXCEPT ![g] = 0]
  /\ UNCHANGED <<wait, notify, list, lock, seen, took>>

----------------------------------------------------------------------------
CallNotify(g, first) ==
  /\ At(g, "idle")
  /\ Goto(g, first)
  /\ UNCHANGED <<wait, notify, list, lock, ticket, seen, took>>

(* The fast path of both calls: no new waiters since the last one.         *)
LoadWait(g) ==
  /\ pc[g] \in {"one", "all"}
  /\ seen' = [seen EXCEPT ![g] = wait]
  /\ Goto(g, IF At(g, "one") THEN "one2" ELSE "all2")
  /\ UNCHANGED <<wait, notify, list, lock, ticket, took>>

LoadNotify(g) ==
  /\ pc[g] \in {"one2", "all2"}
  /\ Goto(g, IF seen[g] = notify THEN "idle" ELSE IF At(g, "one2") THEN "onelock" ELSE "alllock")
  /\ Forget(g)
  /\ UNCHANGED <<wait, notify, list, lock, ticket, took>>

(* Mutant: the list is readied but not emptied.                            *)
AllPullKeeps(g) ==
  /\ At(g, "alllock")
  /\ lock = None
  /\ lock' = g
  /\ took' = [took EXCEPT ![g] = list]
  /\ seen' = [seen EXCEPT ![g] = wait]
  /\ Goto(g, "allstore")
  /\ UNCHANGED <<wait, notify, list, ticket>>

(* Mutant: notify does not move on to wait.                                *)
AllPullOld(g) ==
  /\ At(g, "alllock")
  /\ lock = None
  /\ lock' = g
  /\ took' = [took EXCEPT ![g] = list]
  /\ list' = <<>>
  /\ seen' = [seen EXCEPT ![g] = notify]
  /\ Goto(g, "allstore")
  /\ UNCHANGED <<wait, notify, ticket>>

(* notifyListNotifyAll, locked: pull the list out and load wait ...        *)
AllPull(g) ==
  /\ At(g, "alllock")
  /\ lock = None
  /\ lock' = g
  /\ took' = [took EXCEPT ![g] = list]
  /\ list' = <<>>
  /\ seen' = [seen EXCEPT ![g] = wait]
  /\ Goto(g, "allstore")
  /\ UNCHANGED <<wait, notify, ticket>>

(* ... and store it as notify; unlock.                                     *)
AllStore(g) ==
  /\ At(g, "allstore")
  /\ notify' = seen[g]
  /\ lock' = None
  /\ Forget(g)
  /\ Goto(g, IF took[g] = <<>> THEN "idle" ELSE "ready")
  /\ UNCHANGED <<wait, list, ticket, took>>

(* notifyListNotifyOne, locked: check again ...                            *)
OneCheck(g) ==
  /\ At(g, "onelock")
  /\ lock = None
  /\ IF notify = wait THEN Goto(g, "idle") /\ UNCHANGED lock
                      ELSE Goto(g, "onestore") /\ lock' = g
  /\ UNCHANGED <<wait, notify, list, ticket, seen, took>>

(* ... move notify on, and unlink the first sudog with that ticket if      *)
(* there is one in the list already; unlock.                               *)
OneStore(g) ==
  /\ At(g, "onestore")
  /\ \/ /\ \A k \in DOMAIN list : ticket[list[k]] # notify
        /\ Goto(g, "idle")
        /\ UNCHANGED <<list, took>>
     \/ \E k \in DOMAIN list :
          /\ ticket[list[k]] = notify
          /\ \A j \in 1..(k - 1) : ticket[list[j]] # notify
          /\ list' = RemoveAt(list, k)
          /\ took' = [took EXCEPT ![g] = <<list[k]>>]
          /\ Goto(g, "ready")
  /\ notify' = Plus(notify, 1)
  /\ lock' = None
  /\ UNCHANGED <<wait, ticket, seen>>

(* readyWithTime of the next sudog taken from the list.                    *)
Ready(g) ==
  /\ At(g, "ready")
  /\ pc' = [pc EXCEPT ![g] = IF Len(took[g]) = 1 THEN "idle" ELSE "ready",
                      ![Head(took[g])] = "woken"]
  /\ took' = [took EXCEPT ![g] = Tail(@)]
  /\ UNCHANGED <<wait, notify, list, lock, ticket, seen>>

----------------------------------------------------------------------------
Step(g) ==
  \/ NotifyListWait(g) \/ WaitReturn(g)
  \/ LoadWait(g) \/ LoadNotify(g) \/ AllPull(g) \/ AllStore(g)
  \/ OneCheck(g) \/ OneStore(g) \/ Ready(g)

(* Waiting, and no notification has been sent for its ticket.              *)
Handed(g) == \E h \in G : At(h, "ready") /\ Contains(took[h], g)
Waiting(g) == pc[g] \in {"added", "parked"} /\ ~Handed(g) /\ ~Less(ticket[g], notify)
Waiters == {g \in G : Waiting(g)}

(* What is left of q in S, in the same order: SelectSeq without recursion. *)
Remaining(q, S) ==
  LET I == {i \in DOMAIN q : q[i] \in S}
      Nth(k) == CHOOSE i \in I : Cardinality({j \in I : j <= i}) = k
  IN  [k \in 1..Cardinality(I) |-> q[Nth(k)]]

Remember ==
  LET here == Waiters
      there == Waiters'
  IN  /\ before' = [g \in G |-> IF pc'[g] \notin NotifyPC THEN {}
                                ELSE (IF At(g, "idle") THEN here ELSE before[g]) \cap there]
      /\ order' = IF there = here THEN order
                  ELSE Remaining(order, there) \o SetToSeq(there \ here)

Next ==
  /\ \E g \in G : NotifyListAdd(g) \/ CallNotify(g, "one") \/ CallNotify(g, "all") \/ Step(g)
  /\ Remember

Spec == Init /\ [][Next]_vars

----------------------------------------------------------------------------
TypeOK ==
  /\ wait \in Ticket /\ notify \in Ticket
  /\ list \in Seq(G)
  /\ lock \in G \cup {None}
  /\ pc \in [G -> {"idle"} \cup WaitPC \cup NotifyPC]
  /\ ticket \in [G -> Ticket] /\ seen \in [G -> Ticket]
  /\ took \in [G -> Seq(G)]
  /\ before \in [G -> SUBSET G]

(* A goroutine parks at most once at a time, and a parked one is on the    *)
(* list or in the hands of one notifier: it is neither lost nor readied    *)
(* twice (sema.go:528-546, 583-598).                                       *)
ParkedOnce ==
  /\ TypeOK
  /\ \A g \in G :
       Cardinality({k \in DOMAIN list : list[k] = g})
       + Cardinality({h \in G : Contains(took[h], g)}) = IF At(g, "parked") THEN 1 ELSE 0

(* "Wrap around ... will be correctly handled" (sema.go:453-457): a        *)
(* notification that was sent for a ticket stays sent, also for a          *)
(* goroutine that is slow to get from add to wait.                         *)
NotificationIsKept ==
  [][\A g \in G : At(g, "added") /\ ~Waiting(g) => ~Waiting(g)']_vars

(* The list keeps the promise of module Notifications.  A waiter is        *)
(* notified when notify passes its ticket.                                 *)
Promise == INSTANCE Notifications WITH
  waiting <- order,
  notified <- {g \in G : pc[g] \in WaitPC} \ Range(order)
ImplementsNotifications == Promise!Spec

(* A notify call that notifies nobody, or a Broadcast, leaves none of      *)
(* those waiting that waited when it was called (cond.go:60, 69): the two  *)
(* unlocked reads of the fast path miss no waiter that was there.          *)
CallersAreServed ==
  [][\A g \in G :
       \/ pc[g] \in {"one2", "all2", "onelock"} /\ pc'[g] = "idle"
       \/ At(g, "allstore") /\ pc'[g] # "allstore"
       => before[g] \cap Waiters' = {}]_vars
----------------------------------------------------------------------------
(* The inductive invariant.                                                *)

Ahead(x) == Minus(x, notify)  \* how many tickets are notified before x
Lag == Ahead(wait)            \* how many have not been notified

(* Whoever is parked is in one place.                                      *)
Parking ==
  /\ IsInjective(list) /\ \A h \in G : IsInjective(took[h])
  /\ \A g \in G : At(g, "parked") <=> g \in ToSet(list) \/ \E h \in G : g \in ToSet(took[h])
  /\ \A h \in G : ToSet(took[h]) \cap ToSet(list) = {}
  /\ \A h, k \in G : h # k => ToSet(took[h]) \cap ToSet(took[k]) = {}
  /\ \A h \in G : took[h] # <<>> => pc[h] \in {"allstore", "ready"}
  /\ \A h \in G : At(h, "ready") => took[h] # <<>>

(* The tickets from notify to wait are those of the waiters, one each; who *)
(* has another ticket sees that it has been notified.                      *)
Ticketing ==
  /\ \A g \in G : At(g, "added") => Minus(wait, ticket[g]) \in 1..MaxLag
  /\ \A g \in G : At(g, "parked") /\ ~Handed(g) => Waiting(g)
  /\ \A g \in Waiters : Ahead(ticket[g]) < Lag
  /\ \A g, h \in Waiters : ticket[g] = ticket[h] => g = h
  /\ \A k \in 0..(Lag - 1) : \E g \in Waiters : Ahead(ticket[g]) = k

(* What a notify call relies on while it holds l.lock.                     *)
Locking ==
  /\ \A h \in G : lock = h <=> pc[h] \in {"onestore", "allstore"}
  /\ \A h \in G : At(h, "onestore") => wait # notify
  /\ \A h \in G : At(h, "allstore") =>
       /\ list = <<>>
       /\ Ahead(seen[h]) <= Lag
       /\ \A g \in ToSet(took[h]) : Ahead(ticket[g]) < Ahead(seen[h])

(* A waiter of the time of the call has a ticket below the wait that the   *)
(* call has read.                                                          *)
Seeing ==
  \A g \in G :
    /\ before[g] \subseteq Waiters
    /\ pc[g] \in {"one2", "all2", "allstore"} =>
         \A h \in before[g] : Ahead(ticket[h]) < Ahead(seen[g]) /\ Ahead(seen[g]) <= Lag

(* The waiters came in the order of their tickets.                         *)
Queueing ==
  /\ order \in Seq(G) /\ Len(order) = Lag
  /\ \A k \in 1..Lag : order[k] \in Waiters /\ Ahead(ticket[order[k]]) = k - 1

ListInv == Parking /\ Ticketing /\ Locking
IInv == TypeOK /\ ListInv /\ Seeing /\ Queueing
=============================================================================
