------------------------------- MODULE Sema -------------------------------
(***************************************************************************)
(* The sleep-and-wakeup semaphores of runtime/sema.go: semacquire1,        *)
(* semrelease1 and the part of a semaRoot they share.  All addresses of    *)
(* the model hash to one root, so they share its lock and its nwait (the   *)
(* case where the code has the most to get right).  The treap of sudogs is *)
(* abstracted to what it implements, one wait list per address.            *)
(*                                                                         *)
(* What runs without the root lock is a step of its own: the count is      *)
(* changed by cansemacquire's compare-and-swap and by semrelease's Xadd,   *)
(* and nwait is read by semrelease before it locks.                        *)
(***************************************************************************)
EXTENDS Integers, Sequences, FiniteSets, Functions

CONSTANTS
  G,          \* the goroutines
  Addr,       \* semaphore addresses, all in one semaRoot
  None,       \* no goroutine, no address
  MaxUnits    \* bound: units that exist at a time

ASSUME SemaAssumption ==
  /\ None \notin G \cup Addr
  /\ IsFiniteSet(G)
  /\ MaxUnits \in Nat

VARIABLES
  sem,      \* sem[a]: the uint32 at address a
  nwait,    \* root.nwait
  lock,     \* root.lock: the goroutine inside the critical section, or None
  queue,    \* queue[a]: the goroutines whose sudogs wait on a, in order
  ticket,   \* goroutines whose sudog was handed a unit (s.ticket # 0)
  spc,      \* where a goroutine is inside semacquire1 or semrelease1
  arg,      \* its arguments: the address, and the flag lifo or handoff
  deq       \* in semrelease1: the goroutine of the sudog it dequeued

rootVars == <<sem, nwait, lock, queue, ticket>>
vars == <<sem, nwait, lock, queue, ticket, spc, arg, deq>>

Blocked == {"acquire", "lock", "recheck", "parked", "woken"}  \* no unit taken yet
AcquirePC == Blocked \cup {"undo", "acquired"}
ReleasePC == {"xadd", "load", "dequeue", "ready"}

NoFrame == [addr |-> None, flag |-> FALSE]

Init ==
  /\ sem = [a \in Addr |-> 0]
  /\ nwait = 0
  /\ lock = None
  /\ queue = [a \in Addr |-> <<>>]
  /\ ticket = {}
  /\ spc = [g \in G |-> "idle"]
  /\ arg = [g \in G |-> NoFrame]
  /\ deq = [g \in G |-> None]

At(g, l) == spc[g] = l
Goto(g, l) == spc' = [spc EXCEPT ![g] = l]
On(g) == arg[g].addr

(* The function returns and its frame is gone.                             *)
Return(g) == Goto(g, "idle") /\ arg' = [arg EXCEPT ![g] = NoFrame]

(* cansemacquire(addr): take one unit if the count is positive.            *)
CanSemacquire(a) == sem[a] > 0
TakeUnit(a) == sem' = [sem EXCEPT ![a] = @ - 1]

----------------------------------------------------------------------------
(* semacquire1(addr, lifo)                                                 *)

CallSemacquire(g, a, lifo) ==
  /\ At(g, "idle")
  /\ Goto(g, "acquire")
  /\ arg' = [arg EXCEPT ![g] = [addr |-> a, flag |-> lifo]]
  /\ UNCHANGED <<rootVars, deq>>

(* Easy case: no lock is taken.                                            *)
AcquireEasy(g) ==
  /\ At(g, "acquire")
  /\ IF CanSemacquire(On(g))
     THEN TakeUnit(On(g)) /\ Goto(g, "acquired")
     ELSE UNCHANGED sem /\ Goto(g, "lock")
  /\ UNCHANGED <<nwait, lock, queue, ticket, arg, deq>>

(* lock(&root.lock); nwait++.                                              *)
AcquireLock(g) ==
  /\ At(g, "lock")
  /\ lock = None
  /\ lock' = g
  /\ nwait' = nwait + 1
  /\ Goto(g, "recheck")
  /\ UNCHANGED <<sem, queue, ticket, arg, deq>>

(* Under the lock the count is tried once more; if there is still nothing, *)
(* queue, park and unlock.  lifo puts the sudog first on its address.      *)
Enqueue(g) ==
  queue' = [queue EXCEPT ![On(g)] = IF arg[g].flag THEN <<g>> \o @ ELSE Append(@, g)]

(* Mutant: no second try under the lock.                                   *)
AcquireRecheckBlind(g) ==
  /\ At(g, "recheck")
  /\ Enqueue(g)
  /\ lock' = None
  /\ Goto(g, "parked")
  /\ UNCHANGED <<sem, nwait, ticket, arg, deq>>

AcquireRecheck(g) ==
  /\ At(g, "recheck")
  /\ \/ /\ CanSemacquire(On(g))
        /\ TakeUnit(On(g))
        /\ Goto(g, "undo")
        /\ UNCHANGED <<lock, queue>>
     \/ /\ ~CanSemacquire(On(g))
        /\ Enqueue(g)
        /\ lock' = None
        /\ Goto(g, "parked")
        /\ UNCHANGED sem
  /\ UNCHANGED <<nwait, ticket, arg, deq>>

(* nwait--; unlock; the second try had succeeded.                          *)
AcquireUndo(g) ==
  /\ At(g, "undo")
  /\ nwait' = nwait - 1
  /\ lock' = None
  /\ Goto(g, "acquired")
  /\ UNCHANGED <<sem, queue, ticket, arg, deq>>

(* Mutant: whoever is woken has its unit, ticket or not.                   *)
AcquireWokenTrusting(g) ==
  /\ At(g, "woken")
  /\ ticket' = ticket \ {g}
  /\ Goto(g, "acquired")
  /\ UNCHANGED <<sem, nwait, lock, queue, arg, deq>>

(* The readied goroutine runs: a ticket is a unit handed to it; without    *)
(* one it competes for the count like anybody else, and may lose.          *)
AcquireWoken(g) ==
  /\ At(g, "woken")
  /\ \/ /\ g \in ticket
        /\ ticket' = ticket \ {g}
        /\ Goto(g, "acquired")
        /\ UNCHANGED sem
     \/ /\ g \notin ticket
        /\ CanSemacquire(On(g))
        /\ TakeUnit(On(g))
        /\ Goto(g, "acquired")
        /\ UNCHANGED ticket
     \/ /\ g \notin ticket
        /\ ~CanSemacquire(On(g))
        /\ Goto(g, "lock")
        /\ UNCHANGED <<sem, ticket>>
  /\ UNCHANGED <<nwait, lock, queue, arg, deq>>

ReturnSemacquire(g) ==
  /\ At(g, "acquired")
  /\ Return(g)
  /\ UNCHANGED <<rootVars, deq>>

----------------------------------------------------------------------------
(* semrelease1(addr, handoff)                                              *)

CallSemrelease(g, a, handoff) ==
  /\ At(g, "idle")
  /\ Goto(g, "xadd")
  /\ arg' = [arg EXCEPT ![g] = [addr |-> a, flag |-> handoff]]
  /\ UNCHANGED <<rootVars, deq>>

ReleaseXadd(g) ==
  /\ At(g, "xadd")
  /\ sem' = [sem EXCEPT ![On(g)] = @ + 1]
  /\ Goto(g, "load")
  /\ UNCHANGED <<nwait, lock, queue, ticket, arg, deq>>

(* Easy case: nobody waits on this root.  Read without the lock.           *)
ReleaseLoad(g) ==
  /\ At(g, "load")
  /\ IF nwait = 0 THEN Return(g) ELSE Goto(g, "dequeue") /\ UNCHANGED arg
  /\ UNCHANGED <<rootVars, deq>>

(* Mutant: the sudog stays on the queue.                                   *)
ReleaseDequeueKeeps(g) ==
  /\ At(g, "dequeue")
  /\ lock = None
  /\ IF nwait > 0 /\ queue[On(g)] # <<>>
     THEN /\ deq' = [deq EXCEPT ![g] = Head(queue[On(g)])]
          /\ nwait' = nwait - 1
          /\ Goto(g, "ready")
          /\ UNCHANGED arg
     ELSE Return(g) /\ UNCHANGED <<deq, nwait>>
  /\ UNCHANGED <<sem, lock, queue, ticket>>

(* lock; if nwait is still positive dequeue the first sudog of the address *)
(* and count it out of nwait; unlock.                                      *)
ReleaseDequeue(g) ==
  /\ At(g, "dequeue")
  /\ lock = None
  /\ \/ /\ nwait > 0 /\ queue[On(g)] # <<>>
        /\ deq' = [deq EXCEPT ![g] = Head(queue[On(g)])]
        /\ queue' = [queue EXCEPT ![On(g)] = Tail(@)]
        /\ nwait' = nwait - 1
        /\ Goto(g, "ready")
        /\ UNCHANGED arg
     \/ /\ nwait = 0 \/ queue[On(g)] = <<>>
        /\ Return(g)
        /\ UNCHANGED <<deq, queue, nwait>>
  /\ UNCHANGED <<sem, lock, ticket>>

(* A handoff takes the unit on behalf of the sleeper, if it is still       *)
(* there; then the sleeper is made runnable.                               *)
ReleaseReady(g) ==
  /\ At(g, "ready")
  /\ IF arg[g].flag /\ CanSemacquire(On(g))
     THEN TakeUnit(On(g)) /\ ticket' = ticket \cup {deq[g]}
     ELSE UNCHANGED <<sem, ticket>>
  /\ spc' = [spc EXCEPT ![g] = "idle", ![deq[g]] = "woken"]
  /\ arg' = [arg EXCEPT ![g] = NoFrame]
  /\ deq' = [deq EXCEPT ![g] = None]
  /\ UNCHANGED <<nwait, lock, queue>>

----------------------------------------------------------------------------
(* The steps of a goroutine inside the two functions.                      *)
SemaStep(g) ==
  \/ AcquireEasy(g) \/ AcquireLock(g) \/ AcquireRecheck(g) \/ AcquireUndo(g)
  \/ AcquireWoken(g)
  \/ ReleaseXadd(g) \/ ReleaseLoad(g) \/ ReleaseDequeue(g) \/ ReleaseReady(g)

(* The callers of package sync: any goroutine may call either function.    *)
Acquire(g) == \E a \in Addr, lifo \in BOOLEAN : CallSemacquire(g, a, lifo)

Release(g) ==
  \E a \in Addr, handoff \in BOOLEAN :
    /\ FoldFunction(+, 0, sem) + Cardinality({h \in G : At(h, "xadd") \/ h \in ticket}) < MaxUnits
    /\ CallSemrelease(g, a, handoff)

Step(g) == SemaStep(g) \/ ReturnSemacquire(g)

Next == \E g \in G : Acquire(g) \/ Release(g) \/ Step(g)

Spec == Init /\ [][Next]_vars

(* The scheduler runs every runnable goroutine, and root.lock, held for a  *)
(* few instructions at a time, is not refused to one of them for ever.     *)
(* Nothing makes a goroutine call.                                         *)
Fairness == \A g \in G : SF_vars(Step(g))
FairSpec == Spec /\ Fairness

----------------------------------------------------------------------------
Waiting(a) == Range(queue[a])

TypeOK ==
  /\ sem \in [Addr -> Nat]
  /\ nwait \in Nat
  /\ lock \in G \cup {None}
  /\ queue \in [Addr -> Seq(G)]
  /\ ticket \in SUBSET G
  /\ spc \in [G -> AcquirePC \cup ReleasePC \cup {"idle"}]
  /\ arg \in [G -> [addr : Addr \cup {None}, flag : BOOLEAN]]
  /\ deq \in [G -> G \cup {None}]

(* The goroutines that will still look at address a before they sleep or   *)
(* return: a releaser between its Xadd and its goready, and a sleeper that *)
(* was made runnable without a ticket.                                     *)
Attending(a) ==
  {g \in G : On(g) = a /\ (spc[g] \in {"load", "dequeue", "ready"}
                           \/ (spc[g] = "woken" /\ g \notin ticket))}

(* No lost wakeup (sema.go:12-15, 134-142, 163-165): while somebody sleeps *)
(* on an address, every unit left in its count has a goroutine of its own  *)
(* on its way to a sleeper.  Losing the race between the nwait++ of a      *)
(* sleeper and the nwait test of a releaser would strand a unit.           *)
NoLostWakeup ==
  \A a \in Addr : queue[a] # <<>> => sem[a] <= Cardinality(Attending(a))

(* Every sudog is in one place: a parked goroutine is on the queue of its  *)
(* own address or in the hands of exactly one releaser, never both, never  *)
(* twice; so it is readied exactly once per sleep (sema.go:12-15).         *)
OneWakeupPerSleep ==
  TypeOK /\ \A g \in G :
    LET slots == UNION {{<<a, i>> : i \in {j \in DOMAIN queue[a] : queue[a][j] = g}} : a \in Addr}
        hands == {h \in G : deq[h] = g}
    IN  /\ Cardinality(slots) + Cardinality(hands) = IF spc[g] = "parked" THEN 1 ELSE 0
        /\ \A s \in slots : s[1] = On(g)

(* A wakeup for every unit, and one for every sleeper: none lost, none to  *)
(* spare.                                                                  *)
WakeupsAreExact == NoLostWakeup /\ OneWakeupPerSleep

(* The semaphore promise: with the units handed out by ticket counted in,  *)
(* every step is a step of module Semaphore or changes nothing it sees.    *)
Promise == INSTANCE Semaphore WITH
  count <- [a \in Addr |-> sem[a] + Cardinality({g \in ticket : On(g) = a})],
  wants <- [g \in G |-> IF spc[g] \in Blocked THEN On(g) ELSE None]
ImplementsSemaphore == Promise!Spec

(* A unit that stays available is not slept on: a goroutine blocked in     *)
(* Semacquire gets it, or the count drops to zero because others took it   *)
(* (sema.go:12-15); it never stays blocked beside a unit.                  *)
UnitReachesSleeper ==
  \A g \in G : []<>~(spc[g] \in Blocked /\ sem[On(g)] > 0)
=============================================================================
