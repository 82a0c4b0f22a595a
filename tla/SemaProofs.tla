----------------------------- MODULE SemaProofs -----------------------------
(***************************************************************************)
(* Proofs about module Sema, for any finite set of goroutines, any set of  *)
(* addresses and any bound on units: wakeups are exact, and the code of    *)
(* runtime/sema.go keeps the promise of module Semaphore.                  *)
(***************************************************************************)
EXTENDS Sema, FiniteSetTheorems, SequenceTheorems, TLAPS

(* A goroutine inside one of the functions has a frame.                    *)
Frames ==
  \A g \in G : IF spc[g] = "idle" THEN On(g) = None ELSE On(g) \in Addr

(* root.lock is held between lock and unlock.                              *)
LockHeld == \A g \in G : (lock = g) <=> (spc[g] \in {"recheck", "undo"})

(* A ticket is given to a goroutine that is being woken.                   *)
Tickets == \A g \in ticket : At(g, "woken")

(* A releaser has at most one sudog in its hands, parked on its address.   *)
Hands ==
  /\ \A h \in G : IF At(h, "ready")
                  THEN deq[h] \in G /\ At(deq[h], "parked") /\ On(deq[h]) = On(h)
                  ELSE deq[h] = None
  /\ \A h, k \in G : deq[h] = deq[k] /\ h # k => deq[h] = None
InHands(g) == \E h \in G : deq[h] = g

(* What is queued is parked on that address, once, and in nobody's hands;  *)
(* what is parked is queued or in the hands of a releaser.                 *)
Queued ==
  \A a \in Addr : \A i \in 1..Len(queue[a]) :
    /\ At(queue[a][i], "parked") /\ On(queue[a][i]) = a /\ ~InHands(queue[a][i])
    /\ \A j \in 1..Len(queue[a]) : i # j => queue[a][i] # queue[a][j]
Placed ==
  \A g \in G : At(g, "parked") =>
    InHands(g) \/ \E i \in 1..Len(queue[On(g)]) : queue[On(g)][i] = g

(* nwait counts the queued goroutines and whoever is about to queue.       *)
Counted == {g \in G : spc[g] \in {"recheck", "undo"} \/ (At(g, "parked") /\ ~InHands(g))}
NwaitCounts == nwait = Cardinality(Counted)

Structure ==
  /\ TypeOK /\ Frames /\ LockHeld /\ Tickets /\ Hands /\ Queued /\ Placed /\ NwaitCounts

IInv == Structure /\ NoLostWakeup
----------------------------------------------------------------------------
(* Counting.                                                               *)

LEMMA CardAdd ==
  ASSUME NEW S \in SUBSET G, NEW g \in G, g \notin S
  PROVE  Cardinality(S) \in Nat /\ Cardinality(S \cup {g}) = Cardinality(S) + 1
BY SemaAssumption, FS_Subset, FS_CardinalityType, FS_AddElement

LEMMA CardDel ==
  ASSUME NEW S \in SUBSET G, NEW g \in S
  PROVE  Cardinality(S) \in Nat \ {0} /\ Cardinality(S \ {g}) = Cardinality(S) - 1
<1>1. IsFiniteSet(S) /\ Cardinality(S) \in Nat
  BY SemaAssumption, FS_Subset, FS_CardinalityType
<1>2. Cardinality(S) # 0
  BY <1>1, FS_EmptySet
<1>3. Cardinality(S \ {g}) = Cardinality(S) - 1
  BY <1>1, FS_RemoveElement
<1> QED
  BY <1>1, <1>2, <1>3

LEMMA CardNat ==
  ASSUME NEW S \in SUBSET G PROVE Cardinality(S) \in Nat
BY SemaAssumption, FS_Subset, FS_CardinalityType

(* What is queued is counted in nwait: a releaser that reads 0 strands     *)
(* nobody.                                                                 *)
LEMMA NwaitZero ==
  ASSUME Structure, nwait = 0, NEW a \in Addr PROVE queue[a] = <<>>
<1> SUFFICES ASSUME queue[a] # <<>> PROVE FALSE
  OBVIOUS
<1>1. queue[a] \in Seq(G)
  BY DEF Structure, TypeOK
<1>2. Len(queue[a]) \in Nat \ {0}
  BY <1>1, EmptySeq
<1>3. queue[a][1] \in G
  BY <1>1, <1>2, ElementOfSeq
<1>4. queue[a][1] \in Counted
  BY <1>2, <1>3 DEF Structure, Queued, Counted
<1> QED
  BY <1>4, CardDel DEF Counted, Structure, NwaitCounts

----------------------------------------------------------------------------
LEMMA InitIInv == Init => IInv
<1> SUFFICES ASSUME Init PROVE IInv
  OBVIOUS
<1> USE DEF Init
<1>1. TypeOK
  BY DEF TypeOK, AcquirePC, Blocked, ReleasePC, NoFrame
<1>2. Frames /\ LockHeld /\ Tickets
  BY SemaAssumption DEF Frames, LockHeld, Tickets, On, NoFrame
<1>3. Hands /\ Queued /\ Placed
  BY DEF Hands, Queued, Placed, At
<1>4. NwaitCounts
  <2>1. Counted = {}
    BY DEF Counted, At
  <2> QED
    BY <2>1, FS_EmptySet DEF NwaitCounts
<1>5. NoLostWakeup
  BY DEF NoLostWakeup
<1> QED
  BY <1>1, <1>2, <1>3, <1>4, <1>5 DEF IInv, Structure

(* A step that moves nobody into or out of a parked sleep, and no sudog,   *)
(* leaves queues and hands as they were.                                   *)
LEMMA QueueKept ==
  ASSUME Structure, UNCHANGED <<queue, deq>>,
         \A g \in G : /\ (At(g, "parked")' <=> At(g, "parked")) /\ (At(g, "ready")' <=> At(g, "ready"))
                      /\ At(g, "parked") \/ At(g, "ready") => On(g)' = On(g)
  PROVE  /\ Hands' /\ Queued' /\ Placed' /\ \A g \in G : InHands(g)' <=> InHands(g)
<1> USE DEF Structure
<1>1. \A g \in G : InHands(g)' <=> InHands(g)
  BY DEF InHands
<1>2. Hands'
  BY DEF Hands
<1>3. Queued'
  <2> SUFFICES ASSUME NEW a \in Addr, NEW i \in 1..Len(queue[a])
               PROVE  /\ At(queue[a][i], "parked")' /\ On(queue[a][i])' = a /\ ~InHands(queue[a][i])'
                      /\ \A j \in 1..Len(queue[a]) : i # j => queue[a][i] # queue[a][j]
    BY DEF Queued
  <2>1. queue[a][i] \in G
    BY ElementOfSeq DEF TypeOK
  <2> QED
    BY <2>1, <1>1 DEF Queued
<1>4. Placed'
  BY <1>1 DEF Placed
<1> QED
  BY <1>1, <1>2, <1>3, <1>4
----------------------------------------------------------------------------
(* Each action keeps the invariant.                                        *)

LEMMA CallSemacquireKeeps ==
  ASSUME IInv, NEW g \in G, NEW a \in Addr, NEW lifo \in BOOLEAN, CallSemacquire(g, a, lifo) PROVE IInv'
<1> USE DEF IInv, Structure
<1>1. TypeOK'
  BY SemaAssumption DEF CallSemacquire, TypeOK, AcquirePC, Blocked, ReleasePC, NoFrame, Return, At, Goto, On, rootVars, TakeUnit, CanSemacquire
<1>2. Frames' /\ LockHeld' /\ Tickets'
  BY SemaAssumption DEF CallSemacquire, TypeOK, Frames, LockHeld, Tickets, On, At, Goto, Return, NoFrame, rootVars
<1>3. /\ Hands' /\ Queued' /\ Placed' /\ \A h \in G : InHands(h)' <=> InHands(h)
  BY QueueKept DEF CallSemacquire, TypeOK, At, Goto, Return, On, rootVars
<1>4. NwaitCounts'
  <2>1. Counted' = Counted
    BY <1>3 DEF CallSemacquire, TypeOK, Counted, At, Goto, Return
  <2> QED
    BY <2>1 DEF CallSemacquire, NwaitCounts, rootVars
<1>5. NoLostWakeup'
  <2>1. \A b \in Addr : Attending(b)' = Attending(b)
    BY DEF CallSemacquire, TypeOK, Attending, At, Goto, Return, On, NoFrame, rootVars
  <2> QED
    BY <2>1 DEF CallSemacquire, NoLostWakeup, rootVars
<1> QED
  BY <1>1, <1>2, <1>3, <1>4, <1>5

LEMMA CallSemreleaseKeeps ==
  ASSUME IInv, NEW g \in G, NEW a \in Addr, NEW handoff \in BOOLEAN, CallSemrelease(g, a, handoff) PROVE IInv'
<1> USE DEF IInv, Structure
<1>1. TypeOK'
  BY SemaAssumption DEF CallSemrelease, TypeOK, AcquirePC, Blocked, ReleasePC, NoFrame, Return, At, Goto, On, rootVars, TakeUnit, CanSemacquire
<1>2. Frames' /\ LockHeld' /\ Tickets'
  BY SemaAssumption DEF CallSemrelease, TypeOK, Frames, LockHeld, Tickets, On, At, Goto, Return, NoFrame, rootVars
<1>3. /\ Hands' /\ Queued' /\ Placed' /\ \A h \in G : InHands(h)' <=> InHands(h)
  BY QueueKept DEF CallSemrelease, TypeOK, At, Goto, Return, On, rootVars
<1>4. NwaitCounts'
  <2>1. Counted' = Counted
    BY <1>3 DEF CallSemrelease, TypeOK, Counted, At, Goto, Return
  <2> QED
    BY <2>1 DEF CallSemrelease, NwaitCounts, rootVars
<1>5. NoLostWakeup'
  <2>1. \A b \in Addr : Attending(b)' = Attending(b)
    BY DEF CallSemrelease, TypeOK, Attending, At, Goto, Return, On, NoFrame, rootVars
  <2> QED
    BY <2>1 DEF CallSemrelease, NoLostWakeup, rootVars
<1> QED
  BY <1>1, <1>2, <1>3, <1>4, <1>5

LEMMA AcquireEasyKeeps ==
  ASSUME IInv, NEW g \in G, AcquireEasy(g) PROVE IInv'
<1> USE DEF IInv, Structure
<1>0. arg[g].addr \in Addr
  BY DEF AcquireEasy, Frames, At, On
<1>1. TypeOK'
  <2>1. sem' \in [Addr -> Nat]
    BY <1>0 DEF AcquireEasy, TypeOK, TakeUnit, CanSemacquire, On
  <2>2. spc' \in [G -> AcquirePC \cup ReleasePC \cup {"idle"}]
    BY DEF AcquireEasy, TypeOK, AcquirePC, Blocked, ReleasePC, Goto
  <2> QED
    BY <2>1, <2>2 DEF AcquireEasy, TypeOK
<1>2. Frames' /\ LockHeld' /\ Tickets'
  BY SemaAssumption DEF AcquireEasy, TypeOK, Frames, LockHeld, Tickets, On, At, Goto, Return, NoFrame, rootVars
<1>3. /\ Hands' /\ Queued' /\ Placed' /\ \A h \in G : InHands(h)' <=> InHands(h)
  BY QueueKept DEF AcquireEasy, TypeOK, At, Goto, Return, On, rootVars
<1>4. NwaitCounts'
  <2>1. Counted' = Counted
    BY <1>3 DEF AcquireEasy, TypeOK, Counted, At, Goto, Return
  <2> QED
    BY <2>1 DEF AcquireEasy, NwaitCounts, rootVars
<1>5. NoLostWakeup'
  <2>1. \A a \in Addr : Attending(a)' = Attending(a) /\ sem'[a] <= sem[a]
    BY DEF AcquireEasy, TypeOK, Frames, Attending, At, Goto, On, TakeUnit
  <2> SUFFICES ASSUME NEW a \in Addr, queue[a] # <<>>
               PROVE  sem'[a] <= Cardinality(Attending(a)')
    BY DEF NoLostWakeup, AcquireEasy
  <2>2. sem[a] <= Cardinality(Attending(a)) /\ Cardinality(Attending(a)) \in Nat
    BY CardNat DEF NoLostWakeup, Attending
  <2>3. sem[a] \in Nat /\ sem'[a] \in Nat
    BY <1>1 DEF TypeOK
  <2> QED
    BY <2>1, <2>2, <2>3
<1> QED
  BY <1>1, <1>2, <1>3, <1>4, <1>5

LEMMA AcquireLockKeeps ==
  ASSUME IInv, NEW g \in G, AcquireLock(g) PROVE IInv'
<1> USE DEF IInv, Structure
<1>1. TypeOK'
  BY SemaAssumption DEF AcquireLock, TypeOK, AcquirePC, Blocked, ReleasePC, NoFrame, Return, At, Goto, On, rootVars, TakeUnit, CanSemacquire
<1>2. Frames' /\ LockHeld' /\ Tickets'
  BY SemaAssumption DEF AcquireLock, TypeOK, Frames, LockHeld, Tickets, On, At, Goto, Return, NoFrame, rootVars
<1>3. /\ Hands' /\ Queued' /\ Placed' /\ \A h \in G : InHands(h)' <=> InHands(h)
  BY QueueKept DEF AcquireLock, TypeOK, At, Goto, Return, On, rootVars
<1>4. NwaitCounts'
  <2>1. Counted' = Counted \cup {g} /\ g \notin Counted
    BY <1>3 DEF AcquireLock, TypeOK, Counted, At, Goto
  <2>2. Cardinality(Counted \cup {g}) = Cardinality(Counted) + 1
    BY <2>1, CardAdd DEF Counted
  <2> QED
    BY <2>1, <2>2 DEF AcquireLock, NwaitCounts
<1>5. NoLostWakeup'
  <2>1. \A a \in Addr : Attending(a)' = Attending(a)
    BY DEF AcquireLock, TypeOK, Attending, At, Goto, Return, On, NoFrame, rootVars
  <2> QED
    BY <2>1 DEF AcquireLock, NoLostWakeup, rootVars
<1> QED
  BY <1>1, <1>2, <1>3, <1>4, <1>5

LEMMA ReturnSemacquireKeeps ==
  ASSUME IInv, NEW g \in G, ReturnSemacquire(g) PROVE IInv'
<1> USE DEF IInv, Structure
<1>1. TypeOK'
  BY SemaAssumption DEF ReturnSemacquire, TypeOK, AcquirePC, Blocked, ReleasePC, NoFrame, Return, At, Goto, On, rootVars, TakeUnit, CanSemacquire
<1>2. Frames' /\ LockHeld' /\ Tickets'
  BY SemaAssumption DEF ReturnSemacquire, TypeOK, Frames, LockHeld, Tickets, On, At, Goto, Return, NoFrame, rootVars
<1>3. /\ Hands' /\ Queued' /\ Placed' /\ \A h \in G : InHands(h)' <=> InHands(h)
  BY QueueKept DEF ReturnSemacquire, TypeOK, At, Goto, Return, On, rootVars
<1>4. NwaitCounts'
  <2>1. Counted' = Counted
    BY <1>3 DEF ReturnSemacquire, TypeOK, Counted, At, Goto, Return
  <2> QED
    BY <2>1 DEF ReturnSemacquire, NwaitCounts, rootVars
<1>5. NoLostWakeup'
  <2>1. \A a \in Addr : Attending(a)' = Attending(a)
    BY DEF ReturnSemacquire, TypeOK, Attending, At, Goto, Return, On, NoFrame, rootVars
  <2> QED
    BY <2>1 DEF ReturnSemacquire, NoLostWakeup, rootVars
<1> QED
  BY <1>1, <1>2, <1>3, <1>4, <1>5

LEMMA ReleaseXaddKeeps ==
  ASSUME IInv, NEW g \in G, ReleaseXadd(g) PROVE IInv'
<1> USE DEF IInv, Structure
<1>0. arg[g].addr \in Addr
  BY DEF ReleaseXadd, Frames, At, On
<1>1. TypeOK'
  <2>1. sem' \in [Addr -> Nat]
    BY <1>0 DEF ReleaseXadd, TypeOK, TakeUnit, CanSemacquire, On
  <2>2. spc' \in [G -> AcquirePC \cup ReleasePC \cup {"idle"}]
    BY DEF ReleaseXadd, TypeOK, AcquirePC, Blocked, ReleasePC, Goto
  <2> QED
    BY <2>1, <2>2 DEF ReleaseXadd, TypeOK
<1>2. Frames' /\ LockHeld' /\ Tickets'
  BY SemaAssumption DEF ReleaseXadd, TypeOK, Frames, LockHeld, Tickets, On, At, Goto, Return, NoFrame, rootVars
<1>3. /\ Hands' /\ Queued' /\ Placed' /\ \A h \in G : InHands(h)' <=> InHands(h)
  BY QueueKept DEF ReleaseXadd, TypeOK, At, Goto, Return, On, rootVars
<1>4. NwaitCounts'
  <2>1. Counted' = Counted
    BY <1>3 DEF ReleaseXadd, TypeOK, Counted, At, Goto, Return
  <2> QED
    BY <2>1 DEF ReleaseXadd, NwaitCounts, rootVars
<1>5. NoLostWakeup'
  <2> SUFFICES ASSUME NEW a \in Addr, queue[a] # <<>>
               PROVE  sem'[a] <= Cardinality(Attending(a)')
    BY DEF NoLostWakeup, ReleaseXadd
  <2>1. sem[a] <= Cardinality(Attending(a)) /\ sem[a] \in Nat
    BY DEF NoLostWakeup, TypeOK
  <2>2. CASE On(g) = a
    <3>1. Attending(a)' = Attending(a) \cup {g} /\ g \notin Attending(a)
      BY <2>2 DEF ReleaseXadd, TypeOK, Attending, At, Goto, On
    <3>2. Cardinality(Attending(a)') = Cardinality(Attending(a)) + 1 /\ Cardinality(Attending(a)) \in Nat
      BY <3>1, CardAdd DEF Attending
    <3> QED
      BY <3>2, <2>1, <2>2 DEF ReleaseXadd, TypeOK
  <2>3. CASE On(g) # a
    <3>1. Attending(a)' = Attending(a)
      BY <2>3 DEF ReleaseXadd, TypeOK, Attending, At, Goto, On
    <3> QED
      BY <3>1, <2>1, <2>3 DEF ReleaseXadd, TypeOK
  <2> QED
    BY <2>2, <2>3
<1> QED
  BY <1>1, <1>2, <1>3, <1>4, <1>5

LEMMA ReleaseLoadKeeps ==
  ASSUME IInv, NEW g \in G, ReleaseLoad(g) PROVE IInv'
<1> USE DEF IInv, Structure
<1>0. \/ Return(g) /\ nwait = 0
      \/ Goto(g, "dequeue") /\ UNCHANGED arg
  BY DEF ReleaseLoad
<1>1. TypeOK'
  <2>1. CASE Return(g)
    BY <2>1 DEF ReleaseLoad, TypeOK, Return, Goto, NoFrame, rootVars
  <2>2. CASE Goto(g, "dequeue") /\ UNCHANGED arg
    BY <2>2 DEF ReleaseLoad, TypeOK, ReleasePC, Goto, rootVars
  <2> QED
    BY <1>0, <2>1, <2>2
<1>2. Frames' /\ LockHeld' /\ Tickets'
  <2>1. CASE Return(g)
    BY <2>1 DEF ReleaseLoad, TypeOK, Frames, LockHeld, Tickets, On, At, Goto, Return, NoFrame, rootVars
  <2>2. CASE Goto(g, "dequeue") /\ UNCHANGED arg
    BY <2>2 DEF ReleaseLoad, TypeOK, Frames, LockHeld, Tickets, On, At, Goto, rootVars
  <2> QED
    BY <1>0, <2>1, <2>2
<1>3. /\ Hands' /\ Queued' /\ Placed' /\ \A h \in G : InHands(h)' <=> InHands(h)
  BY QueueKept DEF ReleaseLoad, TypeOK, At, Goto, Return, On, rootVars
<1>4. NwaitCounts'
  <2>1. Counted' = Counted
    BY <1>3 DEF ReleaseLoad, TypeOK, Counted, At, Goto, Return
  <2> QED
    BY <2>1 DEF ReleaseLoad, NwaitCounts, rootVars
<1>5. NoLostWakeup'
  <2>1. CASE nwait = 0
    BY <2>1, NwaitZero DEF NoLostWakeup, ReleaseLoad, rootVars
  <2>2. CASE nwait # 0
    <3>1. \A a \in Addr : Attending(a)' = Attending(a)
      BY <2>2 DEF ReleaseLoad, TypeOK, Attending, At, Goto, On, rootVars
    <3> QED
      BY <3>1 DEF ReleaseLoad, NoLostWakeup, rootVars
  <2> QED
    BY <2>1, <2>2
<1> QED
  BY <1>1, <1>2, <1>3, <1>4, <1>5
LEMMA AcquireUndoKeeps ==
  ASSUME IInv, NEW g \in G, AcquireUndo(g) PROVE IInv'
<1> USE DEF IInv, Structure
<1>0. g \in Counted /\ nwait \in Nat \ {0} /\ Cardinality(Counted \ {g}) = nwait - 1
  <2>1. g \in Counted
    BY DEF AcquireUndo, Counted, At
  <2> QED
    BY <2>1, CardDel DEF NwaitCounts, Counted
<1>1. TypeOK'
  BY <1>0 DEF AcquireUndo, TypeOK, AcquirePC, Goto
<1>2. Frames' /\ LockHeld' /\ Tickets'
  BY SemaAssumption DEF AcquireUndo, TypeOK, Frames, LockHeld, Tickets, On, At, Goto
<1>3. /\ Hands' /\ Queued' /\ Placed' /\ \A h \in G : InHands(h)' <=> InHands(h)
  BY QueueKept DEF AcquireUndo, TypeOK, At, Goto, On
<1>4. NwaitCounts'
  <2>1. Counted' = Counted \ {g}
    BY <1>3 DEF AcquireUndo, TypeOK, Counted, At, Goto
  <2> QED
    BY <1>0, <2>1 DEF AcquireUndo, NwaitCounts
<1>5. NoLostWakeup'
  <2>1. \A a \in Addr : Attending(a)' = Attending(a)
    BY DEF AcquireUndo, TypeOK, Attending, At, Goto, On
  <2> QED
    BY <2>1 DEF AcquireUndo, NoLostWakeup
<1> QED
  BY <1>1, <1>2, <1>3, <1>4, <1>5

LEMMA AcquireWokenKeeps ==
  ASSUME IInv, NEW g \in G, AcquireWoken(g) PROVE IInv'
<1> USE DEF IInv, Structure
<1>0. arg[g].addr \in Addr
  BY DEF AcquireWoken, Frames, At, On
<1>1. TypeOK'
  <2>1. sem' \in [Addr -> Nat]
    BY <1>0 DEF AcquireWoken, TypeOK, TakeUnit, CanSemacquire, On
  <2>2. spc' \in [G -> AcquirePC \cup ReleasePC \cup {"idle"}]
    BY DEF AcquireWoken, TypeOK, AcquirePC, Blocked, ReleasePC, Goto
  <2> QED
    BY <2>1, <2>2 DEF AcquireWoken, TypeOK
<1>2. Frames' /\ LockHeld' /\ Tickets'
  BY DEF AcquireWoken, TypeOK, Frames, LockHeld, Tickets, On, At, Goto
<1>3. /\ Hands' /\ Queued' /\ Placed' /\ \A h \in G : InHands(h)' <=> InHands(h)
  BY QueueKept DEF AcquireWoken, TypeOK, At, Goto, On
<1>4. NwaitCounts'
  <2>1. Counted' = Counted
    BY <1>3 DEF AcquireWoken, TypeOK, Counted, At, Goto
  <2> QED
    BY <2>1 DEF AcquireWoken, NwaitCounts
<1>5. NoLostWakeup'
  <2> SUFFICES ASSUME NEW a \in Addr, queue[a] # <<>>
               PROVE  sem'[a] <= Cardinality(Attending(a)')
    BY DEF NoLostWakeup, AcquireWoken
  <2>1. sem[a] <= Cardinality(Attending(a)) /\ sem[a] \in Nat
    BY DEF NoLostWakeup, TypeOK
  <2>2. CASE On(g) = a /\ g \notin ticket
    <3>1. Attending(a)' = Attending(a) \ {g} /\ g \in Attending(a)
      BY <2>2 DEF AcquireWoken, TypeOK, Attending, At, Goto, On
    <3>2. /\ Cardinality(Attending(a)') = Cardinality(Attending(a)) - 1
          /\ Cardinality(Attending(a)) \in Nat \ {0}
      BY <3>1, CardDel DEF Attending
    <3>3. sem'[a] = sem[a] - 1 \/ sem'[a] = 0
      BY <2>1, <2>2 DEF AcquireWoken, TypeOK, TakeUnit, CanSemacquire
    <3> QED
      BY <3>2, <3>3, <2>1
  <2>3. CASE On(g) # a \/ g \in ticket
    <3>1. Attending(a)' = Attending(a)
      BY <2>3 DEF AcquireWoken, TypeOK, Attending, At, Goto, On
    <3>2. sem'[a] = sem[a]
      BY <2>3 DEF AcquireWoken, TypeOK, TakeUnit
    <3> QED
      BY <3>1, <3>2, <2>1
  <2> QED
    BY <2>2, <2>3
<1> QED
  BY <1>1, <1>2, <1>3, <1>4, <1>5
(* Where an element is after somebody has been put first or last.          *)
LEMMA PutFirst ==
  ASSUME NEW q \in Seq(G), NEW g \in G
  PROVE  LET n == <<g>> \o q
         IN  /\ n \in Seq(G) /\ Len(n) = Len(q) + 1 /\ n # <<>>
             /\ n[1] = g
             /\ \A i \in 1..Len(q) : n[i + 1] = q[i]
<1>1. <<g>> \in Seq(G) /\ Len(<<g>>) = 1 /\ <<g>>[1] = g
  OBVIOUS
<1>2. Len(q) \in Nat
  OBVIOUS
<1>3. /\ <<g>> \o q \in Seq(G) /\ Len(<<g>> \o q) = Len(<<g>>) + Len(q)
      /\ \A i \in 1..Len(<<g>>) + Len(q) :
           (<<g>> \o q)[i] = IF i <= Len(<<g>>) THEN <<g>>[i] ELSE q[i - Len(<<g>>)]
  BY <1>1, ConcatProperties
<1>4. <<g>> \o q # <<>>
  BY <1>1, <1>2, <1>3, EmptySeq
<1> QED
  BY <1>1, <1>2, <1>3, <1>4

LEMMA AcquireRecheckKeeps ==
  ASSUME IInv, NEW g \in G, AcquireRecheck(g) PROVE IInv'
<1> USE DEF IInv, Structure
<1>0. arg[g].addr \in Addr /\ On(g) \in Addr /\ At(g, "recheck")
  BY DEF AcquireRecheck, Frames, At, On
<1>a. CASE TakeUnit(On(g)) /\ CanSemacquire(On(g)) /\ Goto(g, "undo") /\ UNCHANGED <<lock, queue>>
  <2>1. TypeOK'
    <3>1. sem' \in [Addr -> Nat]
      BY <1>0, <1>a DEF TypeOK, TakeUnit, CanSemacquire, On
    <3>2. spc' \in [G -> AcquirePC \cup ReleasePC \cup {"idle"}]
      BY <1>a DEF TypeOK, AcquirePC, Blocked, ReleasePC, Goto
    <3> QED
      BY <1>a, <3>1, <3>2 DEF AcquireRecheck, TypeOK
  <2>2. Frames' /\ LockHeld' /\ Tickets'
    BY <1>a, <1>0 DEF AcquireRecheck, TypeOK, Frames, LockHeld, Tickets, On, At, Goto
  <2>3. /\ Hands' /\ Queued' /\ Placed' /\ \A h \in G : InHands(h)' <=> InHands(h)
    BY <1>a, <1>0, QueueKept DEF AcquireRecheck, TypeOK, At, Goto, On
  <2>4. NwaitCounts'
    <3>1. Counted' = Counted
      BY <1>a, <1>0, <2>3 DEF TypeOK, Counted, At, Goto
    <3> QED
      BY <3>1 DEF AcquireRecheck, NwaitCounts
  <2>5. NoLostWakeup'
    <3> SUFFICES ASSUME NEW a \in Addr, queue[a] # <<>>
                 PROVE  sem'[a] <= Cardinality(Attending(a)')
      BY <1>a DEF NoLostWakeup
    <3>1. Attending(a)' = Attending(a)
      BY <1>a, <1>0 DEF AcquireRecheck, TypeOK, Attending, At, Goto, On
    <3>2. sem[a] <= Cardinality(Attending(a)) /\ Cardinality(Attending(a)) \in Nat
      BY CardNat DEF NoLostWakeup, Attending
    <3>3. sem[a] \in Nat /\ sem'[a] \in Nat /\ sem'[a] <= sem[a]
      BY <1>a, <2>1 DEF TypeOK, TakeUnit
    <3> QED
      BY <3>1, <3>2, <3>3
  <2> QED
    BY <2>1, <2>2, <2>3, <2>4, <2>5
<1>b. CASE ~CanSemacquire(On(g)) /\ Enqueue(g) /\ lock' = None /\ Goto(g, "parked") /\ UNCHANGED sem
  <2> DEFINE q == queue[On(g)]
  <2> DEFINE n == IF arg[g].flag THEN <<g>> \o q ELSE Append(q, g)
  <2>q. q \in Seq(G) /\ Len(q) \in Nat
    BY <1>0 DEF TypeOK
  <2>n. /\ n \in Seq(G) /\ Len(n) = Len(q) + 1 /\ n # <<>>
        /\ \E p \in 1..Len(n) : n[p] = g
        /\ \A j \in 1..Len(q) : \E i \in 1..Len(n) : n[i] = q[j]
        /\ \A i \in 1..Len(n) : n[i] = g \/ \E j \in 1..Len(q) : n[i] = q[j]
        /\ (\A i, j \in 1..Len(q) : i # j => q[i] # q[j]) /\ (\A i \in 1..Len(q) : q[i] # g)
             => \A i, j \in 1..Len(n) : i # j => n[i] # n[j]
    <3> HIDE DEF q
    <3>1. CASE arg[g].flag
      <4>1. /\ n \in Seq(G) /\ Len(n) = Len(q) + 1 /\ n # <<>> /\ n[1] = g
            /\ \A i \in 1..Len(q) : n[i + 1] = q[i]
        BY <3>1, <2>q, PutFirst
      <4> HIDE DEF n
      <4>2. \A i \in 1..Len(n) : i = 1 \/ (i - 1 \in 1..Len(q) /\ n[i] = q[i - 1])
        BY <4>1, <2>q
      <4>3. \A j \in 1..Len(q) : j + 1 \in 1..Len(n) /\ n[j + 1] = q[j]
        BY <4>1, <2>q
      <4>4. 1 \in 1..Len(n)
        BY <4>1, <2>q
      <4>5. (\A i, j \in 1..Len(q) : i # j => q[i] # q[j]) /\ (\A i \in 1..Len(q) : q[i] # g)
              => \A i, j \in 1..Len(n) : i # j => n[i] # n[j]
        <5> SUFFICES ASSUME \A i, j \in 1..Len(q) : i # j => q[i] # q[j],
                            \A i \in 1..Len(q) : q[i] # g,
                            NEW i \in 1..Len(n), NEW j \in 1..Len(n), i # j
                     PROVE  n[i] # n[j]
          OBVIOUS
        <5>1. CASE i = 1 \/ j = 1
          BY <5>1, <4>1, <4>2
        <5>2. CASE i # 1 /\ j # 1
          <6>1. i - 1 \in 1..Len(q) /\ j - 1 \in 1..Len(q) /\ i - 1 # j - 1
            BY <5>2, <4>1, <4>2, <2>q
          <6> QED
            BY <5>2, <6>1, <4>2
        <5> QED
          BY <5>1, <5>2
      <4>6. \A i \in 1..Len(n) : n[i] = g \/ \E j \in 1..Len(q) : n[i] = q[j]
        BY <4>1, <4>2
      <4>7. \A j \in 1..Len(q) : \E i \in 1..Len(n) : n[i] = q[j]
        BY <4>3
      <4> QED
        BY <4>1, <4>4, <4>5, <4>6, <4>7
    <3>2. CASE ~arg[g].flag
      <4>1. /\ n \in Seq(G) /\ Len(n) = Len(q) + 1 /\ n # <<>> /\ n[Len(q) + 1] = g
            /\ \A i \in 1..Len(q) : n[i] = q[i]
        BY <3>2, <2>q, AppendProperties
      <4> HIDE DEF n
      <4>2. \A i \in 1..Len(n) : i = Len(q) + 1 \/ (i \in 1..Len(q) /\ n[i] = q[i])
        BY <4>1, <2>q
      <4> QED
        BY <4>1, <4>2, <2>q
    <3> QED
      BY <3>1, <3>2
  <2>e. queue' = [queue EXCEPT ![On(g)] = n]
    BY <1>b DEF Enqueue
  <2> HIDE DEF n
  <2>1. TypeOK'
    <3>1. spc' \in [G -> AcquirePC \cup ReleasePC \cup {"idle"}]
      BY <1>b DEF TypeOK, AcquirePC, Blocked, ReleasePC, Goto
    <3> QED
      BY <1>b, <3>1, <2>e, <2>n DEF AcquireRecheck, TypeOK
  <2>2. Frames' /\ LockHeld' /\ Tickets'
    BY <1>b, <1>0, SemaAssumption DEF AcquireRecheck, TypeOK, Frames, LockHeld, Tickets, On, At, Goto
  <2>h. /\ \A h \in G : InHands(h)' <=> InHands(h)
        /\ ~InHands(g)
        /\ \A h \in G : On(h)' = On(h)
        /\ \A h \in G : At(h, "parked")' <=> (At(h, "parked") \/ h = g)
    <3>1. ~InHands(g)
      BY <1>0, SemaAssumption DEF InHands, Hands, At, TypeOK
    <3> QED
      BY <3>1, <1>b DEF AcquireRecheck, InHands, On, At, Goto, TypeOK
  <2>3. Hands'
    BY <1>b, <1>0 DEF AcquireRecheck, Hands, On, At, Goto, TypeOK
  <2>4. Queued'
    <3> SUFFICES ASSUME NEW a \in Addr, NEW i \in 1..Len(queue'[a])
                 PROVE  /\ spc'[queue'[a][i]] = "parked" /\ arg'[queue'[a][i]].addr = a
                        /\ \A h \in G : deq'[h] # queue'[a][i]
                        /\ \A j \in 1..Len(queue'[a]) : i # j => queue'[a][i] # queue'[a][j]
      BY DEF Queued, At, On, InHands
    <3>a. \A h \in G : /\ h = g \/ At(h, "parked") => spc'[h] = "parked"
                       /\ arg'[h].addr = On(h)
                       /\ ~InHands(h) => \A k \in G : deq'[k] # h
      BY <2>h DEF At, On, InHands
    <3>0. queue'[a][i] \in G
      BY <2>1, ElementOfSeq DEF TypeOK
    <3>1. CASE a # On(g)
      <4>1. queue'[a] = queue[a]
        BY <2>e, <3>1 DEF TypeOK
      <4> QED
        BY <4>1, <3>0, <3>a DEF Queued
    <3>2. CASE a = On(g)
      <4>1. queue'[a] = n
        BY <2>e, <3>2 DEF TypeOK
      <4>2. \A j \in 1..Len(q) : q[j] # g
        BY <1>0 DEF Queued, At
      <4>3. \A j, k \in 1..Len(q) : j # k => q[j] # q[k]
        BY <1>0 DEF Queued
      <4>4. \A j \in 1..Len(queue'[a]) : i # j => queue'[a][i] # queue'[a][j]
        BY <4>1, <4>2, <4>3, <2>n
      <4>5. CASE queue'[a][i] = g
        BY <4>4, <4>5, <2>h, <3>a, <3>2
      <4>6. CASE \E j \in 1..Len(q) : queue'[a][i] = q[j]
        <5>1. PICK j \in 1..Len(queue[a]) : queue'[a][i] = queue[a][j]
          BY <4>6, <3>2
        <5>2. At(queue[a][j], "parked") /\ On(queue[a][j]) = a /\ ~InHands(queue[a][j])
          BY DEF Queued
        <5> QED
          BY <4>4, <5>1, <5>2, <3>0, <3>a
      <4> QED
        BY <4>1, <4>5, <4>6, <2>n
    <3> QED
      BY <3>1, <3>2
  <2>5. Placed'
    <3> SUFFICES ASSUME NEW h \in G, At(h, "parked")', ~InHands(h)'
                 PROVE  \E i \in 1..Len(queue'[On(h)']) : queue'[On(h)'][i] = h
      BY DEF Placed
    <3>1. CASE h = g
      <4>1. On(h)' = On(g) /\ queue'[On(g)] = n
        BY <3>1, <2>e, <2>h, <1>0 DEF TypeOK
      <4> QED
        BY <4>1, <3>1, <2>n
    <3>2. CASE h # g
      <4>1. On(h)' = On(h) /\ At(h, "parked") /\ ~InHands(h)
        BY <3>2, <2>h
      <4>2. PICK j \in 1..Len(queue[On(h)]) : queue[On(h)][j] = h
        BY <4>1 DEF Placed
      <4>3. On(h) \in Addr
        BY <4>1 DEF Frames, At
      <4>4. CASE On(h) = On(g)
        <5>1. queue'[On(h)] = n
          BY <4>3, <4>4, <2>e DEF TypeOK
        <5> QED
          <6>1. j \in 1..Len(q) /\ q[j] = h
            BY <4>2, <4>4
          <6>2. \E i \in 1..Len(n) : n[i] = h
            BY <6>1, <2>n
          <6> QED
            BY <5>1, <4>1, <6>2
      <4>5. CASE On(h) # On(g)
        <5>1. queue'[On(h)] = queue[On(h)]
          BY <4>3, <4>5, <2>e DEF TypeOK
        <5> QED
          BY <5>1, <4>1, <4>2
      <4> QED
        BY <4>4, <4>5
    <3> QED
      BY <3>1, <3>2
  <2>6. NwaitCounts'
    <3>1. Counted' = Counted
      BY <1>b, <1>0, <2>h DEF TypeOK, Counted, At, Goto
    <3> QED
      BY <3>1 DEF AcquireRecheck, NwaitCounts
  <2>7. NoLostWakeup'
    <3> SUFFICES ASSUME NEW a \in Addr, queue'[a] # <<>>
                 PROVE  sem'[a] <= Cardinality(Attending(a)')
      BY DEF NoLostWakeup
    <3>1. Attending(a)' = Attending(a)
      BY <1>b, <1>0 DEF AcquireRecheck, TypeOK, Attending, At, Goto, On
    <3>2. CASE a = On(g)
      BY <1>b, <3>1, <3>2, CardNat DEF CanSemacquire, TypeOK, Attending
    <3>3. CASE a # On(g)
      BY <1>b, <3>1, <3>3, <2>e DEF NoLostWakeup, TypeOK
    <3> QED
      BY <3>2, <3>3
  <2> QED
    BY <2>1, <2>2, <2>3, <2>4, <2>5, <2>6, <2>7
<1> QED
  BY <1>a, <1>b DEF AcquireRecheck

LEMMA DequeueKeeps ==
  ASSUME IInv, NEW g \in G, ReleaseDequeue(g) PROVE IInv'
<1> USE DEF IInv, Structure
<1>0. /\ At(g, "dequeue") /\ On(g) \in Addr /\ queue[On(g)] \in Seq(G) /\ ~InHands(g)
      /\ deq[g] = None
  <2>1. At(g, "dequeue") /\ On(g) \in Addr
    BY DEF ReleaseDequeue, Frames, At
  <2>2. ~InHands(g)
    BY <2>1, SemaAssumption DEF InHands, Hands, At, TypeOK
  <2> QED
    BY <2>1, <2>2 DEF Hands, At, TypeOK
<1>a. CASE Return(g) /\ (nwait = 0 \/ queue[On(g)] = <<>>) /\ UNCHANGED <<deq, queue, nwait>>
  <2>1. TypeOK'
    BY <1>a DEF ReleaseDequeue, TypeOK, Return, Goto, NoFrame
  <2>2. Frames' /\ LockHeld' /\ Tickets'
    BY <1>a, <1>0 DEF ReleaseDequeue, TypeOK, Frames, LockHeld, Tickets, On, At, Goto, Return, NoFrame
  <2>3. /\ Hands' /\ Queued' /\ Placed' /\ \A h \in G : InHands(h)' <=> InHands(h)
    BY <1>a, <1>0, QueueKept DEF TypeOK, At, Goto, Return, On
  <2>4. NwaitCounts'
    <3>1. Counted' = Counted
      BY <1>a, <1>0, <2>3 DEF TypeOK, Counted, At, Goto, Return
    <3> QED
      BY <1>a, <3>1 DEF NwaitCounts
  <2>5. NoLostWakeup'
    <3> SUFFICES ASSUME NEW a \in Addr, queue[a] # <<>>
                 PROVE  sem[a] <= Cardinality(Attending(a)')
      BY <1>a DEF NoLostWakeup, ReleaseDequeue
    <3>1. On(g) # a
      BY <1>a, NwaitZero
    <3>2. Attending(a)' = Attending(a)
      BY <3>1, <1>a, <1>0 DEF ReleaseDequeue, TypeOK, Attending, At, Goto, Return, On, NoFrame
    <3> QED
      BY <3>2 DEF NoLostWakeup
  <2> QED
    BY <2>1, <2>2, <2>3, <2>4, <2>5
<1>b. CASE /\ nwait > 0 /\ queue[On(g)] # <<>>
           /\ deq' = [deq EXCEPT ![g] = Head(queue[On(g)])]
           /\ queue' = [queue EXCEPT ![On(g)] = Tail(@)]
           /\ nwait' = nwait - 1 /\ Goto(g, "ready") /\ UNCHANGED arg
  <2> DEFINE q == queue[On(g)]
             tl == Tail(q)
             hd == Head(q)
  <2>q. /\ hd = q[1] /\ hd \in G /\ tl \in Seq(G) /\ Len(q) \in Nat \ {0} /\ Len(tl) = Len(q) - 1
        /\ \A i \in 1..Len(tl) : tl[i] = q[i + 1] /\ i + 1 \in 1..Len(q)
        /\ \A i \in 1..Len(q) : i = 1 \/ (i - 1 \in 1..Len(tl) /\ tl[i - 1] = q[i])
    <3>1. q \in Seq(G) /\ q # <<>>
      BY <1>0, <1>b
    <3>2. Len(q) \in Nat \ {0}
      BY <3>1, EmptySeq
    <3> HIDE DEF q
    <3>3. tl \in Seq(G) /\ hd \in G /\ Len(tl) = Len(q) - 1 /\ \A i \in 1..Len(tl) : tl[i] = q[i + 1]
      BY <3>1, HeadTailProperties
    <3>4. hd = q[1]
      BY <3>1
    <3> HIDE DEF tl
    <3> QED
      BY <3>2, <3>3, <3>4
  <2>s. /\ At(hd, "parked") /\ On(hd) = On(g) /\ ~InHands(hd) /\ hd # g
    BY <2>q, <1>0 DEF Queued, At
  <2>e. deq' = [deq EXCEPT ![g] = hd] /\ queue' = [queue EXCEPT ![On(g)] = tl]
    BY <1>b
  <2>d. \A i \in 1..Len(q) : q[i] = hd => i = 1
    BY <2>q, <1>0 DEF Queued
  <2> HIDE DEF tl, hd, q
  <2>n. nwait \in Nat \ {0} /\ hd \in Counted
    BY <1>b, <2>q, <2>s DEF TypeOK, Counted
  <2>1. TypeOK'
    <3>1. spc' \in [G -> AcquirePC \cup ReleasePC \cup {"idle"}]
      BY <1>b DEF TypeOK, ReleasePC, Goto
    <3>2. deq' \in [G -> G \cup {None}] /\ queue' \in [Addr -> Seq(G)]
      BY <2>e, <2>q DEF TypeOK
    <3>3. nwait' \in Nat
      BY <1>b, <2>n
    <3> QED
      BY <1>b, <3>1, <3>2, <3>3 DEF ReleaseDequeue, TypeOK
  <2>2. Frames' /\ LockHeld' /\ Tickets'
    BY <1>b, <1>0, SemaAssumption DEF ReleaseDequeue, TypeOK, Frames, LockHeld, Tickets, On, At, Goto
  <2>h. /\ \A h \in G : InHands(h)' <=> (InHands(h) \/ h = hd)
        /\ \A h \in G : On(h)' = On(h)
        /\ \A h \in G : At(h, "parked")' <=> At(h, "parked")
        /\ \A h \in G : At(h, "ready")' <=> (At(h, "ready") \/ h = g)
    <3>1. \A h \in G : InHands(h)' <=> (InHands(h) \/ h = hd)
      BY <1>0, <2>e, <2>q, SemaAssumption DEF InHands, TypeOK
    <3> QED
      BY <3>1, <1>b, <1>0 DEF On, At, Goto, TypeOK
  <2>3. Hands'
    <3>1. \A h \in G : IF At(h, "ready")'
                       THEN deq'[h] \in G /\ spc'[deq'[h]] = "parked" /\ arg'[deq'[h]].addr = On(h)'
                       ELSE deq'[h] = None
      <4> SUFFICES ASSUME NEW h \in G
                   PROVE  IF At(h, "ready")'
                          THEN deq'[h] \in G /\ spc'[deq'[h]] = "parked" /\ arg'[deq'[h]].addr = On(h)'
                          ELSE deq'[h] = None
        OBVIOUS
      <4>1. CASE h = g
        <5>1. deq'[h] = hd /\ At(h, "ready")'
          BY <4>1, <2>e, <2>h DEF TypeOK
        <5> QED
          BY <5>1, <4>1, <2>h, <2>s, <2>q DEF At, On
      <4>2. CASE h # g
        <5>1. deq'[h] = deq[h] /\ (At(h, "ready")' <=> At(h, "ready"))
          BY <4>2, <2>e, <2>h DEF TypeOK
        <5> QED
          BY <5>1, <2>h DEF Hands, At, On
      <4> QED
        BY <4>1, <4>2
    <3>2. \A h, k \in G : deq'[h] = deq'[k] /\ h # k => deq'[h] = None
      BY <2>e, <2>s DEF Hands, InHands, TypeOK
    <3> QED
      BY <3>1, <3>2 DEF Hands, At, On
  <2>4. Queued'
    <3> SUFFICES ASSUME NEW a \in Addr, NEW i \in 1..Len(queue'[a])
                 PROVE  /\ spc'[queue'[a][i]] = "parked" /\ arg'[queue'[a][i]].addr = a
                        /\ \A h \in G : deq'[h] # queue'[a][i]
                        /\ \A j \in 1..Len(queue'[a]) : i # j => queue'[a][i] # queue'[a][j]
      BY DEF Queued, At, On, InHands
    <3>0. queue'[a][i] \in G
      BY <2>1, ElementOfSeq DEF TypeOK
    <3>a. \A h \in G : /\ At(h, "parked") => spc'[h] = "parked"
                       /\ arg'[h].addr = On(h)
                       /\ ~InHands(h) /\ h # hd => \A k \in G : deq'[k] # h
      BY <2>h DEF At, On, InHands
    <3>1. CASE a # On(g)
      <4>1. queue'[a] = queue[a]
        BY <2>e, <3>1 DEF TypeOK
      <4>2. queue[a][i] # hd
        BY <2>s, <3>1, <4>1 DEF Queued
      <4> QED
        BY <4>1, <4>2, <3>0, <3>a DEF Queued
    <3>2. CASE a = On(g)
      <4>1. queue'[a] = tl
        BY <2>e, <3>2 DEF TypeOK
      <4>2. queue'[a][i] = q[i + 1] /\ i + 1 \in 1..Len(q) /\ i + 1 # 1
        BY <4>1, <2>q
      <4>3. q[i + 1] # hd
        BY <4>2, <2>d
      <4>4. At(q[i + 1], "parked") /\ On(q[i + 1]) = a /\ ~InHands(q[i + 1])
        BY <4>2, <3>2, <1>0 DEF Queued, q
      <4>5. \A j \in 1..Len(queue'[a]) : i # j => queue'[a][i] # queue'[a][j]
        <5> SUFFICES ASSUME NEW j \in 1..Len(queue'[a]), i # j PROVE queue'[a][i] # queue'[a][j]
          OBVIOUS
        <5>1. queue'[a][j] = q[j + 1] /\ j + 1 \in 1..Len(q) /\ j + 1 # i + 1
          BY <4>1, <2>q
        <5>2. q[i + 1] # q[j + 1]
          BY <5>1, <4>2, <1>0 DEF Queued, q
        <5> QED
          BY <5>1, <5>2, <4>2
      <4> QED
        BY <4>2, <4>3, <4>4, <4>5, <3>0, <3>a
    <3> QED
      BY <3>1, <3>2
  <2>5. Placed'
    <3> SUFFICES ASSUME NEW h \in G, At(h, "parked")', ~InHands(h)'
                 PROVE  \E i \in 1..Len(queue'[On(h)']) : queue'[On(h)'][i] = h
      BY DEF Placed
    <3>1. On(h)' = On(h) /\ At(h, "parked") /\ ~InHands(h) /\ h # hd
      BY <2>h
    <3>2. PICK j \in 1..Len(queue[On(h)]) : queue[On(h)][j] = h
      BY <3>1 DEF Placed
    <3>3. On(h) \in Addr
      BY <3>1 DEF Frames, At
    <3>4. CASE On(h) = On(g)
      <4>1. queue'[On(h)] = tl
        BY <3>3, <3>4, <2>e DEF TypeOK
      <4>2. j \in 1..Len(q) /\ q[j] = h /\ j # 1
        BY <3>1, <3>2, <3>4, <2>q DEF q
      <4> QED
        BY <4>1, <4>2, <3>1, <2>q
    <3>5. CASE On(h) # On(g)
      <4>1. queue'[On(h)] = queue[On(h)]
        BY <3>3, <3>5, <2>e DEF TypeOK
      <4> QED
        BY <4>1, <3>1, <3>2
    <3> QED
      BY <3>4, <3>5
  <2>6. NwaitCounts'
    <3>1. Counted' = Counted \ {hd}
      BY <1>b, <1>0, <2>h, <2>s DEF TypeOK, Counted, At, Goto
    <3>2. Cardinality(Counted \ {hd}) = Cardinality(Counted) - 1
      BY <2>n, CardDel DEF Counted
    <3> QED
      BY <3>1, <3>2, <1>b DEF NwaitCounts
  <2>7. NoLostWakeup'
    <3> SUFFICES ASSUME NEW a \in Addr, queue'[a] # <<>>
                 PROVE  sem[a] <= Cardinality(Attending(a)')
      BY DEF NoLostWakeup, ReleaseDequeue
    <3>1. Attending(a)' = Attending(a)
      BY <1>b, <1>0 DEF ReleaseDequeue, TypeOK, Attending, At, Goto, On
    <3>2. queue[a] # <<>>
      BY <1>b, <2>e DEF TypeOK
    <3> QED
      BY <3>1, <3>2 DEF NoLostWakeup
  <2> QED
    BY <2>1, <2>2, <2>3, <2>4, <2>5, <2>6, <2>7
<1> QED
  BY <1>a, <1>b DEF ReleaseDequeue
LEMMA ReleaseReadyKeeps ==
  ASSUME IInv, NEW g \in G, ReleaseReady(g) PROVE IInv'
<1> USE DEF IInv, Structure
<1> DEFINE d == deq[g]
           a == On(g)
<1>0. /\ At(g, "ready") /\ a \in Addr /\ d \in G /\ At(d, "parked") /\ On(d) = a /\ d # g
      /\ d \notin ticket
  BY DEF ReleaseReady, Frames, Hands, Tickets, At
<1>e. /\ spc' = [spc EXCEPT ![g] = "idle", ![d] = "woken"]
      /\ arg' = [arg EXCEPT ![g] = NoFrame] /\ deq' = [deq EXCEPT ![g] = None]
      /\ UNCHANGED <<nwait, lock, queue>>
      /\ \/ TakeUnit(a) /\ CanSemacquire(a) /\ ticket' = ticket \cup {d}
         \/ UNCHANGED <<sem, ticket>>
  BY DEF ReleaseReady
<1> HIDE DEF d, a
<1>1. TypeOK'
  <2>1. sem' \in [Addr -> Nat]
    <3>1. CASE TakeUnit(a) /\ CanSemacquire(a)
      BY <3>1, <1>0 DEF TypeOK, TakeUnit, CanSemacquire
    <3>2. CASE UNCHANGED <<sem, ticket>>
      BY <3>2 DEF TypeOK
    <3> QED
      BY <1>e, <3>1, <3>2
  <2>2. spc' \in [G -> AcquirePC \cup ReleasePC \cup {"idle"}]
    BY <1>e DEF TypeOK, AcquirePC, Blocked
  <2>3. ticket' \in SUBSET G /\ deq' \in [G -> G \cup {None}]
    BY <1>0, <1>e DEF TypeOK
  <2>4. arg' \in [G -> [addr : Addr \cup {None}, flag : BOOLEAN]]
    BY <1>e DEF TypeOK, NoFrame
  <2> QED
    BY <1>e, <2>1, <2>2, <2>3, <2>4 DEF TypeOK
<1>h. /\ \A h \in G : InHands(h)' <=> (InHands(h) /\ h # d)
      /\ \A h \in G \ {g} : On(h)' = On(h)
      /\ \A h \in G : At(h, "parked")' <=> (At(h, "parked") /\ h # d)
      /\ \A h \in G : At(h, "ready")' <=> (At(h, "ready") /\ h # g)
      /\ InHands(d)
  <2>1. \A h \in G : h # g => deq[h] # d
    BY <1>0, SemaAssumption DEF Hands, TypeOK, d
  <2>2. InHands(d)
    BY DEF InHands, d
  <2>3. \A h \in G : InHands(h)' <=> (InHands(h) /\ h # d)
    BY <1>e, <2>1, SemaAssumption DEF InHands, TypeOK, d
  <2>4. \A h \in G \ {g} : On(h)' = On(h)
    BY <1>e DEF On, TypeOK
  <2>5. \A h \in G : /\ At(h, "parked")' <=> (At(h, "parked") /\ h # d)
                     /\ At(h, "ready")' <=> (At(h, "ready") /\ h # g)
    BY <1>e, <1>0 DEF At, TypeOK
  <2> QED
    BY <2>2, <2>3, <2>4, <2>5
<1>2. Frames' /\ LockHeld' /\ Tickets'
  <2>1. Frames'
    BY <1>e, <1>0 DEF TypeOK, Frames, On, At, NoFrame
  <2>2. LockHeld'
    BY <1>e, <1>0 DEF TypeOK, LockHeld, At
  <2>3. Tickets'
    BY <1>e, <1>0 DEF TypeOK, Tickets, At
  <2> QED
    BY <2>1, <2>2, <2>3
<1>3. Hands' /\ Queued' /\ Placed'
  <2>1. Hands'
    <3>1. \A h \in G : IF At(h, "ready")'
                       THEN deq'[h] \in G /\ spc'[deq'[h]] = "parked" /\ arg'[deq'[h]].addr = On(h)'
                       ELSE deq'[h] = None
      <4> SUFFICES ASSUME NEW h \in G
                   PROVE  IF At(h, "ready")'
                          THEN deq'[h] \in G /\ spc'[deq'[h]] = "parked" /\ arg'[deq'[h]].addr = On(h)'
                          ELSE deq'[h] = None
        OBVIOUS
      <4>1. CASE h = g
        BY <4>1, <1>e, <1>h DEF TypeOK
      <4>2. CASE h # g
        <5>1. deq'[h] = deq[h] /\ (At(h, "ready")' <=> At(h, "ready"))
          BY <4>2, <1>e, <1>h DEF TypeOK
        <5>2. CASE At(h, "ready")
          <6>1. deq[h] \in G /\ At(deq[h], "parked") /\ On(deq[h]) = On(h)
            BY <5>2 DEF Hands
          <6>2. deq[h] # d /\ deq[h] # g
            BY <6>1, <4>2, <1>0, SemaAssumption DEF Hands, At, d
          <6> QED
            BY <5>1, <5>2, <6>1, <6>2, <1>h, <4>2 DEF At, On
        <5>3. CASE ~At(h, "ready")
          BY <5>1, <5>3 DEF Hands
        <5> QED
          BY <5>2, <5>3
      <4> QED
        BY <4>1, <4>2
    <3>2. \A h, k \in G : deq'[h] = deq'[k] /\ h # k => deq'[h] = None
      BY <1>e DEF Hands, TypeOK
    <3> QED
      BY <3>1, <3>2 DEF Hands, At, On
  <2>2. Queued'
    <3> SUFFICES ASSUME NEW b \in Addr, NEW i \in 1..Len(queue[b])
                 PROVE  /\ spc'[queue[b][i]] = "parked" /\ arg'[queue[b][i]].addr = b
                        /\ \A h \in G : deq'[h] # queue[b][i]
                        /\ \A j \in 1..Len(queue[b]) : i # j => queue[b][i] # queue[b][j]
      <4>1. queue' = queue
        BY <1>e
      <4> QED
        BY <4>1 DEF Queued, At, On, InHands
    <3>1. queue[b][i] \in G
      BY ElementOfSeq DEF TypeOK
    <3>2. /\ At(queue[b][i], "parked") /\ On(queue[b][i]) = b /\ ~InHands(queue[b][i])
          /\ \A j \in 1..Len(queue[b]) : i # j => queue[b][i] # queue[b][j]
      BY DEF Queued
    <3>3. queue[b][i] # d /\ queue[b][i] # g
      BY <3>2, <1>h, <1>0 DEF At
    <3> QED
      BY <3>1, <3>2, <3>3, <1>h DEF At, On, InHands
  <2>3. Placed'
    BY <1>0, <1>e, <1>h DEF Placed, At
  <2> QED
    BY <2>1, <2>2, <2>3
<1>4. NwaitCounts'
  <2>1. Counted' = Counted
    BY <1>0, <1>e, <1>h DEF TypeOK, Counted, At
  <2> QED
    BY <2>1, <1>e DEF NwaitCounts
<1>5. NoLostWakeup'
  <2> SUFFICES ASSUME NEW b \in Addr, queue[b] # <<>>
               PROVE  sem'[b] <= Cardinality(Attending(b)')
    BY <1>e DEF NoLostWakeup
  <2>1. sem[b] <= Cardinality(Attending(b)) /\ sem[b] \in Nat
    BY DEF NoLostWakeup, TypeOK
  <2>2. CASE b # a
    <3>1. Attending(b)' = Attending(b)
      BY <2>2, <1>0, <1>e, <1>h DEF TypeOK, Attending, At, On, NoFrame, a
    <3>2. sem'[b] = sem[b]
      BY <2>2, <1>e DEF TypeOK, TakeUnit
    <3> QED
      BY <3>1, <3>2, <2>1
  <2>3. CASE b = a
    <3>0. g \in Attending(b) /\ d \notin Attending(b)
      BY <2>3, <1>0 DEF Attending, At, a
    <3>1. Cardinality(Attending(b) \ {g}) = Cardinality(Attending(b)) - 1 /\ Cardinality(Attending(b)) \in Nat \ {0}
      BY <3>0, CardDel DEF Attending
    <3>2. CASE TakeUnit(a) /\ CanSemacquire(a) /\ ticket' = ticket \cup {d}
      <4>1. Attending(b)' = Attending(b) \ {g}
        BY <3>2, <2>3, <1>0, <1>e DEF TypeOK, Attending, At, On, NoFrame, a
      <4>2. sem'[b] = sem[b] - 1
        BY <3>2, <2>3 DEF TypeOK, TakeUnit
      <4> QED
        BY <3>1, <4>1, <4>2, <2>1
    <3>3. CASE UNCHANGED <<sem, ticket>>
      <4>1. Attending(b)' = (Attending(b) \ {g}) \cup {d}
        BY <3>3, <2>3, <1>0, <1>e DEF TypeOK, Attending, At, On, NoFrame, a
      <4>2. Cardinality((Attending(b) \ {g}) \cup {d}) = Cardinality(Attending(b) \ {g}) + 1
        BY <3>0, <1>0, CardAdd DEF Attending
      <4> QED
        BY <3>1, <4>1, <4>2, <3>3, <2>1
    <3> QED
      BY <1>e, <3>2, <3>3
  <2> QED
    BY <2>2, <2>3
<1> QED
  BY <1>1, <1>2, <1>3, <1>4, <1>5

LEMMA NextKeeps == IInv /\ [Next]_vars => IInv'
<1> SUFFICES ASSUME IInv, [Next]_vars PROVE IInv'
  OBVIOUS
<1>1. ASSUME NEW g \in G, Acquire(g) PROVE IInv'
  BY <1>1, CallSemacquireKeeps DEF Acquire
<1>2. ASSUME NEW g \in G, Release(g) PROVE IInv'
  BY <1>2, CallSemreleaseKeeps DEF Release
<1>3. ASSUME NEW g \in G, Step(g) PROVE IInv'
  BY <1>3, AcquireEasyKeeps, AcquireLockKeeps, AcquireRecheckKeeps, AcquireUndoKeeps, AcquireWokenKeeps,
     ReturnSemacquireKeeps, ReleaseXaddKeeps, ReleaseLoadKeeps, DequeueKeeps, ReleaseReadyKeeps
     DEF Step, SemaStep
<1>4. CASE UNCHANGED vars
  <2>1. /\ Hands' /\ Queued' /\ Placed' /\ \A h \in G : InHands(h)' <=> InHands(h)
    BY <1>4, QueueKept DEF IInv, vars, At, On
  <2>2. TypeOK' /\ Frames' /\ LockHeld' /\ Tickets'
    BY <1>4 DEF IInv, Structure, vars, TypeOK, Frames, LockHeld, Tickets, At, On
  <2>3. Counted' = Counted /\ \A a \in Addr : Attending(a)' = Attending(a)
    BY <1>4, <2>1 DEF vars, Counted, Attending, At, On
  <2> QED
    BY <1>4, <2>1, <2>2, <2>3 DEF vars, IInv, Structure, NwaitCounts, NoLostWakeup
<1> QED
  BY <1>1, <1>2, <1>3, <1>4 DEF Next

----------------------------------------------------------------------------
(* A sudog in two places, or in none, would show in these numbers.         *)
LEMMA PlacesCounted ==
  ASSUME Structure, NEW g \in G
  PROVE  LET slots == UNION {{<<a, i>> : i \in {j \in DOMAIN queue[a] : queue[a][j] = g}} : a \in Addr}
             hands == {h \in G : deq[h] = g}
         IN  /\ Cardinality(slots) + Cardinality(hands) = IF spc[g] = "parked" THEN 1 ELSE 0
             /\ \A s \in slots : s[1] = On(g)
<1> DEFINE slots == UNION {{<<a, i>> : i \in {j \in DOMAIN queue[a] : queue[a][j] = g}} : a \in Addr}
           hands == {h \in G : deq[h] = g}
<1> USE DEF Structure
<1>1. \A s : s \in slots <=> \E a \in Addr : \E i \in 1..Len(queue[a]) : s = <<a, i>> /\ queue[a][i] = g
  BY LenProperties DEF TypeOK
<1> HIDE DEF slots
<1>2. \A s \in slots : \E i \in 1..Len(queue[On(g)]) :
        s = <<On(g), i>> /\ queue[On(g)][i] = g /\ At(g, "parked") /\ ~InHands(g)
  <2> SUFFICES ASSUME NEW s \in slots
               PROVE  \E i \in 1..Len(queue[On(g)]) :
                        s = <<On(g), i>> /\ queue[On(g)][i] = g /\ At(g, "parked") /\ ~InHands(g)
    OBVIOUS
  <2>1. PICK a \in Addr : \E i \in 1..Len(queue[a]) : s = <<a, i>> /\ queue[a][i] = g
    BY <1>1
  <2>2. PICK i \in 1..Len(queue[a]) : s = <<a, i>> /\ queue[a][i] = g
    BY <2>1
  <2>3. On(g) = a /\ At(g, "parked") /\ ~InHands(g)
    BY <2>2 DEF Queued
  <2> QED
    BY <2>2, <2>3
<1>3. \A s \in slots : s[1] = On(g)
  BY <1>2
<1>4. \A s, t \in slots : s = t
  <2> SUFFICES ASSUME NEW s \in slots, NEW t \in slots PROVE s = t
    OBVIOUS
  <2>1. PICK i \in 1..Len(queue[On(g)]) : s = <<On(g), i>> /\ queue[On(g)][i] = g /\ At(g, "parked")
    BY <1>2
  <2>2. PICK j \in 1..Len(queue[On(g)]) : t = <<On(g), j>> /\ queue[On(g)][j] = g
    BY <1>2
  <2>3. On(g) \in Addr
    BY <2>1 DEF Frames, At
  <2>4. i = j
    BY <2>1, <2>2, <2>3 DEF Queued
  <2> QED
    BY <2>1, <2>2, <2>4
<1>5. \A h, k \in hands : h = k
  BY SemaAssumption DEF Hands
<1>6. hands # {} <=> InHands(g)
  BY DEF InHands
<1> HIDE DEF hands
<1>7. InHands(g) => At(g, "parked")
  BY SemaAssumption DEF InHands, Hands
<1>8. \A S : (S # {} /\ \A x, y \in S : x = y) => Cardinality(S) = 1
  <2> SUFFICES ASSUME NEW S, S # {}, \A x, y \in S : x = y PROVE Cardinality(S) = 1
    OBVIOUS
  <2>1. PICK x \in S : S = {x}
    OBVIOUS
  <2> QED
    BY <2>1, FS_Singleton
<1>9. Cardinality({}) = 0
  BY FS_EmptySet
<1>10. Cardinality(slots) + Cardinality(hands) = IF spc[g] = "parked" THEN 1 ELSE 0
  <2>1. CASE InHands(g)
    <3>1. slots = {} /\ hands # {} /\ At(g, "parked")
      BY <2>1, <1>2, <1>6, <1>7
    <3>2. Cardinality(slots) = 0 /\ Cardinality(hands) = 1
      BY <3>1, <1>5, <1>8, <1>9
    <3> QED
      BY <3>1, <3>2 DEF At
  <2>2. CASE ~InHands(g) /\ At(g, "parked")
    <3>1. hands = {}
      BY <2>2, <1>6
    <3>2. PICK i \in 1..Len(queue[On(g)]) : queue[On(g)][i] = g
      BY <2>2 DEF Placed
    <3>3. On(g) \in Addr
      BY <2>2 DEF Frames, At
    <3>4. <<On(g), i>> \in slots
      BY <1>1, <3>2, <3>3
    <3>5. Cardinality(slots) = 1 /\ Cardinality(hands) = 0
      BY <3>1, <3>4, <1>4, <1>8, <1>9
    <3> QED
      BY <2>2, <3>5 DEF At
  <2>3. CASE ~At(g, "parked")
    <3>1. slots = {} /\ hands = {}
      BY <2>3, <1>2, <1>6, <1>7
    <3>2. Cardinality(slots) = 0 /\ Cardinality(hands) = 0
      BY <3>1, <1>9
    <3> QED
      BY <2>3, <3>2 DEF At
  <2> QED
    BY <2>1, <2>2, <2>3
<1> QED
  BY <1>3, <1>10 DEF slots, hands

LEMMA IInvIsExact == IInv => WakeupsAreExact
<1> SUFFICES ASSUME IInv PROVE WakeupsAreExact
  OBVIOUS
<1>1. Structure /\ NoLostWakeup /\ TypeOK
  BY DEF IInv, Structure
<1>2. OneWakeupPerSleep
  BY <1>1, PlacesCounted DEF OneWakeupPerSleep
<1> QED
  BY <1>1, <1>2 DEF WakeupsAreExact

(* What holds between any two steps of semacquire1 and semrelease1: who    *)
(* holds root.lock, what nwait counts, where every sudog is, and that no   *)
(* unit is left beside a sleeper unattended.                               *)
THEOREM Invariance == Spec => []IInv
BY InitIInv, NextKeeps, PTL DEF Spec

(* No wakeup is lost and none is given twice, for any number of goroutines *)
(* and addresses on a root (sema.go:12-15, 98-142, 144-182).               *)
THEOREM ExactWakeups == Spec => []WakeupsAreExact
BY Invariance, IInvIsExact, PTL

----------------------------------------------------------------------------
(* The promise of module Semaphore, step by step.                          *)

InTicket(a) == {g \in ticket : On(g) = a}
Cnt == [a \in Addr |-> sem[a] + Cardinality(InTicket(a))]
Wants == [g \in G |-> IF spc[g] \in Blocked THEN On(g) ELSE None]
Request(g, a) ==
  Wants[g] = None /\ Wants' = [Wants EXCEPT ![g] = a] /\ Cnt' = Cnt
Grant(g) ==
  /\ Wants[g] # None /\ Cnt[Wants[g]] > 0
  /\ Cnt' = [Cnt EXCEPT ![Wants[g]] = @ - 1]
  /\ Wants' = [Wants EXCEPT ![g] = None]
Give(g, a) ==
  Wants[g] = None /\ Cnt' = [Cnt EXCEPT ![a] = @ + 1] /\ Wants' = Wants

LEMMA PromiseSteps ==
  /\ \A g \in G : Grant(g) => Promise!Next
  /\ \A g \in G, a \in Addr : Request(g, a) \/ Give(g, a) => Promise!Next
  /\ Cnt' = Cnt /\ Wants' = Wants => UNCHANGED Promise!semVars
<1>1. ASSUME NEW g \in G, Grant(g) PROVE Promise!Grant(g)
  BY <1>1 DEF Promise!Grant, Grant, Cnt, InTicket, Wants
<1>2. ASSUME NEW g \in G, NEW a \in Addr, Request(g, a) PROVE Promise!Request(g, a)
  BY <1>2 DEF Promise!Request, Request, Cnt, InTicket, Wants
<1>3. ASSUME NEW g \in G, NEW a \in Addr, Give(g, a) PROVE Promise!Release(g, a)
  BY <1>3 DEF Promise!Release, Give, Cnt, InTicket, Wants
<1>4. Cnt' = Cnt /\ Wants' = Wants => UNCHANGED Promise!semVars
  BY DEF Promise!semVars, Cnt, InTicket, Wants
<1> QED
  BY <1>1, <1>2, <1>3, <1>4 DEF Promise!Next

LEMMA WantsType ==
  ASSUME Structure
  PROVE  /\ Cnt \in [Addr -> Nat]
         /\ \A g \in G : Wants[g] = IF spc[g] \in Blocked THEN On(g) ELSE None
         /\ \A g \in G : spc[g] \in Blocked => On(g) \in Addr /\ Wants[g] # None
<1>1. \A a \in Addr : Cardinality(InTicket(a)) \in Nat
  BY CardNat DEF Structure, TypeOK, InTicket
<1>2. Cnt \in [Addr -> Nat]
  BY <1>1 DEF Cnt, Structure, TypeOK
<1>3. \A g \in G : spc[g] \in Blocked => On(g) \in Addr
  BY DEF Structure, Frames, Blocked
<1> QED
  BY <1>2, <1>3, SemaAssumption DEF Wants

(* The count is what the addresses and the tickets add up to.              *)
LEMMA CountKept ==
  ASSUME Structure, sem' = sem, ticket' = ticket, \A g \in ticket : On(g)' = On(g)
  PROVE  Cnt' = Cnt
<1>1. \A a \in Addr : InTicket(a)' = InTicket(a)
  BY DEF InTicket
<1> QED
  BY <1>1 DEF Cnt

LEMMA CountMoved ==
  ASSUME Structure, NEW a \in Addr, NEW n \in Nat, sem' = [sem EXCEPT ![a] = n],
         ticket' = ticket, \A g \in ticket : On(g)' = On(g)
  PROVE  Cnt' = [Cnt EXCEPT ![a] = n + Cardinality(InTicket(a))]
<1>1. \A b \in Addr : InTicket(b)' = InTicket(b)
  BY DEF InTicket
<1>2. \A b \in Addr : sem'[b] = IF b = a THEN n ELSE sem[b]
  BY DEF Structure, TypeOK
<1>3. \A b \in Addr : Cnt'[b] = IF b = a THEN n + Cardinality(InTicket(a)) ELSE Cnt[b]
  BY <1>1, <1>2 DEF Cnt
<1>4. Cnt' = [b \in Addr |-> Cnt'[b]] /\ DOMAIN Cnt = Addr
  BY DEF Cnt
<1> HIDE DEF Cnt
<1> QED
  BY <1>3, <1>4

(* One goroutine moves between places that both block, or both do not.     *)
LEMMA WantsKept ==
  ASSUME Structure,
         \A g \in G : /\ (spc'[g] \in Blocked <=> spc[g] \in Blocked)
                      /\ spc[g] \in Blocked => On(g)' = On(g)
  PROVE  Wants' = Wants
BY DEF Wants

(* A unit taken from the count is a grant.                                 *)
LEMMA TakeIsGrant ==
  ASSUME Structure, NEW g \in G, spc[g] \in Blocked, CanSemacquire(On(g)), TakeUnit(On(g)),
         ticket' = ticket, arg' = arg, NEW b, b \notin Blocked, Goto(g, b)
  PROVE  Grant(g)
<1>1. Wants[g] = On(g) /\ On(g) \in Addr /\ Wants[g] # None
  BY WantsType
<1>2. sem[On(g)] \in Nat \ {0} /\ Cardinality(InTicket(On(g))) \in Nat
  BY <1>1, CardNat DEF CanSemacquire, Structure, TypeOK, InTicket
<1>3. Cnt[On(g)] = sem[On(g)] + Cardinality(InTicket(On(g)))
  BY <1>1 DEF Cnt
<1>4. Cnt' = [Cnt EXCEPT ![On(g)] = sem[On(g)] - 1 + Cardinality(InTicket(On(g)))]
  <2>1. sem' = [sem EXCEPT ![On(g)] = sem[On(g)] - 1]
    BY DEF TakeUnit
  <2>2. \A h \in ticket : On(h)' = On(h)
    BY DEF On
  <2>3. sem[On(g)] - 1 \in Nat
    BY <1>2
  <2> QED
    BY <1>1, <2>1, <2>2, <2>3, CountMoved
<1>5. Wants' = [Wants EXCEPT ![g] = None]
  BY DEF Wants, Goto, On, Structure, TypeOK
<1>6. Cnt[On(g)] > 0 /\ sem[On(g)] - 1 + Cardinality(InTicket(On(g))) = Cnt[On(g)] - 1
  BY <1>2, <1>3
<1> QED
  BY <1>1, <1>4, <1>5, <1>6 DEF Grant

LEMMA GrantSteps ==
  ASSUME IInv, NEW g \in G, AcquireEasy(g) \/ AcquireRecheck(g) \/ AcquireWoken(g)
  PROVE  Grant(g) \/ (Cnt' = Cnt /\ Wants' = Wants)
<1> USE DEF IInv
<1>0. Structure /\ spc[g] \in {"acquire", "recheck", "woken"} /\ spc[g] \in Blocked /\ arg' = arg
  BY DEF AcquireEasy, AcquireRecheck, AcquireWoken, At, Blocked
<1>1. ASSUME CanSemacquire(On(g)), TakeUnit(On(g)), ticket' = ticket, NEW b \in {"acquired", "undo"}, Goto(g, b)
      PROVE  Grant(g)
  <2>1. b \notin Blocked
    BY DEF Blocked
  <2> QED
    BY <1>0, <1>1, <2>1, TakeIsGrant
<1>2. ASSUME sem' = sem, ticket' = ticket, NEW b \in {"lock", "parked"}, Goto(g, b)
      PROVE  Cnt' = Cnt /\ Wants' = Wants
  <2>1. Cnt' = Cnt
    BY <1>0, <1>2, CountKept DEF On
  <2>2. Wants' = Wants
    BY <1>0, <1>2, WantsKept DEF On, Goto, Blocked, Structure, TypeOK
  <2> QED
    BY <2>1, <2>2
<1>3. CASE AcquireEasy(g)
  BY <1>1, <1>2, <1>3 DEF AcquireEasy
<1>4. CASE AcquireRecheck(g)
  BY <1>1, <1>2, <1>4 DEF AcquireRecheck
<1>5. CASE AcquireWoken(g)
  <2>1. CASE g \in ticket /\ ticket' = ticket \ {g} /\ Goto(g, "acquired") /\ sem' = sem
    <3>1. /\ Wants[g] = On(g) /\ On(g) \in Addr /\ Wants[g] # None /\ sem[On(g)] \in Nat
      BY <1>0, WantsType DEF Structure, TypeOK
    <3>2. \A a \in Addr : InTicket(a)' = IF a = On(g) THEN InTicket(a) \ {g} ELSE InTicket(a)
      BY <1>0, <2>1 DEF InTicket, On
    <3>3. /\ Cardinality(InTicket(On(g))) \in Nat \ {0}
          /\ Cardinality(InTicket(On(g)) \ {g}) = Cardinality(InTicket(On(g))) - 1
      BY <1>0, <2>1, CardDel DEF InTicket, Structure, TypeOK
    <3>4. \A a \in Addr : Cnt'[a] = sem[a] + Cardinality(InTicket(a)') /\ Cnt[a] = sem[a] + Cardinality(InTicket(a))
      BY <2>1 DEF Cnt
    <3>5. Cnt'[On(g)] = Cnt[On(g)] - 1 /\ Cnt[On(g)] > 0
      <4>0. PICK a \in Addr : a = On(g)
        BY <3>1
      <4>1. Cardinality(InTicket(a)') = Cardinality(InTicket(a)) - 1 /\ Cardinality(InTicket(a)) \in Nat \ {0}
        BY <4>0, <3>2, <3>3
      <4>2. Cnt'[a] = sem[a] + Cardinality(InTicket(a)') /\ Cnt[a] = sem[a] + Cardinality(InTicket(a))
        BY <3>4
      <4> QED
        BY <3>1, <4>0, <4>1, <4>2
    <3>6. \A a \in Addr : a # On(g) => Cnt'[a] = Cnt[a]
      BY <3>2, <3>4
    <3>7. Cnt' = [a \in Addr |-> Cnt'[a]] /\ Cnt = [a \in Addr |-> Cnt[a]]
      BY DEF Cnt
    <3>8. Cnt' = [Cnt EXCEPT ![On(g)] = @ - 1]
      BY <3>5, <3>6, <3>7
    <3>9. Wants' = [Wants EXCEPT ![g] = None]
      BY <1>0, <2>1 DEF Wants, Goto, On, Blocked, Structure, TypeOK
    <3> QED
      BY <3>1, <3>5, <3>8, <3>9 DEF Grant
  <2> QED
    BY <1>1, <1>2, <1>5, <2>1 DEF AcquireWoken
<1> QED
  BY <1>3, <1>4, <1>5

LEMMA QuietSteps ==
  ASSUME IInv, NEW g \in G,
         \/ AcquireLock(g) \/ AcquireUndo(g) \/ ReturnSemacquire(g)
         \/ ReleaseLoad(g) \/ ReleaseDequeue(g) \/ Release(g)
  PROVE  Cnt' = Cnt /\ Wants' = Wants
<1> USE DEF IInv
<1>0. /\ spc[g] \in Blocked <=> AcquireLock(g)
      /\ spc[g] # "woken"
      /\ \E b \in {"recheck", "acquired", "idle", "dequeue", "ready", "xadd"} :
           Goto(g, b) /\ (b = "recheck" <=> AcquireLock(g))
  BY DEF AcquireLock, AcquireUndo, ReturnSemacquire, ReleaseLoad, ReleaseDequeue, Release, CallSemrelease,
         Return, At, Blocked
<1>1. sem' = sem /\ ticket' = ticket /\ \A h \in G \ {g} : On(h)' = On(h)
  BY DEF AcquireLock, AcquireUndo, ReturnSemacquire, ReleaseLoad, ReleaseDequeue, Release, CallSemrelease,
         Return, On, rootVars, Structure, TypeOK
<1>2. AcquireLock(g) => On(g)' = On(g)
  BY DEF AcquireLock, On
<1>3. g \notin ticket
  BY <1>0 DEF Structure, Tickets, At
<1>4. Cnt' = Cnt
  BY <1>1, <1>3, CountKept DEF Structure, TypeOK
<1>5. Wants' = Wants
  BY <1>0, <1>1, <1>2, WantsKept DEF Goto, Blocked, Structure, TypeOK
<1> QED
  BY <1>4, <1>5

LEMMA RequestStep ==
  ASSUME IInv, NEW g \in G, NEW a \in Addr, NEW lifo \in BOOLEAN, CallSemacquire(g, a, lifo)
  PROVE  Request(g, a)
<1> USE DEF IInv
<1>1. g \notin ticket /\ spc[g] = "idle"
  BY DEF CallSemacquire, Structure, Tickets, At
<1>2. Cnt' = Cnt
  BY <1>1, CountKept DEF CallSemacquire, On, rootVars, Structure, TypeOK
<1>3. Wants' = [Wants EXCEPT ![g] = a] /\ Wants[g] = None
  BY <1>1 DEF CallSemacquire, Wants, Goto, On, Blocked, Structure, TypeOK
<1> QED
  BY <1>2, <1>3 DEF Request

LEMMA GiveStep ==
  ASSUME IInv, NEW g \in G, ReleaseXadd(g) PROVE Give(g, On(g)) /\ On(g) \in Addr
<1> USE DEF IInv
<1>1. On(g) \in Addr /\ spc[g] = "xadd"
  BY DEF ReleaseXadd, Structure, Frames, At
<1>2. sem[On(g)] \in Nat /\ Cardinality(InTicket(On(g))) \in Nat
  BY <1>1, CardNat DEF Structure, TypeOK, InTicket
<1>3. Cnt' = [Cnt EXCEPT ![On(g)] = sem[On(g)] + 1 + Cardinality(InTicket(On(g)))]
  <2>1. sem' = [sem EXCEPT ![On(g)] = sem[On(g)] + 1] /\ sem[On(g)] + 1 \in Nat /\ ticket' = ticket
        /\ \A h \in ticket : On(h)' = On(h)
    BY <1>2 DEF ReleaseXadd, On
  <2> QED
    BY <1>1, <2>1, CountMoved
<1>4. Cnt[On(g)] = sem[On(g)] + Cardinality(InTicket(On(g)))
  BY <1>1 DEF Cnt
<1>5. sem[On(g)] + 1 + Cardinality(InTicket(On(g))) = Cnt[On(g)] + 1
  BY <1>2, <1>4
<1>6. Wants' = Wants /\ Wants[g] = None
  BY <1>1 DEF ReleaseXadd, Wants, Goto, On, Blocked, Structure, TypeOK
<1> QED
  BY <1>1, <1>3, <1>5, <1>6 DEF Give

(* A handoff moves a unit from the count to the sleeper's ticket: the sum  *)
(* stays.                                                                  *)
LEMMA ReadyStep ==
  ASSUME IInv, NEW g \in G, ReleaseReady(g) PROVE Cnt' = Cnt /\ Wants' = Wants
<1> USE DEF IInv
<1>a. PICK a \in Addr : a = On(g)
  BY DEF ReleaseReady, Structure, Frames, At
<1>b. PICK d \in G : d = deq[g]
  BY DEF ReleaseReady, Structure, Hands, At
<1>0. /\ At(g, "ready") /\ At(d, "parked") /\ On(d) = a /\ d # g
      /\ d \notin ticket /\ g \notin ticket
  BY <1>a, <1>b DEF ReleaseReady, Structure, Frames, Hands, Tickets, At
<1>e. /\ spc' = [spc EXCEPT ![g] = "idle", ![d] = "woken"]
      /\ arg' = [arg EXCEPT ![g] = NoFrame]
      /\ \/ TakeUnit(a) /\ CanSemacquire(a) /\ ticket' = ticket \cup {d}
         \/ UNCHANGED <<sem, ticket>>
  BY <1>a, <1>b DEF ReleaseReady
<1>o. \A h \in G \ {g} : On(h)' = On(h)
  BY <1>e DEF On, Structure, TypeOK
<1>1. Wants' = Wants
  BY <1>0, <1>e, <1>o, WantsKept DEF At, Blocked, Structure, TypeOK
<1>2. CASE UNCHANGED <<sem, ticket>>
  BY <1>0, <1>1, <1>2, <1>o, CountKept DEF Structure, TypeOK
<1>3. CASE TakeUnit(a) /\ CanSemacquire(a) /\ ticket' = ticket \cup {d}
  <2>1. \A b \in Addr : InTicket(b)' = IF b = a THEN InTicket(b) \cup {d} ELSE InTicket(b)
    BY <1>0, <1>3, <1>o DEF InTicket, Structure, TypeOK
  <2>2. /\ Cardinality(InTicket(a)) \in Nat
        /\ Cardinality(InTicket(a) \cup {d}) = Cardinality(InTicket(a)) + 1
    BY <1>0, CardAdd DEF InTicket, Structure, TypeOK
  <2>3. \A b \in Addr : Cnt'[b] = sem'[b] + Cardinality(InTicket(b)') /\ Cnt[b] = sem[b] + Cardinality(InTicket(b))
    BY DEF Cnt
  <2>4. sem'[a] = sem[a] - 1 /\ sem[a] \in Nat /\ \A b \in Addr : b # a => sem'[b] = sem[b]
    BY <1>0, <1>3 DEF TakeUnit, Structure, TypeOK
  <2>5. Cnt'[a] = Cnt[a]
    <3>1. Cardinality(InTicket(a)') = Cardinality(InTicket(a)) + 1
      BY <1>0, <2>1, <2>2
    <3>2. Cnt'[a] = sem'[a] + Cardinality(InTicket(a)') /\ Cnt[a] = sem[a] + Cardinality(InTicket(a))
      BY <1>0, <2>3
    <3> QED
      BY <2>2, <2>4, <3>1, <3>2
  <2>6. \A b \in Addr : b # a => Cnt'[b] = Cnt[b]
    BY <2>1, <2>3, <2>4
  <2>7. Cnt' = [b \in Addr |-> Cnt'[b]] /\ Cnt = [b \in Addr |-> Cnt[b]]
    BY DEF Cnt
  <2> QED
    BY <1>1, <2>5, <2>6, <2>7
<1> QED
  BY <1>e, <1>2, <1>3

LEMMA NextIsPromised == IInv /\ [Next]_vars => [Promise!Next]_Promise!semVars
<1> SUFFICES ASSUME IInv, [Next]_vars PROVE [Promise!Next]_Promise!semVars
  OBVIOUS
<1>1. ASSUME NEW g \in G, Acquire(g) PROVE Promise!Next
  BY <1>1, RequestStep, PromiseSteps DEF Acquire
<1>2. ASSUME NEW g \in G, Release(g) \/ Step(g) PROVE [Promise!Next]_Promise!semVars
  <2>1. CASE AcquireEasy(g) \/ AcquireRecheck(g) \/ AcquireWoken(g)
    BY <2>1, GrantSteps, PromiseSteps
  <2>2. CASE \/ AcquireLock(g) \/ AcquireUndo(g) \/ ReturnSemacquire(g)
             \/ ReleaseLoad(g) \/ ReleaseDequeue(g) \/ Release(g)
    BY <2>2, QuietSteps, PromiseSteps
  <2>3. CASE ReleaseXadd(g)
    BY <2>3, GiveStep, PromiseSteps
  <2>4. CASE ReleaseReady(g)
    BY <2>4, ReadyStep, PromiseSteps
  <2> QED
    BY <1>2, <2>1, <2>2, <2>3, <2>4 DEF Step, SemaStep
<1>3. CASE UNCHANGED vars
  <2>1. Cnt' = Cnt /\ Wants' = Wants
    BY <1>3 DEF vars, Cnt, Wants, InTicket, On
  <2> QED
    BY <2>1, PromiseSteps
<1> QED
  BY <1>1, <1>2, <1>3 DEF Next

LEMMA InitIsPromised == Init => Promise!Init
<1> SUFFICES ASSUME Init PROVE Promise!Init
  OBVIOUS
<1>1. \A a \in Addr : Cardinality({g \in ticket : On(g) = a}) = 0
  BY FS_EmptySet DEF Init
<1>2. [a \in Addr |-> sem[a] + Cardinality({g \in ticket : On(g) = a})] = [a \in Addr |-> 0]
  BY <1>1 DEF Init
<1>3. [g \in G |-> IF spc[g] \in Blocked THEN On(g) ELSE None] = [g \in G |-> None]
  BY DEF Init, Blocked
<1> QED
  BY <1>2, <1>3 DEF Promise!Init

(* semacquire1 and semrelease1 keep the promise package sync relies on     *)
(* (sync/runtime.go:11-25): units are conserved, Semacquire returns with   *)
(* exactly one, whether it came from the count or by ticket.               *)
THEOREM KeepsPromise == Spec => ImplementsSemaphore
BY InitIsPromised, NextIsPromised, Invariance, PTL DEF Spec, ImplementsSemaphore, Promise!Spec
=============================================================================
