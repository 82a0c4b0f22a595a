---------------------------- MODULE SyncProofs -----------------------------
(***************************************************************************)
(* Proofs about modules Mutex, RWMutex and WaitGroup, for any finite set   *)
(* of goroutines, any bound on spinning, any MaxReaders above the number   *)
(* of goroutines and any bounds on the deltas and the counter.             *)
(***************************************************************************)
EXTENDS Mutex, RWMutex, WaitGroup, FiniteSetTheorems, TLAPS

----------------------------------------------------------------------------
(* Mutex.                                                                  *)

LEMMA InitIInv == Init => IInv
<1> SUFFICES ASSUME Init PROVE IInv
  OBVIOUS
<1> USE DEF Init
<1>1. TypeOK
  BY MutexAssumption DEF TypeOK, Zero, Word, PC
<1>2. MutualExclusion /\ NoThrow
  BY DEF MutualExclusion, NoThrow
<1>3. \A g \in G : ~Carrier(g) /\ ~At(g, "cs") /\ ~At(g, "acquire")
  BY DEF Carrier, Contender, At
<1>4. Sleepers = {} /\ Cardinality(Sleepers) = 0
  BY FS_EmptySet DEF Sleepers
<1>5. ~NormalUnit
  BY DEF NormalUnit
<1>6. WaitersCounted
  BY <1>4, <1>5 DEF WaitersCounted, Zero
<1>7. LockedByHolder /\ OneBaton /\ WokenIsBaton /\ HandoffIsBaton /\ Modes
  BY <1>3, <1>5 DEF LockedByHolder, OneBaton, WokenIsBaton, HandoffIsBaton, Modes, Zero, Carrier, At
<1>8. Locals /\ FreeWordIsWatched
  BY DEF Locals, FreeWordIsWatched, Zero, At, Contender
<1> QED
  BY <1>1, <1>2, <1>6, <1>7, <1>8 DEF IInv

LEMMA DesiredType == ASSUME TypeOK, NEW g \in G PROVE Desired(g) \in Word
<1> DEFINE bits == Desired(g).bits
<1>1. old[g] \in Word
  BY DEF TypeOK
<1>2. old[g].bits \subseteq Bits /\ old[g].waiters \in Nat
  BY <1>1 DEF Word
<1> QED
  BY <1>2 DEF Desired, Word, Bits

LEMMA WordFields ==
  ASSUME NEW z \in Word
  PROVE  /\ z.bits \subseteq Bits /\ z.waiters \in Nat
         /\ z = [bits |-> z.bits, waiters |-> z.waiters]
BY DEF Word

(* Each action of a goroutine keeps the types.  TakeHandoff and UnlockWake *)
(* count a waiter out, so this needs the invariant and not the types only. *)
LEMMA TypeStep == IInv /\ [Next]_vars => TypeOK'
<1> SUFFICES ASSUME IInv, [Next]_vars PROVE TypeOK'
  OBVIOUS
<1>t. TypeOK
  BY DEF IInv
<1>0. /\ state.bits \subseteq Bits /\ state.waiters \in Nat
      /\ state = [bits |-> state.bits, waiters |-> state.waiters]
  BY <1>t, WordFields DEF TypeOK
<1>00. Zero \in Word
  BY DEF Zero, Word
<1> USE <1>t, MutexAssumption DEF TypeOK, PC, LockPC, UnlockPC, At, Goto, locals
<1>1. ASSUME NEW g \in G, LockFast(g) PROVE TypeOK'
  BY <1>1 DEF LockFast, Word, Bits
<1>2. ASSUME NEW g \in G, LockStep(g) PROVE TypeOK'
  <2>1. CASE Reload(g)
    BY <2>1 DEF Reload, Read
  <2>2. CASE SpinRound(g)
    <3>1. iter' \in [G -> 0..MaxSpin]
      BY <2>2 DEF SpinRound, MaySpin
    <3>2. state' \in Word /\ awoke' \subseteq G
      BY <2>2, <1>0 DEF SpinRound, Word, Bits
    <3> QED
      BY <2>2, <3>1, <3>2 DEF SpinRound
  <2>4. CASE LockSwap(g)
    BY <2>4, <1>00, DesiredType DEF LockSwap, Leave
  <2>5. CASE SemAcquire(g)
    BY <2>5 DEF SemAcquire
  <2>6. CASE Awake(g)
    <3>1. hungry' \subseteq G
      BY <2>6 DEF Awake
    <3> QED
      BY <2>6, <3>1 DEF Awake, Read
  <2>7. CASE TakeHandoff(g)
    <3>0. state.waiters >= 1
      BY <2>7, <1>0 DEF TakeHandoff, IInv, Locals
    <3>1. state' \in Word
      BY <2>7, <1>0, <3>0 DEF TakeHandoff, Word, Bits
    <3> QED
      BY <2>7, <3>1, <1>00 DEF TakeHandoff, Leave
  <2> QED
    BY <1>2, <2>1, <2>2, <2>4, <2>5, <2>6, <2>7 DEF LockStep
<1>3. ASSUME NEW g \in G, UnlockDrop(g) PROVE TypeOK'
  <2>1. state' \in Word
    BY <1>3, <1>0 DEF UnlockDrop, Word, Bits
  <2> QED
    BY <1>3, <2>1 DEF UnlockDrop
<1>4. ASSUME NEW g \in G, UnlockStep(g) PROVE TypeOK'
  <2>1. CASE UnlockWake(g)
    <3>0. state = old[g] /\ ~NobodyToWake(old[g]) => state.waiters >= 1
      BY <1>0 DEF NobodyToWake
    <3>1. state' \in Word
      BY <2>1, <1>0, <3>0 DEF UnlockWake, Word, Bits
    <3> QED
      BY <2>1, <3>1, <1>00 DEF UnlockWake, Leave
  <2>2. CASE UnlockReload(g)
    BY <2>2 DEF UnlockReload, Read
  <2>3. CASE SemRelease(g)
    BY <2>3, <1>00 DEF SemRelease, Leave
  <2> QED
    BY <1>4, <2>1, <2>2, <2>3 DEF UnlockStep
<1>5. CASE UNCHANGED vars
  BY <1>5 DEF vars
<1> QED
  BY <1>1, <1>2, <1>3, <1>4, <1>5 DEF Next

----------------------------------------------------------------------------
(* Counting the sleepers.                                                  *)

LEMMA SleepersFinite == IsFiniteSet(Sleepers) /\ Cardinality(Sleepers) \in Nat
BY MutexAssumption, FS_Subset, FS_CardinalityType DEF Sleepers

LEMMA SleeperMore ==
  ASSUME NEW g \in G, g \notin Sleepers, Sleepers' = Sleepers \cup {g}
  PROVE  Cardinality(Sleepers') = Cardinality(Sleepers) + 1
BY SleepersFinite, FS_AddElement

LEMMA SleeperLess ==
  ASSUME NEW g \in Sleepers, Sleepers' = Sleepers \ {g}
  PROVE  Cardinality(Sleepers') = Cardinality(Sleepers) - 1
BY SleepersFinite, FS_RemoveElement

LEMMA SleeperSome ==
  ASSUME NEW g \in Sleepers PROVE Cardinality(Sleepers) >= 1
<1>1. Cardinality(Sleepers) # 0
  BY SleepersFinite, FS_EmptySet
<1> QED
  BY <1>1, SleepersFinite

----------------------------------------------------------------------------
(* Each action keeps the invariant.                                        *)

LEMMA LockFastKeeps ==
  ASSUME IInv, TypeOK', NEW g \in G, LockFast(g) PROVE IInv'
<1> USE DEF IInv, TypeOK, LockFast, At, Goto, locals
<1>1. MutualExclusion' /\ NoThrow' /\ LockedByHolder'
  BY DEF MutualExclusion, NoThrow, LockedByHolder, Zero
<1>2. OneBaton'
  BY DEF OneBaton, Carrier, Contender
<1>3. WokenIsBaton' /\ NormalUnit' = NormalUnit
  BY DEF WokenIsBaton, NormalUnit, Contender, Zero
<1>4. HandoffIsBaton' /\ Modes'
  BY DEF HandoffIsBaton, Modes, Zero
<1>5. WaitersCounted'
  <2>1. Sleepers' = Sleepers
    BY DEF Sleepers
  <2> QED
    BY <1>3, <2>1 DEF WaitersCounted, Zero
<1>6. Locals'
  BY DEF Locals, Contender, HandoffIsBaton, Zero
<1>7. FreeWordIsWatched'
  BY DEF FreeWordIsWatched, WillLook, Zero
<1> QED
  BY <1>1, <1>2, <1>3, <1>4, <1>5, <1>6, <1>7

LEMMA ReloadKeeps ==
  ASSUME IInv, TypeOK', NEW g \in G, Reload(g) PROVE IInv'
<1> USE DEF IInv, TypeOK, Reload, Read, At, Goto, locals
<1>1. MutualExclusion' /\ NoThrow' /\ LockedByHolder'
  BY DEF MutualExclusion, NoThrow, LockedByHolder
<1>2. \A h \in G : Contender(h)' <=> Contender(h)
  BY DEF Contender, Locals
<1>3. OneBaton'
  BY <1>2 DEF OneBaton, Carrier
<1>4. NormalUnit' = NormalUnit
  BY DEF NormalUnit
<1>5. WokenIsBaton' /\ HandoffIsBaton' /\ Modes'
  BY <1>2, <1>4 DEF WokenIsBaton, HandoffIsBaton, Modes
<1>6. WaitersCounted'
  <2>1. Sleepers' = Sleepers
    BY DEF Sleepers
  <2> QED
    BY <1>4, <2>1 DEF WaitersCounted
<1>7. Locals'
  BY DEF Locals, WokenIsBaton, Contender
<1>8. FreeWordIsWatched'
  BY DEF FreeWordIsWatched, WillLook
<1> QED
  BY <1>1, <1>3, <1>5, <1>6, <1>7, <1>8

LEMMA SpinRoundKeeps ==
  ASSUME IInv, TypeOK', NEW g \in G, SpinRound(g) PROVE IInv'
<1> USE DEF IInv, TypeOK, SpinRound, At, Goto, locals
<1>1. MutualExclusion' /\ NoThrow' /\ \A h \in G : At(h, "cs")' <=> At(h, "cs")
  BY DEF MutualExclusion, NoThrow
<1>2. CASE state' = state /\ awoke' = awoke
  <2>2. \A h \in G : Contender(h)' <=> Contender(h)
    BY <1>2 DEF Contender
  <2>3. OneBaton' /\ LockedByHolder'
    BY <1>1, <1>2, <2>2 DEF OneBaton, Carrier, LockedByHolder
  <2>4. NormalUnit' = NormalUnit
    BY <1>2 DEF NormalUnit
  <2>5. WokenIsBaton' /\ HandoffIsBaton' /\ Modes'
    BY <1>2, <2>2, <2>4 DEF WokenIsBaton, HandoffIsBaton, Modes
  <2>6. Sleepers' = Sleepers
    BY DEF Sleepers
  <2>7. WaitersCounted'
    BY <1>2, <2>4, <2>6 DEF WaitersCounted
  <2>8. Locals'
    BY <1>2 DEF Locals, Contender
  <2>9. FreeWordIsWatched'
    BY <1>2 DEF FreeWordIsWatched, WillLook
  <2> QED
    BY <1>1, <2>3, <2>5, <2>7, <2>8, <2>9
<1>3. CASE /\ g \notin awoke /\ "woken" \notin state.bits
           /\ "locked" \in state.bits /\ "starving" \notin state.bits
           /\ state' = [state EXCEPT !.bits = @ \cup {"woken"}]
           /\ awoke' = awoke \cup {g}
  <2>0. /\ state'.bits = state.bits \cup {"woken"}
        /\ state'.waiters = state.waiters
    BY <1>3, WordFields
  <2>1. LockedByHolder'
    BY <2>0, <1>1 DEF LockedByHolder
  <2>2. ~NormalUnit /\ ~NormalUnit' /\ sema = 0 /\ \A h \in G : ~Carrier(h)
    BY <1>3, <2>0 DEF WokenIsBaton, NormalUnit, HandoffIsBaton, Carrier, OneBaton
  <2>3. \A h \in G : Carrier(h)' <=> h = g
    BY <1>3, <2>2 DEF Carrier, Contender
  <2>4. OneBaton'
    BY <2>2, <2>3 DEF OneBaton
  <2>5. WokenIsBaton'
    BY <1>3, <2>0 DEF WokenIsBaton, Contender
  <2>6. HandoffIsBaton' /\ Modes'
    BY <1>3, <2>0 DEF HandoffIsBaton, Modes
  <2>7. Sleepers' = Sleepers
    BY DEF Sleepers
  <2>8. WaitersCounted'
    BY <2>0, <2>2, <2>7 DEF WaitersCounted
  <2>9. Locals'
    BY <1>3, <2>0, <2>2 DEF Locals, Contender, Carrier
  <2>10. FreeWordIsWatched'
    BY <1>3, <2>0 DEF FreeWordIsWatched, WillLook
  <2> QED
    BY <1>1, <2>1, <2>4, <2>5, <2>6, <2>8, <2>9, <2>10
<1> QED
  BY <1>2, <1>3 DEF MaySpin

LEMMA LockSwapKeeps ==
  ASSUME IInv, TypeOK', NEW g \in G, LockSwap(g) PROVE IInv'
<1> USE DEF IInv, TypeOK, LockSwap, At, Goto, locals
<1>0. At(g, "loop") /\ (g \in awoke => "woken" \in old[g].bits /\ Contender(g))
  BY DEF Locals, Contender
<1>01. g \in awoke => \A h \in G : Carrier(h) <=> h = g
  BY <1>0 DEF OneBaton, Carrier
<1>02. g \in awoke => ~NormalUnit /\ sema = 0
  BY <1>0, <1>01 DEF OneBaton, NormalUnit, Carrier, Contender
<1>1. CASE Free(old[g]) /\ state = old[g] /\ state' = Desired(g) /\ Leave(g, "cs")
  <2>1. /\ state'.bits = (state.bits \cup {"locked"}) \ (IF g \in awoke THEN {"woken"} ELSE {})
        /\ state'.waiters = state.waiters
    BY <1>1 DEF Desired, Free
  <2>2. /\ "locked" \notin state.bits /\ "starving" \notin state.bits
        /\ "locked" \in state'.bits /\ "starving" \notin state'.bits
        /\ sema' = sema
    BY <1>1, <2>1 DEF Free
  <2>3. \A h \in G : Contender(h)' <=> Contender(h) /\ h # g
    BY <1>1 DEF Contender, Leave
  <2>4. MutualExclusion' /\ NoThrow' /\ LockedByHolder'
    BY <1>1, <2>2 DEF MutualExclusion, NoThrow, LockedByHolder, Leave
  <2>5. OneBaton'
    BY <1>1, <2>3 DEF OneBaton, Carrier, Leave
  <2>6. NormalUnit' = NormalUnit
    BY <1>1, <2>2 DEF NormalUnit, Leave
  <2>7. WokenIsBaton'
    <3>1. CASE g \in awoke
      BY <3>1, <1>01, <1>02, <2>1, <2>3, <2>6 DEF WokenIsBaton, Carrier
    <3>2. CASE g \notin awoke
      BY <3>2, <2>1, <2>3, <2>6 DEF WokenIsBaton, Contender
    <3> QED
      BY <3>1, <3>2
  <2>8. HandoffIsBaton' /\ Modes'
    BY <1>1, <2>2 DEF HandoffIsBaton, Modes, Leave
  <2>9. WaitersCounted'
    <3>1. Sleepers' = Sleepers
      BY <1>1 DEF Sleepers, Leave
    <3> QED
      BY <2>1, <2>6, <3>1 DEF WaitersCounted
  <2>10. Locals'
    BY <1>1, <2>2, <2>3 DEF Locals, Leave, HandoffIsBaton
  <2>11. FreeWordIsWatched'
    BY <2>2 DEF FreeWordIsWatched
  <2> QED
    BY <2>4, <2>5, <2>7, <2>8, <2>9, <2>10, <2>11
<1>2. CASE /\ ~Free(old[g]) /\ state = old[g] /\ state' = Desired(g)
           /\ Goto(g, "acquire") /\ UNCHANGED <<old, awoke, hungry>>
  <2>1. /\ state'.bits = (state.bits \cup
             (IF g \in hungry /\ "locked" \in state.bits THEN {"starving"} ELSE {}))
             \ (IF g \in awoke THEN {"woken"} ELSE {})
        /\ state'.waiters = state.waiters + 1
    BY <1>2 DEF Desired, Free
  <2>2. sema' = sema /\ ("locked" \in state'.bits <=> "locked" \in state.bits)
    BY <2>1
  <2>3. g \in hungry => g \in awoke
    BY <1>0 DEF Locals
  <2>4. \A h \in G : Contender(h)' <=> Contender(h) /\ h # g
    BY <1>2 DEF Contender
  <2>5. MutualExclusion' /\ NoThrow' /\ LockedByHolder'
    BY <1>2, <2>2 DEF MutualExclusion, NoThrow, LockedByHolder
  <2>6. OneBaton'
    BY <1>2, <2>4 DEF OneBaton, Carrier
  <2>7. ASSUME g \in awoke
        PROVE WokenIsBaton' /\ HandoffIsBaton' /\ Modes' /\ (NormalUnit' <=> NormalUnit)
    <3>1. "starving" \notin state.bits /\ "woken" \in state.bits /\ "locked" \in state.bits
      BY <1>0, <1>2, <2>7 DEF Modes, Free
    <3>2. "woken" \notin state'.bits /\ \A h \in G : ~Carrier(h)'
      BY <1>01, <1>2, <2>1, <2>4, <2>7 DEF Carrier
    <3>3. ~NormalUnit' /\ ~NormalUnit
      BY <1>02, <2>2, <2>7, <3>2 DEF NormalUnit, Carrier
    <3>4. WokenIsBaton' /\ HandoffIsBaton' /\ Modes'
      BY <1>02, <2>2, <2>7, <3>1, <3>2, <3>3
      DEF WokenIsBaton, HandoffIsBaton, Modes, Carrier
    <3> QED
      BY <3>3, <3>4
  <2>8. ASSUME g \notin awoke
        PROVE WokenIsBaton' /\ HandoffIsBaton' /\ Modes' /\ (NormalUnit' <=> NormalUnit)
    <3>1. state'.bits = state.bits
      BY <2>1, <2>3, <2>8
    <3>2. NormalUnit' = NormalUnit
      BY <1>2, <3>1 DEF NormalUnit
    <3>3. WokenIsBaton' /\ HandoffIsBaton' /\ Modes'
      BY <1>2, <2>4, <2>8, <3>1, <3>2 DEF WokenIsBaton, HandoffIsBaton, Modes, Contender
    <3> QED
      BY <3>2, <3>3
  <2>9. WaitersCounted'
    <3>1. g \notin Sleepers /\ Sleepers' = Sleepers \cup {g}
      BY <1>0, <1>2 DEF Sleepers
    <3>2. Cardinality(Sleepers') = Cardinality(Sleepers) + 1
      BY <3>1, SleeperMore
    <3>3. state.waiters \in Nat
      BY WordFields
    <3> QED
      BY <2>1, <2>7, <2>8, <3>2, <3>3, SleepersFinite DEF WaitersCounted
  <2>10. Locals'
    <3>1. state.waiters \in Nat
      BY WordFields
    <3> QED
      BY <1>2, <2>1, <2>4, <3>1, WordFields DEF Locals
  <2>11. FreeWordIsWatched'
    BY <1>2, <2>1 DEF FreeWordIsWatched, Free
  <2> QED
    BY <2>5, <2>6, <2>7, <2>8, <2>9, <2>10, <2>11
<1>3. CASE Goto(g, "reload") /\ UNCHANGED <<state, locals>>
  <2>1. \A h \in G : Contender(h)' <=> Contender(h)
    BY <1>0, <1>3 DEF Contender
  <2>2. MutualExclusion' /\ NoThrow' /\ LockedByHolder' /\ OneBaton'
    BY <1>3, <2>1 DEF MutualExclusion, NoThrow, LockedByHolder, OneBaton, Carrier
  <2>3. NormalUnit' = NormalUnit /\ Sleepers' = Sleepers
    BY <1>0, <1>3 DEF NormalUnit, Sleepers
  <2>4. WokenIsBaton' /\ HandoffIsBaton' /\ Modes' /\ WaitersCounted'
    BY <1>3, <2>1, <2>3 DEF WokenIsBaton, HandoffIsBaton, Modes, WaitersCounted
  <2>5. Locals' /\ FreeWordIsWatched'
    BY <1>0, <1>3 DEF Locals, Contender, FreeWordIsWatched, WillLook
  <2> QED
    BY <2>2, <2>4, <2>5
<1> QED
  BY <1>0, <1>1, <1>2, <1>3

LEMMA SemAcquireKeeps ==
  ASSUME IInv, TypeOK', NEW g \in G, SemAcquire(g) PROVE IInv'
<1> USE DEF IInv, TypeOK, SemAcquire, At, Goto, locals
<1>1. sema = 1 /\ sema' = 0 /\ \A h \in G : ~Carrier(h)
  BY DEF OneBaton
<1>2. \A h \in G : (Contender(h)' <=> Contender(h)) /\ (Carrier(h)' <=> h = g)
  BY <1>1 DEF Contender, Carrier
<1>3. MutualExclusion' /\ NoThrow' /\ LockedByHolder' /\ OneBaton'
  BY <1>1, <1>2 DEF MutualExclusion, NoThrow, LockedByHolder, OneBaton
<1>4. (NormalUnit' <=> NormalUnit) /\ Sleepers' = Sleepers
  BY <1>1 DEF NormalUnit, Sleepers
<1>5. WokenIsBaton' /\ HandoffIsBaton' /\ Modes' /\ WaitersCounted'
  BY <1>1, <1>2, <1>4 DEF WokenIsBaton, HandoffIsBaton, Modes, WaitersCounted
<1>6. Locals' /\ FreeWordIsWatched'
  BY <1>2 DEF Locals, FreeWordIsWatched, WillLook
<1> QED
  BY <1>3, <1>5, <1>6

LEMMA AwakeKeeps ==
  ASSUME IInv, TypeOK', NEW g \in G, Awake(g) PROVE IInv'
<1> USE DEF IInv, TypeOK, Awake, Read, At, Goto, locals
<1>1. sema = 0 /\ sema' = 0 /\ state' = state /\ \A h \in G : Carrier(h) <=> h = g
  BY DEF OneBaton, Carrier
<1>2. g \in Sleepers /\ state.waiters \in Nat /\ state.bits \subseteq Bits
  BY WordFields DEF Sleepers
<1>3. MutualExclusion' /\ LockedByHolder'
  BY <1>1 DEF MutualExclusion, LockedByHolder
<1>4. \A h \in G : Carrier(h)' => h = g
  BY <1>1 DEF Carrier, Contender
<1>5. OneBaton'
  BY <1>1, <1>4 DEF OneBaton
<1>6. CASE "starving" \in state.bits
  <2>1. state.bits = {"starving"} /\ ~NormalUnit
    BY <1>2, <1>6 DEF HandoffIsBaton, Modes, NormalUnit, Bits
  <2>2. state.waiters >= 1
    BY <1>2, <2>1, SleeperSome, SleepersFinite DEF WaitersCounted
  <2>3. Goto(g, "handoff") /\ awoke' = awoke /\ old'[g] = state
    BY <1>6, <2>1, <2>2
  <2>4. ~NormalUnit' /\ Sleepers' = Sleepers /\ NoThrow'
    BY <1>1, <1>6, <2>3 DEF NormalUnit, Sleepers, NoThrow
  <2>5. \A h \in G : ~Contender(h) /\ ~Contender(h)'
    BY <1>1, <1>4, <2>3 DEF Carrier, Contender
  <2>6. WokenIsBaton' /\ HandoffIsBaton' /\ Modes' /\ WaitersCounted'
    BY <1>1, <1>6, <2>1, <2>3, <2>4, <2>5
    DEF WokenIsBaton, HandoffIsBaton, Modes, WaitersCounted
  <2>7. Locals'
    BY <1>1, <1>2, <2>2, <2>3, <2>5 DEF Locals
  <2>8. FreeWordIsWatched'
    BY <1>1, <1>6 DEF FreeWordIsWatched
  <2> QED
    BY <1>3, <1>5, <2>4, <2>6, <2>7, <2>8
<1>7. CASE "starving" \notin state.bits
  <2>1. Goto(g, "loop") /\ awoke' = awoke \cup {g} /\ old'[g] = state
    BY <1>7
  <2>2. NormalUnit /\ ~NormalUnit' /\ NoThrow'
    BY <1>1, <1>4, <1>7, <2>1 DEF NormalUnit, NoThrow, Carrier
  <2>3. Contender(g)' /\ Sleepers' = Sleepers \ {g}
    BY <2>1 DEF Contender, Sleepers
  <2>4. WokenIsBaton' /\ HandoffIsBaton' /\ Modes'
    BY <1>1, <1>7, <2>1, <2>2, <2>3 DEF WokenIsBaton, HandoffIsBaton, Modes
  <2>5. WaitersCounted'
    <3>1. Cardinality(Sleepers') = Cardinality(Sleepers) - 1
      BY <1>2, <2>3, SleeperLess
    <3>2. state.waiters + 1 = Cardinality(Sleepers)
      BY <2>2 DEF WaitersCounted
    <3> QED
      BY <1>1, <1>2, <2>2, <3>1, <3>2 DEF WaitersCounted
  <2>6. Locals'
    BY <1>1, <1>4, <2>1, <2>2 DEF Locals, Carrier, Contender, WokenIsBaton
  <2>7. FreeWordIsWatched'
    BY <1>1 DEF FreeWordIsWatched, WillLook
  <2> QED
    BY <1>3, <1>5, <2>2, <2>4, <2>5, <2>6, <2>7
<1> QED
  BY <1>6, <1>7

LEMMA TakeHandoffKeeps ==
  ASSUME IInv, TypeOK', NEW g \in G, TakeHandoff(g) PROVE IInv'
<1> USE DEF IInv, TypeOK, TakeHandoff, Leave, At, Goto
<1>1. sema = 0 /\ sema' = 0 /\ \A h \in G : Carrier(h) <=> h = g
  BY DEF OneBaton, Carrier
<1>2. state.bits = {"starving"} /\ ~NormalUnit
  <2>1. state.bits \subseteq Bits
    BY WordFields
  <2> QED
    BY <2>1 DEF HandoffIsBaton, Modes, NormalUnit, Bits
<1>3. /\ state.waiters \in Nat /\ state'.waiters = state.waiters - 1
      /\ "locked" \in state'.bits /\ "woken" \notin state'.bits
  BY <1>2, WordFields
<1>4. g \in Sleepers /\ Sleepers' = Sleepers \ {g}
  BY DEF Sleepers
<1>5. \A h \in G : ~Carrier(h)'
  BY <1>1 DEF Carrier, Contender
<1>6. ~NormalUnit'
  BY <1>1, <1>5 DEF NormalUnit, Carrier
<1>7. MutualExclusion' /\ NoThrow' /\ LockedByHolder'
  BY <1>2, <1>3 DEF MutualExclusion, NoThrow, LockedByHolder
<1>8. OneBaton' /\ WokenIsBaton' /\ HandoffIsBaton' /\ Modes'
  BY <1>1, <1>3, <1>5, <1>6 DEF OneBaton, WokenIsBaton, HandoffIsBaton, Modes, Carrier
<1>9. WaitersCounted'
  <2>1. Cardinality(Sleepers') = Cardinality(Sleepers) - 1
    BY <1>4, SleeperLess
  <2>2. state.waiters = Cardinality(Sleepers)
    BY <1>2, <1>3 DEF WaitersCounted
  <2> QED
    BY <1>3, <1>6, <2>1, <2>2 DEF WaitersCounted
<1>10. Locals' /\ FreeWordIsWatched'
  BY <1>3, <1>5 DEF Locals, Carrier, Contender, FreeWordIsWatched
<1> QED
  BY <1>7, <1>8, <1>9, <1>10

LEMMA UnlockDropKeeps ==
  ASSUME IInv, TypeOK', NEW g \in G, UnlockDrop(g) PROVE IInv'
<1> USE DEF IInv, TypeOK, UnlockDrop, At, Goto
<1>1. /\ "locked" \in state.bits
      /\ state'.bits = state.bits \ {"locked"} /\ state'.waiters = state.waiters
      /\ old'[g] = state' /\ sema' = sema
  BY WordFields DEF LockedByHolder
<1>2. \A h \in G : Contender(h)' <=> Contender(h)
  BY DEF Contender
<1>3. MutualExclusion' /\ NoThrow' /\ LockedByHolder'
  BY <1>1 DEF MutualExclusion, NoThrow, LockedByHolder
<1>4. (NormalUnit' <=> NormalUnit) /\ Sleepers' = Sleepers
  BY <1>1 DEF NormalUnit, Sleepers
<1>5. WaitersCounted' /\ WokenIsBaton'
  BY <1>1, <1>2, <1>4 DEF WaitersCounted, WokenIsBaton
<1>6. Modes' /\ HandoffIsBaton'
  BY <1>1 DEF Modes, HandoffIsBaton
<1>7. OneBaton'
  <2>1. CASE "starving" \in state.bits
    <3>1. sema # 1 /\ \A h \in G : ~Carrier(h)
      BY <1>1, <2>1 DEF HandoffIsBaton, Modes, WokenIsBaton, Carrier
    <3> QED
      BY <1>1, <1>2, <3>1 DEF OneBaton, Carrier
  <2>2. CASE "starving" \notin state.bits
    BY <1>1, <1>2, <2>2 DEF OneBaton, Carrier
  <2> QED
    BY <2>1, <2>2
<1>8. Locals'
  BY <1>1, <1>2 DEF Locals, HandoffIsBaton
<1>9. FreeWordIsWatched'
  <2>1. ASSUME state'.bits = {}, state'.waiters > 0 PROVE WillLook(g)'
    <3>1. pc'[g] = "wake"
      BY <1>1, <2>1
    <3>2. ~NobodyToWake(old'[g])
      BY <1>1, <2>1, WordFields DEF NobodyToWake
    <3> QED
      BY <3>1, <3>2 DEF WillLook
  <2> QED
    BY <2>1 DEF FreeWordIsWatched
<1> QED
  BY <1>3, <1>5, <1>6, <1>7, <1>8, <1>9

LEMMA UnlockWakeKeeps ==
  ASSUME IInv, TypeOK', NEW g \in G, UnlockWake(g) PROVE IInv'
<1> DEFINE Look == /\ UNCHANGED state
                   /\ \/ NobodyToWake(old[g]) /\ Leave(g, "idle")
                      \/ Goto(g, "rewake") /\ UNCHANGED locals
           Win == /\ ~NobodyToWake(old[g]) /\ state = old[g]
                  /\ state' = [bits |-> {"woken"}, waiters |-> state.waiters - 1]
                  /\ Goto(g, "release") /\ UNCHANGED locals
<1>0. Look \/ Win
  BY DEF UnlockWake, locals
<1> USE DEF IInv, TypeOK, UnlockWake, At, Goto, locals
<1>1. CASE Look
  <2>1. \A h \in G : Contender(h)' <=> Contender(h)
    BY <1>1 DEF Contender, Leave
  <2>2. MutualExclusion' /\ NoThrow' /\ LockedByHolder' /\ OneBaton'
    BY <1>1, <2>1 DEF MutualExclusion, NoThrow, LockedByHolder, OneBaton, Carrier, Leave
  <2>3. (NormalUnit' <=> NormalUnit) /\ Sleepers' = Sleepers
    BY <1>1 DEF NormalUnit, Sleepers, Leave
  <2>4. WokenIsBaton' /\ HandoffIsBaton' /\ Modes' /\ WaitersCounted'
    BY <1>1, <2>1, <2>3 DEF WokenIsBaton, HandoffIsBaton, Modes, WaitersCounted, Leave
  <2>5. Locals'
    BY <1>1, <2>1 DEF Locals, Leave
  <2>6. \A h \in G : WillLook(h) => WillLook(h)'
    BY <1>1 DEF WillLook, Leave
  <2>7. FreeWordIsWatched'
    BY <1>1, <2>6 DEF FreeWordIsWatched
  <2> QED
    BY <2>2, <2>4, <2>5, <2>7
<1>2. CASE Win
  <2>1. state.bits = {} /\ state.waiters \in Nat
    BY <1>2, WordFields DEF NobodyToWake
  <2>2. ~NormalUnit /\ sema # 1 /\ \A h \in G : ~Carrier(h)
    BY <2>1 DEF WokenIsBaton, HandoffIsBaton, NormalUnit, Carrier
  <2>3. \A h \in G : Carrier(h)' <=> h = g
    BY <1>2, <2>2 DEF Carrier, Contender
  <2>4. MutualExclusion' /\ NoThrow' /\ LockedByHolder' /\ OneBaton'
    BY <1>2, <2>1, <2>2, <2>3 DEF MutualExclusion, NoThrow, LockedByHolder, OneBaton
  <2>5. NormalUnit' /\ Sleepers' = Sleepers
    BY <1>2 DEF NormalUnit, Sleepers
  <2>6. WokenIsBaton' /\ HandoffIsBaton' /\ Modes'
    BY <1>2, <2>3, <2>5 DEF WokenIsBaton, HandoffIsBaton, Modes, Carrier
  <2>7. WaitersCounted'
    BY <1>2, <2>1, <2>2, <2>5 DEF WaitersCounted
  <2>8. Locals' /\ FreeWordIsWatched'
    BY <1>2, <2>3 DEF Locals, Carrier, Contender, FreeWordIsWatched
  <2> QED
    BY <2>4, <2>6, <2>7, <2>8
<1> HIDE DEF Look, Win
<1> QED
  BY <1>0, <1>1, <1>2

LEMMA UnlockReloadKeeps ==
  ASSUME IInv, TypeOK', NEW g \in G, UnlockReload(g) PROVE IInv'
<1> USE DEF IInv, TypeOK, UnlockReload, Read, At, Goto
<1>1. \A h \in G : Contender(h)' <=> Contender(h)
  BY DEF Contender
<1>2. MutualExclusion' /\ NoThrow' /\ LockedByHolder' /\ OneBaton'
  BY <1>1 DEF MutualExclusion, NoThrow, LockedByHolder, OneBaton, Carrier
<1>3. (NormalUnit' <=> NormalUnit) /\ Sleepers' = Sleepers
  BY DEF NormalUnit, Sleepers
<1>4. WokenIsBaton' /\ HandoffIsBaton' /\ Modes' /\ WaitersCounted' /\ Locals'
  BY <1>1, <1>3 DEF WokenIsBaton, HandoffIsBaton, Modes, WaitersCounted, Locals
<1>5. FreeWordIsWatched'
  <2>1. state.bits = {} /\ state.waiters > 0 => WillLook(g)'
    BY WordFields DEF WillLook, NobodyToWake
  <2> QED
    BY <2>1 DEF FreeWordIsWatched
<1> QED
  BY <1>2, <1>4, <1>5

LEMMA SemReleaseKeeps ==
  ASSUME IInv, TypeOK', NEW g \in G, SemRelease(g) PROVE IInv'
<1> USE DEF IInv, TypeOK, SemRelease, Leave, At, Goto
<1>1. sema = 0 /\ sema' = 1 /\ \A h \in G : Carrier(h) <=> h = g
  BY DEF OneBaton, Carrier
<1>2. \A h \in G : ~Carrier(h)' /\ ~Contender(h)' /\ ~Contender(h)
  BY <1>1 DEF Carrier, Contender
<1>3. MutualExclusion' /\ NoThrow' /\ LockedByHolder' /\ OneBaton'
  BY <1>1, <1>2 DEF MutualExclusion, NoThrow, LockedByHolder, OneBaton
<1>4. (NormalUnit' <=> NormalUnit) /\ Sleepers' = Sleepers
  <2>1. pc[g] = "release" => NormalUnit
    BY DEF NormalUnit, Modes
  <2>2. pc[g] = "pass" => "starving" \in state.bits
    BY DEF HandoffIsBaton
  <2> QED
    BY <1>1, <2>1, <2>2 DEF NormalUnit, Sleepers
<1>5. WokenIsBaton' /\ WaitersCounted' /\ Locals'
  BY <1>2, <1>4 DEF WokenIsBaton, WaitersCounted, Locals
<1>6. HandoffIsBaton' /\ Modes'
  BY <1>1, <1>2 DEF HandoffIsBaton, Modes, Carrier
<1>7. FreeWordIsWatched'
  BY DEF FreeWordIsWatched, WillLook
<1> QED
  BY <1>3, <1>5, <1>6, <1>7

LEMMA StutterKeeps == ASSUME IInv, UNCHANGED vars PROVE IInv'
BY DEF IInv, vars, locals, TypeOK, MutualExclusion, NoThrow, LockedByHolder, OneBaton,
       Carrier, Contender, WokenIsBaton, NormalUnit, HandoffIsBaton, Modes,
       WaitersCounted, Sleepers, Locals, FreeWordIsWatched, WillLook, At

(* The invariant is inductive: one step per action.                        *)
LEMMA IInvStep == IInv /\ [Next]_vars => IInv'
<1> SUFFICES ASSUME IInv, [Next]_vars PROVE IInv'
  OBVIOUS
<1>1. TypeOK'
  BY TypeStep
<1>2. ASSUME NEW g \in G, LockFast(g) \/ LockStep(g) PROVE IInv'
  BY <1>1, <1>2, LockFastKeeps, ReloadKeeps, SpinRoundKeeps, LockSwapKeeps,
     SemAcquireKeeps, AwakeKeeps, TakeHandoffKeeps DEF LockStep
<1>3. ASSUME NEW g \in G, UnlockDrop(g) \/ UnlockStep(g) PROVE IInv'
  BY <1>1, <1>3, UnlockDropKeeps, UnlockWakeKeeps, UnlockReloadKeeps, SemReleaseKeeps
  DEF UnlockStep
<1>4. CASE UNCHANGED vars
  BY <1>4, StutterKeeps
<1> QED
  BY <1>2, <1>3, <1>4 DEF Next

----------------------------------------------------------------------------
(* Results                                                                 *)

(* The bookkeeping of the state word is right in every reachable state:    *)
(* the one holder, the one goroutine that was woken and the sleepers are   *)
(* exactly what mutexLocked, mutexWoken, mutexStarving and the waiter      *)
(* count say (mutex.go:34-38, 79-205).                                     *)
THEOREM Invariance == Spec => []IInv
BY InitIInv, IInvStep, PTL DEF Spec

(* Every variable keeps its type; the waiter count never goes below zero   *)
(* (mutex.go:146, 196).                                                    *)
THEOREM TypeCorrect == Spec => []TypeOK
<1>1. IInv => TypeOK
  BY DEF IInv
<1> QED
  BY <1>1, Invariance, PTL

(* Never two goroutines between Lock and Unlock (mutex.go:18-25).          *)
THEOREM OneHolder == Spec => []MutualExclusion
<1>1. IInv => MutualExclusion
  BY DEF IInv
<1> QED
  BY <1>1, Invariance, PTL

(* A correct client never meets "inconsistent mutex state" or "unlock of   *)
(* unlocked mutex" (mutex.go:120-122, 142-144, 183-185).                   *)
THEOREM NeverThrows == Spec => []NoThrow
<1>1. IInv => NoThrow
  BY DEF IInv
<1> QED
  BY <1>1, Invariance, PTL

(* The blind AddInt32 that takes over a handed mutex is applied to the     *)
(* word it was computed for, up to waiters that came later                 *)
(* (mutex.go:136-154).                                                     *)
THEOREM HandoffIsConsistent == Spec => []ConsistentHandoff
<1>1. IInv => ConsistentHandoff
  <2> SUFFICES ASSUME IInv, NEW g \in G, At(g, "handoff")
               PROVE  /\ state.bits = {"starving"} /\ state.waiters >= 1
                      /\ old[g].waiters <= state.waiters
    BY DEF ConsistentHandoff, At
  <2>1. state.bits \subseteq Bits /\ state.waiters \in Nat
    BY WordFields DEF IInv, TypeOK
  <2>2. state.bits = {"starving"}
    BY <2>1 DEF IInv, HandoffIsBaton, Modes, Bits, At
  <2> QED
    BY <2>1, <2>2 DEF IInv, Locals
<1> QED
  BY <1>1, Invariance, PTL

(* No lost wakeup: while a goroutine sleeps in Lock, the mutex is held, a  *)
(* wakeup is on its way, or an unlocker is about to see the sleeper        *)
(* (mutex.go:91-96, 187-205).                                              *)
THEOREM NoSleeperForgotten == Spec => []SleeperHasWaker
<1>1. IInv => SleeperHasWaker
  <2> SUFFICES ASSUME IInv, NEW s \in G, At(s, "acquire"), "locked" \notin state.bits,
                      ~(sema > 0), \A h \in G : ~Carrier(h)
               PROVE  \E h \in G : WillLook(h)
    BY DEF SleeperHasWaker
  <2>1. state.bits \subseteq Bits /\ state.waiters \in Nat
    BY WordFields DEF IInv, TypeOK
  <2>2. ~NormalUnit /\ "woken" \notin state.bits /\ "starving" \notin state.bits
    BY DEF IInv, NormalUnit, WokenIsBaton, HandoffIsBaton, OneBaton, Carrier, At
  <2>3. state.bits = {}
    BY <2>1, <2>2 DEF Bits
  <2>4. state.waiters >= 1
    <3>1. s \in Sleepers
      BY DEF Sleepers, At
    <3> QED
      BY <2>1, <2>2, <3>1, SleeperSome, SleepersFinite DEF IInv, WaitersCounted
  <2> QED
    BY <2>3, <2>4, <2>1 DEF IInv, FreeWordIsWatched
<1> QED
  BY <1>1, Invariance, PTL

----------------------------------------------------------------------------
(* RWMutex.                                                                *)

(* How many goroutines are at l: readerCount, readerWait and the units of  *)
(* the two semaphores are related to these numbers.                        *)
Count(l) == Cardinality(In(l))

LEMMA CountFacts ==
  ASSUME NEW l
  PROVE  /\ IsFiniteSet(In(l)) /\ Count(l) \in Nat
         /\ In(l) = {} <=> Count(l) = 0
         /\ \A g \in G : At(g, l) => Count(l) >= 1
<1>1. IsFiniteSet(In(l)) /\ Count(l) \in Nat
  BY RWMutexAssumption, FS_Subset, FS_CardinalityType DEF In, Count
<1>2. In(l) = {} <=> Count(l) = 0
  BY <1>1, FS_EmptySet DEF Count
<1>3. ASSUME NEW g \in G, At(g, l) PROVE Count(l) >= 1
  <2>1. In(l) # {}
    BY <1>3 DEF In
  <2> QED
    BY <2>1, <1>1, <1>2
<1> QED
  BY <1>1, <1>2, <1>3

(* The readers counted, and the goroutines that may join them, are fewer   *)
(* than MaxReaders.                                                        *)
LEMMA FewReaders == Count("reading") + Count("rwait") + Count("idle") < MaxReaders
<1> DEFINE R == In("reading")
           W == In("rwait")
           I == In("idle")
<1>1. /\ IsFiniteSet(R) /\ IsFiniteSet(W) /\ IsFiniteSet(I)
      /\ Cardinality(R) \in Nat /\ Cardinality(W) \in Nat /\ Cardinality(I) \in Nat
  BY CountFacts DEF Count
<1>2. R \cap W = {} /\ (R \cup W) \cap I = {} /\ (R \cup W) \cup I \subseteq G
  BY DEF In, At
<1> HIDE DEF R, W, I
<1>z. Cardinality(R \cap W) = 0 /\ Cardinality((R \cup W) \cap I) = 0
  BY <1>2, FS_EmptySet
<1>3. IsFiniteSet(R \cup W) /\ Cardinality(R \cup W) = Cardinality(R) + Cardinality(W)
  <2>1. /\ IsFiniteSet(R \cup W)
        /\ Cardinality(R \cup W) = Cardinality(R) + Cardinality(W) - Cardinality(R \cap W)
    BY <1>1, FS_Union
  <2> QED
    BY <1>1, <1>2, <1>z, <2>1
<1>4. Cardinality((R \cup W) \cup I) = Cardinality(R \cup W) + Cardinality(I)
  <2>1. Cardinality((R \cup W) \cup I)
          = Cardinality(R \cup W) + Cardinality(I) - Cardinality((R \cup W) \cap I)
    BY <1>1, <1>3, FS_Union
  <2> QED
    BY <1>1, <1>2, <1>3, <1>z, <2>1
<1>5. /\ Cardinality((R \cup W) \cup I) <= Cardinality(G) /\ Cardinality(G) \in Nat
      /\ Cardinality((R \cup W) \cup I) \in Nat
  BY <1>2, RWMutexAssumption, FS_Subset, FS_CardinalityType
<1>6. Cardinality(R) + Cardinality(W) + Cardinality(I) < MaxReaders
  BY <1>1, <1>3, <1>4, <1>5, RWMutexAssumption
<1> QED
  BY <1>6 DEF Count, R, W, I

(* A goroutine that moves is counted out of one place and into another.    *)
Move(a, b) ==
  /\ Count(a)' = Count(a) - 1
  /\ Count(b)' = Count(b) + 1
  /\ \A l : l \notin {a, b} => Count(l)' = Count(l)
  /\ \A l : Count(l) \in Nat

LEMMA Moved ==
  ASSUME RWTypeOK, NEW g \in G, NEW a, NEW b, a # b, At(g, a), Goto(g, b)
  PROVE  Move(a, b)
<1>1. In(a)' = In(a) \ {g} /\ g \in In(a)
  BY DEF In, At, Goto, RWTypeOK
<1>2. In(b)' = In(b) \cup {g} /\ g \notin In(b)
  BY DEF In, At, Goto, RWTypeOK
<1>3. \A l : l \notin {a, b} => In(l)' = In(l)
  BY DEF In, At, Goto, RWTypeOK
<1>4. Count(a)' = Count(a) - 1
  BY <1>1, CountFacts, FS_RemoveElement DEF Count
<1>5. Count(b)' = Count(b) + 1
  BY <1>2, CountFacts, FS_AddElement DEF Count
<1> QED
  BY <1>3, <1>4, <1>5, CountFacts DEF Count, Move

(* An invariant's part that the others imply: whoever writes has seen the  *)
(* last admitted reader leave.                                             *)
LEMMA ExclusionFollows == RWTypeOK /\ OneWriter /\ WriterWaits => Exclusion
<1> SUFFICES ASSUME RWTypeOK, OneWriter, WriterWaits, NEW g \in G, NEW h \in G,
                    At(g, "writing"), g # h
             PROVE  pc[h] \notin {"reading", "writing"}
  BY DEF Exclusion
<1>1. Count("reading") + readerSem + Count("rdepart") = 0
  BY DEF WriterWaits, Admitted, Count
<1>2. Count("reading") = 0
  BY <1>1, CountFacts DEF RWTypeOK
<1>3. ~At(h, "reading")
  BY <1>2, CountFacts
<1>4. ~At(h, "writing")
  BY DEF OneWriter, At
<1> QED
  BY <1>3, <1>4 DEF At

(* The invariant, in the numbers.                                          *)
AdmittedN == Count("reading") + readerSem + Count("rdepart")
Waiting == \E g \in G : pc[g] \in {"wcount", "wwait"}

CountedN ==
  readerCount = Count("reading") + Count("rwait") - (IF Announced THEN MaxReaders ELSE 0)
WriterN ==
  \A g \in G :
    /\ At(g, "wcount") => /\ readerWait + r[g] = AdmittedN /\ readerWait <= 0 /\ r[g] > 0
                          /\ writerSem = 0 /\ Count("rsignal") = 0
    /\ At(g, "wwait") => /\ readerWait = AdmittedN
                         /\ writerSem + Count("rsignal") = IF readerWait = 0 THEN 1 ELSE 0
    /\ At(g, "writing") => AdmittedN = 0
NobodyN ==
  ~Waiting => readerWait = 0 /\ writerSem = 0 /\ Count("rdepart") = 0 /\ Count("rsignal") = 0
OwedN ==
  /\ readerSem <= Count("rwait")
  /\ ~Announced => \A g \in G :
       IF At(g, "wrelease") THEN r[g] > 0 /\ Count("rwait") = readerSem + r[g]
       ELSE Count("wrelease") = 0 => Count("rwait") = readerSem
Numbers == CountedN /\ WriterN /\ NobodyN /\ OwedN

Core == RWTypeOK /\ RWNoThrow /\ OneWriter /\ Numbers

LEMMA CoreIsIInv == Core <=> RWInv
<1>1. Numbers <=> ReadersCounted /\ WriterWaits /\ NobodyWaits /\ SleepersOwed
  BY CountFacts DEF Numbers, CountedN, WriterN, NobodyN, OwedN, AdmittedN, Waiting, ReadersCounted, WriterWaits, NobodyWaits, SleepersOwed, Admitted, Count
<1> QED
  BY <1>1, ExclusionFollows DEF Core, RWInv

LEMMA RWInitCore == RWInit => Core
<1> SUFFICES ASSUME RWInit PROVE Core
  OBVIOUS
<1> USE DEF RWInit
<1>1. RWTypeOK /\ RWNoThrow
  BY RWMutexAssumption DEF RWTypeOK, RWPC, RWNoThrow, At
<1>2. OneWriter
  BY RWMutexAssumption DEF OneWriter
<1>3. \A l : l # "idle" => In(l) = {} /\ Count(l) = 0
  BY CountFacts DEF In, At
<1>4. ~Announced
  BY DEF Announced
<1> QED
  BY <1>1, <1>2, <1>3, <1>4, RWMutexAssumption DEF Core, Numbers, CountedN, WriterN, NobodyN, OwedN, AdmittedN, Waiting, At

----------------------------------------------------------------------------
(* Each action keeps the invariant.                                        *)

LEMMA RLockKeeps ==
  ASSUME Core, NEW g \in G, RLock(g) PROVE Core'
<1> USE DEF Core
<1>0. PICK b \in {"rwait", "reading"} :
        Goto(g, b) /\ b = IF readerCount + 1 < 0 THEN "rwait" ELSE "reading"
  BY DEF RLock, Goto
<1>1. Move("idle", b) /\ Count("idle") >= 1
  <2>1. RWTypeOK /\ At(g, "idle") /\ Goto(g, b) /\ b # "idle"
    BY <1>0 DEF RLock
  <2> QED
    BY <2>1, Moved, CountFacts
<1>2. RWTypeOK' /\ RWNoThrow' /\ OneWriter' /\ (Announced' <=> Announced)
  BY <1>0 DEF RLock, RWTypeOK, RWNoThrow, OneWriter, Announced, At, Goto, RWPC, ReaderPC, WriterPC, counts, sems
<1>3. b = IF Announced THEN "rwait" ELSE "reading"
  <2>1. readerCount = Count("reading") + Count("rwait") - (IF Announced THEN MaxReaders ELSE 0)
    BY DEF Numbers, CountedN
  <2>2. Count("reading") \in Nat /\ Count("rwait") \in Nat /\ MaxReaders \in Nat
    BY <1>1, RWMutexAssumption DEF Move
  <2>3. Count("reading") + Count("rwait") + 1 < MaxReaders
    BY <1>1, <2>2, FewReaders DEF Move
  <2> QED
    BY <2>1, <2>2, <2>3, <1>0
<1>4. /\ \A h \in G, l \in WriterPC : At(h, l)' <=> At(h, l)
      /\ Waiting' <=> Waiting
  BY <1>0 DEF RLock, RWTypeOK, WriterPC, Waiting, At, Goto
<1>5. CountedN'
  BY <1>1, <1>2, <1>3, RWMutexAssumption DEF Move, Numbers, CountedN, RLock, RWTypeOK
<1>6. NobodyN'
  BY <1>1, <1>3, <1>4 DEF Move, Numbers, NobodyN, RLock, sems
<1>7. OwedN'
  BY <1>1, <1>2, <1>3, <1>4 DEF Move, Numbers, OwedN, RLock, RWTypeOK, WriterPC, sems
<1>8. CASE Announced
  <2>1. AdmittedN' = AdmittedN /\ Count("rsignal")' = Count("rsignal")
    BY <1>1, <1>3, <1>8 DEF Move, AdmittedN, RLock, sems
  <2>2. WriterN'
    BY <2>1, <1>4 DEF Numbers, WriterN, RLock, WriterPC, sems
  <2> QED
    BY <1>2, <1>5, <1>6, <1>7, <2>2 DEF Numbers
<1>9. CASE ~Announced
  <2>1. WriterN'
    BY <1>2, <1>9 DEF WriterN, Announced, At
  <2> QED
    BY <1>2, <1>5, <1>6, <1>7, <2>1 DEF Numbers
<1> QED
  BY <1>8, <1>9

LEMMA RLockWakeKeeps ==
  ASSUME Core, NEW g \in G, RLockWake(g) PROVE Core'
<1> USE DEF Core
<1>0. At(g, "rwait") /\ Goto(g, "reading")
  BY DEF RLockWake
<1>1. Move("rwait", "reading")
  BY <1>0, Moved
<1>2. RWTypeOK' /\ RWNoThrow' /\ OneWriter' /\ (Announced' <=> Announced)
  BY <1>0 DEF RLockWake, RWTypeOK, RWNoThrow, OneWriter, Announced, At, Goto, RWPC, ReaderPC, WriterPC, counts, sems
<1>4. Numbers'
  BY <1>0, <1>1, <1>2, RWMutexAssumption DEF Move, Numbers, CountedN, WriterN, NobodyN, OwedN, AdmittedN, Waiting, RLockWake, RWTypeOK, Announced, At, Goto, counts, sems
<1> QED
  BY <1>2, <1>4

LEMMA RUnlockKeeps ==
  ASSUME Core, NEW g \in G, RUnlock(g) PROVE Core'
<1> USE DEF Core
<1>0. PICK b \in {"idle", "throw", "rdepart"} :
        At(g, "reading") /\ Goto(g, b) /\ b = IF readerCount - 1 >= 0 THEN "idle"
               ELSE IF readerCount \in {0, -MaxReaders} THEN "throw" ELSE "rdepart"
  BY DEF RUnlock, Goto
<1>1. Move("reading", b)
  <2>1. RWTypeOK /\ At(g, "reading") /\ Goto(g, b) /\ b # "reading"
    BY <1>0
  <2> QED
    BY <2>1, Moved
<1>a. Count("reading") >= 1
  BY <1>0, CountFacts
<1>b. b = IF Announced THEN "rdepart" ELSE "idle"
  <2>1. readerCount = Count("reading") + Count("rwait") - (IF Announced THEN MaxReaders ELSE 0)
    BY DEF Move, Numbers, CountedN, WriterN, NobodyN, OwedN, AdmittedN, Waiting
  <2>2. /\ Count("reading") \in Nat /\ Count("rwait") \in Nat /\ Count("idle") \in Nat
        /\ MaxReaders \in Nat
    BY <1>1, RWMutexAssumption DEF Move
  <2> QED
    BY <2>1, <2>2, <1>0, <1>a, FewReaders DEF Move
<1>2. RWTypeOK' /\ RWNoThrow' /\ OneWriter' /\ (Announced' <=> Announced)
  BY <1>0, <1>b DEF RUnlock, RWTypeOK, RWNoThrow, OneWriter, Announced, At, Goto, RWPC, ReaderPC, WriterPC, counts, sems
<1>4. Numbers'
  BY <1>0, <1>1, <1>2, <1>a, <1>b, RWMutexAssumption DEF Move, Numbers, CountedN, WriterN, NobodyN, OwedN, AdmittedN, Waiting, RUnlock, RWTypeOK, Announced, At, Goto, counts, sems
<1> QED
  BY <1>2, <1>4

LEMMA RUnlockDepartKeeps ==
  ASSUME Core, NEW g \in G, RUnlockDepart(g) PROVE Core'
<1> USE DEF Core
<1>0. PICK b \in {"rsignal", "idle"} :
        At(g, "rdepart") /\ Goto(g, b) /\ b = IF readerWait - 1 = 0 THEN "rsignal" ELSE "idle"
  BY DEF RUnlockDepart, Goto
<1>1. Move("rdepart", b)
  <2>1. RWTypeOK /\ At(g, "rdepart") /\ Goto(g, b) /\ b # "rdepart"
    BY <1>0
  <2> QED
    BY <2>1, Moved
<1>a. Count("rdepart") >= 1
  BY <1>0, CountFacts
<1>2. RWTypeOK' /\ RWNoThrow' /\ OneWriter' /\ (Announced' <=> Announced)
  BY <1>0 DEF RUnlockDepart, RWTypeOK, RWNoThrow, OneWriter, Announced, At, Goto, RWPC, ReaderPC, WriterPC, counts, sems
<1>3. PICK h \in G : /\ pc[h] \in {"wcount", "wwait"} /\ h # g /\ pc'[h] = pc[h]
                     /\ \A k \in G \ {h} : pc[k] \notin {"wcount", "wwait", "writing"}
                                           /\ pc'[k] \notin {"wcount", "wwait", "writing"}
  BY <1>0, <1>1, <1>a DEF Move, Numbers, NobodyN, Waiting, OneWriter, At, Goto, RWTypeOK
<1>4. CountedN' /\ OwedN' /\ NobodyN'
  BY <1>0, <1>1, <1>2, <1>3 DEF Move, Numbers, CountedN, OwedN, NobodyN, Waiting, RUnlockDepart, RWTypeOK, At, Goto, sems
<1>5. AdmittedN' = AdmittedN - 1
  BY <1>0, <1>1, <1>a DEF Move, AdmittedN, RUnlockDepart, RWTypeOK, sems
<1>6. WriterN'
  <2>1. CASE At(h, "wcount")
    <3>1. readerWait + r[h] = AdmittedN /\ readerWait <= 0 /\ r[h] > 0 /\ writerSem = 0 /\ Count("rsignal") = 0
      BY <2>1 DEF Move, Numbers, WriterN
    <3>2. b = "idle"
      BY <3>1, <1>0 DEF RWTypeOK
    <3>3. readerWait' + r'[h] = AdmittedN' /\ readerWait' <= 0 /\ r'[h] > 0 /\ writerSem' = 0 /\ Count("rsignal")' = 0
      BY <3>1, <3>2, <1>0, <1>1, <1>5 DEF Move, RUnlockDepart, RWTypeOK, sems, AdmittedN
    <3> QED
      BY <2>1, <3>3, <1>3 DEF WriterN, At
  <2>2. CASE At(h, "wwait")
    <3>1. readerWait = AdmittedN /\ AdmittedN >= 1 /\ writerSem = 0 /\ Count("rsignal") = 0
      BY <2>2, <1>a, <1>1 DEF Move, Numbers, WriterN, AdmittedN, RWTypeOK
    <3>2. /\ readerWait' = AdmittedN'
          /\ writerSem' + Count("rsignal")' = IF readerWait' = 0 THEN 1 ELSE 0
      BY <3>1, <1>0, <1>1, <1>5 DEF Move, RUnlockDepart, RWTypeOK, sems, AdmittedN
    <3> QED
      BY <2>2, <3>2, <1>3 DEF WriterN, At
  <2> QED
    BY <1>3, <2>1, <2>2 DEF At
<1>7. Numbers'
  BY <1>4, <1>6 DEF Numbers
<1> QED
  BY <1>2, <1>7

LEMMA RUnlockSignalKeeps ==
  ASSUME Core, NEW g \in G, RUnlockSignal(g) PROVE Core'
<1> USE DEF Core
<1>0. At(g, "rsignal") /\ Goto(g, "idle")
  BY DEF RUnlockSignal
<1>1. Move("rsignal", "idle")
  BY <1>0, Moved
<1>a. Count("rsignal") >= 1
  BY <1>0, CountFacts
<1>2. RWTypeOK' /\ RWNoThrow' /\ OneWriter' /\ (Announced' <=> Announced)
  BY <1>0 DEF RUnlockSignal, RWTypeOK, RWNoThrow, OneWriter, Announced, At, Goto, RWPC, ReaderPC, WriterPC, counts, sems
<1>4. /\ \A h \in G, l \in WriterPC : At(h, l)' <=> At(h, l)
      /\ Waiting' <=> Waiting
  BY <1>0 DEF RUnlockSignal, RWTypeOK, WriterPC, Waiting, At, Goto
<1>5. CountedN' /\ OwedN'
  BY <1>1, <1>2, <1>4 DEF Move, Numbers, CountedN, OwedN, RUnlockSignal, RWTypeOK, WriterPC, At, counts
<1>6. Waiting /\ (\A h \in G : ~At(h, "wcount"))
  BY <1>1, <1>a DEF Move, Numbers, NobodyN, WriterN
<1>7. WriterN' /\ NobodyN'
  BY <1>0, <1>1, <1>4, <1>6 DEF Move, Numbers, WriterN, NobodyN, AdmittedN, RUnlockSignal, RWTypeOK, WriterPC, counts
<1> QED
  BY <1>2, <1>5, <1>7 DEF Numbers

LEMMA LockKeeps ==
  ASSUME Core, NEW g \in G, Lock(g) PROVE Core'
<1> USE DEF Core
<1>0. At(g, "idle") /\ Goto(g, "wlock")
  BY DEF Lock
<1>1. Move("idle", "wlock")
  BY <1>0, Moved
<1>2. RWTypeOK' /\ RWNoThrow' /\ OneWriter' /\ (Announced' <=> Announced)
  BY <1>0 DEF Lock, RWTypeOK, RWNoThrow, OneWriter, Announced, At, Goto, RWPC, ReaderPC, WriterPC, counts, sems
<1>4. Numbers'
  BY <1>0, <1>1, <1>2, RWMutexAssumption DEF Move, Numbers, CountedN, WriterN, NobodyN, OwedN, AdmittedN, Waiting, Lock, RWTypeOK, Announced, At, Goto, counts, sems
<1> QED
  BY <1>2, <1>4

LEMMA LockWKeeps ==
  ASSUME Core, NEW g \in G, LockW(g) PROVE Core'
<1> USE DEF Core
<1>0. At(g, "wlock") /\ Goto(g, "wannounce")
  BY DEF LockW
<1>1. Move("wlock", "wannounce")
  BY <1>0, Moved
<1>2. RWTypeOK' /\ RWNoThrow' /\ OneWriter' /\ (Announced' <=> Announced)
  BY <1>0, RWMutexAssumption DEF LockW, RWTypeOK, RWNoThrow, OneWriter, Announced, At, Goto, RWPC, ReaderPC, WriterPC, counts, sems
<1>4. Numbers'
  BY <1>0, <1>1, <1>2, RWMutexAssumption DEF Move, Numbers, CountedN, WriterN, NobodyN, OwedN, AdmittedN, Waiting, LockW, OneWriter, RWTypeOK, Announced, At, Goto, counts, sems
<1> QED
  BY <1>2, <1>4

LEMMA LockAnnounceKeeps ==
  ASSUME Core, NEW g \in G, LockAnnounce(g) PROVE Core'
<1> USE DEF Core
<1>0. PICK b \in {"writing", "wcount"} :
        At(g, "wannounce") /\ Goto(g, b) /\ b = IF readerCount = 0 THEN "writing" ELSE "wcount"
  BY DEF LockAnnounce, Goto
<1>1. Move("wannounce", b)
  <2>1. RWTypeOK /\ At(g, "wannounce") /\ Goto(g, b) /\ b # "wannounce"
    BY <1>0
  <2> QED
    BY <2>1, Moved
<1>a. ~Announced /\ ~(\E h \in G : pc[h] \in {"wcount", "wwait"}) /\ Announced'
  BY <1>0 DEF OneWriter, Announced, At, Goto, RWTypeOK
<1>b. Count("wrelease") = 0
  <2>1. In("wrelease") = {}
    BY <1>0 DEF OneWriter, At, In
  <2> QED
    BY <2>1, CountFacts
<1>2. RWTypeOK' /\ RWNoThrow' /\ OneWriter'
  BY <1>0 DEF LockAnnounce, RWTypeOK, RWNoThrow, OneWriter, Announced, At, Goto, RWPC, ReaderPC, WriterPC, counts, sems
<1>3. /\ readerCount = Count("reading") + Count("rwait") /\ readerWait = 0 /\ writerSem = 0
      /\ Count("rdepart") = 0 /\ Count("rsignal") = 0 /\ Count("rwait") = readerSem
      /\ readerCount \in Nat /\ r'[g] = readerCount /\ readerCount' = readerCount - MaxReaders
  BY <1>0, <1>1, <1>a, <1>b DEF Move, Numbers, CountedN, NobodyN, OwedN, Waiting, LockAnnounce, RWTypeOK, At
<1>4. CountedN' /\ OwedN'
  <2>1. /\ Count("reading")' = Count("reading") /\ Count("rwait")' = Count("rwait")
        /\ readerSem' = readerSem /\ Count("rwait") \in Nat /\ Count("reading") \in Nat
    BY <1>0, <1>1 DEF Move, LockAnnounce, sems
  <2>2. CountedN'
    BY <2>1, <1>3, <1>a, RWMutexAssumption DEF CountedN
  <2>3. OwedN'
    BY <2>1, <1>3, <1>a DEF OwedN, RWTypeOK
  <2> QED
    BY <2>2, <2>3
<1>5. \A h \in G \ {g} : ~At(h, "wcount")' /\ ~At(h, "wwait")' /\ ~At(h, "writing")'
  BY <1>0 DEF OneWriter, At, Goto, RWTypeOK
<1>6. WriterN'
  <2>1. AdmittedN' = readerCount
    BY <1>0, <1>1, <1>3 DEF Move, AdmittedN, LockAnnounce, RWTypeOK, sems
  <2>2. /\ At(g, "wcount")' => readerCount > 0
        /\ At(g, "writing")' => readerCount = 0
        /\ ~At(g, "wwait")'
    BY <1>0, <1>3 DEF At, Goto, RWTypeOK
  <2>3. readerWait' = 0 /\ writerSem' = 0 /\ Count("rsignal")' = 0
    BY <1>0, <1>1, <1>3 DEF Move, LockAnnounce, sems
  <2> QED
    BY <1>3, <1>5, <2>1, <2>2, <2>3 DEF WriterN
<1>7. NobodyN'
  BY <1>0, <1>1, <1>3 DEF Move, NobodyN, LockAnnounce, sems
<1> QED
  BY <1>2, <1>4, <1>6, <1>7 DEF Numbers

LEMMA LockCountKeeps ==
  ASSUME Core, NEW g \in G, LockCount(g) PROVE Core'
<1> USE DEF Core
<1>0. PICK b \in {"wwait", "writing"} :
        At(g, "wcount") /\ Goto(g, b) /\ b = IF readerWait + r[g] # 0 THEN "wwait" ELSE "writing"
  BY DEF LockCount, Goto
<1>1. Move("wcount", b)
  <2>1. RWTypeOK /\ At(g, "wcount") /\ Goto(g, b) /\ b # "wcount"
    BY <1>0
  <2> QED
    BY <2>1, Moved
<1>2. RWTypeOK' /\ RWNoThrow' /\ OneWriter' /\ (Announced' <=> Announced)
  BY <1>0 DEF LockCount, RWTypeOK, RWNoThrow, OneWriter, Announced, At, Goto, RWPC, ReaderPC, WriterPC, counts, sems
<1>4. Numbers'
  BY <1>0, <1>1, <1>2, RWMutexAssumption DEF Move, Numbers, CountedN, WriterN, NobodyN, OwedN, AdmittedN, Waiting, LockCount, OneWriter, RWTypeOK, Announced, At, Goto, counts, sems
<1> QED
  BY <1>2, <1>4

LEMMA LockWakeKeeps ==
  ASSUME Core, NEW g \in G, LockWake(g) PROVE Core'
<1> USE DEF Core
<1>0. At(g, "wwait") /\ Goto(g, "writing")
  BY DEF LockWake
<1>1. Move("wwait", "writing")
  BY <1>0, Moved
<1>2. RWTypeOK' /\ RWNoThrow' /\ OneWriter' /\ (Announced' <=> Announced)
  BY <1>0 DEF LockWake, RWTypeOK, RWNoThrow, OneWriter, Announced, At, Goto, RWPC, ReaderPC, WriterPC, counts, sems
<1>4. Numbers'
  BY <1>0, <1>1, <1>2, RWMutexAssumption DEF Move, Numbers, CountedN, WriterN, NobodyN, OwedN, AdmittedN, Waiting, LockWake, OneWriter, RWTypeOK, Announced, At, Goto, counts, sems
<1> QED
  BY <1>2, <1>4

LEMMA UnlockKeeps ==
  ASSUME Core, NEW g \in G, Unlock(g) PROVE Core'
<1> USE DEF Core
<1>0. PICK b \in {"throw", "wunlock", "wrelease"} :
        At(g, "writing") /\ Goto(g, b) /\ b = IF readerCount + MaxReaders >= MaxReaders THEN "throw"
               ELSE IF readerCount + MaxReaders = 0 THEN "wunlock" ELSE "wrelease"
  BY DEF Unlock, Goto
<1>1. Move("writing", b)
  <2>1. RWTypeOK /\ At(g, "writing") /\ Goto(g, b) /\ b # "writing"
    BY <1>0
  <2> QED
    BY <2>1, Moved
<1>a. /\ \A h \in G \ {g} : pc[h] \notin WriterPC \ {"wlock"}
      /\ \A h \in G \ {g} : pc'[h] = pc[h]
  BY <1>0 DEF OneWriter, WriterPC, At, Goto, RWTypeOK
<1>b. /\ Announced /\ ~Waiting /\ ~Waiting'
      /\ Count("reading") = 0 /\ Count("rdepart") = 0 /\ readerSem = 0
      /\ readerWait = 0 /\ writerSem = 0 /\ Count("rsignal") = 0
  <2>1. Announced /\ ~Waiting /\ ~Waiting'
    BY <1>0, <1>a DEF Announced, Waiting, WriterPC, At, Goto, RWTypeOK
  <2>2. AdmittedN = 0
    BY <1>0 DEF Numbers, WriterN
  <2> QED
    BY <1>1, <2>1, <2>2 DEF Move, Numbers, NobodyN, AdmittedN, RWTypeOK
<1>c. /\ readerCount + MaxReaders = Count("rwait") /\ Count("rwait") \in Nat
      /\ Count("rwait") < MaxReaders
  <2>1. /\ readerCount = Count("reading") + Count("rwait") - MaxReaders
        /\ Count("reading") \in Nat /\ Count("rwait") \in Nat /\ Count("idle") \in Nat
        /\ MaxReaders \in Nat
    BY <1>1, <1>b, RWMutexAssumption DEF Move, Numbers, CountedN
  <2> QED
    BY <2>1, <1>b, FewReaders
<1>d. b # "throw" /\ ~Announced' /\ r'[g] = Count("rwait") /\ readerCount' = Count("rwait")
  <2>1. b # "throw"
    BY <1>0, <1>c, RWMutexAssumption
  <2>2. ~Announced'
    BY <1>0, <1>a, <2>1 DEF Announced, WriterPC, At, Goto, RWTypeOK
  <2> QED
    BY <1>c, <2>1, <2>2 DEF Unlock, RWTypeOK
<1>2. RWTypeOK' /\ RWNoThrow' /\ OneWriter'
  BY <1>0, <1>a, <1>d, RWMutexAssumption DEF Unlock, RWTypeOK, RWNoThrow, OneWriter, At, Goto, RWPC, ReaderPC, WriterPC, sems
<1>e. /\ Count("reading")' = 0 /\ Count("rdepart")' = 0 /\ Count("rsignal")' = 0
      /\ Count("rwait")' = Count("rwait") /\ readerSem' = 0 /\ readerWait' = 0 /\ writerSem' = 0
      /\ (b # "wrelease" => Count("wrelease")' = Count("wrelease"))
  BY <1>0, <1>1, <1>b DEF Move, Unlock, sems
<1>4. CountedN' /\ NobodyN'
  BY <1>c, <1>d, <1>e DEF CountedN, NobodyN
<1>5. WriterN'
  BY <1>b, <1>d DEF WriterN, At, Waiting, Announced
<1>6. OwedN'
  <2>1. CASE b = "wrelease"
    <3>1. At(g, "wrelease")' /\ Count("wrelease")' >= 1 /\ Count("rwait") > 0
      BY <2>1, <1>0, <1>1, <1>c DEF Move, At, Goto, RWTypeOK
    <3>2. \A h \in G \ {g} : ~At(h, "wrelease")'
      BY <1>a DEF WriterPC, At
    <3> QED
      BY <3>1, <3>2, <1>c, <1>d, <1>e, <1>1 DEF OwedN, Move
  <2>2. CASE b = "wunlock"
    <3>1. Count("rwait") = 0
      BY <2>2, <1>0, <1>c
    <3>2. \A h \in G : ~At(h, "wrelease")'
      BY <2>2, <1>0, <1>a DEF WriterPC, At, Goto, RWTypeOK
    <3> QED
      BY <3>1, <3>2, <1>e DEF OwedN
  <2> QED
    BY <1>d, <2>1, <2>2
<1> QED
  BY <1>2, <1>4, <1>5, <1>6 DEF Numbers

LEMMA UnlockReleaseKeeps ==
  ASSUME Core, NEW g \in G, UnlockRelease(g) PROVE Core'
<1> USE DEF Core
<1>0. /\ At(g, "wrelease") /\ Goto(g, IF r[g] - 1 = 0 THEN "wunlock" ELSE "wrelease")
      /\ readerSem' = readerSem + 1 /\ r' = [r EXCEPT ![g] = @ - 1]
  BY DEF UnlockRelease, Goto, RWTypeOK
<1>1. /\ r[g] - 1 = 0 => Count("wrelease")' = Count("wrelease") - 1
      /\ \A l : l \notin {"wunlock", "wrelease"} => Count(l)' = Count(l)
      /\ \A l : Count(l) \in Nat
  <2>1. CASE r[g] - 1 = 0
    <3>1. RWTypeOK /\ At(g, "wrelease") /\ Goto(g, "wunlock")
      BY <1>0, <2>1
    <3>2. QED
      <4>1. Move("wrelease", "wunlock")
        BY <3>1, Moved
      <4> QED
        BY <4>1, <2>1 DEF Move
  <2>2. CASE r[g] - 1 # 0
    <3>1. pc' = pc
      BY <1>0, <2>2 DEF At, Goto, RWTypeOK
    <3> QED
      BY <3>1, <2>2, CountFacts DEF Count, In, At
  <2> QED
    BY <2>1, <2>2
<1>a. ~Announced /\ ~Waiting /\ ~Announced' /\ ~Waiting'
      /\ \A h \in G \ {g} : ~At(h, "wrelease") /\ ~At(h, "wrelease")'
  BY <1>0 DEF OneWriter, Announced, Waiting, At, Goto, RWTypeOK
<1>2. RWTypeOK' /\ RWNoThrow' /\ OneWriter'
  BY <1>0 DEF UnlockRelease, RWTypeOK, RWNoThrow, OneWriter, At, Goto, RWPC, ReaderPC, WriterPC, counts, sems
<1>3. CountedN' /\ WriterN' /\ NobodyN'
  BY <1>1, <1>a DEF Move, Numbers, CountedN, WriterN, NobodyN, UnlockRelease, Announced, Waiting, At, counts
<1>4. r[g] > 0 /\ Count("rwait") = readerSem + r[g]
  BY <1>0, <1>a DEF Move, Numbers, OwedN
<1>5. OwedN'
  <2>1. CASE r[g] - 1 = 0
    <3>1. \A h \in G : ~At(h, "wrelease")'
      BY <2>1, <1>0, <1>a DEF At, Goto, RWTypeOK
    <3>2. Count("rwait")' = readerSem'
      BY <2>1, <1>0, <1>1, <1>4 DEF RWTypeOK
    <3> QED
      BY <3>1, <3>2, <1>2, <1>0, <1>1 DEF OwedN, RWTypeOK
  <2>2. CASE r[g] - 1 # 0
    <3>1. At(g, "wrelease")' /\ Count("wrelease")' # 0
      <4>1. pc' = pc
        BY <1>0, <2>2 DEF At, Goto, RWTypeOK
      <4>2. Count("wrelease") >= 1 /\ Count("wrelease")' = Count("wrelease")
        BY <4>1, <1>0, CountFacts DEF Count, In, At
      <4> QED
        BY <1>0, <4>1, <4>2, <1>1 DEF At
    <3>2. r'[g] > 0 /\ Count("rwait")' = readerSem' + r'[g]
      BY <2>2, <1>0, <1>1, <1>4 DEF RWTypeOK
    <3>3. readerSem' <= Count("rwait")'
      BY <3>2, <1>2, <1>0, <1>1 DEF RWTypeOK
    <3> QED
      BY <3>1, <3>2, <3>3, <1>a DEF OwedN
  <2> QED
    BY <2>1, <2>2
<1> QED
  BY <1>2, <1>3, <1>5 DEF Numbers

LEMMA UnlockWKeeps ==
  ASSUME Core, NEW g \in G, UnlockW(g) PROVE Core'
<1> USE DEF Core
<1>0. At(g, "wunlock") /\ Goto(g, "idle")
  BY DEF UnlockW
<1>1. Move("wunlock", "idle")
  BY <1>0, Moved
<1>2. RWTypeOK' /\ RWNoThrow' /\ OneWriter' /\ (Announced' <=> Announced)
  BY <1>0, RWMutexAssumption DEF UnlockW, RWTypeOK, RWNoThrow, OneWriter, Announced, At, Goto, RWPC, ReaderPC, WriterPC, counts, sems
<1>3. /\ \A l : l \notin {"wunlock", "idle"} => Count(l)' = Count(l)
      /\ \A h \in G : \A l : l \notin {"wunlock", "idle"} => (At(h, l)' <=> At(h, l))
      /\ UNCHANGED <<counts, sems, r>>
  BY <1>0, <1>1 DEF Move, UnlockW, RWTypeOK, At, Goto
<1>4. Numbers'
  <2>1. AdmittedN' = AdmittedN /\ Waiting' = Waiting
    BY <1>3 DEF AdmittedN, Waiting, At, sems
  <2>2. CountedN' /\ NobodyN'
    BY <1>2, <1>3, <2>1 DEF Numbers, CountedN, NobodyN, counts, sems
  <2>3. WriterN'
    BY <1>3, <2>1 DEF Numbers, WriterN, counts, sems
  <2>4. OwedN'
    BY <1>2, <1>3 DEF Numbers, OwedN, counts, sems
  <2> QED
    BY <2>2, <2>3, <2>4 DEF Numbers
<1> QED
  BY <1>2, <1>4

----------------------------------------------------------------------------
LEMMA RWNextKeeps == Core /\ [RWNext]_rwVars => Core'
<1> SUFFICES ASSUME Core, [RWNext]_rwVars PROVE Core'
  OBVIOUS
<1>1. ASSUME NEW g \in G, ReaderStep(g) PROVE Core'
  BY <1>1, RLockKeeps, RLockWakeKeeps, RUnlockKeeps, RUnlockDepartKeeps, RUnlockSignalKeeps
     DEF ReaderStep
<1>2. ASSUME NEW g \in G, WriterStep(g) PROVE Core'
  BY <1>2, LockKeeps, LockWKeeps, LockAnnounceKeeps, LockCountKeeps, LockWakeKeeps,
     UnlockKeeps, UnlockReleaseKeeps, UnlockWKeeps DEF WriterStep
<1>3. CASE UNCHANGED rwVars
  <2>1. /\ \A l : Count(l)' = Count(l)
        /\ \A l : \A g \in G : At(g, l)' <=> At(g, l)
        /\ Announced' = Announced /\ Waiting' = Waiting
    BY <1>3 DEF rwVars, Announced, Waiting, Count, In, At
  <2>2. AdmittedN' = AdmittedN
    BY <2>1, <1>3 DEF rwVars, sems, AdmittedN
  <2>3. RWTypeOK' /\ RWNoThrow' /\ OneWriter'
    BY <1>3 DEF rwVars, counts, sems, Core, RWTypeOK, RWNoThrow, OneWriter, At
  <2>4. Numbers'
    BY <2>1, <2>2, <1>3 DEF rwVars, counts, sems, Core, Numbers, CountedN, WriterN, NobodyN, OwedN
  <2> QED
    BY <2>3, <2>4 DEF Core
<1> QED
  BY <1>1, <1>2, <1>3 DEF RWNext

(* The invariant the run checks holds for any number of goroutines: the    *)
(* counts of readerCount and readerWait are right under every interleaving *)
(* of RLock, RUnlock, Lock and Unlock (rwmutex.go:43-131).                 *)
THEOREM RWInvariance == RWSpec => []RWInv
<1>1. RWSpec => []Core
  BY RWInitCore, RWNextKeeps, PTL DEF RWSpec
<1> QED
  BY <1>1, CoreIsIInv, PTL

(* A writer is alone: "an arbitrary number of readers or a single writer"  *)
(* (rwmutex.go:16-17).                                                     *)
THEOREM Excludes == RWSpec => []Exclusion
<1>1. RWInv => Exclusion
  BY DEF RWInv
<1> QED
  BY <1>1, RWInvariance, PTL

(* A correct client meets neither throw (rwmutex.go:69-72, 122-125), which *)
(* needs what readerCount counts, and that the goroutines are too few to   *)
(* reach rwmutexMaxReaders.                                                *)
THEOREM RWNeverThrows == RWSpec => []RWNoThrow
<1>1. RWInv => RWNoThrow
  BY DEF RWInv
<1> QED
  BY <1>1, RWInvariance, PTL

(* A reader asleep without a writer about has its unit, or the writer that *)
(* is leaving still has one to release for it (rwmutex.go:48-51, 127-129). *)
THEOREM ReadersAreOwed == RWSpec => []SleepersOwed
<1>1. RWInv => SleepersOwed
  BY DEF RWInv
<1> QED
  BY <1>1, RWInvariance, PTL

(* A writer asleep in Lock is owed exactly one signal: by the readers it   *)
(* counted, by the last of them on its way, or by the unit that is already *)
(* there (rwmutex.go:74-77, 97-99).                                        *)
THEOREM WriterIsOwed == RWSpec => []WriterWaits
<1>1. RWInv => WriterWaits
  BY DEF RWInv
<1> QED
  BY <1>1, RWInvariance, PTL

----------------------------------------------------------------------------
(* WaitGroup.                                                              *)
(* Counting.                                                               *)

LEMMA GroupFinite ==
  /\ \A l : IsFiniteSet(In(l)) /\ Cardinality(In(l)) \in Nat /\ (In(l) = {} <=> Cardinality(In(l)) = 0)
  /\ \A S \in SUBSET G : IsFiniteSet(S) /\ Cardinality(S) \in Nat /\ (S = {} <=> Cardinality(S) = 0)
<1>1. \A S \in SUBSET G : IsFiniteSet(S)
  BY WaitGroupAssumption, FS_Subset
<1>2. \A S \in SUBSET G : Cardinality(S) \in Nat /\ (S = {} <=> Cardinality(S) = 0)
  BY <1>1, FS_CardinalityType, FS_EmptySet
<1>3. \A l : In(l) \in SUBSET G
  BY DEF In
<1> QED
  BY <1>1, <1>2, <1>3

(* n units of one goroutine.                                               *)
LEMMA Block ==
  ASSUME NEW g \in G, NEW n \in Nat
  PROVE  IsFiniteSet({g} \X (1..n)) /\ Cardinality({g} \X (1..n)) = n
<1>1. IsFiniteSet({g}) /\ Cardinality({g}) = 1
  BY FS_Singleton
<1>2. IsFiniteSet(1..n) /\ Cardinality(1..n) = n
  <2>1. IsFiniteSet(1..n) /\ Cardinality(1..n) = IF 1 > n THEN 0 ELSE n - 1 + 1
    BY FS_Interval
  <2> QED
    BY <2>1
<1>3. IsFiniteSet({g} \X (1..n)) /\ Cardinality({g} \X (1..n)) = Cardinality({g}) * Cardinality(1..n)
  BY <1>1, <1>2, FS_Product
<1> QED
  BY <1>1, <1>2, <1>3

LEMMA FinishingFinite ==
  /\ IsFiniteSet(Finishing) /\ Cardinality(Finishing) \in Nat
  /\ Finishing = {} <=> Cardinality(Finishing) = 0
<1>1. IsFiniteSet(1..MaxDelta)
  BY WaitGroupAssumption, FS_Interval
<1>2. IsFiniteSet(G \X (1..MaxDelta))
  BY <1>1, WaitGroupAssumption, FS_Product
<1>3. IsFiniteSet(Finishing)
  BY <1>2, FS_Subset DEF Finishing
<1> QED
  BY <1>3, FS_CardinalityType, FS_EmptySet

(* One goroutine comes to l, or leaves l.                                  *)
LEMMA Comes ==
  ASSUME NEW l, NEW g \in G, In(l)' = In(l) \cup {g}, g \notin In(l)
  PROVE  Cardinality(In(l))' = Cardinality(In(l)) + 1
<1>1. Cardinality(In(l) \cup {g}) = Cardinality(In(l)) + 1
  BY GroupFinite, FS_AddElement
<1> QED
  BY <1>1

LEMMA Leaves ==
  ASSUME NEW l, NEW g \in G, In(l)' = In(l) \ {g}, g \in In(l)
  PROVE  Cardinality(In(l))' = Cardinality(In(l)) - 1
<1>1. Cardinality(In(l) \ {g}) = Cardinality(In(l)) - 1
  BY GroupFinite, FS_RemoveElement
<1> QED
  BY <1>1

(* Where everybody is after a step of g.                                   *)
LEMMA Moves ==
  ASSUME WGTypeOK, NEW g \in G, NEW l, Goto(g, l)
  PROVE  /\ \A k : In(k)' = IF k = l THEN In(k) \cup {g} ELSE In(k) \ {g}
         /\ \A h \in G : pc'[h] = IF h = g THEN l ELSE pc[h]
  BY DEF WGTypeOK, Goto, In, At

----------------------------------------------------------------------------
LEMMA WGInitKeeps == WGInit => WGInv
<1> SUFFICES ASSUME WGInit PROVE WGInv
  OBVIOUS
<1>1. \A l : l # "idle" => In(l) = {}
  BY DEF WGInit, In, At
<1>2. InWait = {} /\ Adding = {} /\ Zeroing = {} /\ Fresh = {} /\ Finishing = {}
  BY DEF WGInit, InWait, Adding, WaitPC, Zeroing, Fresh, Finishing, In, At
<1>3. WGTypeOK /\ NoPanic
  BY WaitGroupAssumption DEF WGInit, WGTypeOK, NoPanic, ZeroState, State, WGPC, At
<1>4. Cardinality({}) = 0
  BY FS_EmptySet
<1>5. WaitersAccounted
  BY <1>1, <1>3, <1>4 DEF WGInit, WaitersAccounted, ZeroState
<1>6. UnitsCounted
  BY <1>2, <1>4 DEF WGInit, UnitsCounted, ZeroState, At
<1>7. ZeroIsFinal
  BY <1>1, <1>2 DEF WGInit, ZeroIsFinal, ZeroState
<1> QED
  BY <1>5, <1>6, <1>7 DEF WGInv

----------------------------------------------------------------------------
(* What the invariant says of a goroutine that is about to take a step.    *)

(* A counter above zero: nothing is being released.                        *)
LEMMA Positive ==
  ASSUME WGInv, statep.counter # 0
  PROVE  semap = 0 /\ Zeroing = {} /\ In("wake") = {}
         /\ statep.waiters = Cardinality(In("sleep"))
<1>1. statep # ZeroState
  BY DEF ZeroState
<1>2. semap = 0 /\ In("wake") = {} /\ In("release") = {}
  BY <1>1 DEF WGInv, ZeroIsFinal, WaitersAccounted, WGTypeOK
<1>3. Zeroing = {}
  BY DEF WGInv, ZeroIsFinal
<1> QED
  BY <1>2, <1>3 DEF WGInv, WaitersAccounted, WGTypeOK, State

(* Nobody in Wait: nothing is being released either.                       *)
LEMMA NobodyThere ==
  ASSUME WGInv, InWait = {}
  PROVE  semap = 0 /\ Zeroing = {} /\ In("wake") = {} /\ statep.waiters = 0
         /\ In("cas") = {}
<1>1. In("sleep") = {} /\ In("wake") = {} /\ In("cas") = {}
  BY DEF In, At, InWait, WaitPC
<1>2. Cardinality(In("sleep")) = 0
  BY <1>1, FS_EmptySet
<1>t. statep.waiters \in Nat /\ semap \in Nat /\ \A g \in G : local[g].waiters \in Nat
  BY DEF WGInv, WaitersAccounted, WGTypeOK, State
<1>3. In("release") = {}
  <2> SUFFICES ASSUME NEW g \in In("release") PROVE FALSE
    OBVIOUS
  <2>1. statep.waiters + semap + local[g].waiters = 0
    BY <1>2 DEF WGInv, WaitersAccounted
  <2>2. local[g].waiters > 0 /\ g \in G
    BY DEF WGInv, ZeroIsFinal, Zeroing, In
  <2> QED
    BY <2>1, <2>2, <1>t
<1>4. statep.waiters = 0 /\ semap = 0
  BY <1>2, <1>3, <1>t DEF WGInv, WaitersAccounted
<1>5. In("check") \cup In("reset") = {}
  <2> SUFFICES ASSUME NEW g \in In("check") \cup In("reset") PROVE FALSE
    OBVIOUS
  <2>1. local[g].waiters > 0 /\ statep = local[g]
    BY DEF WGInv, ZeroIsFinal, Zeroing
  <2> QED
    BY <2>1, <1>4
<1> QED
  BY <1>1, <1>3, <1>4, <1>5 DEF Zeroing

(* A counter at zero: every unit is done, and no call of Done is left.     *)
LEMMA AllDone ==
  ASSUME WGInv, statep.counter = 0
  PROVE  owed = 0 /\ holds = {} /\ \A g \in G : At(g, "add") => g \in Fresh
<1>1. owed \in Nat /\ holds \in SUBSET G
  BY DEF WGInv, WaitersAccounted, WGTypeOK
<1>2. Cardinality(holds) \in Nat /\ Cardinality(Finishing) \in Nat
  BY <1>1, GroupFinite, FinishingFinite
<1>3. owed = 0 /\ Cardinality(holds) = 0 /\ Cardinality(Finishing) = 0
  BY <1>1, <1>2 DEF WGInv, UnitsCounted
<1>4. holds = {} /\ Finishing = {}
  BY <1>1, <1>3, GroupFinite, FinishingFinite
<1>5. ASSUME NEW g \in G, At(g, "add") PROVE g \in Fresh
  <2>1. arg[g] \in -MaxDelta..MaxDelta /\ arg[g] # 0
    BY <1>5 DEF WGInv, WaitersAccounted, WGTypeOK, UnitsCounted
  <2>2. CASE arg[g] < 0
    <3>1. <<g, 1>> \in Finishing
      BY <2>1, <2>2, <1>5, WaitGroupAssumption DEF Finishing
    <3> QED
      BY <3>1, <1>4
  <2>3. CASE arg[g] > 0
    BY <2>3, <1>5, <1>4 DEF Fresh, Adding
  <2> QED
    BY <2>1, <2>2, <2>3, WaitGroupAssumption
<1> QED
  BY <1>3, <1>4, <1>5

(* The counter is never negative.                                          *)
LEMMA CounterIsNat == WGInv => statep.counter \in Nat
<1> SUFFICES ASSUME WGInv PROVE statep.counter \in Nat
  OBVIOUS
<1>1. owed \in Nat /\ holds \in SUBSET G
  BY DEF WGInv, WaitersAccounted, WGTypeOK
<1> QED
  BY <1>1, GroupFinite, FinishingFinite DEF WGInv, UnitsCounted

----------------------------------------------------------------------------
(* Calls.                                                                  *)

(* Who is in the later stages of Add, or anywhere in Wait.                 *)
Places == {"check", "reset", "release", "load", "cas", "sleep", "wake"}

(* A call of Add or Done: nothing moves but the units.                     *)
LEMMA CallKeepsRest ==
  ASSUME WGInv, NEW g \in G, At(g, "idle"), Goto(g, "add"),
         UNCHANGED <<statep, semap, local>>,
         arg' \in [G -> -MaxDelta..MaxDelta], owed' \in Nat, holds' \subseteq G,
         Fresh' # {} => InWait = {}
  PROVE  WaitersAccounted' /\ ZeroIsFinal'
<1>t. WGTypeOK /\ NoPanic
  BY DEF WGInv, WaitersAccounted
<1>1. /\ \A k \in Places : In(k)' = In(k)
      /\ \A h \in G : pc'[h] = IF h = g THEN "add" ELSE pc[h]
  <2>1. \A k \in Places : g \notin In(k)
    BY DEF In, At, Places
  <2>2. /\ \A k : In(k)' = IF k = "add" THEN In(k) \cup {g} ELSE In(k) \ {g}
        /\ \A h \in G : pc'[h] = IF h = g THEN "add" ELSE pc[h]
    BY <1>t, Moves
  <2>3. "add" \notin Places
    BY DEF Places
  <2> QED
    BY <2>1, <2>2, <2>3
<1>2. Zeroing' = Zeroing /\ InWait' = InWait
  <2>1. Zeroing' = Zeroing
    BY <1>1 DEF Places, Zeroing
  <2> QED
    BY <2>1, <1>1 DEF InWait, WaitPC, At
<1>3. WGTypeOK' /\ NoPanic'
  <2>1. pc' \in [G -> WGPC]
    BY <1>t DEF WGTypeOK, Goto, WGPC, AddPC
  <2> QED
    BY <2>1, <1>1, <1>t DEF WGTypeOK, NoPanic, At
<1>4. WaitersAccounted'
  BY <1>1, <1>3 DEF WGInv, WaitersAccounted, Places
<1>5. ZeroIsFinal'
  BY <1>1, <1>2 DEF WGInv, ZeroIsFinal, Places
<1> QED
  BY <1>4, <1>5

LEMMA CallAddKeeps ==
  ASSUME WGInv, Careful, NEW g \in G, NEW delta \in 1..MaxDelta, CallAdd(g, delta)
  PROVE  WGInv'
<1>t. WGTypeOK /\ WaitersAccounted /\ UnitsCounted
  BY DEF WGInv, WaitersAccounted
<1>1. /\ At(g, "idle") /\ g \notin holds
      /\ \A h \in G : pc'[h] = IF h = g THEN "add" ELSE pc[h]
      /\ \A h \in G : arg'[h] = IF h = g THEN delta ELSE arg[h]
      /\ arg' \in [G -> -MaxDelta..MaxDelta]
  <2>1. At(g, "idle") /\ Goto(g, "add") /\ arg' = [arg EXCEPT ![g] = delta]
    BY DEF CallAdd
  <2>2. g \notin holds
    BY <1>t, <2>1 DEF UnitsCounted, Adding, At
  <2>3. delta \in -MaxDelta..MaxDelta
    BY WaitGroupAssumption
  <2> QED
    BY <1>t, <2>1, <2>2, <2>3, Moves DEF WGTypeOK
<1>2. Finishing' = Finishing
  <2>1. \A h \in G, i \in 1..MaxDelta :
          (At(h, "add") /\ i <= -arg[h])' <=> At(h, "add") /\ i <= -arg[h]
    BY <1>1, WaitGroupAssumption DEF At
  <2> QED
    BY <2>1 DEF Finishing
<1>3. Adding' = Adding \cup {g}
  BY <1>1 DEF Adding, At
<1>4. CASE /\ statep.counter = 0 /\ InWait = {} /\ UNCHANGED <<owed, holds>>
  <2>1. WaitersAccounted' /\ ZeroIsFinal'
    BY <1>1, <1>4, <1>t, CallKeepsRest DEF CallAdd, WGTypeOK
  <2>2. UnitsCounted'
    BY <1>1, <1>2, <1>3, <1>4, <1>t DEF CallAdd, UnitsCounted, At
  <2> QED
    BY <2>1, <2>2 DEF WGInv
<1>5. CASE owed > 0 /\ owed' = owed - 1 /\ holds' = holds \cup {g}
  <2>1. holds' \subseteq G /\ owed' \in Nat /\ Fresh' = Fresh
    BY <1>1, <1>3, <1>5, <1>t DEF WGTypeOK, Fresh, Adding, At
  <2>2. WaitersAccounted' /\ ZeroIsFinal'
    <3>1. Fresh' # {} => InWait = {}
      BY <2>1 DEF WGInv, ZeroIsFinal
    <3> QED
      BY <1>1, <2>1, <3>1, CallKeepsRest DEF CallAdd
  <2>3. Cardinality(holds)' = Cardinality(holds) + 1
    <3>1. IsFiniteSet(holds)
      BY <1>t, GroupFinite DEF WGTypeOK
    <3> QED
      BY <1>1, <1>5, <3>1, FS_AddElement
  <2>4. Cardinality(holds) \in Nat /\ Cardinality(Finishing) \in Nat /\ owed \in Nat
    BY <1>t, GroupFinite, FinishingFinite DEF WGTypeOK
  <2>5. statep'.counter = owed' + Cardinality(holds)' + Cardinality(Finishing)'
    BY <2>3, <2>4, <1>2, <1>5, <1>t DEF CallAdd, UnitsCounted
  <2>6. UnitsCounted'
    BY <1>1, <1>3, <1>5, <1>t, <2>5 DEF UnitsCounted, At
  <2> QED
    BY <2>2, <2>6 DEF WGInv
<1> QED
  BY <1>4, <1>5 DEF CallAdd

LEMMA CallDoneKeeps ==
  ASSUME WGInv, NEW g \in G, NEW n \in 1..MaxDelta, CallDone(g, n)
  PROVE  WGInv'
<1>t. WGTypeOK /\ WaitersAccounted /\ UnitsCounted
  BY DEF WGInv, WaitersAccounted
<1>1. /\ At(g, "idle") /\ Goto(g, "add") /\ g \notin holds
      /\ \A h \in G : pc'[h] = IF h = g THEN "add" ELSE pc[h]
      /\ \A h \in G : arg'[h] = IF h = g THEN -n ELSE arg[h]
      /\ arg' \in [G -> -MaxDelta..MaxDelta]
  <2>1. At(g, "idle") /\ Goto(g, "add") /\ arg' = [arg EXCEPT ![g] = -n]
    BY DEF CallDone
  <2>2. g \notin holds
    BY <1>t, <2>1 DEF UnitsCounted, Adding, At
  <2>3. -n \in -MaxDelta..MaxDelta
    BY WaitGroupAssumption
  <2> QED
    BY <1>t, <2>1, <2>2, <2>3, Moves DEF WGTypeOK
<1>2. Adding' = Adding /\ Fresh' = Fresh
  <2>1. Adding' = Adding
    BY <1>1 DEF Adding, At
  <2> QED
    BY <2>1 DEF Fresh, CallDone
<1>3. owed' = owed - n /\ owed' \in Nat /\ owed \in Nat
  BY <1>t DEF CallDone, WGTypeOK
<1>4. WaitersAccounted' /\ ZeroIsFinal'
  <2>1. Fresh' # {} => InWait = {}
    BY <1>2 DEF WGInv, ZeroIsFinal
  <2> QED
    BY <1>1, <1>3, <1>t, <2>1, CallKeepsRest DEF CallDone, WGTypeOK
<1>5. Cardinality(Finishing)' = Cardinality(Finishing) + n
  <2> DEFINE B == {g} \X (1..n)
  <2>1. Finishing' = Finishing \cup B
    <3>1. \A h \in G, i \in 1..MaxDelta :
            (At(h, "add") /\ i <= -arg[h])' <=> (At(h, "add") /\ i <= -arg[h]) \/ (h = g /\ i <= n)
      BY <1>1 DEF At
    <3>2. 1..n \subseteq 1..MaxDelta
      BY WaitGroupAssumption
    <3>3. B \subseteq G \X (1..MaxDelta)
      BY <3>2
    <3>4. \A h \in G, i \in 1..MaxDelta : <<h, i>> \in B <=> h = g /\ i <= n
      BY WaitGroupAssumption
    <3> HIDE DEF B
    <3> QED
      BY <3>1, <3>3, <3>4 DEF Finishing
  <2>2. Finishing \cap B = {}
    BY <1>1 DEF Finishing, At
  <2>3. IsFiniteSet(B) /\ Cardinality(B) = n
    BY Block
  <2> HIDE DEF B
  <2>4. Cardinality(Finishing \cup B)
          = Cardinality(Finishing) + Cardinality(B) - Cardinality(Finishing \cap B)
    BY <2>3, FinishingFinite, FS_Union
  <2>5. Cardinality(Finishing \cap B) = 0
    BY <2>2, FS_EmptySet
  <2> QED
    BY <2>1, <2>3, <2>4, <2>5, FinishingFinite
<1>6. UnitsCounted'
  <2>1. Cardinality(holds) \in Nat /\ Cardinality(Finishing) \in Nat
    BY <1>t, GroupFinite, FinishingFinite DEF WGTypeOK
  <2>2. statep'.counter = owed' + Cardinality(holds)' + Cardinality(Finishing)'
    BY <1>3, <1>5, <1>t, <2>1 DEF CallDone, UnitsCounted
  <2>3. \A h \in G : At(h, "add")' => arg'[h] # 0
    BY <1>1, <1>t DEF UnitsCounted, At
  <2> QED
    BY <1>2, <1>t, <2>2, <2>3 DEF CallDone, UnitsCounted
<1> QED
  BY <1>4, <1>6 DEF WGInv

----------------------------------------------------------------------------
(* Add: the counter changes.                                               *)

LEMMA AddDeltaUnits ==
  ASSUME WGInv, NEW g \in G, AddDelta(g)
  PROVE  /\ UnitsCounted' /\ Fresh' \subseteq Fresh /\ statep'.counter \in Nat
         /\ owed' \in Nat /\ holds' \subseteq G
         /\ g \notin Fresh => statep.counter # 0
         /\ arg[g] > 0 => statep'.counter > 0
<1>t. WGTypeOK /\ UnitsCounted
  BY DEF WGInv, WaitersAccounted
<1>g. /\ At(g, "add") /\ arg[g] \in Int /\ arg[g] # 0 /\ arg[g] <= MaxDelta /\ -arg[g] <= MaxDelta
      /\ MaxDelta \in Nat
  <2>1. At(g, "add") /\ arg[g] \in -MaxDelta..MaxDelta /\ arg[g] # 0
    BY <1>t DEF AddDelta, UnitsCounted, WGTypeOK
  <2> QED
    BY <2>1, WaitGroupAssumption
<1>s. /\ statep'.counter = statep.counter + arg[g]
      /\ owed' = owed + (IF arg[g] > 0 THEN arg[g] ELSE 0) + (IF g \in holds THEN 1 ELSE 0)
      /\ holds' = holds \ {g}
  BY DEF AddDelta
<1>n. /\ statep.counter \in Nat /\ owed \in Nat /\ holds \in SUBSET G
      /\ Cardinality(holds) \in Nat /\ Cardinality(Finishing) \in Nat
      /\ statep.counter = owed + Cardinality(holds) + Cardinality(Finishing)
  BY <1>t, CounterIsNat, GroupFinite, FinishingFinite DEF WGTypeOK, UnitsCounted
<1>p. \E l \in {"panic", "idle", "check"} : Goto(g, l)
  <2> DEFINE v == statep.counter + arg[g]
             l == IF v < 0 \/ (statep.waiters # 0 /\ arg[g] > 0 /\ v = arg[g]) THEN "panic"
                  ELSE IF v > 0 \/ statep.waiters = 0 THEN "idle" ELSE "check"
  <2>1. Goto(g, l)
    BY DEF AddDelta
  <2> QED
    BY <2>1
<1>m. /\ ~At(g, "add")' /\ \A h \in G \ {g} : At(h, "add")' = At(h, "add")
      /\ \A h \in G \ {g} : arg'[h] = arg[h]
  <2>1. pc'[g] # "add" /\ \A h \in G \ {g} : pc'[h] = pc[h]
    BY <1>p, <1>t DEF Goto, WGTypeOK
  <2>2. \A h \in G \ {g} : arg'[h] = arg[h]
    BY <1>t DEF AddDelta, WGTypeOK
  <2> QED
    BY <2>1, <2>2 DEF At
<1>1. Adding' = Adding \ {g} /\ Fresh' \subseteq Fresh /\ holds' \subseteq Adding'
      /\ \A h \in G : At(h, "add")' => arg'[h] # 0
  <2>1. Adding' = Adding \ {g}
    BY <1>m DEF Adding
  <2> QED
    BY <2>1, <1>m, <1>s, <1>t DEF UnitsCounted, Fresh
<1>2. /\ Cardinality(holds)' = Cardinality(holds) - (IF g \in holds THEN 1 ELSE 0)
      /\ g \in holds => Cardinality(holds) > 0
  <2>1. IsFiniteSet(holds)
    BY <1>n, GroupFinite
  <2>2. CASE g \in holds
    <3>1. Cardinality(holds \ {g}) = Cardinality(holds) - 1
      BY <2>1, <2>2, FS_RemoveElement
    <3>2. Cardinality(holds) # 0
      BY <2>2, <1>n, GroupFinite
    <3> QED
      BY <2>2, <3>1, <3>2, <1>s, <1>n
  <2>3. CASE g \notin holds
    <3>1. holds' = holds
      BY <2>3, <1>s
    <3> QED
      BY <2>3, <3>1, <1>n
  <2> QED
    BY <2>2, <2>3
<1>3. /\ Cardinality(Finishing)' = Cardinality(Finishing) - (IF arg[g] < 0 THEN -arg[g] ELSE 0)
      /\ arg[g] < 0 => Cardinality(Finishing) >= -arg[g]
  <2>1. CASE arg[g] < 0
    <3> DEFINE B == {g} \X (1..(-arg[g]))
    <3>1. -arg[g] \in Nat /\ IsFiniteSet(B) /\ Cardinality(B) = -arg[g]
      <4>1. -arg[g] \in Nat
        BY <1>g, <2>1
      <4> QED
        BY <4>1, Block
    <3>2. \A h \in G, i \in 1..MaxDelta : <<h, i>> \in B <=> h = g /\ i <= -arg[g]
      BY <1>g
    <3>3. B \subseteq Finishing
      <4>1. 1..(-arg[g]) \subseteq 1..MaxDelta
        BY <1>g
      <4>2. B \subseteq G \X (1..MaxDelta)
        BY <4>1
      <4>3. \A u \in B : u[1] = g /\ u[2] <= -arg[g]
        BY <1>g
      <4> HIDE DEF B
      <4> QED
        BY <4>2, <4>3, <1>g DEF Finishing
    <3> HIDE DEF B
    <3>4. Finishing' = Finishing \ B
      <4>1. \A h \in G, i \in 1..MaxDelta :
              (At(h, "add") /\ i <= -arg[h])' <=> (At(h, "add") /\ i <= -arg[h]) /\ <<h, i>> \notin B
        BY <1>m, <3>2, <1>g
      <4> QED
        BY <4>1 DEF Finishing
    <3>5. Cardinality(Finishing \ B) = Cardinality(Finishing) - Cardinality(Finishing \cap B)
      BY FinishingFinite, FS_Difference
    <3>6. Finishing \cap B = B
      BY <3>3
    <3>7. Cardinality(B) <= Cardinality(Finishing)
      BY <3>3, FinishingFinite, FS_Subset
    <3> QED
      BY <2>1, <3>1, <3>4, <3>5, <3>6, <3>7
  <2>2. CASE arg[g] > 0
    <3>1. Finishing' = Finishing
      <4>1. \A h \in G, i \in 1..MaxDelta :
              (At(h, "add") /\ i <= -arg[h])' <=> (At(h, "add") /\ i <= -arg[h])
        BY <1>m, <2>2, <1>g
      <4> QED
        BY <4>1 DEF Finishing
    <3> QED
      BY <3>1, <2>2, <1>g, <1>n
  <2> QED
    BY <2>1, <2>2, <1>g
<1>h. g \in holds => arg[g] > 0
  BY <1>t DEF UnitsCounted, Adding
<1>4. /\ statep'.counter = owed' + Cardinality(holds)' + Cardinality(Finishing)'
      /\ statep'.counter \in Nat /\ owed' \in Nat
      /\ arg[g] > 0 => statep'.counter > 0
      /\ arg[g] < 0 \/ g \in holds => statep.counter # 0
  BY <1>s, <1>n, <1>g, <1>2, <1>3, <1>h
<1>5. g \notin Fresh => arg[g] < 0 \/ g \in holds
  BY <1>g DEF Fresh, Adding
<1>6. holds' \subseteq G
  BY <1>s, <1>n
<1>7. UnitsCounted'
  BY <1>1, <1>4 DEF UnitsCounted
<1> QED
  BY <1>1, <1>4, <1>5, <1>6, <1>7

LEMMA AddDeltaKeeps ==
  ASSUME WGInv, NEW g \in G, AddDelta(g)
  PROVE  WGInv'
<1>t. WGTypeOK /\ NoPanic /\ UnitsCounted /\ WaitersAccounted
  BY DEF WGInv, WaitersAccounted
<1>u. /\ UnitsCounted' /\ Fresh' \subseteq Fresh /\ statep'.counter \in Nat
      /\ owed' \in Nat /\ holds' \subseteq G
      /\ g \notin Fresh => statep.counter # 0
      /\ arg[g] > 0 => statep'.counter > 0
  BY AddDeltaUnits
<1> DEFINE v == statep.counter + arg[g]
           n == statep.waiters
<1>s. /\ At(g, "add") /\ statep' = [counter |-> v, waiters |-> n] /\ semap' = semap
      /\ local' = [local EXCEPT ![g] = statep'] /\ v \in Nat
  BY <1>u DEF AddDelta
<1>i. arg[g] \in Int /\ statep.counter \in Nat /\ n \in Nat /\ arg[g] # 0 /\ arg' \in [G -> -MaxDelta..MaxDelta]
  <2>1. arg[g] \in -MaxDelta..MaxDelta /\ arg[g] # 0 /\ 0 \in -MaxDelta..MaxDelta
    BY <1>t, <1>s, WaitGroupAssumption DEF WGTypeOK, UnitsCounted
  <2>2. n \in Nat
    BY <1>t DEF WGTypeOK, State
  <2> QED
    BY <1>t, <2>1, <2>2, CounterIsNat, WaitGroupAssumption DEF AddDelta, WGTypeOK
<1>z. /\ semap = 0 /\ Zeroing = {} /\ In("wake") = {} /\ n = Cardinality(In("sleep"))
      /\ g \in Fresh => n = 0
  <2>1. CASE statep.counter # 0
    <3>1. g \in Fresh => n = 0
      <4>1. g \in Fresh => InWait = {}
        BY DEF WGInv, ZeroIsFinal
      <4> QED
        BY <4>1, NobodyThere
    <3> QED
      BY <2>1, <3>1, Positive
  <2>2. CASE statep.counter = 0
    <3>1. InWait = {}
      BY <2>2, <1>u DEF WGInv, ZeroIsFinal
    <3>2. Cardinality(In("sleep")) = 0
      <4>1. In("sleep") = {}
        BY <3>1 DEF In, At, InWait, WaitPC
      <4> QED
        BY <4>1, FS_EmptySet
    <3> QED
      BY <3>1, <3>2, NobodyThere
  <2> QED
    BY <2>1, <2>2
<1>c. /\ v > 0 \/ n = 0 => Goto(g, "idle")
      /\ v = 0 /\ n > 0 => Goto(g, "check")
  <2>1. ~(v < 0)
    BY <1>s
  <2>2. ~(n # 0 /\ arg[g] > 0 /\ v = arg[g])
    BY <1>i, <1>z, <1>u
  <2>3. Goto(g, IF v < 0 \/ (n # 0 /\ arg[g] > 0 /\ v = arg[g]) THEN "panic"
                ELSE IF v > 0 \/ n = 0 THEN "idle" ELSE "check")
    BY DEF AddDelta
  <2> HIDE DEF v, n
  <2> QED
    BY <2>1, <2>2, <2>3, <1>s, <1>i
<1> HIDE DEF v, n
<1>w. /\ statep' \in State /\ local' \in [G -> State] /\ local'[g] = statep'
      /\ \A h \in G \ {g} : local'[h] = local[h]
      /\ statep'.counter = v /\ statep'.waiters = n
  <2>1. statep' \in State /\ statep'.counter = v /\ statep'.waiters = n
    BY <1>s, <1>i DEF State
  <2> QED
    BY <2>1, <1>t, <1>s DEF WGTypeOK
<1>e. In("check") = {} /\ In("reset") = {} /\ In("release") = {}
  BY <1>z DEF Zeroing
<1>1. CASE v > 0 \/ n = 0
  <2>1. /\ \A k : In(k)' = IF k = "idle" THEN In(k) \cup {g} ELSE In(k) \ {g}
        /\ \A h \in G : pc'[h] = IF h = g THEN "idle" ELSE pc[h]
    BY <1>1, <1>c, <1>t, Moves
  <2>2. /\ In("check")' = {} /\ In("reset")' = {} /\ In("release")' = {} /\ In("wake")' = {}
        /\ In("sleep")' = In("sleep") /\ In("cas")' = In("cas") /\ InWait' = InWait
    <3>1. g \notin In("sleep") /\ g \notin In("cas")
      BY <1>s DEF In, At
    <3>2. InWait' = InWait
      BY <2>1, <1>s DEF InWait, WaitPC, At
    <3> QED
      BY <2>1, <3>1, <3>2, <1>e, <1>z
  <2>3. WGTypeOK' /\ NoPanic'
    <3>1. pc' \in [G -> WGPC]
      BY <1>t, <1>1, <1>c DEF Goto, WGTypeOK, WGPC
    <3> QED
      BY <3>1, <1>t, <1>s, <1>u, <1>i, <1>w, <2>1 DEF WGTypeOK, NoPanic, At
  <2>4. WaitersAccounted'
    BY <2>2, <2>3, <1>w, <1>s, <1>z, <1>i DEF WaitersAccounted
  <2>5. ZeroIsFinal'
    <3>1. Zeroing' = {}
      BY <2>2 DEF Zeroing
    <3>2. \A h \in In("cas")' : local'[h].counter # 0
      <4>1. \A h \in In("cas") : h \in G /\ h # g
        BY <1>s DEF In, At
      <4> QED
        BY <4>1, <2>2, <1>w DEF WGInv, ZeroIsFinal
    <3>3. Fresh' # {} => InWait' = {}
      BY <2>2, <1>u DEF WGInv, ZeroIsFinal
    <3> QED
      BY <3>1, <3>2, <3>3, <2>2, <1>s, <1>z, <1>w, <1>1, <1>i DEF ZeroIsFinal
  <2> QED
    BY <2>4, <2>5, <1>u DEF WGInv
<1>2. CASE v = 0 /\ n > 0
  <2>1. /\ \A k : In(k)' = IF k = "check" THEN In(k) \cup {g} ELSE In(k) \ {g}
        /\ \A h \in G : pc'[h] = IF h = g THEN "check" ELSE pc[h]
    BY <1>2, <1>c, <1>t, Moves
  <2>2. /\ In("check")' = {g} /\ In("reset")' = {} /\ In("release")' = {} /\ In("wake")' = {}
        /\ In("sleep")' = In("sleep") /\ In("cas")' = In("cas") /\ InWait' = InWait
    <3>1. g \notin In("sleep") /\ g \notin In("cas")
      BY <1>s DEF In, At
    <3>2. InWait' = InWait
      BY <2>1, <1>s DEF InWait, WaitPC, At
    <3> QED
      BY <2>1, <3>1, <3>2, <1>e, <1>z
  <2>3. WGTypeOK' /\ NoPanic'
    <3>1. pc' \in [G -> WGPC]
      BY <1>t, <1>2, <1>c DEF Goto, WGTypeOK, WGPC, AddPC
    <3> QED
      BY <3>1, <1>t, <1>s, <1>u, <1>i, <1>w, <2>1 DEF WGTypeOK, NoPanic, At
  <2>4. WaitersAccounted'
    BY <2>2, <2>3, <1>w, <1>s, <1>z, <1>i DEF WaitersAccounted
  <2>5. ZeroIsFinal'
    <3>1. Zeroing' = {g}
      BY <2>2 DEF Zeroing
    <3>2. \A h \in In("cas")' : local'[h].counter # 0
      <4>1. \A h \in In("cas") : h \in G /\ h # g
        BY <1>s DEF In, At
      <4> QED
        BY <4>1, <2>2, <1>w DEF WGInv, ZeroIsFinal
    <3>3. Fresh' # {} => InWait' = {}
      BY <2>2, <1>u DEF WGInv, ZeroIsFinal
    <3> QED
      BY <3>1, <3>2, <3>3, <2>2, <1>s, <1>z, <1>w, <1>2, <1>i DEF ZeroIsFinal
  <2> QED
    BY <2>4, <2>5, <1>u DEF WGInv
<1> QED
  BY <1>1, <1>2, <1>s, <1>i

----------------------------------------------------------------------------
(* The other steps leave the units alone.                                  *)
LEMMA UnitsKept ==
  ASSUME WGInv, NEW g \in G, NEW l, Goto(g, l), l # "add", ~At(g, "add"),
         UNCHANGED <<arg, owed, holds>>, statep'.counter = statep.counter
  PROVE  UnitsCounted' /\ Adding' = Adding /\ Fresh' = Fresh
<1>t. WGTypeOK /\ UnitsCounted
  BY DEF WGInv, WaitersAccounted
<1>1. \A h \in G : At(h, "add")' = At(h, "add")
  <2>1. \A h \in G : pc'[h] = IF h = g THEN l ELSE pc[h]
    BY <1>t, Moves
  <2> QED
    BY <2>1 DEF At
<1>2. Adding' = Adding /\ Fresh' = Fresh /\ Finishing' = Finishing
  <2>1. Adding' = Adding
    BY <1>1 DEF Adding
  <2>2. \A h \in G, i \in 1..MaxDelta :
          (At(h, "add") /\ i <= -arg[h])' <=> (At(h, "add") /\ i <= -arg[h])
    BY <1>1
  <2> QED
    BY <2>1, <2>2 DEF Fresh, Finishing
<1> QED
  BY <1>1, <1>2, <1>t DEF UnitsCounted

LEMMA CallWaitKeeps ==
  ASSUME WGInv, Careful, NEW g \in G, CallWait(g)
  PROVE  WGInv'
<1>t. WGTypeOK /\ NoPanic /\ WaitersAccounted /\ ZeroIsFinal
  BY DEF WGInv, WaitersAccounted
<1>1. UnitsCounted' /\ Fresh' = Fresh
  BY UnitsKept DEF CallWait, At
<1>2. Fresh = {}
  BY DEF CallWait, Fresh
<1>3. /\ \A k \in {"check", "reset", "release", "cas", "sleep", "wake"} : In(k)' = In(k)
      /\ \A h \in G : pc'[h] = IF h = g THEN "load" ELSE pc[h]
  <2>1. /\ \A k : In(k)' = IF k = "load" THEN In(k) \cup {g} ELSE In(k) \ {g}
        /\ \A h \in G : pc'[h] = IF h = g THEN "load" ELSE pc[h]
    BY <1>t, Moves DEF CallWait
  <2>2. \A k \in {"check", "reset", "release", "cas", "sleep", "wake"} : g \notin In(k) /\ k # "load"
    BY DEF CallWait, In, At
  <2> QED
    BY <2>1, <2>2
<1>4. WGTypeOK' /\ NoPanic'
  <2>1. pc' \in [G -> WGPC]
    BY <1>t DEF CallWait, Goto, WGTypeOK, WGPC, WaitPC
  <2> QED
    BY <2>1, <1>t, <1>3 DEF CallWait, WGTypeOK, NoPanic, At
<1>5. WaitersAccounted'
  BY <1>3, <1>4, <1>t DEF CallWait, WaitersAccounted
<1>6. Zeroing' = Zeroing
  BY <1>3 DEF Zeroing
<1>7. ZeroIsFinal'
  BY <1>1, <1>2, <1>3, <1>6, <1>t DEF CallWait, ZeroIsFinal
<1> QED
  BY <1>1, <1>5, <1>7 DEF WGInv

(* The Add that made the counter zero is alone, and the word is still what *)
(* it left there: the sanity check succeeds.                               *)
LEMMA AddCheckKeeps ==
  ASSUME WGInv, NEW g \in G, AddCheck(g)
  PROVE  WGInv'
<1>t. WGTypeOK /\ NoPanic /\ WaitersAccounted /\ ZeroIsFinal
  BY DEF WGInv, WaitersAccounted
<1>s. g \in In("check") /\ statep = local[g]
  BY <1>t DEF AddCheck, In, ZeroIsFinal
<1>g. Goto(g, "reset")
  BY <1>s DEF AddCheck
<1>1. UnitsCounted' /\ Fresh' = Fresh
  BY <1>g, UnitsKept DEF AddCheck, At
<1>2. /\ \A k : In(k)' = IF k = "reset" THEN In(k) \cup {g} ELSE In(k) \ {g}
      /\ \A h \in G : pc'[h] = IF h = g THEN "reset" ELSE pc[h]
  BY <1>t, <1>g, Moves
<1>3. /\ \A k \in {"release", "cas", "sleep", "wake"} : In(k)' = In(k)
      /\ In("check")' \cup In("reset")' = In("check") \cup In("reset")
      /\ InWait' = InWait
  <2>1. \A k \in {"release", "cas", "sleep", "wake"} : g \notin In(k) /\ k # "reset"
    BY DEF AddCheck, In, At
  <2>2. InWait' = InWait
    BY <1>2 DEF AddCheck, InWait, WaitPC, At
  <2> QED
    BY <1>2, <1>s, <2>1, <2>2
<1>4. WGTypeOK' /\ NoPanic'
  <2>1. pc' \in [G -> WGPC]
    BY <1>t, <1>g DEF Goto, WGTypeOK, WGPC, AddPC
  <2> QED
    BY <2>1, <1>t, <1>2 DEF AddCheck, WGTypeOK, NoPanic, At
<1>5. WaitersAccounted'
  BY <1>3, <1>4, <1>t DEF AddCheck, WaitersAccounted
<1>6. Zeroing' = Zeroing
  BY <1>3 DEF Zeroing
<1>7. ZeroIsFinal'
  BY <1>1, <1>3, <1>6, <1>t DEF AddCheck, ZeroIsFinal
<1> QED
  BY <1>1, <1>5, <1>7 DEF WGInv

(* *statep = 0: the waiters go from the word to the loop of this Add.      *)
LEMMA AddResetKeeps ==
  ASSUME WGInv, NEW g \in G, AddReset(g)
  PROVE  WGInv'
<1>t. WGTypeOK /\ NoPanic /\ WaitersAccounted /\ ZeroIsFinal
  BY DEF WGInv, WaitersAccounted
<1>s. /\ g \in In("reset") /\ g \in Zeroing /\ statep = local[g]
      /\ statep.counter = 0 /\ local[g].waiters > 0 /\ Goto(g, "release")
  <2>1. g \in In("reset") /\ g \in Zeroing /\ Goto(g, "release")
    BY DEF AddReset, In, Zeroing
  <2> QED
    BY <2>1, <1>t DEF ZeroIsFinal
<1>z. statep' = ZeroState /\ ZeroState.counter = 0 /\ ZeroState.waiters = 0 /\ ZeroState \in State
  BY DEF AddReset, ZeroState, State
<1>1. UnitsCounted' /\ Fresh' = Fresh
  <2>1. statep'.counter = statep.counter
    BY <1>s, <1>z
  <2> QED
    BY <1>s, <2>1, UnitsKept DEF AddReset, At
<1>2. /\ \A k : In(k)' = IF k = "release" THEN In(k) \cup {g} ELSE In(k) \ {g}
      /\ \A h \in G : pc'[h] = IF h = g THEN "release" ELSE pc[h]
  BY <1>t, <1>s, Moves
<1>o. In("check") = {} /\ In("reset") = {g} /\ In("release") = {} /\ semap = 0
  <2>1. \A h \in Zeroing : h = g
    BY <1>s, <1>t DEF ZeroIsFinal
  <2>2. g \notin In("check") /\ g \notin In("release")
    BY DEF AddReset, In, At
  <2>3. semap = 0
    <3>1. statep # ZeroState /\ semap \in Nat
      BY <1>s, <1>z, <1>t DEF WGTypeOK
    <3> QED
      BY <3>1, <1>t DEF ZeroIsFinal
  <2> QED
    BY <2>1, <2>2, <2>3, <1>s DEF Zeroing
<1>3. /\ \A k \in {"cas", "sleep", "wake"} : In(k)' = In(k)
      /\ In("check")' = {} /\ In("reset")' = {} /\ In("release")' = {g}
      /\ InWait' = InWait
  <2>1. \A k \in {"cas", "sleep", "wake"} : g \notin In(k) /\ k # "release"
    BY DEF AddReset, In, At
  <2>2. InWait' = InWait
    BY <1>2 DEF AddReset, InWait, WaitPC, At
  <2> QED
    BY <1>2, <1>o, <2>1, <2>2
<1>4. WGTypeOK' /\ NoPanic'
  <2>1. pc' \in [G -> WGPC]
    BY <1>t, <1>s DEF Goto, WGTypeOK, WGPC, AddPC
  <2> QED
    BY <2>1, <1>t, <1>2, <1>z DEF AddReset, WGTypeOK, NoPanic, At
<1>5. WaitersAccounted'
  <2>1. statep.waiters + semap = Cardinality(In("sleep")) /\ statep.waiters \in Nat
    BY <1>o, <1>t DEF WaitersAccounted, WGTypeOK, State
  <2> QED
    BY <1>3, <1>4, <1>z, <1>s, <1>o, <2>1 DEF AddReset, WaitersAccounted
<1>6. Zeroing' = {g}
  BY <1>3 DEF Zeroing
<1>7. ZeroIsFinal'
  BY <1>1, <1>3, <1>6, <1>z, <1>s, <1>t DEF AddReset, ZeroIsFinal
<1> QED
  BY <1>1, <1>5, <1>7 DEF WGInv

(* One unit is released.                                                   *)
LEMMA AddReleaseKeeps ==
  ASSUME WGInv, NEW g \in G, AddRelease(g)
  PROVE  WGInv'
<1>t. WGTypeOK /\ NoPanic /\ WaitersAccounted /\ ZeroIsFinal
  BY DEF WGInv, WaitersAccounted
<1>s. /\ g \in In("release") /\ g \in Zeroing /\ statep = ZeroState /\ local[g].waiters > 0
  <2>1. g \in In("release") /\ g \in Zeroing
    BY DEF AddRelease, In, Zeroing
  <2> QED
    BY <2>1, <1>t DEF ZeroIsFinal
<1>n. /\ local[g].waiters \in Nat /\ semap \in Nat /\ statep.waiters \in Nat
      /\ statep.waiters + semap + local[g].waiters = Cardinality(In("sleep"))
  BY <1>s, <1>t DEF WaitersAccounted, WGTypeOK, State
<1>l. /\ local' \in [G -> State] /\ local'[g].waiters = local[g].waiters - 1
      /\ \A h \in G \ {g} : local'[h] = local[h]
  <2> DEFINE lw == [local[g] EXCEPT !.waiters = @ - 1]
  <2>1. local' = [local EXCEPT ![g] = lw]
    BY DEF AddRelease
  <2>2. local[g] \in State
    BY <1>t DEF WGTypeOK
  <2>3. lw \in State /\ lw.waiters = local[g].waiters - 1
    BY <2>2, <1>s, <1>n DEF State
  <2> HIDE DEF lw
  <2> QED
    BY <2>1, <2>3, <1>t DEF WGTypeOK
<1>o. \A h \in Zeroing : h = g
  BY <1>s, <1>t DEF ZeroIsFinal
<1>e. In("check") = {} /\ In("reset") = {} /\ In("release") = {g}
  <2>1. g \notin In("check") /\ g \notin In("reset")
    BY DEF AddRelease, In, At
  <2> QED
    BY <2>1, <1>o, <1>s DEF Zeroing
<1>1. ASSUME NEW l \in {"idle", "release"}, Goto(g, l),
             l = "idle" <=> local[g].waiters = 1
      PROVE  WGInv'
  <2>1. UnitsCounted' /\ Fresh' = Fresh
    BY <1>1, UnitsKept DEF AddRelease, At
  <2>2. /\ \A k : In(k)' = IF k = l THEN In(k) \cup {g} ELSE In(k) \ {g}
        /\ \A h \in G : pc'[h] = IF h = g THEN l ELSE pc[h]
    BY <1>t, <1>1, Moves
  <2>3. /\ \A k \in {"cas", "sleep", "wake"} : In(k)' = In(k)
        /\ In("check")' = {} /\ In("reset")' = {}
        /\ In("release")' = IF l = "idle" THEN {} ELSE {g}
        /\ InWait' = InWait
    <3>1. \A k \in {"cas", "sleep", "wake"} : g \notin In(k) /\ k # l
      BY DEF AddRelease, In, At
    <3>2. InWait' = InWait
      BY <2>2 DEF AddRelease, InWait, WaitPC, At
    <3> QED
      BY <2>2, <1>e, <3>1, <3>2
  <2>4. WGTypeOK' /\ NoPanic'
    <3>1. pc' \in [G -> WGPC]
      BY <1>t, <1>1 DEF Goto, WGTypeOK, WGPC, AddPC
    <3>2. semap' \in Nat
      BY <1>n DEF AddRelease
    <3> QED
      BY <3>1, <3>2, <1>t, <2>2, <1>l DEF AddRelease, WGTypeOK, NoPanic, At
  <2>5. WaitersAccounted'
    <3>1. Cardinality(In("sleep"))' = Cardinality(In("sleep"))
      BY <2>3
    <3>2. /\ statep'.waiters + semap' + local'[g].waiters = Cardinality(In("sleep"))'
          /\ l = "idle" => statep'.waiters + semap' = Cardinality(In("sleep"))'
      <4>1. statep'.waiters = statep.waiters /\ semap' = semap + 1
        BY DEF AddRelease
      <4> QED
        BY <3>1, <4>1, <1>n, <1>l, <1>1
    <3> QED
      BY <2>3, <2>4, <3>2 DEF WaitersAccounted
  <2>6. Zeroing' = IF l = "idle" THEN {} ELSE {g}
    BY <2>3 DEF Zeroing
  <2>7. ZeroIsFinal'
    <3>1. \A h \in In("cas")' : local'[h].counter # 0
      <4>1. \A h \in In("cas") : h \in G /\ h # g
        BY DEF AddRelease, In, At
      <4> QED
        BY <4>1, <2>3, <1>l, <1>t DEF ZeroIsFinal
    <3>2. statep' = ZeroState /\ statep'.counter = 0 /\ statep'.waiters = 0
      BY <1>s DEF AddRelease, ZeroState
    <3>3. l # "idle" => local'[g].waiters > 0
      BY <1>1, <1>l, <1>n, <1>s
    <3> QED
      BY <3>1, <3>2, <3>3, <2>1, <2>3, <2>6, <1>t DEF ZeroIsFinal
  <2> QED
    BY <2>1, <2>5, <2>7 DEF WGInv
<1> QED
  BY <1>1 DEF AddRelease

----------------------------------------------------------------------------
(* Wait.                                                                   *)

LEMMA WaitLoadKeeps ==
  ASSUME WGInv, NEW g \in G, WaitLoad(g)
  PROVE  WGInv'
<1>t. WGTypeOK /\ NoPanic /\ WaitersAccounted /\ ZeroIsFinal
  BY DEF WGInv, WaitersAccounted
<1>l. /\ local' \in [G -> State] /\ local'[g] = statep
      /\ \A h \in G \ {g} : local'[h] = local[h]
  BY <1>t DEF WaitLoad, ReadState, WGTypeOK
<1>w. g \in InWait
  BY DEF WaitLoad, InWait, WaitPC, At
<1>1. ASSUME NEW l \in {"idle", "cas"}, Goto(g, l),
             l = "cas" => statep.counter # 0
      PROVE  WGInv'
  <2>1. UnitsCounted' /\ Fresh' = Fresh
    BY <1>1, UnitsKept DEF WaitLoad, At
  <2>2. /\ \A k : In(k)' = IF k = l THEN In(k) \cup {g} ELSE In(k) \ {g}
        /\ \A h \in G : pc'[h] = IF h = g THEN l ELSE pc[h]
    BY <1>t, <1>1, Moves
  <2>3. /\ \A k \in {"check", "reset", "release", "sleep", "wake"} : In(k)' = In(k)
        /\ \A h \in In("cas")' : (h \in In("cas") /\ h # g) \/ (h = g /\ l = "cas")
    <3>1. \A k \in {"check", "reset", "release", "sleep", "wake"} : g \notin In(k) /\ k # l
      BY DEF WaitLoad, In, At
    <3> QED
      BY <2>2, <3>1
  <2>4. WGTypeOK' /\ NoPanic'
    <3>1. pc' \in [G -> WGPC]
      BY <1>t, <1>1 DEF Goto, WGTypeOK, WGPC, WaitPC
    <3> QED
      BY <3>1, <1>t, <2>2, <1>l DEF WaitLoad, WGTypeOK, NoPanic, At
  <2>z. /\ Zeroing' = Zeroing
        /\ \A h \in Zeroing : local'[h] = local[h]
    <3>1. \A h \in Zeroing : h \in G /\ h # g
      BY DEF WaitLoad, Zeroing, In, At
    <3> QED
      BY <3>1, <2>3, <1>l DEF Zeroing
  <2>5. WaitersAccounted'
    BY <2>3, <2>4, <2>z, <1>t DEF WaitLoad, WaitersAccounted, Zeroing
  <2>6. Fresh = {}
    BY <1>w, <1>t DEF ZeroIsFinal
  <2>7. ZeroIsFinal'
    <3>1. \A h \in In("cas")' : local'[h].counter # 0
      <4>1. \A h \in In("cas") : h \in G
        BY DEF In
      <4> QED
        BY <4>1, <2>3, <1>1, <1>l, <1>t DEF ZeroIsFinal
    <3>2. \A h \in In("check")' \cup In("reset")' : statep' = local'[h]
      BY <2>3, <2>z, <1>t DEF WaitLoad, Zeroing, ZeroIsFinal
    <3> QED
      BY <3>1, <3>2, <2>1, <2>3, <2>6, <2>z, <1>t DEF WaitLoad, ZeroIsFinal
  <2> QED
    BY <2>1, <2>5, <2>7 DEF WGInv
<1> QED
  BY <1>1 DEF WaitLoad

(* The compare-and-swap succeeds only beside a positive counter, when      *)
(* nothing is being released.                                              *)
LEMMA WaitSwapKeeps ==
  ASSUME WGInv, NEW g \in G, WaitSwap(g)
  PROVE  WGInv'
<1>t. WGTypeOK /\ NoPanic /\ WaitersAccounted /\ ZeroIsFinal
  BY DEF WGInv, WaitersAccounted
<1>w. g \in In("cas") /\ Fresh = {}
  <2>1. g \in In("cas") /\ g \in InWait
    BY DEF WaitSwap, InWait, WaitPC, In, At
  <2> QED
    BY <2>1, <1>t DEF ZeroIsFinal
<1>1. CASE statep # local[g]
  <2>g. Goto(g, "load") /\ statep' = statep
    BY <1>1 DEF WaitSwap
  <2>1. UnitsCounted' /\ Fresh' = Fresh
    BY <2>g, UnitsKept DEF WaitSwap, At
  <2>2. /\ \A k : In(k)' = IF k = "load" THEN In(k) \cup {g} ELSE In(k) \ {g}
        /\ \A h \in G : pc'[h] = IF h = g THEN "load" ELSE pc[h]
    BY <1>t, <2>g, Moves
  <2>3. /\ \A k \in {"check", "reset", "release", "sleep", "wake"} : In(k)' = In(k)
        /\ In("cas")' \subseteq In("cas")
    <3>1. \A k \in {"check", "reset", "release", "sleep", "wake"} : g \notin In(k) /\ k # "load"
      BY DEF WaitSwap, In, At
    <3> QED
      BY <2>2, <3>1
  <2>4. WGTypeOK' /\ NoPanic'
    <3>1. pc' \in [G -> WGPC]
      BY <1>t, <2>g DEF Goto, WGTypeOK, WGPC, WaitPC
    <3> QED
      BY <3>1, <1>t, <2>2, <2>g DEF WaitSwap, WGTypeOK, NoPanic, At
  <2>5. WaitersAccounted'
    BY <2>3, <2>4, <2>g, <1>t DEF WaitSwap, WaitersAccounted
  <2>6. Zeroing' = Zeroing
    BY <2>3 DEF Zeroing
  <2>7. ZeroIsFinal'
    BY <2>1, <2>3, <2>6, <2>g, <1>w, <1>t DEF WaitSwap, ZeroIsFinal
  <2> QED
    BY <2>1, <2>5, <2>7 DEF WGInv
<1>2. CASE statep = local[g]
  <2>g. Goto(g, "sleep") /\ statep' = [statep EXCEPT !.waiters = @ + 1]
    BY <1>2 DEF WaitSwap
  <2>c. statep.counter # 0
    BY <1>2, <1>w, <1>t DEF ZeroIsFinal
  <2>p. semap = 0 /\ Zeroing = {} /\ In("wake") = {} /\ statep.waiters = Cardinality(In("sleep"))
    BY <2>c, Positive
  <2>s. /\ statep' \in State /\ statep'.counter = statep.counter
        /\ statep'.waiters = statep.waiters + 1 /\ statep.waiters \in Nat
    BY <2>g, <1>t DEF WGTypeOK, State
  <2>1. UnitsCounted' /\ Fresh' = Fresh
    BY <2>g, <2>s, UnitsKept DEF WaitSwap, At
  <2>2. /\ \A k : In(k)' = IF k = "sleep" THEN In(k) \cup {g} ELSE In(k) \ {g}
        /\ \A h \in G : pc'[h] = IF h = g THEN "sleep" ELSE pc[h]
    BY <1>t, <2>g, Moves
  <2>3. /\ In("check")' = {} /\ In("reset")' = {} /\ In("release")' = {} /\ In("wake")' = {}
        /\ In("cas")' \subseteq In("cas") /\ In("sleep")' = In("sleep") \cup {g}
        /\ g \notin In("sleep")
    <3>1. g \notin In("sleep")
      BY DEF WaitSwap, In, At
    <3> QED
      BY <2>2, <2>p, <3>1 DEF Zeroing
  <2>4. WGTypeOK' /\ NoPanic'
    <3>1. pc' \in [G -> WGPC]
      BY <1>t, <2>g DEF Goto, WGTypeOK, WGPC, WaitPC
    <3> QED
      BY <3>1, <1>t, <2>2, <2>s DEF WaitSwap, WGTypeOK, NoPanic, At
  <2>5. WaitersAccounted'
    <3>1. Cardinality(In("sleep"))' = Cardinality(In("sleep")) + 1
      BY <2>3, Comes
    <3>2. semap' = semap
      BY DEF WaitSwap
    <3> QED
      BY <3>1, <3>2, <2>3, <2>4, <2>s, <2>p DEF WaitersAccounted
  <2>6. Zeroing' = {}
    BY <2>3 DEF Zeroing
  <2>7. ZeroIsFinal'
    BY <2>1, <2>3, <2>6, <2>c, <2>p, <2>s, <1>w, <1>t DEF WaitSwap, ZeroIsFinal
  <2> QED
    BY <2>1, <2>5, <2>7 DEF WGInv
<1> QED
  BY <1>1, <1>2

LEMMA WaitAcquireKeeps ==
  ASSUME WGInv, NEW g \in G, WaitAcquire(g)
  PROVE  WGInv'
<1>t. WGTypeOK /\ NoPanic /\ WaitersAccounted /\ ZeroIsFinal
  BY DEF WGInv, WaitersAccounted
<1>w. g \in In("sleep") /\ Fresh = {} /\ statep = ZeroState
  <2>1. g \in In("sleep") /\ g \in InWait
    BY DEF WaitAcquire, InWait, WaitPC, In, At
  <2> QED
    BY <2>1, <1>t DEF WaitAcquire, ZeroIsFinal
<1>g. Goto(g, "wake") /\ semap \in Nat /\ semap > 0 /\ semap' = semap - 1
  BY <1>t DEF WaitAcquire, WGTypeOK
<1>1. UnitsCounted' /\ Fresh' = Fresh
  BY <1>g, UnitsKept DEF WaitAcquire, At
<1>2. /\ \A k : In(k)' = IF k = "wake" THEN In(k) \cup {g} ELSE In(k) \ {g}
      /\ \A h \in G : pc'[h] = IF h = g THEN "wake" ELSE pc[h]
  BY <1>t, <1>g, Moves
<1>3. /\ \A k \in {"check", "reset", "release", "cas"} : In(k)' = In(k)
      /\ In("sleep")' = In("sleep") \ {g}
  <2>1. \A k \in {"check", "reset", "release", "cas"} : g \notin In(k) /\ k # "wake"
    BY DEF WaitAcquire, In, At
  <2> QED
    BY <1>2, <2>1
<1>4. WGTypeOK' /\ NoPanic'
  <2>1. pc' \in [G -> WGPC]
    BY <1>t, <1>g DEF Goto, WGTypeOK, WGPC, WaitPC
  <2>2. semap' \in Nat
    BY <1>g
  <2> QED
    BY <2>1, <2>2, <1>t, <1>2 DEF WaitAcquire, WGTypeOK, NoPanic, At
<1>5. WaitersAccounted'
  <2>1. Cardinality(In("sleep"))' = Cardinality(In("sleep")) - 1
    BY <1>3, <1>w, Leaves
  <2>2. statep.waiters \in Nat /\ \A h \in In("release") : local[h].waiters \in Nat
    BY <1>t DEF WGTypeOK, State, In
  <2>3. statep' = statep /\ local' = local
    BY DEF WaitAcquire
  <2> QED
    BY <2>1, <2>2, <2>3, <1>3, <1>4, <1>g, <1>t DEF WaitersAccounted
<1>6. Zeroing' = Zeroing
  BY <1>3 DEF Zeroing
<1>7. ZeroIsFinal'
  BY <1>1, <1>3, <1>6, <1>w, <1>t DEF WaitAcquire, ZeroIsFinal
<1> QED
  BY <1>1, <1>5, <1>7 DEF WGInv

(* The word is still zero when a waiter returns.                           *)
LEMMA WaitReturnKeeps ==
  ASSUME WGInv, NEW g \in G, WaitReturn(g)
  PROVE  WGInv'
<1>t. WGTypeOK /\ NoPanic /\ WaitersAccounted /\ ZeroIsFinal
  BY DEF WGInv, WaitersAccounted
<1>w. g \in In("wake") /\ Fresh = {} /\ statep = ZeroState
  <2>1. g \in In("wake") /\ g \in InWait
    BY DEF WaitReturn, InWait, WaitPC, In, At
  <2> QED
    BY <2>1, <1>t DEF ZeroIsFinal
<1>g. Goto(g, "idle")
  BY <1>w DEF WaitReturn
<1>1. UnitsCounted' /\ Fresh' = Fresh
  BY <1>g, UnitsKept DEF WaitReturn, At
<1>2. /\ \A k : In(k)' = IF k = "idle" THEN In(k) \cup {g} ELSE In(k) \ {g}
      /\ \A h \in G : pc'[h] = IF h = g THEN "idle" ELSE pc[h]
  BY <1>t, <1>g, Moves
<1>3. \A k \in {"check", "reset", "release", "cas", "sleep"} : In(k)' = In(k)
  <2>1. \A k \in {"check", "reset", "release", "cas", "sleep"} : g \notin In(k) /\ k # "idle"
    BY DEF WaitReturn, In, At
  <2> QED
    BY <1>2, <2>1
<1>4. WGTypeOK' /\ NoPanic'
  <2>1. pc' \in [G -> WGPC]
    BY <1>t, <1>g DEF Goto, WGTypeOK, WGPC
  <2> QED
    BY <2>1, <1>t, <1>2 DEF WaitReturn, WGTypeOK, NoPanic, At
<1>5. WaitersAccounted'
  BY <1>3, <1>4, <1>t DEF WaitReturn, WaitersAccounted
<1>6. Zeroing' = Zeroing
  BY <1>3 DEF Zeroing
<1>7. ZeroIsFinal'
  BY <1>1, <1>3, <1>6, <1>w, <1>t DEF WaitReturn, ZeroIsFinal
<1> QED
  BY <1>1, <1>5, <1>7 DEF WGInv

----------------------------------------------------------------------------
LEMMA WGNextKeeps ==
  ASSUME WGInv, Careful, [WGNext]_wgVars
  PROVE  WGInv'
<1>1. ASSUME NEW g \in G, Call(g) PROVE WGInv'
  BY <1>1, CallWaitKeeps, CallAddKeeps, CallDoneKeeps DEF Call
<1>2. ASSUME NEW g \in G, WGStep(g) PROVE WGInv'
  BY <1>2, AddDeltaKeeps, AddCheckKeeps, AddResetKeeps, AddReleaseKeeps,
     WaitLoadKeeps, WaitSwapKeeps, WaitAcquireKeeps, WaitReturnKeeps DEF WGStep
<1>3. CASE UNCHANGED wgVars
  <2>1. \A k : In(k)' = In(k)
    BY <1>3 DEF wgVars, In, At
  <2>2. Adding' = Adding /\ Finishing' = Finishing /\ InWait' = InWait
    BY <1>3 DEF wgVars, Adding, Finishing, InWait, At
  <2>3. Zeroing' = Zeroing /\ Fresh' = Fresh
    BY <2>1, <2>2, <1>3 DEF wgVars, Zeroing, Fresh
  <2>4. WaitersAccounted'
    BY <2>1, <1>3 DEF WGInv, wgVars, WaitersAccounted, WGTypeOK, NoPanic, At
  <2>5. UnitsCounted'
    BY <2>2, <1>3 DEF WGInv, wgVars, UnitsCounted, At
  <2>6. ZeroIsFinal'
    BY <2>1, <2>2, <2>3, <1>3 DEF WGInv, wgVars, ZeroIsFinal
  <2> QED
    BY <2>4, <2>5, <2>6 DEF WGInv
<1> QED
  BY <1>1, <1>2, <1>3 DEF WGNext

(* Whatever careful clients do, the counter (waitgroup.go:61-63) is what    *)
(* they still owe and are about to pay, and between the Add that makes it  *)
(* zero and the return of the last waiter nobody touches the word, so that *)
(* the plain check and reset of lines 82-91 are safe.                      *)
THEOREM WGInvariance ==
  ASSUME Careful PROVE WGSpec => []WGInv
<1>1. WGInv /\ [WGNext]_wgVars => WGInv'
  BY WGNextKeeps
<1> QED
  BY <1>1, WGInitKeeps, PTL DEF WGSpec

(* A goroutine asleep in Wait (waitgroup.go:127) is in the count of the    *)
(* word, or will be released by the one Add that is in its loop (92-94),   *)
(* or has its unit; and no panic of lines 74, 77, 88 or 132 is met.        *)
THEOREM NobodyForgotten ==
  ASSUME Careful PROVE WGSpec => []WaitersAccounted
<1>1. WGInv => WaitersAccounted
  BY DEF WGInv
<1> QED
  BY <1>1, WGInvariance, PTL

(* A Wait that slept returns (waitgroup.go:127-138) only while the counter  *)
(* is zero, nothing is owed, and no Add or Done is on its way.             *)
THEOREM ReturnsAtZero ==
  ASSUME Careful PROVE WGSpec => WaitReturnsAtZero
<1>1. ASSUME WGInv, [WGNext]_wgVars, NEW g \in G, At(g, "wake"), pc'[g] = "idle"
      PROVE  statep.counter = 0 /\ owed = 0 /\ holds = {} /\ \A h \in G : ~At(h, "add")
  <2>1. g \in In("wake") /\ InWait # {}
    BY <1>1 DEF In, InWait, WaitPC, At
  <2>2. statep = ZeroState /\ Fresh = {}
    BY <2>1, <1>1 DEF WGInv, ZeroIsFinal
  <2>3. statep.counter = 0
    BY <2>2 DEF ZeroState
  <2> QED
    BY <2>2, <2>3, <1>1, AllDone
<1>2. WGInv /\ [WGNext]_wgVars =>
        [\A g \in G : At(g, "wake") /\ pc'[g] = "idle" =>
          statep.counter = 0 /\ owed = 0 /\ holds = {} /\ \A h \in G : ~At(h, "add")]_wgVars
  BY <1>1
<1> QED
  BY <1>2, WGInvariance, PTL DEF WGSpec, WaitReturnsAtZero
=============================================================================
