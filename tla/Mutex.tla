------------------------------- MODULE Mutex -------------------------------
(***************************************************************************)
(* sync.Mutex (sync/mutex.go): one mutex, its state word and its           *)
(* semaphore.  The state word packs three bits and a waiter count into an  *)
(* int32; here it is the set of its bits and the count, so a sum that      *)
(* would carry from one field into the next has no meaning:                *)
(* ConsistentHandoff states that the code never computes one.  The count's *)
(* 29 bits are taken to be enough for all goroutines.                      *)
(*                                                                         *)
(* Every atomic operation and every plain read of m.state is a step.  The  *)
(* semaphore is the one of module Semaphore: any goroutine blocked in      *)
(* SemacquireMutex may get a released unit.  That the real one, with its   *)
(* queue and its handoff, does no more than that is what module Sema       *)
(* shows (ImplementsSemaphore).                                            *)
(***************************************************************************)
EXTENDS Goroutines, Integers, FiniteSets

CONSTANTS
  MaxSpin   \* runtime_canSpin: no more than this many rounds of spinning

ASSUME MutexAssumption == IsFiniteSet(G) /\ MaxSpin \in Nat

VARIABLES
  state,    \* m.state
  sema,     \* m.sema: the units of the semaphore nobody has taken yet
  old,      \* local old: the state it last read
  awoke,    \* local awoke: it was woken, or told Unlock that it is awake
  hungry,   \* local starving: it has waited longer than starvationThresholdNs
  waited,   \* local waitStartTime # 0: it has slept, or is about to
  iter      \* local iter: rounds of active spinning

locals == <<old, awoke, hungry, waited, iter>>
vars == <<state, sema, pc, locals>>

Bits == {"locked", "woken", "starving"}
Word == [bits : SUBSET Bits, waiters : Nat]
Zero == [bits |-> {}, waiters |-> 0]

LockPC == {"load", "loop", "reload", "acquire", "awake", "handoff"}
UnlockPC == {"wake", "rewake", "release", "pass"}
PC == {"idle", "cs", "throw"} \cup LockPC \cup UnlockPC

Init ==
  /\ state = Zero
  /\ sema = 0
  /\ pc = [g \in G |-> "idle"]
  /\ old = [g \in G |-> Zero]
  /\ awoke = {} /\ hungry = {} /\ waited = {}
  /\ iter = [g \in G |-> 0]

Read(g) == old' = [old EXCEPT ![g] = state]

(* Lock or Unlock returns: the locals of the frame are gone.               *)
Leave(g, l) ==
  /\ Goto(g, l)
  /\ old' = [old EXCEPT ![g] = Zero]
  /\ awoke' = awoke \ {g}
  /\ hungry' = hungry \ {g}
  /\ waited' = waited \ {g}
  /\ iter' = [iter EXCEPT ![g] = 0]

----------------------------------------------------------------------------
(* Lock                                                                    *)

(* Fast path: compare-and-swap of the zero word, or on to the slow path.   *)
LockFast(g) ==
  /\ At(g, "idle")
  /\ \/ /\ state = Zero
        /\ state' = [bits |-> {"locked"}, waiters |-> 0]
        /\ Goto(g, "cs")
     \/ /\ state # Zero
        /\ Goto(g, "load")
        /\ UNCHANGED state
  /\ UNCHANGED <<sema, locals>>

(* old = m.state, on entry to the slow path and after every lost race.     *)
Reload(g) ==
  /\ pc[g] \in {"load", "reload"}
  /\ Read(g)
  /\ Goto(g, "loop")
  /\ UNCHANGED <<state, sema, awoke, hungry, waited, iter>>

(* runtime_canSpin also looks at the other Ps: it may say no at any round. *)
MaySpin(g) ==
  "locked" \in old[g].bits /\ "starving" \notin old[g].bits /\ iter[g] < MaxSpin

(* A round of spinning: tell Unlock, with mutexWoken, not to wake anybody. *)
SpinRound(g) ==
  /\ At(g, "loop")
  /\ MaySpin(g)
  /\ IF g \notin awoke /\ "woken" \notin old[g].bits /\ old[g].waiters # 0 /\ state = old[g]
     THEN /\ state' = [state EXCEPT !.bits = @ \cup {"woken"}]
          /\ awoke' = awoke \cup {g}
     ELSE UNCHANGED <<state, awoke>>
  /\ iter' = [iter EXCEPT ![g] = @ + 1]
  /\ Goto(g, "reload")
  /\ UNCHANGED <<sema, old, hungry, waited>>

Free(o) == "locked" \notin o.bits /\ "starving" \notin o.bits

(* The word Lock wants to install in place of the one it read.             *)
Desired(g) ==
  LET o == old[g].bits
      taken == IF "starving" \in o THEN o ELSE o \cup {"locked"}
      mode == IF g \in hungry /\ "locked" \in o THEN {"starving"} ELSE {}
      told == IF g \in awoke THEN {"woken"} ELSE {}
  IN  [bits    |-> (taken \cup mode) \ told,
       waiters |-> IF Free(old[g]) THEN old[g].waiters ELSE old[g].waiters + 1]

(* "sync: inconsistent mutex state": awake, but nobody knows.  Otherwise   *)
(* the compare-and-swap: it takes a free mutex, or registers a waiter that *)
(* goes to sleep, or finds that the word has changed.                      *)
LockSwap(g) ==
  /\ At(g, "loop")
  /\ IF g \in awoke /\ "woken" \notin old[g].bits
     THEN Goto(g, "throw") /\ UNCHANGED <<state, locals>>
     ELSE \/ /\ state = old[g]
             /\ Free(old[g])
             /\ state' = Desired(g)
             /\ Leave(g, "cs")
          \/ /\ state = old[g]
             /\ ~Free(old[g])
             /\ state' = Desired(g)
             /\ waited' = waited \cup {g}
             /\ Goto(g, "acquire")
             /\ UNCHANGED <<old, awoke, hungry, iter>>
          \/ /\ state # old[g]
             /\ Goto(g, "reload")
             /\ UNCHANGED <<state, locals>>
  /\ UNCHANGED sema

(* runtime_SemacquireMutex returns.                                        *)
SemAcquire(g) ==
  /\ At(g, "acquire")
  /\ sema > 0
  /\ sema' = sema - 1
  /\ Goto(g, "awake")
  /\ UNCHANGED <<state, locals>>

(* Awake.  The clock says whether the wait was too long (once it was, it   *)
(* stays so).  The word read decides: in starvation mode the mutex was     *)
(* handed to us, otherwise we compete for it.                              *)
Awake(g) ==
  /\ At(g, "awake")
  /\ \E late \in {{}, {g}} : hungry' = hungry \cup late
  /\ Read(g)
  /\ IF "starving" \in state.bits
     THEN /\ Goto(g, IF state.bits # {"starving"} \/ state.waiters = 0
                     THEN "throw" ELSE "handoff")
          /\ UNCHANGED <<awoke, iter>>
     ELSE /\ Goto(g, "loop")
          /\ awoke' = awoke \cup {g}
          /\ iter' = [iter EXCEPT ![g] = 0]
  /\ UNCHANGED <<state, sema, waited>>

(* Take the mutex that was handed over: atomic.AddInt32 of a delta that    *)
(* sets mutexLocked, counts this waiter out and, if it is the last or has  *)
(* not waited long, ends starvation mode.  The delta comes from the word   *)
(* read by Awake, the sum from the word as it is now.                      *)
TakeHandoff(g) ==
  /\ At(g, "handoff")
  /\ LET over == IF g \notin hungry \/ old[g].waiters = 1 THEN {"starving"} ELSE {}
     IN  state' = [bits    |-> (state.bits \cup {"locked"}) \ over,
                   waiters |-> state.waiters - 1]
  /\ Leave(g, "cs")
  /\ UNCHANGED sema

----------------------------------------------------------------------------
(* Unlock, by the goroutine that holds the mutex.                          *)

(* Drop mutexLocked; the word that results says who comes next.            *)
UnlockDrop(g) ==
  /\ At(g, "cs")
  /\ IF "locked" \in state.bits
     THEN /\ state' = [state EXCEPT !.bits = @ \ {"locked"}]
          /\ old' = [old EXCEPT ![g] = state']
          /\ Goto(g, IF "starving" \in state.bits THEN "pass" ELSE "wake")
     ELSE Goto(g, "throw") /\ UNCHANGED <<state, old>>
  /\ UNCHANGED <<sema, awoke, hungry, waited, iter>>

(* Mutant: the last waiter is overlooked.                                  *)
NobodyToWakeOffByOne(o) == o.waiters <= 1 \/ o.bits # {}

NobodyToWake(o) == o.waiters = 0 \/ o.bits # {}

(* Mutant: a waiter is woken without setting mutexWoken.                   *)
UnlockWakeSilently(g) ==
  /\ At(g, "wake")
  /\ IF NobodyToWake(old[g]) THEN Leave(g, "idle") /\ UNCHANGED state
     ELSE IF state = old[g]
     THEN /\ state' = [bits |-> {}, waiters |-> state.waiters - 1]
          /\ Goto(g, "release")
          /\ UNCHANGED locals
     ELSE Goto(g, "rewake") /\ UNCHANGED <<state, locals>>
  /\ UNCHANGED sema

(* Normal mode: return, or win the right to wake a waiter: it is counted   *)
(* out of the word and mutexWoken says that somebody is awake.             *)
UnlockWake(g) ==
  /\ At(g, "wake")
  /\ \/ /\ NobodyToWake(old[g])
        /\ Leave(g, "idle")
        /\ UNCHANGED state
     \/ /\ ~NobodyToWake(old[g])
        /\ state = old[g]
        /\ state' = [bits |-> {"woken"}, waiters |-> state.waiters - 1]
        /\ Goto(g, "release")
        /\ UNCHANGED locals
     \/ /\ ~NobodyToWake(old[g])
        /\ state # old[g]
        /\ Goto(g, "rewake")
        /\ UNCHANGED <<state, locals>>
  /\ UNCHANGED sema

UnlockReload(g) ==
  /\ At(g, "rewake")
  /\ Read(g)
  /\ Goto(g, "wake")
  /\ UNCHANGED <<state, sema, awoke, hungry, waited, iter>>

(* runtime_Semrelease, in normal mode and with handoff in starvation mode. *)
SemRelease(g) ==
  /\ pc[g] \in {"release", "pass"}
  /\ sema' = sema + 1
  /\ Leave(g, "idle")
  /\ UNCHANGED state

----------------------------------------------------------------------------
(* What a goroutine inside Lock or Unlock does next.                       *)
LockStep(g) ==
  \/ Reload(g) \/ SpinRound(g) \/ LockSwap(g)
  \/ SemAcquire(g) \/ Awake(g) \/ TakeHandoff(g)
UnlockStep(g) == UnlockWake(g) \/ UnlockReload(g) \/ SemRelease(g)

AwakeStep(g) == (~At(g, "acquire") /\ LockStep(g)) \/ UnlockDrop(g) \/ UnlockStep(g)

Next == \E g \in G : LockFast(g) \/ LockStep(g) \/ UnlockDrop(g) \/ UnlockStep(g)

Spec == Init /\ [][Next]_vars

(* The scheduler runs every runnable goroutine; a unit of the semaphore is *)
(* taken if somebody sleeps on it, no matter by whom; a client that holds  *)
(* the mutex unlocks it.  Nobody has to call Lock.                         *)
Fairness ==
  /\ \A g \in G : WF_vars(AwakeStep(g))
  /\ WF_vars(\E g \in G : SemAcquire(g))
FairSpec == Spec /\ Fairness

----------------------------------------------------------------------------
TypeOK ==
  /\ state \in Word
  /\ sema \in Nat
  /\ pc \in [G -> PC]
  /\ old \in [G -> Word]
  /\ awoke \subseteq G /\ hungry \subseteq G /\ waited \subseteq G
  /\ iter \in [G -> 0..MaxSpin]

(* Mutual exclusion (mutex.go:21, 69-71).                                  *)
MutualExclusion == \A g, h \in G : pc[g] = "cs" /\ pc[h] = "cs" => g = h

(* None of the three throws is reachable: a goroutine that believes it was *)
(* woken finds mutexWoken set, a handed over mutex is found free with its  *)
(* waiter still counted, and the holder finds mutexLocked set              *)
(* (mutex.go:120-122, 142-144, 183-185).                                   *)
NoThrow == \A g \in G : pc[g] # "throw"

(* The AddInt32 of a handoff is decided on an older read of the word; it   *)
(* is sound because the word is still unlocked, starving, without woken    *)
(* and with at least one waiter when it is applied: no bit of the sum      *)
(* carries or borrows (mutex.go:136-154).                                  *)
ConsistentHandoff ==
  \A g \in G : pc[g] = "handoff" =>
    /\ state.bits = {"starving"}
    /\ state.waiters >= 1
    /\ old[g].waiters <= state.waiters

(* A goroutine asleep in SemacquireMutex has somebody to wake it: the      *)
(* mutex is held (its Unlock will look), a wakeup is on its way, or an     *)
(* unlocker is about to look at a word that makes it act.  It is what the  *)
(* bookkeeping of mutexWoken must never lose (mutex.go:91-96, 187-205).    *)
Contender(g) == g \in awoke /\ pc[g] \in {"loop", "reload"}
Carrier(g) == Contender(g) \/ pc[g] \in {"release", "pass", "awake", "handoff"}
WillLook(g) == At(g, "rewake") \/ (At(g, "wake") /\ ~NobodyToWake(old[g]))

SleeperHasWaker ==
  (\E g \in G : At(g, "acquire")) =>
    "locked" \in state.bits \/ sema > 0 \/ \E h \in G : Carrier(h) \/ WillLook(h)

(* The mutex never locks up: while a goroutine is in Lock, somebody gets   *)
(* the mutex sooner or later (mutex.go:42-67).                             *)
LockIsGranted == (\E g \in G : pc[g] \in LockPC) ~> (\E g \in G : At(g, "cs"))

----------------------------------------------------------------------------
(* The inductive invariant.  There is one baton: the right to wake, or the *)
(* duty to act after being woken.  It passes from an unlocker through the  *)
(* semaphore to the goroutine that wakes, and mutexWoken (in normal mode)  *)
(* or an unlocked mutexStarving (in starvation mode) is set exactly while  *)
(* somebody has it.                                                        *)
LockedByHolder == "locked" \in state.bits <=> \E g \in G : At(g, "cs")

OneBaton ==
  /\ \A g, h \in G : Carrier(g) /\ Carrier(h) => g = h
  /\ sema \in {0, 1}
  /\ sema = 1 => \A g \in G : ~Carrier(g)

(* A released unit that belongs to a waiter already counted out.           *)
NormalUnit ==
  /\ "starving" \notin state.bits
  /\ sema = 1 \/ \E g \in G : pc[g] \in {"release", "awake"}

WokenIsBaton == "woken" \in state.bits <=> NormalUnit \/ \E g \in G : Contender(g)

HandoffIsBaton ==
  "starving" \in state.bits /\ "locked" \notin state.bits <=>
    \/ \E g \in G : pc[g] \in {"pass", "handoff"}
    \/ "starving" \in state.bits /\ (sema = 1 \/ \E g \in G : At(g, "awake"))

Modes == /\ ~({"starving", "woken"} \subseteq state.bits)
         /\ \A g \in G : At(g, "release") => "starving" \notin state.bits

Sleepers == {g \in G : pc[g] \in {"acquire", "awake", "handoff"}}
WaitersCounted ==
  state.waiters + (IF NormalUnit THEN 1 ELSE 0) = Cardinality(Sleepers)

Locals ==
  \A g \in G :
    /\ Contender(g) /\ At(g, "loop") => "woken" \in old[g].bits
    /\ g \in hungry /\ pc[g] \in {"loop", "reload"} => g \in awoke
    /\ pc[g] \in {"idle", "load"} => g \notin awoke /\ g \notin hungry
    /\ At(g, "handoff") => old[g].waiters \in 1..state.waiters

FreeWordIsWatched ==
  state.bits = {} /\ state.waiters > 0 =>
    \E g \in G : WillLook(g)

IInv ==
  /\ TypeOK /\ MutualExclusion /\ NoThrow
  /\ LockedByHolder /\ OneBaton /\ WokenIsBaton /\ HandoffIsBaton /\ Modes
  /\ WaitersCounted /\ Locals /\ FreeWordIsWatched
=============================================================================
