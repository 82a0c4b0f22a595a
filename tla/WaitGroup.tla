----------------------------- MODULE WaitGroup -----------------------------
(***************************************************************************)
(* sync.WaitGroup (sync/waitgroup.go).  The 64-bit word is its two halves, *)
(* counter and waiters, changed together; every atomic operation, the      *)
(* plain read and the plain store of *statep, and every call of the        *)
(* semaphore (module Semaphore) is a step.  The 32-bit halves are taken to *)
(* be wide enough.                                                         *)
(*                                                                         *)
(* Clients keep the rules of the doc (waitgroup.go:40-51): an Add of a     *)
(* positive delta at counter zero happens before every Wait, and after the *)
(* Waits of an earlier use have returned.  An Add at a positive counter    *)
(* is made, if Careful, by a goroutine whose own unit keeps the counter    *)
(* positive until the Add is done; if not Careful, by one that only saw a  *)
(* positive counter when it called Add, as the doc allows.                 *)
(***************************************************************************)
EXTENDS Goroutines, Integers, FiniteSets, FiniteSetsExt

CONSTANTS
  MaxDelta,  \* bound: deltas go from -MaxDelta to MaxDelta
  MaxCount,  \* bound: clients keep the counter at or below this
  Careful    \* how clients keep the rules, see above

ASSUME WaitGroupAssumption ==
  /\ IsFiniteSet(G) /\ MaxDelta \in Nat /\ MaxCount \in Nat /\ Careful \in BOOLEAN

VARIABLES
  statep,   \* *statep: the counter and the number of waiters
  semap,     \* *semap: units nobody has taken yet
  arg,      \* the delta of Add
  local,    \* local state of Add and Wait: the word last read
  owed,     \* units added, or about to be, whose Done has not been called
  holds     \* goroutines in Add that hold a unit of their own meanwhile

wgVars == <<statep, semap, pc, arg, local, owed, holds>>

ZeroState == [counter |-> 0, waiters |-> 0]
State == [counter : Int, waiters : Nat]
AddPC == {"add", "check", "reset", "release"}
WaitPC == {"load", "cas", "sleep", "wake"}
WGPC == {"idle", "panic"} \cup AddPC \cup WaitPC

WGInit ==
  /\ statep = ZeroState
  /\ semap = 0
  /\ pc = [g \in G |-> "idle"]
  /\ arg = [g \in G |-> 0]
  /\ local = [g \in G |-> ZeroState]
  /\ owed = 0
  /\ holds = {}

ReadState(g) == local' = [local EXCEPT ![g] = statep]

----------------------------------------------------------------------------
(* The callers.                                                            *)

InWait == {g \in G : pc[g] \in WaitPC}
Adding == {g \in G : At(g, "add") /\ arg[g] > 0}
Coming == SumFunction([g \in Adding |-> arg[g]])  \* deltas not yet applied

(* Add(delta), delta > 0.                                                  *)
CallAdd(g, delta) ==
  /\ At(g, "idle")
  /\ statep.counter + Coming + delta <= MaxCount
  /\ \/ /\ statep.counter = 0 /\ InWait = {}
        /\ UNCHANGED <<owed, holds>>
     \/ /\ Careful /\ owed > 0
        /\ owed' = owed - 1
        /\ holds' = holds \cup {g}
     \/ /\ ~Careful /\ statep.counter > 0
        /\ UNCHANGED <<owed, holds>>
  /\ Goto(g, "add")
  /\ arg' = [arg EXCEPT ![g] = delta]
  /\ UNCHANGED <<statep, semap, local>>

(* Done, or Add of a negative delta, for units that were added.            *)
CallDone(g, n) ==
  /\ At(g, "idle")
  /\ owed >= n
  /\ owed' = owed - n
  /\ Goto(g, "add")
  /\ arg' = [arg EXCEPT ![g] = -n]
  /\ UNCHANGED <<statep, semap, local, holds>>

(* Wait, not before the Adds that start from zero are done.                *)
CallWait(g) ==
  /\ At(g, "idle")
  /\ \A h \in Adding : Careful => h \in holds
  /\ Goto(g, "load")
  /\ UNCHANGED <<statep, semap, arg, local, owed, holds>>

----------------------------------------------------------------------------
(* Mutant: the waiters are released one unit too early.                    *)
AddDeltaOffByOne(g) ==
  /\ At(g, "add")
  /\ LET v == statep.counter + arg[g]
     IN  /\ statep' = [statep EXCEPT !.counter = v]
         /\ local' = [local EXCEPT ![g] = statep']
         /\ Goto(g, IF v > 1 \/ statep.waiters = 0 THEN "idle" ELSE "check")
  /\ owed' = owed + (IF arg[g] > 0 THEN arg[g] ELSE 0) + (IF g \in holds THEN 1 ELSE 0)
  /\ holds' = holds \ {g}
  /\ arg' = [arg EXCEPT ![g] = 0]
  /\ UNCHANGED semap

(* Add: the counter changes, the result decides.                           *)
AddDelta(g) ==
  /\ At(g, "add")
  /\ LET v == statep.counter + arg[g]
         n == statep.waiters
     IN  /\ statep' = [counter |-> v, waiters |-> n]
         /\ local' = [local EXCEPT ![g] = statep']
         /\ Goto(g, IF v < 0 \/ (n # 0 /\ arg[g] > 0 /\ v = arg[g]) THEN "panic"
                    ELSE IF v > 0 \/ n = 0 THEN "idle" ELSE "check")
  /\ owed' = owed + (IF arg[g] > 0 THEN arg[g] ELSE 0) + (IF g \in holds THEN 1 ELSE 0)
  /\ holds' = holds \ {g}
  /\ arg' = [arg EXCEPT ![g] = 0]
  /\ UNCHANGED semap

(* The counter is zero and there are waiters: the sanity check.            *)
AddCheck(g) ==
  /\ At(g, "check")
  /\ Goto(g, IF statep # local[g] THEN "panic" ELSE "reset")
  /\ UNCHANGED <<statep, semap, arg, local, owed, holds>>

(* Mutant: the waiters stay counted.                                       *)
AddResetSkipped(g) ==
  /\ At(g, "reset")
  /\ Goto(g, "release")
  /\ UNCHANGED <<statep, semap, arg, local, owed, holds>>

(* *statep = 0                                                             *)
AddReset(g) ==
  /\ At(g, "reset")
  /\ statep' = ZeroState
  /\ Goto(g, "release")
  /\ UNCHANGED <<semap, arg, local, owed, holds>>

(* Mutant: one unit for all the waiters.                                   *)
AddReleaseOnce(g) ==
  /\ At(g, "release")
  /\ semap' = semap + 1
  /\ local' = [local EXCEPT ![g].waiters = 0]
  /\ Goto(g, "idle")
  /\ UNCHANGED <<statep, arg, owed, holds>>

(* One Semrelease for each waiter of the word that was read.               *)
AddRelease(g) ==
  /\ At(g, "release")
  /\ semap' = semap + 1
  /\ local' = [local EXCEPT ![g].waiters = @ - 1]
  /\ Goto(g, IF local[g].waiters = 1 THEN "idle" ELSE "release")
  /\ UNCHANGED <<statep, arg, owed, holds>>

----------------------------------------------------------------------------
(* Wait                                                                    *)
WaitLoad(g) ==
  /\ At(g, "load")
  /\ ReadState(g)
  /\ Goto(g, IF statep.counter = 0 THEN "idle" ELSE "cas")
  /\ UNCHANGED <<statep, semap, arg, owed, holds>>

WaitSwap(g) ==
  /\ At(g, "cas")
  /\ IF statep = local[g]
     THEN statep' = [statep EXCEPT !.waiters = @ + 1] /\ Goto(g, "sleep")
     ELSE UNCHANGED statep /\ Goto(g, "load")
  /\ UNCHANGED <<semap, arg, local, owed, holds>>

(* runtime_Semacquire returns.                                             *)
WaitAcquire(g) ==
  /\ At(g, "sleep")
  /\ semap > 0
  /\ semap' = semap - 1
  /\ Goto(g, "wake")
  /\ UNCHANGED <<statep, arg, local, owed, holds>>

WaitReturn(g) ==
  /\ At(g, "wake")
  /\ Goto(g, IF statep # ZeroState THEN "panic" ELSE "idle")
  /\ UNCHANGED <<statep, semap, arg, local, owed, holds>>

----------------------------------------------------------------------------
Call(g) == CallWait(g) \/ \E n \in 1..MaxDelta : CallAdd(g, n) \/ CallDone(g, n)
WGStep(g) ==
  \/ AddDelta(g) \/ AddCheck(g) \/ AddReset(g) \/ AddRelease(g)
  \/ WaitLoad(g) \/ WaitSwap(g) \/ WaitAcquire(g) \/ WaitReturn(g)

WGNext == \E g \in G : Call(g) \/ WGStep(g)

WGSpec == WGInit /\ [][WGNext]_wgVars

(* Runnable goroutines run; nobody has to call anything.                   *)
WGFairSpec == WGSpec /\ \A g \in G : WF_wgVars(WGStep(g))

----------------------------------------------------------------------------
WGTypeOK ==
  /\ statep \in State
  /\ semap \in Nat
  /\ pc \in [G -> WGPC]
  /\ arg \in [G -> -MaxDelta..MaxDelta]
  /\ local \in [G -> State]
  /\ owed \in Nat
  /\ holds \subseteq G

(* Clients that keep the rules meet none of the panics: neither the two    *)
(* that blame the client (waitgroup.go:76-78, 87-89), nor the one in Wait  *)
(* (waitgroup.go:131-133), nor a negative counter (waitgroup.go:73-75).    *)
NoPanic == \A g \in G : ~At(g, "panic")

(* No waiter is forgotten and no unit is left over: everybody asleep is    *)
(* counted in the word, or is in the loop of the one Add that releases, or *)
(* has its unit.  On this rests that clients that keep the rules meet none *)
(* of the panics.                                                          *)
WaitersAccounted ==
  /\ WGTypeOK /\ NoPanic
  /\ \A g, h \in In("release") : g = h
  /\ \A g \in In("release") :
       statep.waiters + semap + local[g].waiters = Cardinality(In("sleep"))
  /\ In("release") = {} => statep.waiters + semap = Cardinality(In("sleep"))

(* Wait blocks until the counter is zero (waitgroup.go:102): a Wait that   *)
(* has slept returns only when every unit is done, and no Done of them is  *)
(* still to be applied.                                                    *)
WaitReturnsAtZero ==
  [][\A g \in G : At(g, "wake") /\ pc'[g] = "idle" =>
       statep.counter = 0 /\ owed = 0 /\ holds = {} /\ \A h \in G : ~At(h, "add")]_wgVars

(* When the counter becomes zero, all goroutines blocked on Wait are       *)
(* released (waitgroup.go:41): nobody sleeps on beside a zero.             *)
ZeroReleasesWaiters ==
  \A g \in G : []<>~(At(g, "sleep") /\ statep.counter = 0)
----------------------------------------------------------------------------
(* The inductive invariant, for careful clients.                           *)

(* The units that a call of Done has still to take off the counter, and    *)
(* the Adds from zero on their way.                                        *)
Finishing == {u \in G \X (1..MaxDelta) : At(u[1], "add") /\ u[2] <= -arg[u[1]]}
Fresh == {g \in Adding : g \notin holds}
Zeroing == In("check") \cup In("reset") \cup In("release")

(* The counter counts the units that somebody still answers for.           *)
UnitsCounted ==
  /\ holds \subseteq Adding
  /\ \A g \in G : At(g, "add") => arg[g] # 0
  /\ statep.counter = owed + Cardinality(holds) + Cardinality(Finishing)

(* Waiters are counted beside a zero only while the Add that made it zero  *)
(* is about to reset the word; from there until the last of them has       *)
(* returned the word is zero, and nobody else comes this far in Add.       *)
ZeroIsFinal ==
  /\ Fresh # {} => InWait = {}
  /\ \A g, h \in Zeroing : g = h
  /\ \A g \in Zeroing : statep.counter = 0 /\ local[g].waiters > 0
  /\ \A g \in In("check") \cup In("reset") : statep = local[g]
  /\ semap > 0 \/ In("release") # {} \/ In("wake") # {} => statep = ZeroState
  /\ statep.counter = 0 /\ statep.waiters > 0 => In("check") \cup In("reset") # {}
  /\ \A g \in In("cas") : local[g].counter # 0

WGInv == WaitersAccounted /\ UnitsCounted /\ ZeroIsFinal
=============================================================================
