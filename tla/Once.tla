-------------------------------- MODULE Once --------------------------------
(***************************************************************************)
(* sync.Once (sync/once.go).  A step is the atomic load of done, a call on *)
(* o.m (a lock with one holder), the plain read of done, the start or the  *)
(* end of f, or one of the two deferred calls.  f may return or panic; it  *)
(* does not call Do itself (the doc says that this deadlocks).             *)
(***************************************************************************)
EXTENDS Naturals

CONSTANTS
  G,    \* the goroutines
  None  \* no goroutine

ASSUME OnceAssumption == None \notin G

VARIABLES
  done,  \* o.done
  m,     \* o.m: its holder, or None
  pc,    \* where a goroutine is inside Do
  calls  \* history: how often f was called

vars == <<done, m, pc, calls>>

Init ==
  /\ done = 0
  /\ m = None
  /\ pc = [g \in G |-> "idle"]
  /\ calls = 0

At(g, l) == pc[g] = l
Goto(g, l) == pc' = [pc EXCEPT ![g] = l]

Do(g) ==
  /\ At(g, "idle")
  /\ Goto(g, "load")
  /\ UNCHANGED <<done, m, calls>>

(* The fast path: return if done is 1.                                     *)
LoadDone(g) ==
  /\ At(g, "load")
  /\ Goto(g, IF done = 1 THEN "idle" ELSE "lock")
  /\ UNCHANGED <<done, m, calls>>

LockM(g) ==
  /\ At(g, "lock")
  /\ m = None
  /\ m' = g
  /\ Goto(g, "test")
  /\ UNCHANGED <<done, calls>>

(* Mutant: done is stored before f is called.                              *)
TestDoneStoresFirst(g) ==
  /\ At(g, "test")
  /\ IF done = 0 THEN Goto(g, "f") /\ calls' = calls + 1 /\ done' = 1
                 ELSE Goto(g, "unlock") /\ UNCHANGED <<calls, done>>
  /\ UNCHANGED m

(* Under o.m: call f if done is still 0.                                   *)
TestDone(g) ==
  /\ At(g, "test")
  /\ IF done = 0 THEN Goto(g, "f") /\ calls' = calls + 1
                 ELSE Goto(g, "unlock") /\ UNCHANGED calls
  /\ UNCHANGED <<done, m>>

(* Mutant: a panic of f skips the calls that should be deferred.           *)
FEndsUndeferred(g) ==
  /\ At(g, "f")
  /\ Goto(g, "store") \/ Goto(g, "idle")
  /\ UNCHANGED <<done, m, calls>>

(* f returns or panics: either way the deferred calls run, the store first.*)
FEnds(g) ==
  /\ At(g, "f")
  /\ Goto(g, "store")
  /\ UNCHANGED <<done, m, calls>>

StoreDone(g) ==
  /\ At(g, "store")
  /\ done' = 1
  /\ Goto(g, "unlock")
  /\ UNCHANGED <<m, calls>>

UnlockM(g) ==
  /\ At(g, "unlock")
  /\ m' = None
  /\ Goto(g, "idle")
  /\ UNCHANGED <<done, calls>>

Step(g) ==
  \/ LoadDone(g) \/ LockM(g) \/ TestDone(g) \/ FEnds(g) \/ StoreDone(g) \/ UnlockM(g)

Next == \E g \in G : Do(g) \/ Step(g)

Spec == Init /\ [][Next]_vars

----------------------------------------------------------------------------
TypeOK ==
  /\ done \in {0, 1}
  /\ m \in G \cup {None}
  /\ pc \in [G -> {"idle", "load", "lock", "test", "f", "store", "unlock"}]
  /\ calls \in Nat

(* f is called at most once, however many calls of Do race (once.go:17-24).*)
AtMostOnce == calls <= 1

(* "No call to Do returns until the one call to f returns"                 *)
(* (once.go:29-30), also not through the fast path.                        *)
NoEarlyReturn ==
  [][\A g \in G : ~At(g, "idle") /\ pc'[g] = "idle" => calls = 1 /\ \A h \in G : ~At(h, "f")]_vars

----------------------------------------------------------------------------
(* The inductive invariant: o.m is held from lock to unlock, and done      *)
(* tells whether the one call of f has ended.                              *)
IInv ==
  /\ TypeOK
  /\ \A g \in G : pc[g] \in {"test", "f", "store", "unlock"} <=> m = g
  /\ done = 1 => calls = 1 /\ \A g \in G : pc[g] \notin {"f", "store"}
  /\ done = 0 => /\ \A g \in G : ~At(g, "unlock")
                 /\ calls = IF \E g \in G : pc[g] \in {"f", "store"} THEN 1 ELSE 0
=============================================================================
