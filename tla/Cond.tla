-------------------------------- MODULE Cond --------------------------------
(***************************************************************************)
(* sync.Cond (sync/cond.go) on the runtime's notifyList (module            *)
(* NotifyList), with c.L a lock, used the way its doc says: the condition, *)
(* here items > 0, is changed and tested under c.L, Wait is called in a    *)
(* loop, and whoever makes the condition true calls Signal or Broadcast,   *)
(* with or without holding c.L.                                            *)
(***************************************************************************)
EXTENDS NotifyList

CONSTANT MaxItems  \* bound: items that exist at a time

ASSUME CondAssumption == MaxItems \in Nat

VARIABLES
  L,       \* c.L: its holder, or None
  items,   \* the condition the clients wait for is items > 0
  cpc      \* where a client is

condVars == <<vars, L, items, cpc>>

ClientPC == {"idle", "test", "unlock", "wait", "relock", "signal"}

CondInit ==
  /\ Init
  /\ L = None
  /\ items = 0
  /\ cpc = [g \in G |-> "idle"]

In(g, l) == cpc[g] = l
To(g, l) == cpc' = [cpc EXCEPT ![g] = l]
LLock(g) == L = None /\ L' = g
LUnlock(g) == L = g /\ L' = None

----------------------------------------------------------------------------
(* A consumer: c.L.Lock(); for items == 0 { c.Wait() }; items--;           *)
(* c.L.Unlock()                                                            *)
Consume(g) ==
  /\ In(g, "idle")
  /\ LLock(g)
  /\ To(g, "test")
  /\ UNCHANGED <<listVars, items>>

TakeItem(g) ==
  /\ In(g, "test")
  /\ items > 0
  /\ items' = items - 1
  /\ LUnlock(g)
  /\ To(g, "idle")
  /\ UNCHANGED listVars

(* Wait: notifyListAdd with c.L held, ...                                  *)
WaitAdd(g) ==
  /\ In(g, "test")
  /\ items = 0
  /\ NotifyListAdd(g)
  /\ To(g, "unlock")
  /\ UNCHANGED <<L, items>>

(* ... c.L.Unlock, ...                                                     *)
WaitUnlock(g) ==
  /\ In(g, "unlock")
  /\ LUnlock(g)
  /\ To(g, "wait")
  /\ UNCHANGED <<listVars, items>>

(* ... notifyListWait, ...                                                 *)
WaitNotified(g) ==
  /\ In(g, "wait")
  /\ NotifyListWait(g) \/ WaitReturn(g)
  /\ IF pc'[g] = "idle" THEN To(g, "relock") ELSE UNCHANGED cpc
  /\ UNCHANGED <<L, items>>

(* ... c.L.Lock, and the loop tests again.                                 *)
WaitRelock(g) ==
  /\ In(g, "relock")
  /\ LLock(g)
  /\ To(g, "test")
  /\ UNCHANGED <<listVars, items>>

----------------------------------------------------------------------------
(* A producer: one item more, under c.L; then Signal or Broadcast, which   *)
(* it may call before or after c.L.Unlock.                                 *)
Produce(g, first, held) ==
  /\ In(g, "idle")
  /\ L = None
  /\ items < MaxItems
  /\ items' = items + 1
  /\ L' = IF held THEN g ELSE None
  /\ CallNotify(g, first)
  /\ To(g, "signal")

(* Signal or Broadcast when nothing has changed. *)
Nudge(g, first) ==
  /\ In(g, "idle")
  /\ CallNotify(g, first)
  /\ To(g, "signal")
  /\ UNCHANGED <<L, items>>

(* A step inside Signal or Broadcast; the last one returns, and unlocks.   *)
Notifying(g) ==
  /\ In(g, "signal")
  /\ \/ LoadWait(g) \/ LoadNotify(g) \/ AllPull(g) \/ AllStore(g)
     \/ OneCheck(g) \/ OneStore(g) \/ Ready(g)
  /\ IF pc'[g] = "idle"
     THEN To(g, "idle") /\ L' = (IF L = g THEN None ELSE L)
     ELSE UNCHANGED <<cpc, L>>
  /\ UNCHANGED items

----------------------------------------------------------------------------
CondNext ==
  /\ \E g \in G :
       \/ Consume(g) \/ TakeItem(g)
       \/ WaitAdd(g) \/ WaitUnlock(g) \/ WaitNotified(g) \/ WaitRelock(g)
       \/ \E first \in {"one", "all"}, held \in BOOLEAN : Produce(g, first, held)
       \/ \E first \in {"one", "all"} : Nudge(g, first)
       \/ Notifying(g)
  /\ Remember

CondSpec == CondInit /\ [][CondNext]_condVars

----------------------------------------------------------------------------
CondTypeOK ==
  /\ L \in G \cup {None}
  /\ items \in 0..MaxItems
  /\ cpc \in [G -> ClientPC]

(* No wakeup is lost between Wait's Unlock and its sleep, nor between two  *)
(* notify calls that race on the fast path (cond.go:36-58, sema.go:519-524,*)
(* 552-556): when the condition holds and a consumer sleeps, some          *)
(* goroutine is still running inside Wait or a notify call.                *)
Sleeping(g) == In(g, "wait") /\ pc[g] = "parked"
NoStrandedConsumer ==
  /\ CondTypeOK
  /\ items > 0 /\ (\E g \in G : Sleeping(g)) =>
       \E h \in G : ~In(h, "idle") /\ ~Sleeping(h)
----------------------------------------------------------------------------
(* The inductive invariant.                                                *)

(* Where c.L.Lock, Wait and the notify calls leave a client.               *)
Clients ==
  \A g \in G :
    /\ cpc[g] \in {"idle", "test", "relock"} => pc[g] = "idle"
    /\ In(g, "unlock") => At(g, "added")
    /\ In(g, "wait") => pc[g] \in WaitPC
    /\ In(g, "signal") => pc[g] \in NotifyPC
    /\ cpc[g] \in {"test", "unlock"} => L = g
    /\ L = g => cpc[g] \in {"test", "unlock", "signal"}

(* Those who see to it that an item is not left beside a sleeper: a        *)
(* consumer on its way to test, and a notify call that has a ticket to     *)
(* notify.  One that has read a wait which has moved since has none: items *)
(* was 0 when wait moved.                                                  *)
Minds(g) ==
  \/ cpc[g] \in {"relock", "test"}
  \/ pc[g] \in WaitPC /\ ~Waiting(g)
  \/ pc[g] \in {"one", "all", "onelock", "onestore", "alllock"}
  \/ pc[g] \in {"one2", "all2", "allstore"} /\ seen[g] = wait

ItemsMinded == wait # notify => items <= Cardinality({g \in G : Minds(g)})

CondIInv == IInv /\ CondTypeOK /\ Clients /\ ItemsMinded
=============================================================================
