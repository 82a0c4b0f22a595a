------------------------------- MODULE SyncMap -------------------------------
(***************************************************************************)
(* sync.Map (sync/map.go).  A step is one access to m.read, to an entry or *)
(* (under m.mu) to m.dirty.  Three abstractions: a loop around a compare   *)
(* and swap is the one step in which it succeeds or gives up; taking m.mu  *)
(* is part of the first access under it and releasing it part of the last, *)
(* because m.read and m.dirty change only under m.mu; the function a Range *)
(* calls returns true.  An entry that nothing refers to is free again.     *)
(***************************************************************************)
EXTENDS Naturals, FiniteSets, Functions

CONSTANTS
  G, Keys, Values,
  Entries,         \* the *entry pointers
  Calls,           \* the calls a goroutine may make, a subset of A!Call
  Nil, Expunged,   \* the two special values of entry.p
  NoEntry,         \* no entry for a key
  NoMap,           \* m.dirty == nil
  None

VARIABLES
  mu,     \* m.mu: its holder, or None
  read,   \* m.read: the record of m (Keys -> entry) and amended
  dirty,  \* m.dirty
  misses, \* m.misses
  p,      \* the p of each entry
  st,     \* per goroutine: pc, its call, the entry e it found, and a Range's rest and results
  res,    \* history: the result of the last call
  seen    \* history: see AtomicMap

vars == <<mu, read, dirty, misses, p, st, res, seen>>
shared == <<mu, read, dirty, misses, p>>

NoKeys == [k \in Keys |-> NoEntry]
Idle == [pc |-> "idle", call |-> None, e |-> NoEntry, todo |-> {}, snap |-> NoKeys, acc |-> <<>>]
Len(m) == Cardinality({k \in Keys : m[k] # NoEntry})
InDirty(k) == dirty # NoMap /\ dirty[k] # NoEntry
Holds(e) == p[e] \notin {Nil, Expunged}

(* What a Load that runs alone would return for each key.                  *)
EntryOf(k) ==
  IF read.m[k] # NoEntry THEN read.m[k] ELSE IF read.amended THEN dirty[k] ELSE NoEntry
Content == [k \in Keys |-> IF EntryOf(k) # NoEntry /\ Holds(EntryOf(k)) THEN p[EntryOf(k)] ELSE Nil]

CallOf(g) == IF st[g].pc \in {"idle", "missLocked"} THEN None ELSE st[g].call
A == INSTANCE AtomicMap WITH amap <- Content, call <- [g \in G |-> CallOf(g)]

Init ==
  /\ mu = None
  /\ read = [m |-> NoKeys, amended |-> FALSE]
  /\ dirty = NoMap
  /\ misses = 0
  /\ p = [e \in Entries |-> Nil]
  /\ st = [g \in G |-> Idle]
  /\ res = [g \in G |-> None]
  /\ seen = [g \in G |-> <<>>]

(* Entries are taken from the heap: there are more than can be in use.     *)
ASSUME SyncMapAssumption ==
  /\ IsFiniteSet(G) /\ IsFiniteSet(Keys) /\ IsFiniteSet(Entries)
  /\ Cardinality(Entries) > (Cardinality(G) + 2) * Cardinality(Keys) + Cardinality(G)
  /\ Calls \subseteq A!Call
  /\ Nil # Expunged /\ Nil \notin Values /\ Expunged \notin Values
  /\ None \notin G /\ None \notin A!Call \cup A!Answer
  /\ NoEntry \notin Entries /\ NoMap \notin [Keys -> Entries \cup {NoEntry}]

----------------------------------------------------------------------------
At(g, l) == st[g].pc = l
Key(g) == st[g].call.key
Val(g) == st[g].call.val
Goto(g, l) == st' = [st EXCEPT ![g].pc = l] /\ UNCHANGED res
With(g, l, e) == st' = [st EXCEPT ![g].pc = l, ![g].e = e] /\ UNCHANGED res
Finish(g, x) ==
  /\ st' = [st EXCEPT ![g] = Idle]
  /\ res' = [res EXCEPT ![g] = A!Result(st[g].call, x, FALSE)]
Free == mu = None
Acquire(g) == Free /\ mu' = g
Put(e, x) == p' = [p EXCEPT ![e] = x]

(* Calls that have found an entry of their key use it; the others go on to *)
(* m.mu if m.dirty may have the key.                                       *)
Start(g, c) ==
  LET e == read.m[c.key]
      next == IF e # NoEntry THEN "entry"
              ELSE IF read.amended \/ c.op \in {"Store", "LoadOrStore"} THEN "lock" ELSE "absent"
  IN  /\ st' = [st EXCEPT ![g] = [Idle EXCEPT !.pc = next, !.e = e, !.call = c]]
      /\ res' = [res EXCEPT ![g] = None]
      /\ UNCHANGED shared

(* Load and Delete: neither m.read nor m.dirty has the key.                *)
Absent(g) ==
  /\ At(g, "absent")
  /\ Finish(g, Nil)
  /\ UNCHANGED shared

(* m.dirty becomes m.read.                                                 *)
Promote ==
  /\ read' = [m |-> dirty, amended |-> FALSE]
  /\ dirty' = NoMap
  /\ misses' = 0

missLocked ==
  IF misses + 1 < Len(dirty) THEN misses' = misses + 1 /\ UNCHANGED <<read, dirty>> ELSE Promote

LoadEntry(g) ==
  /\ At(g, "entry")
  /\ st[g].call.op = "Load"
  /\ Finish(g, IF Holds(st[g].e) THEN p[st[g].e] ELSE Nil)
  /\ UNCHANGED shared

(* The entry is loaded after m.mu is released.                             *)
LoadLocked(g) ==
  LET k == Key(g)
      slow == read.m[k] = NoEntry /\ read.amended
      e == IF slow THEN dirty[k] ELSE read.m[k]
  IN  /\ At(g, "lock")
      /\ st[g].call.op = "Load"
      /\ Free
      /\ IF slow THEN missLocked ELSE UNCHANGED <<read, dirty, misses>>
      /\ IF e = NoEntry THEN With(g, "absent", NoEntry) ELSE With(g, "entry", e)
      /\ UNCHANGED <<mu, p>>

----------------------------------------------------------------------------
tryStore(g) ==
  /\ At(g, "entry")
  /\ st[g].call.op = "Store"
  /\ IF p[st[g].e] = Expunged THEN With(g, "lock", NoEntry) /\ UNCHANGED p
                              ELSE Put(st[g].e, Val(g)) /\ Finish(g, Nil)
  /\ UNCHANGED <<mu, read, dirty, misses>>

(* LoadOrStore's access to an entry: it ends the call or, if the entry is  *)
(* expunged, sends it to m.mu.                                             *)
LoadOrStoreIn(g, e, after) ==
  /\ IF Holds(e) THEN UNCHANGED p ELSE Put(e, Val(g))
  /\ res' = [res EXCEPT ![g] = A!Result(st[g].call, IF Holds(e) THEN p[e] ELSE Val(g), Holds(e))]
  /\ st' = [st EXCEPT ![g] = IF after = "idle" THEN Idle ELSE [@ EXCEPT !.pc = after]]

tryLoadOrStore(g) ==
  /\ At(g, "entry")
  /\ st[g].call.op = "LoadOrStore"
  /\ IF p[st[g].e] = Expunged THEN With(g, "lock", NoEntry) /\ UNCHANGED p
                              ELSE LoadOrStoreIn(g, st[g].e, "idle")
  /\ UNCHANGED <<mu, read, dirty, misses>>

(* Store and LoadOrStore under m.mu find the key in m.read ...             *)
Writes(g) == At(g, "lock") /\ st[g].call.op \in {"Store", "LoadOrStore"}

(* Mutant: the entry is not put back into m.dirty.                         *)
unexpungeLockedOnly(g) ==
  LET e == read.m[Key(g)]
  IN  /\ Writes(g)
      /\ e # NoEntry
      /\ Acquire(g)
      /\ IF p[e] = Expunged THEN Put(e, Nil) ELSE UNCHANGED p
      /\ With(g, "write", e)
      /\ UNCHANGED <<read, dirty, misses>>

unexpungeLocked(g) ==
  LET e == read.m[Key(g)]
  IN  /\ Writes(g)
      /\ e # NoEntry
      /\ Acquire(g)
      /\ IF p[e] = Expunged THEN Put(e, Nil) /\ dirty' = [dirty EXCEPT ![Key(g)] = e]
                            ELSE UNCHANGED <<p, dirty>>
      /\ With(g, "write", e)
      /\ UNCHANGED <<read, misses>>

(* storeLocked or tryLoadOrStore on the entry of m.read, and unlock.       *)
WriteLocked(g) ==
  /\ At(g, "write")
  /\ IF st[g].call.op = "Store" THEN Put(st[g].e, Val(g)) /\ Finish(g, Nil)
                                ELSE LoadOrStoreIn(g, st[g].e, "idle")
  /\ mu' = None
  /\ UNCHANGED <<read, dirty, misses>>

(* ... or only in m.dirty; a LoadOrStore then counts a miss ...            *)
WriteDirty(g) ==
  LET e == dirty[Key(g)]
  IN  /\ Writes(g)
      /\ Free
      /\ read.m[Key(g)] = NoEntry
      /\ InDirty(Key(g))
      /\ IF st[g].call.op = "Store" THEN Put(e, Val(g)) /\ Finish(g, Nil) /\ UNCHANGED mu
                                    ELSE LoadOrStoreIn(g, e, "missLocked") /\ mu' = g
      /\ UNCHANGED <<read, dirty, misses>>

CountMiss(g) ==
  /\ At(g, "missLocked")
  /\ missLocked
  /\ mu' = None
  /\ st' = [st EXCEPT ![g] = Idle]
  /\ UNCHANGED <<p, res>>

(* ... or nowhere.  A new m.dirty gets the entries of m.read that are not  *)
(* (tryExpungeLocked) found nil.                                           *)
dirtyLocked(g) ==
  /\ Writes(g)
  /\ Acquire(g)
  /\ read.m[Key(g)] = NoEntry
  /\ ~InDirty(Key(g))
  /\ LET fresh == ~read.amended /\ dirty = NoMap
     IN  /\ dirty' = IF fresh THEN NoKeys ELSE dirty
         /\ st' = [st EXCEPT ![g].pc = "addKey",
                             ![g].todo = IF fresh THEN {k \in Keys : read.m[k] # NoEntry} ELSE {}]
  /\ UNCHANGED <<read, misses, p, res>>

(* Mutant: entries found nil are left out of m.dirty but not expunged.     *)
tryExpungeLockedNot(g) ==
  \E k \in st[g].todo :
    LET e == read.m[k]
    IN  /\ At(g, "addKey")
        /\ IF Holds(e) THEN dirty' = [dirty EXCEPT ![k] = e] ELSE UNCHANGED dirty
        /\ st' = [st EXCEPT ![g].todo = @ \ {k}]
        /\ UNCHANGED <<mu, read, misses, p, res>>

tryExpungeLocked(g) ==
  \E k \in st[g].todo :
    LET e == read.m[k]
    IN  /\ At(g, "addKey")
        /\ IF Holds(e) THEN dirty' = [dirty EXCEPT ![k] = e] /\ UNCHANGED p
                       ELSE Put(e, Expunged) /\ UNCHANGED dirty
        /\ st' = [st EXCEPT ![g].todo = @ \ {k}]
        /\ UNCHANGED <<mu, read, misses, res>>

Unused == Entries \ (Range(read.m) \cup (IF dirty = NoMap THEN {} ELSE Range(dirty))
                       \cup UNION {{st[g].e} \cup Range(st[g].snap) : g \in G})

newEntry(g) ==
  LET e == CHOOSE x \in Unused : TRUE
  IN  /\ At(g, "addKey")
      /\ st[g].todo = {}
      /\ read' = [read EXCEPT !.amended = TRUE]
      /\ dirty' = [dirty EXCEPT ![Key(g)] = e]
      /\ Put(e, Val(g))
      /\ Finish(g, IF st[g].call.op = "Store" THEN Nil ELSE Val(g))
      /\ mu' = None
      /\ UNCHANGED misses

----------------------------------------------------------------------------
DeleteEntry(g) ==
  /\ At(g, "entry")
  /\ st[g].call.op = "Delete"
  /\ IF Holds(st[g].e) THEN Put(st[g].e, Nil) ELSE UNCHANGED p
  /\ Finish(g, Nil)
  /\ UNCHANGED <<mu, read, dirty, misses>>

DeleteLocked(g) ==
  LET k == Key(g)
  IN  /\ At(g, "lock")
      /\ st[g].call.op = "Delete"
      /\ Free
      /\ IF read.m[k] = NoEntry /\ read.amended THEN dirty' = [dirty EXCEPT ![k] = NoEntry]
                                                ELSE UNCHANGED dirty
      /\ IF read.m[k] = NoEntry THEN Finish(g, Nil) ELSE With(g, "entry", read.m[k])
      /\ UNCHANGED <<mu, read, misses, p>>

----------------------------------------------------------------------------
(* Range visits the entries of one m.read that has all keys.               *)
Visit(g, m) ==
  /\ st' = [st EXCEPT ![g] = [pc |-> "visit", call |-> [op |-> "Range"], e |-> NoEntry,
                              todo |-> {k \in Keys : m[k] # NoEntry}, snap |-> m,
                              acc |-> [k \in Keys |-> Nil]]]
  /\ res' = [res EXCEPT ![g] = None]

StartRange(g) ==
  /\ IF read.amended THEN /\ st' = [st EXCEPT ![g] = [Idle EXCEPT !.pc = "promote",
                                                                  !.call = [op |-> "Range"]]]
                          /\ res' = [res EXCEPT ![g] = None]
                     ELSE Visit(g, read.m)
  /\ UNCHANGED shared

RangeLocked(g) ==
  /\ At(g, "promote")
  /\ Free
  /\ IF read.amended THEN Promote /\ Visit(g, dirty)
                     ELSE UNCHANGED <<read, dirty, misses>> /\ Visit(g, read.m)
  /\ UNCHANGED <<mu, p>>

VisitKey(g) ==
  \E k \in st[g].todo :
    LET e == st[g].snap[k]
    IN  /\ At(g, "visit")
        /\ st' = [st EXCEPT ![g].todo = @ \ {k}, ![g].snap[k] = NoEntry,
                            ![g].acc[k] = IF Holds(e) THEN p[e] ELSE Nil]
        /\ UNCHANGED <<shared, res>>

EndRange(g) ==
  /\ At(g, "visit")
  /\ st[g].todo = {}
  /\ st' = [st EXCEPT ![g] = Idle]
  /\ res' = [res EXCEPT ![g] = [vals |-> st[g].acc, loaded |-> FALSE]]
  /\ UNCHANGED shared

----------------------------------------------------------------------------
Step(g) ==
  \/ At(g, "idle") /\ \E c \in Calls : IF c.op = "Range" THEN StartRange(g) ELSE Start(g, c)
  \/ LoadEntry(g) \/ LoadLocked(g) \/ Absent(g)
  \/ tryStore(g) \/ tryLoadOrStore(g) \/ unexpungeLocked(g) \/ WriteLocked(g)
  \/ WriteDirty(g) \/ CountMiss(g) \/ dirtyLocked(g) \/ tryExpungeLocked(g) \/ newEntry(g)
  \/ DeleteEntry(g) \/ DeleteLocked(g)
  \/ RangeLocked(g) \/ VisitKey(g) \/ EndRange(g)

Next == (\E g \in G : Step(g)) /\ A!Witness(Content')

Spec == Init /\ [][Next]_vars

----------------------------------------------------------------------------
TypeOK ==
  /\ mu \in G \cup {None}
  /\ read \in [m : [Keys -> Entries \cup {NoEntry}], amended : BOOLEAN]
  /\ dirty \in [Keys -> Entries \cup {NoEntry}] \cup {NoMap}
  /\ misses \in 0 .. Cardinality(Keys)
  /\ p \in [Entries -> Values \cup {Nil, Expunged}]
  /\ Unused # {}

(* What the comments on Map and entry (map.go:34-51, 73-92) say holds while *)
(* nobody has m.mu: there is an m.dirty exactly when m.read is amended; an  *)
(* entry of m.read is expunged exactly when an existing m.dirty lacks it,   *)
(* so that no write to it is lost when m.dirty is promoted; otherwise both  *)
(* maps have the same entry for the key.  (The comment "If p == nil, the    *)
(* entry has been deleted and m.dirty == nil" is too strong: Delete leaves  *)
(* a nil entry in both maps.)                                               *)
MapInvariant ==
  /\ TypeOK
  /\ Free =>
       /\ read.amended <=> dirty # NoMap
       /\ \A k \in Keys : read.m[k] # NoEntry =>
            (p[read.m[k]] = Expunged <=> dirty # NoMap /\ dirty[k] = NoEntry)
       /\ \A k \in Keys : read.m[k] # NoEntry /\ InDirty(k) => dirty[k] = read.m[k]
       /\ \A k \in Keys : InDirty(k) => p[dirty[k]] # Expunged

(* sync.Map is an atomic map (map.go:12-13): each call takes effect at one *)
(* instant between its start and its end, and Range visits each key with a *)
(* value the key had during the call (map.go:301-308).                     *)
ImplementsAtomicMap == A!Spec
=============================================================================
