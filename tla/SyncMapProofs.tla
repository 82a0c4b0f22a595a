---------------------------- MODULE SyncMapProofs ----------------------------
(***************************************************************************)
(* Proofs about module SyncMap, for any finite sets of goroutines and      *)
(* keys, any values and any calls: the structure the comments of           *)
(* sync/map.go describe is invariant, and sync.Map implements the atomic   *)
(* map of module AtomicMap.                                                *)
(***************************************************************************)
EXTENDS SyncMap, FiniteSetTheorems, TLAPS

----------------------------------------------------------------------------
(* The inductive invariant.                                                *)

Entry == Entries \cup {NoEntry}
Worth(e) == IF Holds(e) THEN p[e] ELSE Nil
Locked(l) == l \in {"write", "missLocked", "addKey"}
Keyed == {"Load", "Delete", "Store", "LoadOrStore"}
Adding == {"Store", "LoadOrStore"}

Locals ==
  [pc : {"idle", "entry", "lock", "absent", "write", "missLocked", "addKey", "promote", "visit"},
   call : A!Call \cup {None}, e : Entry, todo : SUBSET Keys, snap : [Keys -> Entry],
   acc : [Keys -> Values \cup {Nil}] \cup {<<>>}]

Types ==
  /\ mu \in G \cup {None}
  /\ read \in [m : [Keys -> Entry], amended : BOOLEAN]
  /\ dirty \in [Keys -> Entry] \cup {NoMap}
  /\ misses \in 0 .. Cardinality(Keys)
  /\ p \in [Entries -> Values \cup {Nil, Expunged}]
  /\ st \in [G -> Locals]
  /\ res \in [G -> A!Answer \cup {None}]
  /\ seen = [g \in G |-> seen[g]]

(* Where a goroutine is says what it does there: with which calls, whether *)
(* it holds an entry, the entries of a Range or m.mu.                      *)
Place(g) ==
  /\ (st[g].call = None) <=> At(g, "idle")
  /\ st[g].pc \in {"entry", "lock"} => st[g].call.op \in Keyed
  /\ At(g, "absent") => st[g].call.op \in {"Load", "Delete"}
  /\ Locked(st[g].pc) => st[g].call.op \in Adding
  /\ st[g].pc \in {"promote", "visit"} => st[g].call.op = "Range"
  /\ (st[g].e # NoEntry) <=> st[g].pc \in {"entry", "write"}
  /\ IF At(g, "visit") THEN /\ st[g].todo = {k \in Keys : st[g].snap[k] # NoEntry}
                            /\ st[g].acc \in [Keys -> Values \cup {Nil}]
                       ELSE st[g].snap = NoKeys
  /\ (mu = g) <=> Locked(st[g].pc)
Places == \A g \in G : Place(g)

(* What the holder of m.mu knows.                                          *)
Holder(g) ==
  /\ At(g, "write") => read.m[Key(g)] = st[g].e /\ p[st[g].e] # Expunged
  /\ At(g, "missLocked") => dirty # NoMap
  /\ At(g, "addKey") =>
       /\ dirty # NoMap /\ dirty[Key(g)] = NoEntry /\ read.m[Key(g)] = NoEntry
       /\ \A k \in st[g].todo : read.m[k] # NoEntry /\ dirty[k] = NoEntry
Holders == \A g \in G : Holder(g)

(* The two maps.  A key of m.read that the holder of m.mu is still to copy *)
(* into a new m.dirty is pending.                                          *)
Pending(k) == \E g \in G : At(g, "addKey") /\ k \in st[g].todo
Missing(k) == dirty # NoMap /\ dirty[k] = NoEntry /\ ~Pending(k)
Maps ==
  /\ read.amended => dirty # NoMap
  /\ dirty # NoMap /\ ~read.amended => \E g \in G : At(g, "addKey")
  /\ \A k \in Keys : read.m[k] # NoEntry => (p[read.m[k]] = Expunged <=> Missing(k))
  /\ \A k \in Keys : read.m[k] # NoEntry /\ InDirty(k) => dirty[k] = read.m[k]
  /\ \A k \in Keys : InDirty(k) => p[dirty[k]] # Expunged
  /\ \A k \in Keys : InDirty(k) /\ ~read.amended => read.m[k] # NoEntry

(* An entry is referred to under one key.                                  *)
RefersTo(k, e) ==
  \/ read.m[k] = e
  \/ dirty # NoMap /\ dirty[k] = e
  \/ \E g \in G : st[g].snap[k] = e
  \/ \E g \in G : st[g].pc \in {"entry", "write"} /\ st[g].e = e /\ Key(g) = k
Apart == \A e \in Entries, j, k \in Keys : RefersTo(j, e) /\ RefersTo(k, e) => j = k

(* A writer that has found an entry has the one m.read has, unless that    *)
(* was expunged.                                                           *)
Handle(g) ==
  At(g, "entry") /\ st[g].call.op # "Load" =>
    p[st[g].e] = Expunged \/ st[g].e = read.m[Key(g)]
Handles == \A g \in G : Handle(g)

(* What a call may still report, its key or keys had while it was running. *)
Recorded(g) ==
  /\ res[g] = None
  /\ seen[g] = [k \in A!KeysOf(st[g].call) |-> seen[g][k]]
  /\ \A k \in A!KeysOf(st[g].call) : Content[k] \in seen[g][k]
  /\ At(g, "absent") => Nil \in seen[g][Key(g)]
  /\ At(g, "entry") => Worth(st[g].e) \in seen[g][Key(g)]
  /\ At(g, "visit") =>
       \A k \in Keys : IF k \in st[g].todo THEN Worth(st[g].snap[k]) \in seen[g][k]
                                           ELSE st[g].acc[k] \in seen[g][k]
History == \A g \in G : IF CallOf(g) = None THEN seen[g] = <<>> ELSE Recorded(g)

Structure == Types /\ Places /\ Holders /\ Maps /\ Apart /\ Handles
IInv == Structure /\ History

----------------------------------------------------------------------------
(* What calls and answers are.                                             *)

LEMMA CallFields ==
  ASSUME NEW c \in A!Call
  PROVE  /\ c # None /\ c.op \in Keyed \cup {"Range"}
         /\ c.op \in Keyed => c.key \in Keys /\ A!KeysOf(c) = {c.key}
         /\ c.op \in Adding => c.val \in Values
         /\ c.op = "Range" => A!KeysOf(c) = Keys /\ c = [op |-> "Range"]
BY SyncMapAssumption DEF A!Call, A!KeysOf, Keyed, Adding

LEMMA AnswerType ==
  /\ \A c \in A!Call, x \in Values \cup {Nil}, b \in BOOLEAN :
       A!Result(c, x, b) \in A!Answer /\ A!Result(c, x, b) # None
  /\ \A f \in [Keys -> Values \cup {Nil}] :
       [vals |-> f, loaded |-> FALSE] \in A!Answer /\ [vals |-> f, loaded |-> FALSE] # None
<1> DEFINE Domains == {Keys} \cup {{k} : k \in Keys}
           Funcs == UNION {[S -> Values \cup {Nil}] : S \in Domains}
<1>1. \A S \in Domains : \A f \in [S -> Values \cup {Nil}] : f \in Funcs
  BY Zenon
<1>2. \A f \in Funcs, b \in BOOLEAN :
        [vals |-> f, loaded |-> b] \in A!Answer /\ [vals |-> f, loaded |-> b] # None
  <2>1. A!Answer = [vals : Funcs, loaded : BOOLEAN]
    BY DEF A!Answer
  <2>2. None \notin A!Answer
    BY SyncMapAssumption
  <2> HIDE DEF Funcs
  <2>3. \A f \in Funcs, b \in BOOLEAN : [vals |-> f, loaded |-> b] \in [vals : Funcs, loaded : BOOLEAN]
    OBVIOUS
  <2> QED
    BY <2>1, <2>2, <2>3, Zenon
<1>3. ASSUME NEW c \in A!Call, NEW x \in Values \cup {Nil}, NEW b \in BOOLEAN
      PROVE  A!Result(c, x, b) \in A!Answer /\ A!Result(c, x, b) # None
  <2>1. A!KeysOf(c) \in Domains
    BY CallFields DEF Keyed
  <2>2. [k \in A!KeysOf(c) |-> x] \in [A!KeysOf(c) -> Values \cup {Nil}]
    OBVIOUS
  <2> HIDE DEF Domains, Funcs
  <2>3. [k \in A!KeysOf(c) |-> x] \in Funcs
    BY <1>1, <2>1, <2>2, Zenon
  <2> QED
    BY <1>2, <2>3, Zenon DEF A!Result
<1>4. Keys \in Domains
  OBVIOUS
<1> HIDE DEF Domains, Funcs
<1>5. \A f \in [Keys -> Values \cup {Nil}] : f \in Funcs
  BY <1>1, <1>4, Zenon
<1> QED
  BY <1>2, <1>3, <1>5, Zenon

LEMMA EntryTypes ==
  ASSUME Types
  PROVE  /\ \A k \in Keys : read.m[k] \in Entry
         /\ dirty # NoMap => dirty \in [Keys -> Entry]
         /\ \A k \in Keys : EntryOf(k) \in Entry \/ read.amended
         /\ \A e \in Entries : Worth(e) \in Values \cup {Nil}
BY SyncMapAssumption DEF Types, EntryOf, Worth, Holds

(* A map is not the absent map.                                            *)
LEMMA IsAMap ==
  \A f \in [Keys -> Entry] : f # NoMap
BY SyncMapAssumption DEF Entry

----------------------------------------------------------------------------
(* The entries in use are fewer than the entries there are: two maps have  *)
(* one for each key, every Range has one for each key, every call has one. *)

LEMMA ImageBound ==
  ASSUME NEW S, IsFiniteSet(S), NEW f, DOMAIN f = S
  PROVE  /\ IsFiniteSet({f[x] : x \in S}) /\ Cardinality({f[x] : x \in S}) \in Nat
         /\ Cardinality({f[x] : x \in S}) <= Cardinality(S)
<1> DEFINE R == {f[x] : x \in S}
           h == [x \in S |-> f[x]]
<1>1. h \in Surjection(S, R)
  BY DEF Surjection
<1> HIDE DEF h, R
<1>2. IsFiniteSet(R) /\ Cardinality(R) <= Cardinality(S)
  BY <1>1, FS_Surjection
<1>3. Cardinality(R) \in Nat
  BY <1>2, FS_CardinalityType
<1> QED
  BY <1>2, <1>3 DEF R

LEMMA UnionBound ==
  ASSUME NEW S, NEW T, IsFiniteSet(S), IsFiniteSet(T)
  PROVE  /\ IsFiniteSet(S \cup T) /\ Cardinality(S \cup T) \in Nat
         /\ Cardinality(S) \in Nat /\ Cardinality(T) \in Nat
         /\ Cardinality(S \cup T) <= Cardinality(S) + Cardinality(T)
<1>1. IsFiniteSet(S \cup T) /\ IsFiniteSet(S \cap T)
      /\ Cardinality(S \cup T) = Cardinality(S) + Cardinality(T) - Cardinality(S \cap T)
  BY FS_Union, FS_Intersection
<1>2. Cardinality(S) \in Nat /\ Cardinality(T) \in Nat /\ Cardinality(S \cap T) \in Nat
      /\ Cardinality(S \cup T) \in Nat
  BY <1>1, FS_CardinalityType
<1> QED
  BY <1>1, <1>2

LEMMA HeapIsEnough ==
  ASSUME Types
  PROVE  Unused # {}
<1>1. IsFiniteSet(G) /\ IsFiniteSet(Keys) /\ IsFiniteSet(Entries)
  BY SyncMapAssumption
<1> DEFINE n == Cardinality(Keys)
           m == Cardinality(G)
           f == [x \in G \X Keys |-> st[x[1]].snap[x[2]]]
           h == [g \in G |-> st[g].e]
           R1 == {read.m[k] : k \in Keys}
           R2 == {dirty[k] : k \in Keys}
           R3 == {f[x] : x \in G \X Keys}
           R4 == {h[g] : g \in G}
<1>2. n \in Nat /\ m \in Nat /\ Cardinality(Entries) \in Nat
  BY <1>1, FS_CardinalityType
<1>3. IsFiniteSet(R1) /\ Cardinality(R1) \in Nat /\ Cardinality(R1) <= n
  BY <1>1, ImageBound DEF Types
<1>4. dirty # NoMap => IsFiniteSet(R2) /\ Cardinality(R2) \in Nat /\ Cardinality(R2) <= n
  BY <1>1, ImageBound DEF Types
<1>5. IsFiniteSet(R3) /\ Cardinality(R3) \in Nat /\ Cardinality(R3) <= m * n
  <2>1. IsFiniteSet(G \X Keys) /\ Cardinality(G \X Keys) = m * n
    BY <1>1, FS_Product
  <2>2. DOMAIN f = G \X Keys
    OBVIOUS
  <2> HIDE DEF f, m, n
  <2> QED
    BY <2>1, <2>2, ImageBound
<1>6. IsFiniteSet(R4) /\ Cardinality(R4) \in Nat /\ Cardinality(R4) <= m
  <2>1. DOMAIN h = G
    OBVIOUS
  <2> HIDE DEF h
  <2> QED
    BY <1>1, <2>1, ImageBound
<1>7. PICK D : IsFiniteSet(D) /\ Cardinality(D) \in Nat /\ Cardinality(D) <= n
               /\ (IF dirty = NoMap THEN {} ELSE Range(dirty)) \subseteq D
  <2>1. CASE dirty = NoMap
    <3> WITNESS {}
    <3> QED
      BY <1>2, <2>1, FS_EmptySet
  <2>2. CASE dirty # NoMap
    <3>1. Range(dirty) \subseteq R2
      BY <2>2 DEF Range, Types
    <3> HIDE DEF R2
    <3> WITNESS R2
    <3> QED
      BY <1>4, <2>2, <3>1
  <2> QED
    BY <2>1, <2>2
<1>8. Entries \ (((R1 \cup D) \cup R3) \cup R4) \subseteq Unused
  <2> SUFFICES ASSUME NEW e \in Entries, e \notin R1, e \notin D, e \notin R3, e \notin R4
               PROVE  e \in Unused
    OBVIOUS
  <2>1. e \notin Range(read.m)
    BY DEF Range, Types
  <2>2. ASSUME NEW g \in G PROVE e # st[g].e /\ e \notin Range(st[g].snap)
    <3>1. e # st[g].e
      BY h[g] = st[g].e
    <3>2. ASSUME NEW k \in Keys PROVE e # st[g].snap[k]
      <4>1. <<g, k>> \in G \X Keys /\ f[<<g, k>>] = st[g].snap[k]
        OBVIOUS
      <4> QED
        BY <4>1
    <3>3. DOMAIN st[g].snap = Keys
      BY DEF Types, Locals
    <3> QED
      BY <3>1, <3>2, <3>3 DEF Range
  <2> QED
    BY <1>7, <2>1, <2>2 DEF Unused
<1> HIDE DEF R1, R3, R4, n, m
<1>9. /\ IsFiniteSet(((R1 \cup D) \cup R3) \cup R4) /\ Cardinality(((R1 \cup D) \cup R3) \cup R4) \in Nat
      /\ Cardinality(((R1 \cup D) \cup R3) \cup R4) <= n + n + m * n + m
  <2>1. /\ IsFiniteSet(R1 \cup D) /\ Cardinality(R1 \cup D) \in Nat
        /\ Cardinality(R1 \cup D) <= n + n
    BY <1>2, <1>3, <1>7, UnionBound
  <2>2. /\ IsFiniteSet((R1 \cup D) \cup R3) /\ Cardinality((R1 \cup D) \cup R3) \in Nat
        /\ Cardinality((R1 \cup D) \cup R3) <= Cardinality(R1 \cup D) + Cardinality(R3)
    BY <1>5, <2>1, UnionBound
  <2>3. /\ IsFiniteSet(((R1 \cup D) \cup R3) \cup R4)
        /\ Cardinality(((R1 \cup D) \cup R3) \cup R4) \in Nat
        /\ Cardinality(((R1 \cup D) \cup R3) \cup R4) <= Cardinality((R1 \cup D) \cup R3) + Cardinality(R4)
    BY <1>6, <2>2, UnionBound
  <2>4. m * n \in Nat
    BY <1>2
  <2> QED
    BY <1>2, <1>5, <1>6, <2>1, <2>2, <2>3, <2>4
<1>10. Cardinality(Entries) > n + n + m * n + m
  <2>1. (m + 2) * n = n + n + m * n
    BY <1>2
  <2>2. Cardinality(Entries) > (m + 2) * n + m
    BY SyncMapAssumption DEF m, n
  <2> QED
    BY <1>2, <2>1, <2>2
<1> SUFFICES ASSUME Unused = {} PROVE FALSE
  OBVIOUS
<1>11. Entries \subseteq ((R1 \cup D) \cup R3) \cup R4
  BY <1>8
<1>12. Cardinality(Entries) <= Cardinality(((R1 \cup D) \cup R3) \cup R4)
  BY <1>9, <1>11, FS_Subset
<1>13. m * n \in Nat
  BY <1>2
<1> QED
  BY <1>2, <1>9, <1>10, <1>12, <1>13

----------------------------------------------------------------------------
(* What a step may do to the entries that others refer to.                 *)

(* An entry is worth what it was, or what its key has now.                 *)
WorthKept ==
  \A k \in Keys, e \in Entries : RefersTo(k, e) => Worth(e)' = Worth(e) \/ Worth(e)' = Content[k]'

(* What a writer has found is still expunged or still in m.read.           *)
HandlesKept ==
  \A k \in Keys, e \in Entries : RefersTo(k, e) /\ (p[e] = Expunged \/ e = read.m[k]) =>
    (p[e] = Expunged)' \/ (e = read.m[k])'

(* While another holds m.mu, the maps stay and nothing becomes expunged.   *)
HolderKept(g) ==
  mu \in {None, g} \/ ( /\ UNCHANGED <<read, dirty>>
                        /\ \A e \in Entries : p[e] # Expunged => p'[e] # Expunged )

MutexStep(g) == mu' = mu \/ (mu = None /\ mu' = g) \/ (mu = g /\ mu' = None)

(* References move; a new one is to an entry that had none.                *)
Unreferred(e) == \A k \in Keys : ~RefersTo(k, e)
NoNewReference(g) ==
  /\ \A k \in Keys : read'.m[k] # NoEntry => RefersTo(k, read'.m[k])
  /\ dirty' # NoMap => \A k \in Keys : dirty'[k] # NoEntry =>
       RefersTo(k, dirty'[k]) \/ (k = Key(g) /\ Unreferred(dirty'[k]))
  /\ \A k \in Keys : st'[g].snap[k] # NoEntry => RefersTo(k, st'[g].snap[k])
  /\ st'[g].pc \in {"entry", "write"} => RefersTo(st'[g].call.key, st'[g].e)

Others(g) == \A h \in G \ {g} : st'[h] = st[h] /\ res'[h] = res[h]

(* A goroutine that has found an entry refers to it.                       *)
LEMMA FoundRefers ==
  ASSUME Structure, NEW g \in G, st[g].pc \in {"entry", "write"}
  PROVE  Key(g) \in Keys /\ st[g].e \in Entries /\ RefersTo(Key(g), st[g].e) /\ st[g].call \in A!Call
         /\ st[g].call.op \in Keyed
<1>1. st[g].call \in A!Call /\ st[g].e \in Entry
  BY DEF Structure, Types, Locals, Places, Place, At
<1>2. st[g].call.op \in Keyed
  BY DEF Structure, Places, Place, Locked, Adding, Keyed
<1>3. st[g].e # NoEntry
  BY DEF Structure, Places, Place
<1>4. Key(g) \in Keys
  BY <1>1, <1>2, CallFields DEF Key
<1> QED
  BY <1>1, <1>2, <1>3, <1>4 DEF RefersTo, Entry

LEMMA CallOfType ==
  ASSUME Structure, NEW g \in G
  PROVE  /\ CallOf(g) \in A!Call \cup {None}
         /\ ~At(g, "idle") => st[g].call \in A!Call
         /\ CallOf(g) # None => CallOf(g) = st[g].call
         /\ st[g].pc \in {"entry", "lock"} => st[g].call.op \in Keyed /\ Key(g) \in Keys
         /\ At(g, "absent") => st[g].call.op \in Keyed /\ Key(g) \in Keys
         /\ Locked(st[g].pc) => /\ st[g].call.op \in Keyed /\ st[g].call.op \in Adding
                                /\ Key(g) \in Keys /\ Val(g) \in Values
         /\ st[g].pc \in {"promote", "visit"} => st[g].call = [op |-> "Range"]
<1>1. ~At(g, "idle") => st[g].call \in A!Call
  BY DEF Structure, Types, Locals, Places, Place, At
<1>2. st[g].pc \in {"entry", "lock"} => st[g].call.op \in Keyed
  BY DEF Structure, Places, Place
<1>3. At(g, "absent") => st[g].call.op \in Keyed
  BY DEF Structure, Places, Place, Keyed
<1>4. Locked(st[g].pc) => st[g].call.op \in Keyed /\ st[g].call.op \in Adding
  BY DEF Structure, Places, Place, Keyed, Adding
<1>5. st[g].pc \in {"promote", "visit"} => st[g].call.op = "Range"
  BY DEF Structure, Places, Place
<1> QED
  BY <1>1, <1>2, <1>3, <1>4, <1>5, CallFields DEF At, Locked, CallOf, Key, Val

(* An entry is referred to under one key.                                  *)
LEMMA OneKey ==
  ASSUME Structure, NEW e \in Entries, NEW j \in Keys, NEW k \in Keys, RefersTo(j, e), RefersTo(k, e)
  PROVE  j = k
BY DEF Structure, Apart

LEMMA ApartKept ==
  ASSUME Structure, NEW g \in G, Others(g), NoNewReference(g),
         \A k \in Keys : read'.m[k] \in Entry
  PROVE  Apart'
<1>1. ASSUME NEW e \in Entries, NEW k \in Keys, RefersTo(k, e)'
      PROVE  RefersTo(k, e) \/ (k = Key(g) /\ Unreferred(e))
  <2>1. CASE read'.m[k] = e
    BY <2>1, SyncMapAssumption DEF NoNewReference
  <2>2. CASE dirty' # NoMap /\ dirty'[k] = e
    BY <2>2, SyncMapAssumption DEF NoNewReference
  <2>3. ASSUME NEW h \in G, st'[h].snap[k] = e PROVE RefersTo(k, e)
    <3>1. CASE h = g
      BY <2>3, <3>1, SyncMapAssumption DEF NoNewReference
    <3>2. CASE h # g
      BY <2>3, <3>2 DEF Others, RefersTo
    <3> QED
      BY <3>1, <3>2
  <2>4. ASSUME NEW h \in G, st'[h].pc \in {"entry", "write"}, st'[h].e = e, st'[h].call.key = k
        PROVE  RefersTo(k, e)
    <3>1. CASE h = g
      BY <2>4, <3>1 DEF NoNewReference
    <3>2. CASE h # g
      BY <2>4, <3>2 DEF Others, RefersTo, Key
    <3> QED
      BY <3>1, <3>2
  <2> QED
    BY <1>1, <2>1, <2>2, <2>3, <2>4 DEF RefersTo, Key
<1> SUFFICES ASSUME NEW e \in Entries, NEW j \in Keys, NEW k \in Keys, RefersTo(j, e)', RefersTo(k, e)'
             PROVE  j = k
  BY DEF Apart
<1>2. RefersTo(j, e) \/ (j = Key(g) /\ Unreferred(e))
  BY <1>1
<1>3. RefersTo(k, e) \/ (k = Key(g) /\ Unreferred(e))
  BY <1>1
<1> QED
  BY <1>2, <1>3, OneKey DEF Unreferred

LEMMA PlacesKept ==
  ASSUME Structure, NEW g \in G, Others(g), MutexStep(g), Place(g)'
  PROVE  Places'
<1> SUFFICES ASSUME NEW h \in G \ {g} PROVE Place(h)'
  BY DEF Places
<1>1. Place(h) /\ st'[h] = st[h]
  BY DEF Structure, Places, Others
<1>2. (mu' = h) <=> (mu = h)
  BY SyncMapAssumption DEF MutexStep
<1> QED
  BY <1>1, <1>2 DEF Place, At

LEMMA HoldersKept ==
  ASSUME Structure, NEW g \in G, Others(g), HolderKept(g), Holder(g)'
  PROVE  Holders'
<1> SUFFICES ASSUME NEW h \in G \ {g} PROVE Holder(h)'
  BY DEF Holders
<1>1. Holder(h) /\ st'[h] = st[h] /\ ((mu = h) <=> Locked(st[h].pc))
  BY DEF Structure, Holders, Others, Places, Place
<1>2. CASE mu = h
  <2>1. UNCHANGED <<read, dirty>> /\ \A e \in Entries : p[e] # Expunged => p'[e] # Expunged
    BY <1>2, SyncMapAssumption DEF HolderKept
  <2>2. At(h, "write") => st[h].e \in Entries
    BY FoundRefers DEF At
  <2> QED
    BY <1>1, <2>1, <2>2 DEF Holder, At, Key
<1>3. CASE mu # h
  BY <1>1, <1>3 DEF Holder, Locked, At
<1> QED
  BY <1>2, <1>3

LEMMA HandlesStay ==
  ASSUME Structure, NEW g \in G, Others(g), HandlesKept, Handle(g)'
  PROVE  Handles'
<1> SUFFICES ASSUME NEW h \in G \ {g} PROVE Handle(h)'
  BY DEF Handles
<1>1. Handle(h) /\ st'[h] = st[h]
  BY DEF Structure, Handles, Others
<1>2. At(h, "entry") => Key(h) \in Keys /\ st[h].e \in Entries /\ RefersTo(Key(h), st[h].e)
  BY FoundRefers DEF At
<1> QED
  BY <1>1, <1>2 DEF Handle, HandlesKept, At, Key

----------------------------------------------------------------------------
(* What the calls under way have seen.                                     *)

LEMMA SeenNow ==
  ASSUME A!Witness(Content'), NEW h \in G
  PROVE  /\ seen' = [g \in G |-> seen'[g]]
         /\ CallOf(h)' = None => seen'[h] = <<>>
         /\ CallOf(h)' # None /\ CallOf(h) = None =>
              seen'[h] = [k \in A!KeysOf(CallOf(h)') |-> {Content'[k]}]
         /\ CallOf(h)' # None /\ CallOf(h) # None =>
              seen'[h] = [k \in A!KeysOf(CallOf(h)) |-> seen[h][k] \cup {Content'[k]}]
<1> DEFINE S(g) == IF CallOf(g)' = None THEN <<>>
                   ELSE IF CallOf(g) = None THEN [k \in A!KeysOf(CallOf(g)') |-> {Content'[k]}]
                   ELSE [k \in A!KeysOf(CallOf(g)) |-> seen[g][k] \cup {Content'[k]}]
<1>1. seen' = [g \in G |-> S(g)]
  BY DEF A!Witness, A!SeenBy
<1>2. seen' = [g \in G |-> seen'[g]] /\ seen'[h] = S(h)
  BY <1>1
<1>3. CASE CallOf(h)' = None
  BY <1>2, <1>3
<1>4. CASE CallOf(h)' # None /\ CallOf(h) = None
  BY <1>2, <1>4
<1>5. CASE CallOf(h)' # None /\ CallOf(h) # None
  BY <1>2, <1>5
<1> QED
  BY <1>2, <1>3, <1>4, <1>5

LEMMA KeysOfCall ==
  ASSUME Structure, NEW g \in G, ~At(g, "idle")
  PROVE  /\ st[g].call.op \in Keyed => A!KeysOf(st[g].call) = {Key(g)} /\ Key(g) \in Keys
         /\ st[g].pc \in {"promote", "visit"} => A!KeysOf(st[g].call) = Keys
         /\ A!KeysOf(st[g].call) \subseteq Keys
<1>1. st[g].call \in A!Call
  BY CallOfType
<1> QED
  BY <1>1, CallFields, CallOfType DEF Key

LEMMA RecordsKept ==
  ASSUME IInv, NEW g \in G, Others(g), A!Witness(Content'), WorthKept,
         CallOf(g)' # None => Recorded(g)'
  PROVE  History'
<1> SUFFICES ASSUME NEW h \in G
             PROVE  IF CallOf(h)' = None THEN seen'[h] = <<>> ELSE Recorded(h)'
  BY DEF History
<1>1. CASE h = g
  BY <1>1, SeenNow
<1>2. CASE h # g
  <2>1. st'[h] = st[h] /\ res'[h] = res[h] /\ CallOf(h)' = CallOf(h)
    BY <1>2 DEF Others, CallOf
  <2>2. CASE CallOf(h) = None
    BY <2>1, <2>2, SeenNow
  <2>3. CASE CallOf(h) # None
    <3>1. Recorded(h) /\ st[h].call = CallOf(h) /\ ~At(h, "idle")
      BY <2>3, CallOfType DEF IInv, History, CallOf, At
    <3>2. seen'[h] = [k \in A!KeysOf(st[h].call) |-> seen[h][k] \cup {Content'[k]}]
      BY <2>1, <2>3, <3>1, SeenNow
    <3>3. A!KeysOf(st[h].call) \subseteq Keys
      BY <3>1, KeysOfCall DEF IInv
    <3>4. ASSUME At(h, "entry") PROVE Worth(st[h].e)' \in seen'[h][Key(h)]
      <4>1. Key(h) \in Keys /\ st[h].e \in Entries /\ RefersTo(Key(h), st[h].e)
            /\ A!KeysOf(st[h].call) = {Key(h)}
        BY <3>1, <3>4, FoundRefers, KeysOfCall DEF At, IInv
      <4>2. Worth(st[h].e)' = Worth(st[h].e) \/ Worth(st[h].e)' = Content'[Key(h)]
        BY <2>1, <4>1 DEF WorthKept, Worth, Holds
      <4>3. Worth(st[h].e) \in seen[h][Key(h)]
        BY <3>1, <3>4 DEF Recorded
      <4> QED
        BY <3>2, <4>1, <4>2, <4>3
    <3>5. ASSUME At(h, "visit"), NEW k \in Keys
          PROVE  IF k \in st[h].todo THEN Worth(st[h].snap[k])' \in seen'[h][k] ELSE st[h].acc[k] \in seen'[h][k]
      <4>1. A!KeysOf(st[h].call) = Keys
        BY <3>1, <3>5, KeysOfCall DEF At, IInv
      <4>2. seen'[h][k] = seen[h][k] \cup {Content'[k]}
        BY <3>2, <4>1
      <4>3. CASE k \in st[h].todo
        <5>1. st[h].snap[k] \in Entries
          BY <3>5, <4>3 DEF IInv, Structure, Types, Locals, Places, Place, Entry
        <5>2. Worth(st[h].snap[k]) \in seen[h][k]
          BY <3>1, <3>5, <4>3 DEF Recorded
        <5>3. Worth(st[h].snap[k])' = Worth(st[h].snap[k]) \/ Worth(st[h].snap[k])' = Content'[k]
          BY <2>1, <5>1 DEF WorthKept, RefersTo, Worth, Holds
        <5> QED
          BY <4>2, <4>3, <5>2, <5>3
      <4>4. CASE k \notin st[h].todo
        BY <3>1, <3>5, <4>2, <4>4 DEF Recorded
      <4> QED
        BY <4>3, <4>4
    <3>6. ASSUME At(h, "absent") PROVE Nil \in seen'[h][Key(h)]
      <4>1. Key(h) \in A!KeysOf(st[h].call)
        BY <3>1, <3>6, KeysOfCall, CallOfType DEF IInv
      <4>2. Nil \in seen[h][Key(h)]
        BY <3>1, <3>6 DEF Recorded
      <4> QED
        BY <3>2, <4>1, <4>2
    <3>7. \A k \in A!KeysOf(st[h].call) : Content'[k] \in seen'[h][k]
      BY <3>2
    <3>8. seen'[h] = [k \in A!KeysOf(st[h].call) |-> seen'[h][k]] /\ res'[h] = None
      BY <2>1, <3>1, <3>2 DEF Recorded
    <3>9. Recorded(h)'
      <4>1. At(h, "entry")' => Worth(st[h].e)' \in seen'[h][Key(h)]
        BY <2>1, <3>4 DEF At
      <4>2. At(h, "visit")' => \A k \in Keys :
              IF k \in st'[h].todo THEN (Worth(st[h].snap[k]) \in seen[h][k])' ELSE st'[h].acc[k] \in seen'[h][k]
        BY <2>1, <3>5 DEF At, Worth, Holds
      <4> QED
        BY <2>1, <3>6, <3>7, <3>8, <4>1, <4>2 DEF Recorded, At, Key, Worth, Holds
    <3> QED
      BY <2>1, <2>3, <3>9
  <2> QED
    BY <2>2, <2>3
<1> QED
  BY <1>1, <1>2

(* The parts of a step of g.                                               *)
Quiet(g) ==
  Others(g) /\ MutexStep(g) /\ HolderKept(g) /\ HandlesKept /\ WorthKept /\ NoNewReference(g)
OwnPart(g) ==
  Place(g) /\ Holder(g) /\ Handle(g) /\ (CallOf(g) # None => Recorded(g))

LEMMA StepKeeps ==
  ASSUME IInv, NEW g \in G, A!Witness(Content'), Types', Maps', Quiet(g), OwnPart(g)'
  PROVE  IInv'
<1>1. \A k \in Keys : read'.m[k] \in Entry
  BY DEF Types
<1>2. Places' /\ Holders' /\ Apart' /\ Handles' /\ History'
  BY <1>1, PlacesKept, HoldersKept, ApartKept, HandlesStay, RecordsKept DEF Quiet, OwnPart, IInv
<1> QED
  BY <1>2 DEF IInv, Structure

----------------------------------------------------------------------------
(* Three kinds of step: one that leaves the maps and the entries alone ... *)

AddsKey(g) == At(g, "addKey")

LEMMA PendingKept ==
  ASSUME NEW g \in G, Others(g), ~AddsKey(g), ~AddsKey(g)'
  PROVE  /\ \A k \in Keys : Pending(k)' <=> Pending(k)
         /\ (\E h \in G : At(h, "addKey"))' <=> \E h \in G : At(h, "addKey")
<1>1. \A h \in G : /\ At(h, "addKey")' <=> At(h, "addKey")
                   /\ At(h, "addKey") => st'[h] = st[h]
  BY DEF Others, AddsKey, At
<1> QED
  BY <1>1 DEF Pending

LEMMA SameMaps ==
  ASSUME Structure, NEW g \in G, Others(g), ~AddsKey(g), ~AddsKey(g)', UNCHANGED <<read, dirty, p>>
  PROVE  Maps' /\ Content' = Content /\ WorthKept /\ HandlesKept /\ HolderKept(g)
<1>1. Maps'
  <2>1. \A k \in Keys : Missing(k)' <=> Missing(k)
    BY PendingKept DEF Missing
  <2> QED
    BY <2>1, PendingKept DEF Structure, Maps, InDirty
<1>2. Content' = Content
  BY DEF Content, EntryOf, Holds
<1>3. WorthKept
  BY DEF WorthKept, Worth, Holds
<1> QED
  BY <1>1, <1>2, <1>3 DEF HandlesKept, HolderKept

(* ... one that makes m.dirty m.read ...                                   *)
LEMMA NoneAdding ==
  ASSUME Structure, NEW g \in G, mu \in {None, g}, ~AddsKey(g)
  PROVE  /\ \A h \in G : ~At(h, "addKey")
         /\ \A k \in Keys : ~Pending(k)
         /\ read.amended <=> dirty # NoMap
<1>1. ASSUME NEW h \in G, At(h, "addKey") PROVE FALSE
  BY <1>1, SyncMapAssumption DEF Structure, Places, Place, Locked, AddsKey, At
<1> QED
  BY <1>1 DEF Pending, Structure, Maps

LEMMA ContentAt ==
  ASSUME NEW k \in Keys
  PROVE  Content[k] = IF EntryOf(k) # NoEntry THEN Worth(EntryOf(k)) ELSE Nil
BY DEF Content, Worth

LEMMA Promoted ==
  ASSUME Structure, NEW g \in G, Others(g), ~AddsKey(g), ~AddsKey(g)', mu \in {None, g},
         dirty # NoMap, Promote, p' = p
  PROVE  /\ Maps' /\ Content' = Content /\ WorthKept /\ HandlesKept /\ HolderKept(g)
         /\ \A k \in Keys : Content[k] = IF dirty[k] = NoEntry THEN Nil ELSE Worth(dirty[k])
<1>1. read' = [m |-> dirty, amended |-> FALSE] /\ dirty' = NoMap
  BY DEF Promote
<1>2. read.amended /\ \A k \in Keys : ~Pending(k)
  BY NoneAdding
<1>3. dirty \in [Keys -> Entry] /\ read.m \in [Keys -> Entry]
  BY DEF Structure, Types
<1>4. Maps'
  BY <1>1, <1>3 DEF Structure, Maps, InDirty, Missing
<1>5. ASSUME NEW k \in Keys PROVE Content[k] = IF dirty[k] = NoEntry THEN Nil ELSE Worth(dirty[k])
  <2>1. CASE read.m[k] = NoEntry
    BY <1>2, <2>1 DEF Content, EntryOf, Worth
  <2>2. CASE read.m[k] # NoEntry /\ dirty[k] = NoEntry
    <3>1. p[read.m[k]] = Expunged
      BY <1>2, <2>2 DEF Structure, Maps, Missing
    <3> QED
      BY <2>2, <3>1 DEF Content, EntryOf, Holds
  <2>3. CASE read.m[k] # NoEntry /\ dirty[k] # NoEntry
    <3>1. dirty[k] = read.m[k]
      BY <2>3 DEF Structure, Maps, InDirty
    <3> QED
      BY <2>3, <3>1 DEF Content, EntryOf, Worth
  <2> QED
    BY <2>1, <2>2, <2>3
<1>6. Content' = Content
  <2>1. \A k \in Keys : EntryOf(k)' = dirty[k]
    BY <1>1 DEF EntryOf
  <2>2. Content' = [k \in Keys |-> IF dirty[k] = NoEntry THEN Nil ELSE Worth(dirty[k])]
    BY <2>1 DEF Content, Worth, Holds
  <2>3. Content = [k \in Keys |-> Content[k]]
    BY DEF Content
  <2> QED
    BY <1>5, <2>2, <2>3
<1>7. WorthKept
  BY DEF WorthKept, Worth, Holds
<1>8. HandlesKept
  <2> SUFFICES ASSUME NEW k \in Keys, NEW e \in Entries, p[e] # Expunged, e = read.m[k]
               PROVE  e = dirty[k]
    BY <1>1 DEF HandlesKept
  <2>1. read.m[k] # NoEntry
    BY SyncMapAssumption
  <2>2. dirty[k] # NoEntry
    BY <1>2, <2>1 DEF Structure, Maps, Missing
  <2> QED
    BY <2>1, <2>2 DEF Structure, Maps, InDirty
<1> QED
  BY <1>4, <1>5, <1>6, <1>7, <1>8 DEF HolderKept

(* ... and one that writes the entry a key has.                            *)
LEMMA EntryOfRefers ==
  ASSUME Structure, NEW k \in Keys, EntryOf(k) # NoEntry
  PROVE  EntryOf(k) \in Entries /\ RefersTo(k, EntryOf(k))
BY SyncMapAssumption DEF Structure, Types, Maps, EntryOf, RefersTo, Entry

LEMMA Written ==
  ASSUME Structure, NEW g \in G, Others(g), ~AddsKey(g), ~AddsKey(g)', UNCHANGED <<read, dirty>>,
         NEW k \in Keys, EntryOf(k) # NoEntry, p[EntryOf(k)] # Expunged,
         NEW x \in Values \cup {Nil}, p' = [p EXCEPT ![EntryOf(k)] = x]
  PROVE  /\ Maps' /\ Content' = [Content EXCEPT ![k] = x] /\ WorthKept /\ HandlesKept
         /\ HolderKept(g) /\ p' \in [Entries -> Values \cup {Nil, Expunged}]
<1>1. PICK e \in Entries : e = EntryOf(k) /\ RefersTo(k, e)
  BY EntryOfRefers
<1>2. p \in [Entries -> Values \cup {Nil, Expunged}]
  BY DEF Structure, Types
<1>3. x # Expunged
  BY SyncMapAssumption
<1>4. p' = [p EXCEPT ![e] = x] /\ p[e] # Expunged
  BY <1>1
<1>5. p' \in [Entries -> Values \cup {Nil, Expunged}]
  BY <1>2, <1>4
<1>6. \A d \in Entries : (p'[d] = Expunged) <=> (p[d] = Expunged)
  BY <1>1, <1>2, <1>3, <1>4
<1>7. Maps'
  <2>1. \A j \in Keys : Missing(j)' <=> Missing(j)
    BY PendingKept DEF Missing
  <2>2. \A j \in Keys : /\ read.m[j] # NoEntry => read.m[j] \in Entries
                        /\ InDirty(j) => dirty[j] \in Entries
    BY DEF Structure, Types, Entry, InDirty
  <2>3. \A j \in Keys : InDirty(j)' <=> InDirty(j)
    BY DEF InDirty
  <2> QED
    BY <1>6, <2>1, <2>2, <2>3, PendingKept DEF Structure, Maps
<1>8. \A d \in Entries \ {e} : Worth(d)' = Worth(d)
  BY <1>2, <1>4 DEF Worth, Holds
<1>9. Worth(e)' = x
  <2>1. p'[e] = x
    BY <1>1, <1>2, <1>4
  <2> QED
    BY <1>3, <2>1 DEF Worth, Holds
<1>10. \A j \in Keys : EntryOf(j)' = EntryOf(j)
  BY DEF EntryOf
<1>11. ASSUME NEW j \in Keys PROVE Content'[j] = IF j = k THEN x ELSE Content[j]
  <2>1. PICK d : d = EntryOf(j)
    OBVIOUS
  <2>2. Content'[j] = IF d # NoEntry THEN Worth(d)' ELSE Nil
    BY <1>10, <2>1 DEF Content, Worth, Holds
  <2>3. CASE j = k
    <3>1. d = e /\ d # NoEntry
      BY <1>1, <2>1, <2>3
    <3> QED
      BY <1>9, <2>2, <2>3, <3>1
  <2>4. CASE j # k /\ d = NoEntry
    BY <2>1, <2>2, <2>4, ContentAt
  <2>5. CASE j # k /\ d # NoEntry
    <3>1. d \in Entries /\ RefersTo(j, d)
      BY <2>1, <2>5, EntryOfRefers
    <3>2. d # e
      BY <1>1, <2>5, <3>1, OneKey
    <3>3. Worth(d)' = Worth(d)
      BY <1>8, <3>1, <3>2
    <3> QED
      BY <2>1, <2>2, <2>5, <3>3, ContentAt
  <2> QED
    BY <2>3, <2>4, <2>5
<1>12. Content' = [Content EXCEPT ![k] = x]
  <2>1. Content' = [j \in Keys |-> Content'[j]] /\ Content = [j \in Keys |-> Content[j]]
    BY DEF Content
  <2> QED
    BY <1>11, <2>1
<1>13. WorthKept
  <2> SUFFICES ASSUME NEW j \in Keys, NEW d \in Entries, RefersTo(j, d)
               PROVE  Worth(d)' = Worth(d) \/ Worth(d)' = Content[j]'
    BY DEF WorthKept
  <2>1. CASE d = e
    <3>1. j = k
      BY <1>1, <2>1, OneKey
    <3> QED
      BY <1>9, <1>11, <2>1, <3>1
  <2>2. CASE d # e
    BY <1>8, <2>2
  <2> QED
    BY <2>1, <2>2
<1>14. HandlesKept
  BY <1>6 DEF HandlesKept
<1> QED
  BY <1>5, <1>6, <1>7, <1>12, <1>13, <1>14 DEF HolderKept

----------------------------------------------------------------------------
(* The steps of the atomic map.                                            *)

CallMap == [g \in G |-> CallOf(g)]

LEMMA Stutters ==
  ASSUME IInv, A!Witness(Content'), Content' = Content, res' = res,
         \A h \in G : CallOf(h)' = CallOf(h)
  PROVE  UNCHANGED A!vars
<1>1. ASSUME NEW h \in G PROVE seen'[h] = seen[h]
  <2>1. CASE CallOf(h) = None
    BY <2>1, SeenNow DEF IInv, History
  <2>2. CASE CallOf(h) # None
    <3>1. Recorded(h) /\ st[h].call = CallOf(h)
      BY <2>2, CallOfType DEF IInv, History
    <3>2. seen'[h] = [k \in A!KeysOf(CallOf(h)) |-> seen[h][k] \cup {Content'[k]}]
      BY <2>2, SeenNow
    <3>3. \A k \in A!KeysOf(CallOf(h)) : seen[h][k] \cup {Content'[k]} = seen[h][k]
      BY <3>1 DEF Recorded
    <3>4. seen[h] = [k \in A!KeysOf(CallOf(h)) |-> seen[h][k]]
      BY <3>1 DEF Recorded
    <3> QED
      BY <3>2, <3>3, <3>4
  <2> QED
    BY <2>1, <2>2
<1>2. seen' = seen
  <2>1. seen' = [g \in G |-> seen'[g]] /\ seen = [g \in G |-> seen[g]]
    BY DEF A!Witness, IInv, Structure, Types
  <2> QED
    BY <1>1, <2>1
<1>3. CallMap' = CallMap
  BY DEF CallMap
<1> QED
  BY <1>2, <1>3 DEF A!vars, CallMap

LEMMA CallMapStep ==
  ASSUME NEW g \in G, Others(g)
  PROVE  CallMap' = [CallMap EXCEPT ![g] = CallOf(g)']
<1>1. \A h \in G \ {g} : CallOf(h)' = CallOf(h)
  BY DEF Others, CallOf
<1> QED
  BY <1>1 DEF CallMap

LEMMA Begins ==
  ASSUME NEW g \in G, Others(g), A!Witness(Content'), Content' = Content,
         CallOf(g) = None, CallOf(g)' \in A!Call, res' = [res EXCEPT ![g] = None]
  PROVE  A!Next
<1>1. PICK c \in A!Call : c = CallOf(g)'
  OBVIOUS
<1>2. CallMap' = [CallMap EXCEPT ![g] = c]
  BY <1>1, CallMapStep
<1>3. CallMap[g] = None
  BY DEF CallMap
<1>4. A!Begin(g, c)
  BY <1>2, <1>3 DEF A!Begin, CallMap
<1> QED
  BY <1>4 DEF A!Next

LEMMA EffectStep ==
  ASSUME IInv, NEW g \in G, Others(g), A!Witness(Content'), CallOf(g) # None, CallOf(g)' = None,
         \/ A!Changes(g, st[g].call)
         \/ /\ A!Reports(g, st[g].call, res'[g])
            /\ res' = [res EXCEPT ![g] = res'[g]]
            /\ Content' = Content
  PROVE  A!Next
<1>1. CallMap' = [CallMap EXCEPT ![g] = None]
  BY CallMapStep
<1>2. CallMap[g] = st[g].call /\ CallMap[g] # None
  BY CallOfType DEF CallMap, IInv
<1>3. res[g] = None
  BY DEF IInv, History, Recorded
<1>4. A!TakeEffect(g)
  BY <1>1, <1>2, <1>3 DEF A!TakeEffect, CallMap
<1> QED
  BY <1>4 DEF A!Next

LEMMA ChangeStep ==
  ASSUME IInv, NEW g \in G, Others(g), A!Witness(Content'), CallOf(g) # None, CallOf(g)' = None,
         NEW x, NEW y,
         Content' = [Content EXCEPT ![Key(g)] = x],
         res' = [res EXCEPT ![g] = A!Result(st[g].call, y, FALSE)],
         \/ st[g].call.op = "Store" /\ x = Val(g) /\ y = Nil
         \/ st[g].call.op = "LoadOrStore" /\ Content[Key(g)] = Nil /\ x = Val(g) /\ y = Val(g)
         \/ st[g].call.op = "Delete" /\ x = Nil /\ y = Nil
  PROVE  A!Next
<1>1. A!Changes(g, st[g].call)
  BY DEF A!Changes, Key, Val
<1> QED
  BY <1>1, EffectStep

LEMMA ReportStep ==
  ASSUME IInv, NEW g \in G, Others(g), A!Witness(Content'), CallOf(g) # None, CallOf(g)' = None,
         Content' = Content, st[g].call.op \in Keyed, st[g].call.op # "Store",
         NEW x \in seen[g][Key(g)], x \in Values \cup {Nil}, NEW b \in BOOLEAN,
         res' = [res EXCEPT ![g] = A!Result(st[g].call, x, b)],
         b = (st[g].call.op = "LoadOrStore"),
         st[g].call.op = "LoadOrStore" => x # Nil, st[g].call.op = "Delete" => x = Nil
  PROVE  A!Next
<1> DEFINE r == A!Result(st[g].call, x, b)
<1>1. st[g].call \in A!Call /\ CallOf(g) = st[g].call
  BY CallOfType DEF IInv, CallOf, At
<1>2. A!KeysOf(st[g].call) = {Key(g)}
  BY <1>1, CallFields DEF Key
<1>3. r # None
  BY <1>1, AnswerType
<1>4. res'[g] = r
  BY DEF IInv, Structure, Types
<1>5. r.loaded = b /\ \A k \in A!KeysOf(st[g].call) : r.vals[k] = x
  BY DEF A!Result
<1> HIDE DEF r
<1>6. A!Reports(g, st[g].call, r)
  BY <1>2, <1>3, <1>5 DEF A!Reports, Key
<1>7. res' = [res EXCEPT ![g] = res'[g]]
  BY <1>4 DEF r
<1> QED
  BY <1>4, <1>6, <1>7, EffectStep

----------------------------------------------------------------------------
(* The parts that steps share.                                             *)

EntriesKept(g) == Maps' /\ WorthKept /\ HandlesKept /\ HolderKept(g)
ValueTypes == p \in [Entries -> Values \cup {Nil, Expunged}] /\ res \in [G -> A!Answer \cup {None}]

LEMMA IdleType == Idle \in Locals /\ NoKeys \in [Keys -> Entry]
BY DEF Idle, NoKeys, Locals, Entry

LEMMA OthersStay ==
  ASSUME NEW g \in G, st \in [G -> Locals], res \in [G -> A!Answer \cup {None}], NEW s, NEW r,
         st' = [st EXCEPT ![g] = s], res' = [res EXCEPT ![g] = r]
  PROVE  /\ Others(g) /\ st'[g] = s /\ res'[g] = r
         /\ s \in Locals => st' \in [G -> Locals]
         /\ r \in A!Answer \cup {None} => res' \in [G -> A!Answer \cup {None}]
BY DEF Others

(* A step that ends a call leaves g with nothing.                          *)
LEMMA EndsCall ==
  ASSUME Structure, NEW g \in G, st' = [st EXCEPT ![g] = Idle], mu' # g
  PROVE  /\ OwnPart(g)' /\ ~AddsKey(g)' /\ CallOf(g)' = None /\ st' \in [G -> Locals]
         /\ \A k \in Keys : st'[g].snap[k] = NoEntry
         /\ st'[g].pc \notin {"entry", "write"}
<1>1. st \in [G -> Locals]
  BY DEF Structure, Types
<1>2. st'[g] = Idle /\ st' \in [G -> Locals]
  BY <1>1, IdleType
<1>3. At(g, "idle")' /\ CallOf(g)' = None
  BY <1>2 DEF At, Idle, CallOf
<1>4. Place(g)'
  BY <1>2, SyncMapAssumption DEF Place, At, Idle, Locked
<1>5. Holder(g)' /\ Handle(g)'
  BY <1>2 DEF Holder, Handle, At, Idle
<1>6. \A k \in Keys : st'[g].snap[k] = NoEntry
  BY <1>2 DEF Idle, NoKeys
<1> QED
  BY <1>2, <1>3, <1>4, <1>5, <1>6 DEF OwnPart, AddsKey, At, Idle

(* While m.read and m.dirty stay, so do their references.                  *)
LEMMA MapsRefer ==
  ASSUME UNCHANGED <<read, dirty>>
  PROVE  /\ \A k \in Keys : read'.m[k] # NoEntry => RefersTo(k, read'.m[k])
         /\ dirty' # NoMap => \A k \in Keys : dirty'[k] # NoEntry => RefersTo(k, dirty'[k])
BY DEF RefersTo

LEMMA MissesType ==
  ASSUME Types, dirty # NoMap, missLocked
  PROVE  misses' \in 0 .. Cardinality(Keys)
<1>1. IsFiniteSet(Keys) /\ Cardinality(Keys) \in Nat
  BY SyncMapAssumption, FS_CardinalityType
<1>2. Len(dirty) \in Nat /\ Len(dirty) <= Cardinality(Keys)
  <2> DEFINE S == {k \in Keys : dirty[k] # NoEntry}
  <2>1. S \in SUBSET Keys
    OBVIOUS
  <2> HIDE DEF S
  <2>2. IsFiniteSet(S) /\ Cardinality(S) <= Cardinality(Keys)
    BY <1>1, <2>1, FS_Subset
  <2>3. Cardinality(S) \in Nat
    BY <2>2, FS_CardinalityType
  <2> QED
    BY <2>2, <2>3 DEF Len, S
<1>3. misses \in 0 .. Cardinality(Keys)
  BY DEF Types
<1>4. CASE misses + 1 < Len(dirty)
  BY <1>1, <1>2, <1>3, <1>4 DEF missLocked
<1>5. CASE ~(misses + 1 < Len(dirty))
  BY <1>1, <1>5 DEF missLocked, Promote
<1> QED
  BY <1>4, <1>5

LEMMA Missed ==
  ASSUME Structure, NEW g \in G, Others(g), ~AddsKey(g), ~AddsKey(g)', mu \in {None, g},
         dirty # NoMap, missLocked, p' = p
  PROVE  /\ EntriesKept(g) /\ Content' = Content
         /\ \A k \in Keys : read'.m[k] # NoEntry => RefersTo(k, read'.m[k])
         /\ dirty' # NoMap => \A k \in Keys : dirty'[k] # NoEntry => RefersTo(k, dirty'[k])
         /\ read' \in [m : [Keys -> Entry], amended : BOOLEAN]
         /\ dirty' \in [Keys -> Entry] \cup {NoMap}
         /\ misses' \in 0 .. Cardinality(Keys)
<1>1. misses' \in 0 .. Cardinality(Keys)
  BY MissesType DEF Structure
<1>2. CASE misses + 1 < Len(dirty)
  <2>1. UNCHANGED <<read, dirty>>
    BY <1>2, Zenon DEF missLocked
  <2>2. EntriesKept(g) /\ Content' = Content
    BY <2>1, SameMaps DEF EntriesKept
  <2>3. /\ read' \in [m : [Keys -> Entry], amended : BOOLEAN]
        /\ dirty' \in [Keys -> Entry] \cup {NoMap}
    BY <2>1 DEF Structure, Types
  <2> QED
    BY <1>1, <2>1, <2>2, <2>3, MapsRefer
<1>3. CASE ~(misses + 1 < Len(dirty))
  <2>1. Promote
    BY <1>3, Zenon DEF missLocked
  <2>2. EntriesKept(g) /\ Content' = Content
    BY <2>1, Promoted DEF EntriesKept
  <2>3. /\ read' \in [m : [Keys -> Entry], amended : BOOLEAN]
        /\ dirty' \in [Keys -> Entry] \cup {NoMap}
        /\ dirty' = NoMap /\ \A k \in Keys : read'.m[k] # NoEntry => RefersTo(k, read'.m[k])
    BY <2>1 DEF Structure, Types, Promote, RefersTo
  <2> QED
    BY <1>1, <2>2, <2>3
<1> QED
  BY <1>2, <1>3

(* A Store or LoadOrStore takes effect on the entry of its key.            *)
Takes(g) ==
  /\ Others(g) /\ ~AddsKey(g) /\ ~AddsKey(g)' /\ UNCHANGED <<read, dirty>>
  /\ CallOf(g) # None /\ CallOf(g)' = None
  /\ EntryOf(Key(g)) # NoEntry /\ p[EntryOf(Key(g))] # Expunged

LEMMA StoreTakes ==
  ASSUME IInv, NEW g \in G, A!Witness(Content'), Takes(g), st[g].call.op = "Store",
         Put(EntryOf(Key(g)), Val(g)), res' = [res EXCEPT ![g] = A!Result(st[g].call, Nil, FALSE)]
  PROVE  A!Next /\ EntriesKept(g) /\ ValueTypes'
<1>1. st[g].call \in A!Call /\ Key(g) \in Keys /\ Val(g) \in Values
  BY CallOfType, CallFields DEF IInv, Takes, CallOf, At, Key, Val, Keyed, Adding
<1>2. /\ EntriesKept(g) /\ Content' = [Content EXCEPT ![Key(g)] = Val(g)]
      /\ p' \in [Entries -> Values \cup {Nil, Expunged}]
  BY <1>1, Written DEF IInv, Takes, Put, EntriesKept
<1>3. A!Next
  BY <1>2, ChangeStep DEF Takes
<1>4. A!Result(st[g].call, Nil, FALSE) \in A!Answer
  BY <1>1, AnswerType
<1>5. res' \in [G -> A!Answer \cup {None}]
  BY <1>4 DEF IInv, Structure, Types
<1> QED
  BY <1>2, <1>3, <1>5 DEF ValueTypes

LEMMA LoadOrStoreTakes ==
  ASSUME IInv, NEW g \in G, A!Witness(Content'), Takes(g), st[g].call.op = "LoadOrStore",
         NEW after, LoadOrStoreIn(g, EntryOf(Key(g)), after)
  PROVE  A!Next /\ EntriesKept(g) /\ ValueTypes'
<1>1. st[g].call \in A!Call /\ Key(g) \in Keys /\ Val(g) \in Values
  BY CallOfType, CallFields DEF IInv, Takes, CallOf, At, Key, Val, Keyed, Adding
<1>2. PICK e \in Entries : e = EntryOf(Key(g))
  BY <1>1, EntryOfRefers DEF IInv, Takes
<1>3. Content[Key(g)] = Worth(e) /\ Worth(e) \in Values \cup {Nil}
  BY <1>1, <1>2, ContentAt, EntryTypes DEF Takes, IInv, Structure
<1>4. \A x \in Values \cup {Nil}, b \in BOOLEAN :
        res' = [res EXCEPT ![g] = A!Result(st[g].call, x, b)] => res' \in [G -> A!Answer \cup {None}]
  <2>1. \A x \in Values \cup {Nil}, b \in BOOLEAN : A!Result(st[g].call, x, b) \in A!Answer
    BY <1>1, AnswerType
  <2>2. res \in [G -> A!Answer \cup {None}]
    BY DEF IInv, Structure, Types
  <2> QED
    BY <2>1, <2>2
<1>5. CASE Holds(e)
  <2>1. p' = p /\ res' = [res EXCEPT ![g] = A!Result(st[g].call, p[e], TRUE)]
    BY <1>2, <1>5 DEF LoadOrStoreIn
  <2>2. EntriesKept(g) /\ Content' = Content
    BY <2>1, SameMaps DEF IInv, Takes, EntriesKept
  <2>3. p[e] = Worth(e) /\ p[e] # Nil /\ Worth(e) \in Values \cup {Nil}
    BY <1>3, <1>5 DEF Worth, Holds
  <2>4. p[e] \in seen[g][Key(g)]
    <3>1. Recorded(g) /\ Key(g) \in A!KeysOf(st[g].call)
      BY <1>1, CallFields DEF IInv, History, Takes, Key, Keyed
    <3> QED
      BY <1>3, <2>3, <3>1 DEF Recorded
  <2>5. A!Next
    BY <2>1, <2>2, <2>3, <2>4, ReportStep DEF Takes, Keyed
  <2>6. ValueTypes'
    BY <1>4, <2>1, <2>3 DEF ValueTypes, IInv, Structure, Types
  <2> QED
    BY <2>2, <2>5, <2>6
<1>6. CASE ~Holds(e)
  <2>1. Put(e, Val(g)) /\ res' = [res EXCEPT ![g] = A!Result(st[g].call, Val(g), FALSE)]
    <3>1. Holds(e) = FALSE
      BY <1>6 DEF Holds
    <3>2. Put(e, Val(g))
      BY <1>2, <1>6, Zenon DEF LoadOrStoreIn
    <3>3. res' = [res EXCEPT ![g] = A!Result(st[g].call, IF Holds(e) THEN p[e] ELSE Val(g), Holds(e))]
      BY <1>2, Zenon DEF LoadOrStoreIn
    <3> QED
      BY <3>1, <3>2, <3>3
  <2>2. /\ EntriesKept(g) /\ Content' = [Content EXCEPT ![Key(g)] = Val(g)]
        /\ p' \in [Entries -> Values \cup {Nil, Expunged}]
    BY <1>1, <1>2, <2>1, Written DEF IInv, Takes, Put, EntriesKept
  <2>3. Content[Key(g)] = Nil
    BY <1>3, <1>6 DEF Worth
  <2>4. A!Next
    BY <2>1, <2>2, <2>3, ChangeStep DEF Takes
  <2>5. ValueTypes'
    BY <1>1, <1>4, <2>1, <2>2 DEF ValueTypes
  <2> QED
    BY <2>2, <2>4, <2>5
<1> QED
  BY <1>5, <1>6

----------------------------------------------------------------------------
(* Steps that end a call.                                                  *)

LEMMA Concludes ==
  ASSUME IInv, NEW g \in G, A!Witness(Content'), EntriesKept(g), Others(g), MutexStep(g),
         NoNewReference(g), OwnPart(g)', ValueTypes', st' \in [G -> Locals],
         read' \in [m : [Keys -> Entry], amended : BOOLEAN], dirty' \in [Keys -> Entry] \cup {NoMap},
         misses' \in 0 .. Cardinality(Keys)
  PROVE  IInv'
<1>1. mu' \in G \cup {None}
  BY DEF MutexStep, IInv, Structure, Types
<1>2. seen' = [h \in G |-> seen'[h]]
  BY SeenNow
<1>3. Types'
  BY <1>1, <1>2 DEF Types, ValueTypes
<1> QED
  BY <1>3, StepKeeps DEF Quiet, EntriesKept

LEMMA MapTypes ==
  ASSUME IInv, UNCHANGED <<read, dirty, misses>>
  PROVE  /\ read' \in [m : [Keys -> Entry], amended : BOOLEAN]
         /\ dirty' \in [Keys -> Entry] \cup {NoMap}
         /\ misses' \in 0 .. Cardinality(Keys)
BY DEF IInv, Structure, Types

LEMMA EndKeeps ==
  ASSUME IInv, NEW g \in G, A!Witness(Content'), EntriesKept(g), MutexStep(g), mu' # g,
         st' = [st EXCEPT ![g] = Idle], NEW r, res' = [res EXCEPT ![g] = r],
         ValueTypes', UNCHANGED <<read, dirty, misses>>
  PROVE  IInv'
<1>1. Others(g)
  BY OthersStay DEF IInv, Structure, Types
<1>2. OwnPart(g)' /\ st' \in [G -> Locals] /\ NoNewReference(g)
  BY EndsCall, MapsRefer DEF IInv, NoNewReference
<1> QED
  BY <1>1, <1>2, MapTypes, Concludes

(* What is known of g at its steps.                                        *)
LEMMA AtEntry ==
  ASSUME IInv, NEW g \in G, At(g, "entry")
  PROVE  /\ Key(g) \in Keys /\ st[g].e \in Entries /\ RefersTo(Key(g), st[g].e)
         /\ st[g].call \in A!Call /\ st[g].call.op \in Keyed /\ CallOf(g) # None /\ CallOf(g) = st[g].call
         /\ Worth(st[g].e) \in seen[g][Key(g)] /\ Worth(st[g].e) \in Values \cup {Nil}
         /\ ~AddsKey(g) /\ mu # g
         /\ st[g].call.op # "Load" /\ p[st[g].e] # Expunged => EntryOf(Key(g)) = st[g].e /\ st[g].e # NoEntry
<1>1. /\ Key(g) \in Keys /\ st[g].e \in Entries /\ RefersTo(Key(g), st[g].e)
      /\ st[g].call \in A!Call /\ st[g].call.op \in Keyed
  BY FoundRefers DEF IInv, At
<1>2. CallOf(g) = st[g].call /\ CallOf(g) # None
  BY <1>1, CallFields DEF CallOf, At
<1>3. Worth(st[g].e) \in seen[g][Key(g)]
  BY <1>2 DEF IInv, History, Recorded
<1>4. Worth(st[g].e) \in Values \cup {Nil}
  BY <1>1, EntryTypes DEF IInv, Structure
<1>5. ~AddsKey(g) /\ mu # g
  BY DEF IInv, Structure, Places, Place, At, Locked, AddsKey
<1>6. st[g].e # NoEntry
  BY <1>1, SyncMapAssumption
<1>7. st[g].call.op # "Load" /\ p[st[g].e] # Expunged => EntryOf(Key(g)) = st[g].e
  BY <1>6 DEF IInv, Structure, Handles, Handle, EntryOf
<1> QED
  BY <1>1, <1>2, <1>3, <1>4, <1>5, <1>6, <1>7

LEMMA AnswerTypes ==
  ASSUME IInv, NEW g \in G, st[g].call \in A!Call, NEW x \in Values \cup {Nil}, NEW b \in BOOLEAN,
         res' = [res EXCEPT ![g] = A!Result(st[g].call, x, b)], p' \in [Entries -> Values \cup {Nil, Expunged}]
  PROVE  ValueTypes'
<1>1. A!Result(st[g].call, x, b) \in A!Answer
  BY AnswerType
<1>2. res \in [G -> A!Answer \cup {None}]
  BY DEF IInv, Structure, Types
<1> QED
  BY <1>1, <1>2 DEF ValueTypes

LEMMA ReportKeeps ==
  ASSUME IInv, NEW g \in G, A!Witness(Content'), st[g].pc \in {"entry", "absent"},
         NEW x \in seen[g][Key(g)], x \in Values \cup {Nil}, NEW b \in BOOLEAN,
         st' = [st EXCEPT ![g] = Idle], res' = [res EXCEPT ![g] = A!Result(st[g].call, x, b)],
         b = (st[g].call.op = "LoadOrStore"), st[g].call.op # "Store",
         st[g].call.op = "LoadOrStore" => x # Nil, st[g].call.op = "Delete" => x = Nil,
         UNCHANGED shared
  PROVE  IInv' /\ A!Next
<1>1. /\ st[g].call \in A!Call /\ CallOf(g) # None /\ ~AddsKey(g) /\ mu # g
      /\ st[g].call.op \in Keyed
  BY CallOfType, CallFields DEF IInv, Structure, Places, Place, At, Locked, AddsKey, CallOf
<1>2. Others(g)
  BY OthersStay DEF IInv, Structure, Types
<1>3. UNCHANGED <<mu, read, dirty, misses, p>>
  BY DEF shared
<1>4. ~AddsKey(g)' /\ CallOf(g)' = None
  BY <1>1, <1>3, EndsCall DEF IInv
<1>5. EntriesKept(g) /\ Content' = Content
  BY <1>1, <1>2, <1>3, <1>4, SameMaps DEF IInv, EntriesKept
<1>6. ValueTypes'
  BY <1>1, <1>3, AnswerTypes DEF IInv, Structure, Types
<1>7. IInv'
  BY <1>1, <1>3, <1>5, <1>6, EndKeeps DEF MutexStep
<1>8. A!Next
  BY <1>1, <1>2, <1>4, <1>5, ReportStep
<1> QED
  BY <1>7, <1>8

LEMMA LoadEntryKeeps ==
  ASSUME IInv, NEW g \in G, LoadEntry(g), A!Witness(Content')
  PROVE  IInv' /\ A!Next
<1>1. /\ Worth(st[g].e) \in seen[g][Key(g)] /\ Worth(st[g].e) \in Values \cup {Nil}
      /\ At(g, "entry") /\ st[g].call.op = "Load"
  BY AtEntry DEF LoadEntry
<1>2. /\ st' = [st EXCEPT ![g] = Idle]
      /\ res' = [res EXCEPT ![g] = A!Result(st[g].call, Worth(st[g].e), FALSE)]
      /\ UNCHANGED shared
  BY DEF LoadEntry, Finish, Worth
<1> QED
  BY <1>1, <1>2, ReportKeeps DEF At

LEMMA AbsentKeeps ==
  ASSUME IInv, NEW g \in G, Absent(g), A!Witness(Content')
  PROVE  IInv' /\ A!Next
<1>1. At(g, "absent") /\ st[g].call.op \in {"Load", "Delete"}
  BY DEF Absent, IInv, Structure, Places, Place
<1>2. Nil \in seen[g][Key(g)]
  <2>1. CallOf(g) # None
    BY <1>1, CallOfType, CallFields DEF IInv, CallOf, At
  <2> QED
    BY <1>1, <2>1 DEF IInv, History, Recorded
<1>3. /\ st' = [st EXCEPT ![g] = Idle]
      /\ res' = [res EXCEPT ![g] = A!Result(st[g].call, Nil, FALSE)]
      /\ UNCHANGED shared
  BY DEF Absent, Finish
<1> QED
  BY <1>1, <1>2, <1>3, ReportKeeps DEF At

LEMMA DeleteEntryKeeps ==
  ASSUME IInv, NEW g \in G, DeleteEntry(g), A!Witness(Content')
  PROVE  IInv' /\ A!Next
<1>1. /\ Worth(st[g].e) \in seen[g][Key(g)] /\ Worth(st[g].e) \in Values \cup {Nil}
      /\ At(g, "entry") /\ st[g].call.op = "Delete" /\ Key(g) \in Keys
      /\ st[g].call \in A!Call /\ CallOf(g) # None /\ ~AddsKey(g) /\ mu # g
  BY AtEntry DEF DeleteEntry
<1>2. /\ st' = [st EXCEPT ![g] = Idle]
      /\ res' = [res EXCEPT ![g] = A!Result(st[g].call, Nil, FALSE)]
      /\ UNCHANGED <<mu, read, dirty, misses>>
  BY DEF DeleteEntry, Finish
<1>3. CASE Holds(st[g].e)
  <2>1. Put(st[g].e, Nil)
    BY <1>3, Zenon DEF DeleteEntry
  <2>2. p[st[g].e] # Expunged /\ EntryOf(Key(g)) = st[g].e /\ st[g].e # NoEntry
    BY <1>1, <1>3, AtEntry DEF Holds
  <2>3. Others(g)
    BY <1>2, OthersStay DEF IInv, Structure, Types
  <2>4. ~AddsKey(g)' /\ CallOf(g)' = None
    BY <1>1, <1>2, EndsCall DEF IInv
  <2>5. /\ EntriesKept(g) /\ Content' = [Content EXCEPT ![Key(g)] = Nil]
        /\ p' \in [Entries -> Values \cup {Nil, Expunged}]
    BY <1>1, <1>2, <2>1, <2>2, <2>3, <2>4, Written DEF IInv, Put, EntriesKept
  <2>6. ValueTypes'
    BY <1>1, <1>2, <2>5, AnswerTypes
  <2>7. IInv'
    BY <1>1, <1>2, <2>5, <2>6, EndKeeps DEF MutexStep
  <2>8. A!Next
    BY <1>1, <1>2, <2>3, <2>4, <2>5, ChangeStep
  <2> QED
    BY <2>7, <2>8
<1>4. CASE ~Holds(st[g].e)
  <2>1. p' = p
    BY <1>4, Zenon DEF DeleteEntry
  <2>2. UNCHANGED shared
    BY <1>2, <2>1 DEF shared
  <2>3. Nil \in seen[g][Key(g)]
    BY <1>1, <1>4 DEF Worth
  <2> QED
    BY <1>1, <1>2, <2>2, <2>3, ReportKeeps DEF At
<1> QED
  BY <1>3, <1>4

----------------------------------------------------------------------------
(* Steps within a call.                                                    *)

LEMMA MoveKeeps ==
  ASSUME IInv, NEW g \in G, A!Witness(Content'), EntriesKept(g), Content' = Content, Others(g),
         MutexStep(g), NoNewReference(g), OwnPart(g)', st' \in [G -> Locals], res' = res,
         CallOf(g)' = CallOf(g), p' \in [Entries -> Values \cup {Nil, Expunged}],
         read' \in [m : [Keys -> Entry], amended : BOOLEAN], dirty' \in [Keys -> Entry] \cup {NoMap},
         misses' \in 0 .. Cardinality(Keys)
  PROVE  IInv' /\ UNCHANGED A!vars
<1>1. ValueTypes'
  BY DEF ValueTypes, IInv, Structure, Types
<1>2. IInv'
  BY <1>1, Concludes
<1>3. \A h \in G : CallOf(h)' = CallOf(h)
  BY DEF Others, CallOf
<1> QED
  BY <1>2, <1>3, Stutters

(* A call that goes on from m.read or from an entry.                       *)
LEMMA GoesOn ==
  ASSUME IInv, NEW g \in G, A!Witness(Content'), st[g].pc \in {"entry", "lock"},
         NEW l \in {"entry", "lock", "absent", "write"}, NEW e \in Entry, With(g, l, e),
         Content' = Content,
         e # NoEntry <=> l \in {"entry", "write"},
         l = "absent" => st[g].call.op \in {"Load", "Delete"} /\ Content[Key(g)] = Nil,
         l = "entry" => Worth(e) = Content[Key(g)] /\ Worth(e)' = Worth(e),
         l = "write" => st[g].call.op \in Adding,
         mu' = g <=> l = "write"
  PROVE  /\ Others(g) /\ ~AddsKey(g) /\ ~AddsKey(g)' /\ st' \in [G -> Locals] /\ res' = res
         /\ CallOf(g)' = CallOf(g)
         /\ st'[g].pc = l /\ st'[g].e = e /\ st'[g].call = st[g].call
         /\ Place(g)' /\ (CallOf(g)' # None => Recorded(g)')
         /\ \A k \in Keys : st'[g].snap[k] = NoEntry
<1>1. /\ st \in [G -> Locals] /\ res' = res
      /\ st' = [st EXCEPT ![g].pc = l, ![g].e = e]
  BY DEF IInv, Structure, Types, With
<1>2. /\ st'[g] = [st[g] EXCEPT !.pc = l, !.e = e] /\ Others(g)
      /\ st' \in [G -> Locals]
  <2>1. [st[g] EXCEPT !.pc = l, !.e = e] \in Locals
    BY <1>1 DEF Locals
  <2> QED
    BY <1>1, <2>1 DEF Others
<1>3. /\ st'[g].pc = l /\ st'[g].e = e /\ st'[g].call = st[g].call /\ st'[g].snap = st[g].snap
      /\ st'[g].todo = st[g].todo /\ st'[g].acc = st[g].acc
  BY <1>1, <1>2 DEF Locals
<1>4. CallOf(g)' = st[g].call /\ CallOf(g) = st[g].call /\ st[g].call # None /\ Place(g) /\ Recorded(g)
      /\ st[g].call.op \in Keyed /\ Key(g) \in Keys /\ A!KeysOf(st[g].call) = {Key(g)}
      /\ st[g].call \in A!Call
  <2>1. st[g].call \in A!Call /\ st[g].call.op \in Keyed
    BY CallOfType DEF IInv, At
  <2>2. st[g].call # None /\ Key(g) \in Keys /\ A!KeysOf(st[g].call) = {Key(g)}
    BY <2>1, CallFields DEF Key
  <2>3. CallOf(g)' = st[g].call /\ CallOf(g) = st[g].call
    BY <1>3 DEF CallOf
  <2> QED
    BY <2>1, <2>2, <2>3 DEF IInv, Structure, Places, History
<1>5. st[g].snap = NoKeys
  BY <1>4 DEF Place, At
<1>6. Place(g)'
  BY <1>3, <1>4, <1>5 DEF Place, At, Locked
<1>7. seen'[g] = [k \in A!KeysOf(st[g].call) |-> seen[g][k] \cup {Content'[k]}]
  BY <1>4, SeenNow
<1>8. Recorded(g)'
  <2>1. res'[g] = None
    BY <1>1, <1>4 DEF Recorded
  <2>2. Key(g)' = Key(g)
    BY <1>3 DEF Key
  <2>3. seen'[g] = [k \in A!KeysOf(st[g].call) |-> seen'[g][k]]
        /\ \A k \in A!KeysOf(st[g].call) : Content'[k] \in seen'[g][k]
    BY <1>7
  <2>4. At(g, "absent")' => Nil \in seen'[g][Key(g)]
    BY <1>3, <1>4, <2>3 DEF At
  <2>5. At(g, "entry")' => Worth(e)' \in seen'[g][Key(g)]
    BY <1>3, <1>4, <2>3 DEF At
  <2>6. Worth(st[g].e)' = Worth(e)'
    BY <1>3 DEF Worth, Holds
  <2>7. ~At(g, "visit")'
    BY <1>3 DEF At
  <2> QED
    BY <1>3, <2>1, <2>2, <2>3, <2>4, <2>5, <2>6, <2>7 DEF Recorded
<1>9. \A k \in Keys : st'[g].snap[k] = NoEntry
  BY <1>3, <1>5 DEF NoKeys
<1>10. ~AddsKey(g) /\ ~AddsKey(g)'
  BY <1>3 DEF AddsKey, At
<1> QED
  BY <1>1, <1>2, <1>3, <1>4, <1>6, <1>8, <1>9, <1>10

(* The entry of m.read is expunged: on to m.mu.                            *)
LEMMA ExpungedKeeps ==
  ASSUME IInv, NEW g \in G, A!Witness(Content'), At(g, "entry"), st[g].call.op \in Adding,
         With(g, "lock", NoEntry), UNCHANGED <<mu, read, dirty, misses, p>>
  PROVE  IInv' /\ UNCHANGED A!vars
<1>1. mu # g
  BY AtEntry
<1>2. Content' = Content
  BY DEF Content, EntryOf, Holds
<1>3. /\ Others(g) /\ ~AddsKey(g) /\ ~AddsKey(g)' /\ st' \in [G -> Locals] /\ res' = res
      /\ CallOf(g)' = CallOf(g) /\ st'[g].pc = "lock"
      /\ Place(g)' /\ (CallOf(g)' # None => Recorded(g)')
      /\ \A k \in Keys : st'[g].snap[k] = NoEntry
  BY <1>1, <1>2, GoesOn DEF At, Entry
<1>4. EntriesKept(g)
  BY <1>3, SameMaps DEF IInv, EntriesKept
<1>5. NoNewReference(g) /\ OwnPart(g)'
  BY <1>3, MapsRefer DEF NoNewReference, OwnPart, Holder, Handle, At
<1> QED
  BY <1>2, <1>3, <1>4, <1>5, MapTypes, MoveKeeps DEF MutexStep, IInv, Structure, Types

LEMMA TryTakes ==
  ASSUME IInv, NEW g \in G, st[g].pc \in {"entry", "write"}, st[g].call.op \in Adding,
         p[st[g].e] # Expunged, st' = [st EXCEPT ![g] = Idle], NEW r, res' = [res EXCEPT ![g] = r],
         mu' # g, UNCHANGED <<read, dirty>>
  PROVE  Takes(g) /\ EntryOf(Key(g)) = st[g].e
<1>1. Others(g) /\ ~AddsKey(g)' /\ CallOf(g)' = None
  BY OthersStay, EndsCall DEF IInv, Structure, Types
<1>2. st[g].e = read.m[Key(g)]
  BY DEF IInv, Structure, Handles, Handle, Holders, Holder, At, Adding
<1>3. st[g].e # NoEntry /\ CallOf(g) # None
  BY FoundRefers, CallFields, SyncMapAssumption DEF IInv, CallOf
<1> QED
  BY <1>1, <1>2, <1>3 DEF Takes, EntryOf, AddsKey, At

LEMMA tryStoreKeeps ==
  ASSUME IInv, NEW g \in G, tryStore(g), A!Witness(Content')
  PROVE  IInv' /\ (A!Next \/ UNCHANGED A!vars)
<1>1. At(g, "entry") /\ st[g].call.op = "Store" /\ UNCHANGED <<mu, read, dirty, misses>>
  BY DEF tryStore
<1>2. mu # g
  BY <1>1, AtEntry
<1>3. CASE p[st[g].e] = Expunged
  <2>1. With(g, "lock", NoEntry) /\ p' = p
    BY <1>3, Zenon DEF tryStore
  <2> QED
    BY <1>1, <2>1, ExpungedKeeps DEF Adding
<1>4. CASE p[st[g].e] # Expunged
  <2>1. Put(st[g].e, Val(g)) /\ Finish(g, Nil)
    BY <1>4, Zenon DEF tryStore
  <2>2. /\ st' = [st EXCEPT ![g] = Idle]
        /\ res' = [res EXCEPT ![g] = A!Result(st[g].call, Nil, FALSE)]
    BY <2>1 DEF Finish
  <2>3. Takes(g) /\ EntryOf(Key(g)) = st[g].e
    BY <1>1, <1>2, <1>4, <2>2, TryTakes DEF At, Adding
  <2>4. A!Next /\ EntriesKept(g) /\ ValueTypes'
    BY <1>1, <2>1, <2>2, <2>3, StoreTakes
  <2>5. IInv'
    BY <1>1, <1>2, <2>2, <2>4, EndKeeps DEF MutexStep
  <2> QED
    BY <2>4, <2>5
<1> QED
  BY <1>3, <1>4

LEMMA tryLoadOrStoreKeeps ==
  ASSUME IInv, NEW g \in G, tryLoadOrStore(g), A!Witness(Content')
  PROVE  IInv' /\ (A!Next \/ UNCHANGED A!vars)
<1>1. At(g, "entry") /\ st[g].call.op = "LoadOrStore" /\ UNCHANGED <<mu, read, dirty, misses>>
  BY DEF tryLoadOrStore
<1>2. mu # g
  BY <1>1, AtEntry
<1>3. CASE p[st[g].e] = Expunged
  <2>1. With(g, "lock", NoEntry) /\ p' = p
    BY <1>3, Zenon DEF tryLoadOrStore
  <2> QED
    BY <1>1, <2>1, ExpungedKeeps DEF Adding
<1>4. CASE p[st[g].e] # Expunged
  <2>1. LoadOrStoreIn(g, st[g].e, "idle")
    BY <1>4, Zenon DEF tryLoadOrStore
  <2> DEFINE r == A!Result(st[g].call, IF Holds(st[g].e) THEN p[st[g].e] ELSE Val(g), Holds(st[g].e))
  <2>2. st' = [st EXCEPT ![g] = Idle] /\ res' = [res EXCEPT ![g] = r]
    BY <2>1 DEF LoadOrStoreIn
  <2> HIDE DEF r
  <2>3. Takes(g) /\ EntryOf(Key(g)) = st[g].e
    BY <1>1, <1>2, <1>4, <2>2, TryTakes DEF At, Adding
  <2>4. LoadOrStoreIn(g, EntryOf(Key(g)), "idle")
    BY <2>1, <2>3
  <2>5. A!Next /\ EntriesKept(g) /\ ValueTypes'
    BY <1>1, <2>3, <2>4, LoadOrStoreTakes
  <2>6. IInv'
    BY <1>1, <1>2, <2>2, <2>5, EndKeeps DEF MutexStep
  <2> QED
    BY <2>5, <2>6
<1> QED
  BY <1>3, <1>4

LEMMA WriteLockedKeeps ==
  ASSUME IInv, NEW g \in G, WriteLocked(g), A!Witness(Content')
  PROVE  IInv' /\ A!Next
<1>1. At(g, "write") /\ mu' = None /\ UNCHANGED <<read, dirty, misses>>
  BY DEF WriteLocked
<1>2. mu = g /\ mu' # g /\ st[g].call.op \in Adding /\ p[st[g].e] # Expunged
  BY <1>1, SyncMapAssumption DEF IInv, Structure, Places, Place, Holders, Holder, At, Locked
<1>3. CASE st[g].call.op = "Store"
  <2>1. Put(st[g].e, Val(g)) /\ Finish(g, Nil)
    BY <1>3, Zenon DEF WriteLocked
  <2>2. /\ st' = [st EXCEPT ![g] = Idle]
        /\ res' = [res EXCEPT ![g] = A!Result(st[g].call, Nil, FALSE)]
    BY <2>1 DEF Finish
  <2>3. Takes(g) /\ EntryOf(Key(g)) = st[g].e
    BY <1>1, <1>2, <2>2, TryTakes DEF At
  <2>4. A!Next /\ EntriesKept(g) /\ ValueTypes'
    BY <1>3, <2>1, <2>2, <2>3, StoreTakes
  <2>5. IInv'
    BY <1>1, <1>2, <2>2, <2>4, EndKeeps DEF MutexStep
  <2> QED
    BY <2>4, <2>5
<1>4. CASE st[g].call.op # "Store"
  <2>1. LoadOrStoreIn(g, st[g].e, "idle") /\ st[g].call.op = "LoadOrStore"
    BY <1>2, <1>4, Zenon DEF WriteLocked, Adding
  <2> DEFINE r == A!Result(st[g].call, IF Holds(st[g].e) THEN p[st[g].e] ELSE Val(g), Holds(st[g].e))
  <2>2. st' = [st EXCEPT ![g] = Idle] /\ res' = [res EXCEPT ![g] = r]
    BY <2>1 DEF LoadOrStoreIn
  <2> HIDE DEF r
  <2>3. Takes(g) /\ EntryOf(Key(g)) = st[g].e
    BY <1>1, <1>2, <2>2, TryTakes DEF At
  <2>4. LoadOrStoreIn(g, EntryOf(Key(g)), "idle")
    BY <2>1, <2>3
  <2>5. A!Next /\ EntriesKept(g) /\ ValueTypes'
    BY <2>1, <2>3, <2>4, LoadOrStoreTakes
  <2>6. IInv'
    BY <1>1, <1>2, <2>2, <2>5, EndKeeps DEF MutexStep
  <2> QED
    BY <2>5, <2>6
<1> QED
  BY <1>3, <1>4

----------------------------------------------------------------------------
(* Steps under m.mu.                                                       *)

LEMMA AtLock ==
  ASSUME IInv, NEW g \in G, At(g, "lock")
  PROVE  /\ Key(g) \in Keys /\ st[g].call \in A!Call /\ st[g].call.op \in Keyed
         /\ CallOf(g) # None /\ CallOf(g) = st[g].call /\ A!KeysOf(st[g].call) = {Key(g)}
         /\ ~AddsKey(g) /\ mu # g /\ Place(g) /\ st[g].e = NoEntry /\ st[g].snap = NoKeys
<1>1. st[g].call \in A!Call /\ st[g].call.op \in Keyed
  BY CallOfType DEF IInv, At
<1>2. Key(g) \in Keys /\ CallOf(g) = st[g].call /\ CallOf(g) # None /\ A!KeysOf(st[g].call) = {Key(g)}
  BY <1>1, CallFields DEF CallOf, At, Key
<1> QED
  BY <1>1, <1>2 DEF IInv, Structure, Places, Place, At, Locked, AddsKey

LEMMA WithOthers ==
  ASSUME IInv, NEW g \in G, NEW l \in {"entry", "lock", "absent", "write"}, NEW e, With(g, l, e)
  PROVE  Others(g) /\ ~AddsKey(g)'
BY DEF IInv, Structure, Types, Locals, With, Others, AddsKey, At

LEMMA LoadLockedKeeps ==
  ASSUME IInv, NEW g \in G, LoadLocked(g), A!Witness(Content')
  PROVE  IInv' /\ UNCHANGED A!vars
<1> DEFINE k == Key(g)
           slow == read.m[k] = NoEntry /\ read.amended
<1>1. /\ At(g, "lock") /\ st[g].call.op = "Load" /\ mu = None /\ UNCHANGED <<mu, p>>
      /\ (IF slow THEN missLocked ELSE UNCHANGED <<read, dirty, misses>>)
  BY DEF LoadLocked, Free
<1>2. PICK e : e = IF slow THEN dirty[k] ELSE read.m[k]
  OBVIOUS
<1>3. IF e = NoEntry THEN With(g, "absent", NoEntry) ELSE With(g, "entry", e)
  BY <1>2, Zenon DEF LoadLocked
<1>4. k \in Keys /\ ~AddsKey(g) /\ mu # g
  BY <1>1, AtLock
<1>5. read.amended <=> dirty # NoMap
  BY <1>1, <1>4, NoneAdding DEF IInv
<1>6. e \in Entry
  BY <1>2, <1>4, <1>5, EntryTypes DEF IInv, Structure
<1>7. PICK l \in {"absent", "entry"} : With(g, l, e) /\ (e # NoEntry <=> l = "entry")
  <2>1. CASE e = NoEntry
    BY <1>3, <2>1
  <2>2. CASE e # NoEntry
    BY <1>3, <2>2
  <2> QED
    BY <2>1, <2>2
<1>8. Others(g) /\ ~AddsKey(g)'
  BY <1>7, WithOthers
<1>9. e = EntryOf(k)
  BY <1>2 DEF EntryOf
<1> HIDE DEF k, slow
<1>10. /\ EntriesKept(g) /\ Content' = Content
       /\ \A j \in Keys : read'.m[j] # NoEntry => RefersTo(j, read'.m[j])
       /\ dirty' # NoMap => \A j \in Keys : dirty'[j] # NoEntry => RefersTo(j, dirty'[j])
       /\ read' \in [m : [Keys -> Entry], amended : BOOLEAN]
       /\ dirty' \in [Keys -> Entry] \cup {NoMap}
       /\ misses' \in 0 .. Cardinality(Keys)
  <2>1. CASE slow
    <3>1. missLocked /\ dirty # NoMap
      BY <1>1, <1>5, <2>1 DEF slow
    <3> QED
      BY <1>1, <1>4, <1>8, <3>1, Missed DEF IInv
  <2>2. CASE ~slow
    <3>1. UNCHANGED <<read, dirty, misses>>
      BY <1>1, <2>2
    <3>2. EntriesKept(g) /\ Content' = Content
      BY <1>1, <1>4, <1>8, <3>1, SameMaps DEF EntriesKept, IInv
    <3> QED
      BY <3>1, <3>2, MapsRefer, MapTypes
  <2> QED
    BY <2>1, <2>2
<1>11. Content[k] = IF e # NoEntry THEN Worth(e) ELSE Nil
  BY <1>4, <1>9, ContentAt
<1>12. Worth(e)' = Worth(e)
  BY <1>1 DEF Worth, Holds
<1>13. /\ st' \in [G -> Locals] /\ res' = res
       /\ CallOf(g)' = CallOf(g)
       /\ st'[g].pc = l /\ st'[g].e = e /\ st'[g].call = st[g].call
       /\ Place(g)' /\ (CallOf(g)' # None => Recorded(g)')
       /\ \A j \in Keys : st'[g].snap[j] = NoEntry
  BY <1>1, <1>4, <1>6, <1>7, <1>10, <1>11, <1>12, GoesOn DEF At, k
<1>14. Holder(g)' /\ Handle(g)'
  BY <1>1, <1>13 DEF Holder, Handle, At
<1>15. NoNewReference(g)
  <2>1. st'[g].pc \in {"entry", "write"} => RefersTo(st'[g].call.key, st'[g].e)
    BY <1>4, <1>7, <1>9, <1>13, EntryOfRefers DEF IInv, k, Key
  <2> QED
    BY <1>10, <1>13, <2>1 DEF NoNewReference
<1>16. p' \in [Entries -> Values \cup {Nil, Expunged}]
  BY <1>1 DEF IInv, Structure, Types
<1> QED
  BY <1>1, <1>8, <1>10, <1>13, <1>14, <1>15, <1>16, MoveKeeps DEF MutexStep, OwnPart

LEMMA unexpungeLockedKeeps ==
  ASSUME IInv, NEW g \in G, unexpungeLocked(g), A!Witness(Content')
  PROVE  IInv' /\ UNCHANGED A!vars
<1>1. PICK e : e = read.m[Key(g)]
  OBVIOUS
<1>2. /\ At(g, "lock") /\ st[g].call.op \in Adding /\ e # NoEntry /\ mu = None /\ mu' = g
      /\ With(g, "write", e) /\ UNCHANGED <<read, misses>>
  BY <1>1 DEF unexpungeLocked, Writes, Acquire, Free, Adding
<1>3. IF p[e] = Expunged THEN Put(e, Nil) /\ dirty' = [dirty EXCEPT ![Key(g)] = e]
                         ELSE UNCHANGED <<p, dirty>>
  BY <1>1, Zenon DEF unexpungeLocked
<1>4. Key(g) \in Keys /\ ~AddsKey(g) /\ mu # g
  BY <1>2, AtLock
<1>5. e \in Entries /\ RefersTo(Key(g), e)
  BY <1>1, <1>2, <1>4, EntryTypes DEF IInv, Structure, Entry, RefersTo
<1>6. Others(g) /\ ~AddsKey(g)'
  BY <1>2, WithOthers
<1>7. /\ \A h \in G : ~At(h, "addKey")
      /\ \A j \in Keys : ~Pending(j)
      /\ read.amended <=> dirty # NoMap
  BY <1>2, <1>4, NoneAdding DEF IInv
<1>8. /\ EntriesKept(g) /\ Content' = Content /\ Worth(e)' = Worth(e)
      /\ p' \in [Entries -> Values \cup {Nil, Expunged}]
      /\ dirty' \in [Keys -> Entry] \cup {NoMap}
      /\ p'[e] # Expunged
      /\ dirty' # NoMap => \A j \in Keys : dirty'[j] # NoEntry => RefersTo(j, dirty'[j])
  <2>1. CASE p[e] = Expunged
    <3>1. p' = [p EXCEPT ![e] = Nil] /\ dirty' = [dirty EXCEPT ![Key(g)] = e]
      BY <1>3, <2>1, Zenon DEF Put
    <3>2. dirty # NoMap /\ dirty[Key(g)] = NoEntry
      BY <1>1, <1>2, <1>4, <2>1 DEF IInv, Structure, Maps, Missing
    <3>3. dirty \in [Keys -> Entry] /\ dirty' \in [Keys -> Entry] /\ dirty' # NoMap
      BY <1>5, <3>1, <3>2, EntryTypes, IsAMap DEF IInv, Structure, Entry
    <3>4. p \in [Entries -> Values \cup {Nil, Expunged}]
      BY DEF IInv, Structure, Types
    <3>5. p' \in [Entries -> Values \cup {Nil, Expunged}] /\ p'[e] = Nil /\ Nil # Expunged
      BY <1>5, <3>1, <3>4, SyncMapAssumption
    <3>6. \A d \in Entries \ {e} : p'[d] = p[d]
      BY <3>1, <3>4
    <3>7. \A j \in Keys \ {Key(g)} : dirty'[j] = dirty[j]
      BY <3>1, <3>3
    <3>8. dirty'[Key(g)] = e
      BY <1>4, <3>1, <3>3
    <3>9. \A h \in G : ~At(h, "addKey")'
      BY <1>6, <1>7 DEF Others, AddsKey, At
    <3>10. ASSUME NEW j \in Keys, j # Key(g) PROVE read.m[j] # e /\ dirty[j] # e
      BY <1>4, <1>5, <3>2, <3>10, OneKey DEF IInv, RefersTo
    <3>11. Maps'
      <4>1. ASSUME NEW j \in Keys, read.m[j] # NoEntry PROVE p'[read.m[j]] = Expunged <=> Missing(j)'
        <5>1. ~Pending(j)'
          BY <3>9 DEF Pending
        <5>2. CASE j = Key(g)
          BY <1>1, <1>2, <3>5, <3>8, <5>2 DEF Missing
        <5>3. CASE j # Key(g)
          <6>1. read.m[j] \in Entries \ {e}
            BY <3>10, <4>1, <5>3, EntryTypes DEF IInv, Structure, Entry
          <6>2. p[read.m[j]] = Expunged <=> Missing(j)
            BY <4>1 DEF IInv, Structure, Maps
          <6> QED
            BY <1>7, <3>2, <3>3, <3>6, <3>7, <5>1, <5>3, <6>1, <6>2 DEF Missing
        <5> QED
          BY <5>2, <5>3
      <4>2. ASSUME NEW j \in Keys, InDirty(j)'
            PROVE  /\ p'[dirty'[j]] # Expunged
                   /\ read.m[j] # NoEntry => dirty'[j] = read.m[j]
        <5>1. CASE j = Key(g)
          BY <1>1, <3>5, <3>8, <5>1
        <5>2. CASE j # Key(g)
          <6>1. InDirty(j) /\ dirty'[j] = dirty[j] /\ dirty[j] \in Entries \ {e}
            BY <3>2, <3>3, <3>7, <3>10, <4>2, <5>2 DEF InDirty, Entry
          <6> QED
            BY <3>6, <6>1 DEF IInv, Structure, Maps
        <5> QED
          BY <5>1, <5>2
      <4> QED
        BY <1>2, <1>7, <3>2, <3>3, <4>1, <4>2 DEF Maps, IInv, Structure
    <3>12. \A d \in Entries : Worth(d)' = Worth(d)
      BY <2>1, <3>5, <3>6 DEF Worth, Holds
    <3>13. Content' = Content
      <4>1. ASSUME NEW j \in Keys PROVE EntryOf(j)' = EntryOf(j) /\ EntryOf(j) \in Entry
        BY <1>1, <1>2, <1>7, <3>2, <3>3, <3>7, EntryTypes DEF EntryOf, IInv, Structure
      <4>2. ASSUME NEW j \in Keys PROVE Content'[j] = Content[j]
        <5>1. PICK d \in Entry : d = EntryOf(j)
          BY <4>1
        <5>2. Content'[j] = IF d # NoEntry THEN Worth(d)' ELSE Nil
          BY <4>1, <5>1 DEF Content, Worth, Holds
        <5> QED
          BY <3>12, <5>1, <5>2, ContentAt DEF Entry
      <4>3. Content' = [j \in Keys |-> Content'[j]] /\ Content = [j \in Keys |-> Content[j]]
        BY DEF Content
      <4> QED
        BY <4>2, <4>3
    <3>14. HandlesKept
      <4> SUFFICES ASSUME NEW j \in Keys, NEW d \in Entries, RefersTo(j, d),
                          p[d] = Expunged \/ d = read.m[j]
                   PROVE  p'[d] = Expunged \/ d = read.m[j]
        BY <1>2 DEF HandlesKept
      <4>1. CASE d = e
        BY <1>1, <1>4, <1>5, <4>1, OneKey DEF IInv
      <4>2. CASE d # e
        BY <3>6, <4>2
      <4> QED
        BY <4>1, <4>2
    <3>15. \A j \in Keys : dirty'[j] # NoEntry => RefersTo(j, dirty'[j])
      BY <1>5, <3>2, <3>7, <3>8 DEF RefersTo
    <3> QED
      BY <1>2, <1>5, <3>3, <3>5, <3>11, <3>12, <3>13, <3>14, <3>15 DEF EntriesKept, HolderKept, WorthKept
  <2>2. CASE p[e] # Expunged
    <3>1. UNCHANGED <<read, dirty, misses, p>>
      BY <1>2, <1>3, <2>2
    <3>2. EntriesKept(g) /\ Content' = Content
      BY <1>4, <1>6, <3>1, SameMaps DEF IInv, EntriesKept
    <3>3. Worth(e)' = Worth(e)
      BY <3>1 DEF Worth, Holds
    <3> QED
      BY <2>2, <3>1, <3>2, <3>3, MapTypes, MapsRefer DEF IInv, Structure, Types
  <2> QED
    BY <2>1, <2>2
<1>9. /\ st' \in [G -> Locals] /\ res' = res
      /\ CallOf(g)' = CallOf(g)
      /\ st'[g].pc = "write" /\ st'[g].e = e /\ st'[g].call = st[g].call
      /\ Place(g)' /\ (CallOf(g)' # None => Recorded(g)')
      /\ \A j \in Keys : st'[g].snap[j] = NoEntry
  BY <1>2, <1>4, <1>5, <1>8, GoesOn DEF At, Entry
<1>10. Holder(g)' /\ Handle(g)'
  BY <1>1, <1>2, <1>8, <1>9 DEF Holder, Handle, At, Key
<1>11. NoNewReference(g)
  <2>1. \A j \in Keys : read'.m[j] # NoEntry => RefersTo(j, read'.m[j])
    BY <1>2 DEF RefersTo
  <2>2. RefersTo(st'[g].call.key, st'[g].e)
    BY <1>5, <1>9 DEF Key
  <2> QED
    BY <1>8, <1>9, <2>1, <2>2 DEF NoNewReference
<1>12. /\ read' \in [m : [Keys -> Entry], amended : BOOLEAN]
       /\ misses' \in 0 .. Cardinality(Keys)
  BY <1>2 DEF IInv, Structure, Types
<1> QED
  BY <1>2, <1>6, <1>8, <1>9, <1>10, <1>11, <1>12, MoveKeeps DEF MutexStep, OwnPart

LEMMA WriteDirtyKeeps ==
  ASSUME IInv, NEW g \in G, WriteDirty(g), A!Witness(Content')
  PROVE  IInv' /\ A!Next
<1>1. PICK e : e = dirty[Key(g)]
  OBVIOUS
<1>2. /\ At(g, "lock") /\ st[g].call.op \in Adding /\ mu = None
      /\ read.m[Key(g)] = NoEntry /\ InDirty(Key(g)) /\ UNCHANGED <<read, dirty, misses>>
  BY DEF WriteDirty, Writes, Free, Adding
<1>3. IF st[g].call.op = "Store" THEN Put(e, Val(g)) /\ Finish(g, Nil) /\ UNCHANGED mu
                                 ELSE LoadOrStoreIn(g, e, "missLocked") /\ mu' = g
  BY <1>1, Zenon DEF WriteDirty
<1>4. Key(g) \in Keys /\ ~AddsKey(g) /\ mu # g /\ CallOf(g) # None
  BY <1>2, AtLock
<1>5. read.amended /\ dirty # NoMap
  BY <1>2, <1>4, NoneAdding DEF IInv, InDirty
<1>6. EntryOf(Key(g)) = e /\ e # NoEntry /\ p[e] # Expunged
  BY <1>1, <1>2, <1>4, <1>5 DEF EntryOf, InDirty, IInv, Structure, Maps
<1>7. ASSUME Others(g), ~AddsKey(g)', CallOf(g)' = None PROVE Takes(g)
  BY <1>2, <1>4, <1>6, <1>7 DEF Takes
<1>8. CASE st[g].call.op = "Store"
  <2>1. Put(e, Val(g)) /\ Finish(g, Nil) /\ mu' = mu
    BY <1>3, <1>8
  <2>2. /\ st' = [st EXCEPT ![g] = Idle]
        /\ res' = [res EXCEPT ![g] = A!Result(st[g].call, Nil, FALSE)]
    BY <2>1 DEF Finish
  <2>3. Takes(g)
    BY <1>4, <1>7, <2>1, <2>2, OthersStay, EndsCall DEF IInv, Structure, Types
  <2>4. A!Next /\ EntriesKept(g) /\ ValueTypes'
    BY <1>6, <1>8, <2>1, <2>2, <2>3, StoreTakes
  <2>5. IInv'
    BY <1>2, <1>4, <2>1, <2>2, <2>4, EndKeeps DEF MutexStep
  <2> QED
    BY <2>4, <2>5
<1>9. CASE st[g].call.op # "Store"
  <2>1. LoadOrStoreIn(g, e, "missLocked") /\ mu' = g /\ st[g].call.op = "LoadOrStore"
    BY <1>2, <1>3, <1>9, Zenon DEF Adding
  <2> DEFINE r == A!Result(st[g].call, IF Holds(e) THEN p[e] ELSE Val(g), Holds(e))
  <2>2. st' = [st EXCEPT ![g] = [@ EXCEPT !.pc = "missLocked"]] /\ res' = [res EXCEPT ![g] = r]
    BY <2>1 DEF LoadOrStoreIn
  <2> HIDE DEF r
  <2>3. st \in [G -> Locals]
    BY DEF IInv, Structure, Types
  <2>4. /\ st'[g].pc = "missLocked" /\ st'[g].call = st[g].call /\ st'[g].e = st[g].e
        /\ st'[g].snap = st[g].snap /\ st' \in [G -> Locals]
    BY <2>2, <2>3 DEF Locals
  <2>5. Others(g)
    BY <2>2 DEF IInv, Structure, Types, Others
  <2>6. CallOf(g)' = None /\ ~AddsKey(g)'
    BY <2>4 DEF CallOf, AddsKey, At
  <2>7. LoadOrStoreIn(g, EntryOf(Key(g)), "missLocked")
    BY <1>6, <2>1
  <2>8. A!Next /\ EntriesKept(g) /\ ValueTypes'
    BY <1>7, <2>1, <2>5, <2>6, <2>7, LoadOrStoreTakes
  <2>9. Place(g)'
    <3>1. st[g].e = NoEntry /\ st[g].snap = NoKeys /\ st[g].call # None
      BY <1>2, AtLock, CallFields
    <3> QED
      BY <1>2, <2>1, <2>4, <3>1 DEF Place, At, Locked
  <2>10. Holder(g)' /\ Handle(g)'
    BY <1>2, <1>5, <2>4 DEF Holder, Handle, At
  <2>11. OwnPart(g)'
    BY <2>6, <2>9, <2>10 DEF OwnPart
  <2>12. NoNewReference(g)
    <3>1. \A k \in Keys : st'[g].snap[k] = NoEntry
      BY <1>2, <2>4, AtLock DEF NoKeys
    <3> QED
      BY <1>2, <2>4, <3>1, MapsRefer DEF NoNewReference
  <2>13. IInv'
    BY <1>2, <2>1, <2>4, <2>5, <2>8, <2>11, <2>12, MapTypes, Concludes DEF MutexStep
  <2> QED
    BY <2>8, <2>13
<1> QED
  BY <1>8, <1>9

LEMMA CountMissKeeps ==
  ASSUME IInv, NEW g \in G, CountMiss(g), A!Witness(Content')
  PROVE  IInv' /\ UNCHANGED A!vars
<1>1. /\ At(g, "missLocked") /\ missLocked /\ mu' = None /\ st' = [st EXCEPT ![g] = Idle]
      /\ UNCHANGED <<p, res>>
  BY DEF CountMiss
<1>2. mu = g /\ dirty # NoMap /\ ~AddsKey(g) /\ CallOf(g) = None
  BY <1>1 DEF IInv, Structure, Places, Place, Holders, Holder, At, Locked, AddsKey, CallOf
<1>3. mu' # g
  BY <1>1, SyncMapAssumption
<1>4. Others(g)
  BY <1>1 DEF IInv, Structure, Types, Others
<1>5. /\ OwnPart(g)' /\ ~AddsKey(g)' /\ CallOf(g)' = None /\ st' \in [G -> Locals]
      /\ \A k \in Keys : st'[g].snap[k] = NoEntry
      /\ st'[g].pc \notin {"entry", "write"}
  BY <1>1, <1>3, EndsCall DEF IInv
<1>6. /\ EntriesKept(g) /\ Content' = Content
      /\ \A k \in Keys : read'.m[k] # NoEntry => RefersTo(k, read'.m[k])
      /\ dirty' # NoMap => \A k \in Keys : dirty'[k] # NoEntry => RefersTo(k, dirty'[k])
      /\ read' \in [m : [Keys -> Entry], amended : BOOLEAN]
      /\ dirty' \in [Keys -> Entry] \cup {NoMap}
      /\ misses' \in 0 .. Cardinality(Keys)
  BY <1>1, <1>2, <1>4, <1>5, Missed DEF IInv
<1>7. NoNewReference(g)
  BY <1>5, <1>6 DEF NoNewReference
<1> QED
  BY <1>1, <1>2, <1>4, <1>5, <1>6, <1>7, MoveKeeps DEF MutexStep, IInv, Structure, Types

LEMMA SameCall ==
  ASSUME IInv, NEW g \in G, A!Witness(Content'), CallOf(g) # None, CallOf(g)' = CallOf(g)
  PROVE  /\ Recorded(g) /\ CallOf(g) = st[g].call /\ st[g].call \in A!Call
         /\ seen'[g] = [k \in A!KeysOf(st[g].call) |-> seen[g][k] \cup {Content'[k]}]
         /\ seen'[g] = [k \in A!KeysOf(st[g].call) |-> seen'[g][k]]
<1>1. Recorded(g) /\ CallOf(g) = st[g].call /\ st[g].call \in A!Call
  BY CallOfType DEF IInv, History, CallOf, At
<1>2. seen'[g] = [k \in A!KeysOf(st[g].call) |-> seen[g][k] \cup {Content'[k]}]
  BY <1>1, SeenNow
<1> QED
  BY <1>1, <1>2

(* A goroutine that copies entries, or is about to.                        *)
LEMMA AddingOwn ==
  ASSUME IInv, NEW g \in G, A!Witness(Content'), CallOf(g) # None, st[g].call.op \in Adding,
         st[g].pc \in {"lock", "addKey"}, NEW S \in SUBSET Keys,
         st' = [st EXCEPT ![g].pc = "addKey", ![g].todo = S], res' = res, mu' = g
  PROVE  /\ Others(g) /\ st' \in [G -> Locals] /\ CallOf(g)' = CallOf(g)
         /\ st'[g].pc = "addKey" /\ st'[g].todo = S /\ st'[g].call = st[g].call
         /\ Place(g)' /\ Recorded(g)' /\ Handle(g)'
         /\ \A k \in Keys : st'[g].snap[k] = NoEntry
<1>1. st \in [G -> Locals]
  BY DEF IInv, Structure, Types
<1>2. st' \in [G -> Locals] /\ Others(g)
  <2>1. [st[g] EXCEPT !.pc = "addKey", !.todo = S] \in Locals
    BY <1>1 DEF Locals
  <2>2. st' = [st EXCEPT ![g] = [st[g] EXCEPT !.pc = "addKey", !.todo = S]]
    BY <1>1
  <2> QED
    BY <1>1, <2>1, <2>2 DEF Others
<1>3. /\ st'[g].pc = "addKey" /\ st'[g].call = st[g].call /\ st'[g].e = st[g].e
      /\ st'[g].snap = st[g].snap /\ st'[g].todo = S
  BY <1>1 DEF Locals
<1>4. Place(g) /\ st[g].e = NoEntry /\ st[g].snap = NoKeys
  BY DEF IInv, Structure, Places, Place, At
<1>5. CallOf(g)' = CallOf(g)
  BY <1>3 DEF CallOf
<1>6. CallOf(g) = st[g].call
  BY CallOfType DEF IInv
<1>7. Place(g)' /\ Handle(g)'
  BY <1>3, <1>4, <1>6 DEF Place, At, Locked, Handle
<1>8. Recorded(g)'
  <2>1. Recorded(g)
    BY DEF IInv, History
  <2>2. seen'[g] = [k \in A!KeysOf(st[g].call) |-> seen'[g][k]]
        /\ \A k \in A!KeysOf(st[g].call) : Content'[k] \in seen'[g][k]
    <3>1. seen'[g] = [k \in A!KeysOf(st[g].call) |-> seen[g][k] \cup {Content'[k]}]
      BY <1>5, SameCall
    <3> QED
      BY <3>1
  <2> QED
    BY <1>3, <2>1, <2>2 DEF Recorded, At
<1> QED
  BY <1>2, <1>3, <1>4, <1>5, <1>7, <1>8 DEF NoKeys

LEMMA dirtyLockedKeeps ==
  ASSUME IInv, NEW g \in G, dirtyLocked(g), A!Witness(Content')
  PROVE  IInv' /\ UNCHANGED A!vars
<1> DEFINE fresh == ~read.amended /\ dirty = NoMap
           S == IF fresh THEN {k \in Keys : read.m[k] # NoEntry} ELSE {}
<1>1. /\ At(g, "lock") /\ st[g].call.op \in Adding /\ mu = None /\ mu' = g
      /\ read.m[Key(g)] = NoEntry /\ ~InDirty(Key(g)) /\ UNCHANGED <<read, misses, p, res>>
      /\ dirty' = (IF fresh THEN NoKeys ELSE dirty)
      /\ st' = [st EXCEPT ![g].pc = "addKey", ![g].todo = S]
  BY DEF dirtyLocked, Writes, Acquire, Free, Adding
<1>2. Key(g) \in Keys /\ ~AddsKey(g) /\ mu # g /\ CallOf(g) # None
  BY <1>1, AtLock
<1>3. /\ \A h \in G : ~At(h, "addKey")
      /\ \A j \in Keys : ~Pending(j)
      /\ read.amended <=> dirty # NoMap
  BY <1>1, <1>2, NoneAdding DEF IInv
<1>4. S \in SUBSET Keys
  OBVIOUS
<1>5. /\ Others(g) /\ st' \in [G -> Locals] /\ CallOf(g)' = CallOf(g)
      /\ st'[g].pc = "addKey" /\ st'[g].todo = S /\ st'[g].call = st[g].call
      /\ Place(g)' /\ Recorded(g)' /\ Handle(g)'
      /\ \A k \in Keys : st'[g].snap[k] = NoEntry
  <2> HIDE DEF S, fresh
  <2> QED
    BY <1>1, <1>2, <1>4, AddingOwn DEF At
<1>6. At(g, "addKey")' /\ \A k \in Keys : Pending(k)' <=> k \in S
  <2> HIDE DEF S, fresh
  <2> QED
    BY <1>3, <1>5 DEF Pending, At, Others
<1>7. CASE dirty = NoMap
  <2>1. ~read.amended /\ dirty' = NoKeys /\ S = {k \in Keys : read.m[k] # NoEntry}
    BY <1>1, <1>3, <1>7
  <2> HIDE DEF S, fresh
  <2>2. dirty' \in [Keys -> Entry] /\ dirty' # NoMap /\ \A k \in Keys : dirty'[k] = NoEntry
    BY <2>1, IdleType, IsAMap DEF NoKeys
  <2>3. \A k \in Keys : ~InDirty(k)'
    BY <2>2 DEF InDirty
  <2>4. Maps'
    <3>1. ASSUME NEW k \in Keys, read.m[k] # NoEntry PROVE p[read.m[k]] # Expunged /\ ~Missing(k)'
      BY <1>6, <1>7, <2>1, <3>1 DEF IInv, Structure, Maps, Missing
    <3> QED
      BY <1>1, <1>6, <2>1, <2>3, <3>1 DEF Maps
  <2>5. Content' = Content
    BY <1>1, <2>1 DEF Content, EntryOf, Holds
  <2>6. Holder(g)'
    BY <1>1, <1>2, <1>5, <2>1, <2>2 DEF Holder, At, Key
  <2>7. NoNewReference(g)
    BY <1>1, <1>5, <2>2 DEF NoNewReference, RefersTo
  <2>8. EntriesKept(g)
    <3>1. WorthKept
      BY <1>1 DEF WorthKept, Worth, Holds
    <3>2. HandlesKept
      BY <1>1 DEF HandlesKept
    <3> QED
      BY <1>1, <2>4, <3>1, <3>2 DEF EntriesKept, HolderKept
  <2> QED
    BY <1>1, <1>5, <2>2, <2>5, <2>6, <2>7, <2>8, MoveKeeps DEF MutexStep, OwnPart, IInv, Structure, Types
<1>8. CASE dirty # NoMap
  <2>1. read.amended /\ dirty' = dirty /\ S = {}
    BY <1>1, <1>3, <1>8
  <2> HIDE DEF S, fresh
  <2>2. \A k \in Keys : Missing(k)' <=> Missing(k)
    BY <1>3, <1>6, <2>1 DEF Missing
  <2>3. Maps'
    BY <1>1, <1>8, <2>1, <2>2 DEF IInv, Structure, Maps, InDirty
  <2>4. Content' = Content
    BY <1>1, <2>1 DEF Content, EntryOf, Holds
  <2>5. Holder(g)'
    BY <1>1, <1>2, <1>5, <1>8, <2>1 DEF Holder, At, Key, InDirty
  <2>6. NoNewReference(g)
    BY <1>1, <1>5, <2>1, MapsRefer DEF NoNewReference
  <2>7. EntriesKept(g)
    <3>1. WorthKept
      BY <1>1 DEF WorthKept, Worth, Holds
    <3>2. HandlesKept
      BY <1>1 DEF HandlesKept
    <3> QED
      BY <1>1, <2>3, <3>1, <3>2 DEF EntriesKept, HolderKept
  <2> QED
    BY <1>1, <1>5, <2>1, <2>4, <2>5, <2>6, <2>7, MoveKeeps DEF MutexStep, OwnPart, IInv, Structure, Types
<1> QED
  BY <1>7, <1>8

LEMMA AtAddKey ==
  ASSUME IInv, NEW g \in G, At(g, "addKey")
  PROVE  /\ Key(g) \in Keys /\ st[g].call \in A!Call /\ st[g].call.op \in Adding
         /\ Val(g) \in Values /\ CallOf(g) # None /\ CallOf(g) = st[g].call
         /\ mu = g /\ dirty \in [Keys -> Entry] /\ dirty # NoMap
         /\ \A h \in G \ {g} : ~At(h, "addKey")
         /\ \A k \in Keys : Pending(k) <=> k \in st[g].todo
         /\ dirty[Key(g)] = NoEntry /\ read.m[Key(g)] = NoEntry
         /\ \A k \in st[g].todo : k \in Keys /\ read.m[k] \in Entries /\ dirty[k] = NoEntry
<1>1. mu = g /\ Holder(g) /\ st[g].todo \subseteq Keys
  BY DEF IInv, Structure, Types, Locals, Places, Place, Holders, At, Locked
<1>2. \A h \in G \ {g} : ~At(h, "addKey")
  BY <1>1 DEF IInv, Structure, Places, Place, At, Locked
<1>3. \A k \in Keys : Pending(k) <=> k \in st[g].todo
  BY <1>2 DEF Pending
<1>4. /\ Key(g) \in Keys /\ st[g].call \in A!Call /\ st[g].call.op \in Adding /\ Val(g) \in Values
      /\ CallOf(g) = st[g].call
  BY CallOfType DEF IInv, At, Locked, CallOf
<1>5. CallOf(g) # None
  BY <1>4, CallFields
<1>6. dirty # NoMap /\ dirty \in [Keys -> Entry]
  BY <1>1, EntryTypes DEF Holder, IInv, Structure
<1>7. \A k \in st[g].todo : k \in Keys /\ read.m[k] \in Entries /\ dirty[k] = NoEntry
  BY <1>1, EntryTypes DEF Holder, IInv, Structure, Entry
<1> QED
  BY <1>1, <1>2, <1>3, <1>4, <1>5, <1>6, <1>7 DEF Holder

LEMMA tryExpungeLockedKeeps ==
  ASSUME IInv, NEW g \in G, tryExpungeLocked(g), A!Witness(Content')
  PROVE  IInv' /\ UNCHANGED A!vars
<1>1. PICK k \in st[g].todo :
        /\ At(g, "addKey") /\ UNCHANGED <<mu, read, misses, res>>
        /\ st' = [st EXCEPT ![g].todo = @ \ {k}]
        /\ IF Holds(read.m[k]) THEN dirty' = [dirty EXCEPT ![k] = read.m[k]] /\ UNCHANGED p
                               ELSE Put(read.m[k], Expunged) /\ UNCHANGED dirty
  BY Zenon DEF tryExpungeLocked
<1>2. /\ st[g].call.op \in Adding /\ CallOf(g) # None
      /\ mu = g /\ dirty \in [Keys -> Entry] /\ dirty # NoMap
      /\ \A h \in G \ {g} : ~At(h, "addKey")
      /\ \A j \in Keys : Pending(j) <=> j \in st[g].todo
      /\ dirty[Key(g)] = NoEntry /\ read.m[Key(g)] = NoEntry /\ Key(g) \in Keys
      /\ \A j \in st[g].todo : j \in Keys /\ read.m[j] \in Entries /\ dirty[j] = NoEntry
  BY <1>1, AtAddKey
<1>3. PICK e \in Entries : e = read.m[k]
  BY <1>2
<1>4. k \in Keys /\ e # NoEntry /\ RefersTo(k, e) /\ Pending(k) /\ dirty[k] = NoEntry
  BY <1>2, <1>3, SyncMapAssumption DEF RefersTo
<1>5. PICK S \in SUBSET Keys : S = st[g].todo \ {k}
  BY <1>2
<1>6. /\ Others(g) /\ st' \in [G -> Locals] /\ CallOf(g)' = CallOf(g)
      /\ st'[g].pc = "addKey" /\ st'[g].todo = S /\ st'[g].call = st[g].call
      /\ Place(g)' /\ Recorded(g)' /\ Handle(g)'
      /\ \A j \in Keys : st'[g].snap[j] = NoEntry
  <2>1. st' = [st EXCEPT ![g].pc = "addKey", ![g].todo = S]
    BY <1>1, <1>5 DEF At, IInv, Structure, Types, Locals
  <2> QED
    BY <1>1, <1>2, <2>1, AddingOwn DEF At
<1>7. \A j \in Keys : Pending(j)' <=> Pending(j) /\ j # k
  BY <1>2, <1>5, <1>6 DEF Pending, At, Others
<1>8. p \in [Entries -> Values \cup {Nil, Expunged}]
  BY DEF IInv, Structure, Types
<1>9. At(g, "addKey")'
  BY <1>6 DEF At
<1>10. \A j \in Keys : j # k => read.m[j] # e /\ dirty[j] # e
  BY <1>2, <1>4, OneKey DEF IInv, RefersTo
<1>11. CASE Holds(e)
  <2>1. dirty' = [dirty EXCEPT ![k] = e] /\ p' = p
    BY <1>1, <1>3, <1>11, Zenon
  <2>2. /\ dirty' \in [Keys -> Entry] /\ dirty' # NoMap /\ dirty'[k] = e
        /\ \A j \in Keys \ {k} : dirty'[j] = dirty[j]
    BY <1>2, <1>4, <2>1, IsAMap DEF Entry
  <2>3. \A d \in Entries : Worth(d)' = Worth(d)
    BY <2>1 DEF Worth, Holds
  <2>4. Maps'
    <3>1. \A j \in Keys \ {k} : Missing(j)' <=> Missing(j)
      BY <1>2, <1>7, <2>2 DEF Missing
    <3>2. ~Missing(k)' /\ p[e] # Expunged
      BY <1>4, <1>11, <2>2 DEF Missing, Holds
    <3>3. \A j \in Keys : InDirty(j)' <=> InDirty(j) \/ j = k
      BY <1>2, <1>4, <2>2 DEF InDirty
    <3> QED
      BY <1>1, <1>2, <1>3, <1>4, <1>9, <2>1, <2>2, <3>1, <3>2, <3>3 DEF IInv, Structure, Maps
  <2>5. Content' = Content
    <3>1. ASSUME NEW j \in Keys PROVE EntryOf(j)' = EntryOf(j)
      BY <1>1, <1>3, <1>4, <2>2 DEF EntryOf
    <3>2. Content' = [j \in Keys |-> Content'[j]] /\ Content = [j \in Keys |-> Content[j]]
      BY DEF Content
    <3>3. \A j \in Keys : Content'[j] = Content[j]
      BY <2>1, <3>1 DEF Content, Holds
    <3> QED
      BY <3>2, <3>3
  <2>6. HandlesKept
    BY <1>1, <2>1 DEF HandlesKept
  <2>7. NoNewReference(g)
    BY <1>1, <1>2, <1>4, <1>6, <2>2 DEF NoNewReference, RefersTo
  <2>8. Holder(g)'
    <3>1. k # Key(g) /\ dirty'[Key(g)] = NoEntry /\ read' = read
      BY <1>1, <1>2, <1>3, <1>4, <2>2
    <3>2. \A j \in S : read.m[j] # NoEntry /\ dirty'[j] = NoEntry
      BY <1>2, <1>5, <2>2, SyncMapAssumption
    <3>3. Key(g)' = Key(g) /\ ~At(g, "write")' /\ ~At(g, "missLocked")'
      BY <1>6 DEF Key, At
    <3> QED
      BY <1>2, <1>6, <2>2, <3>1, <3>2, <3>3 DEF Holder
  <2>9. EntriesKept(g)
    BY <1>2, <2>3, <2>4, <2>6 DEF EntriesKept, WorthKept, HolderKept
  <2> QED
    BY <1>1, <1>6, <2>1, <2>2, <2>5, <2>7, <2>8, <2>9, MoveKeeps DEF MutexStep, OwnPart, IInv, Structure, Types
<1>12. CASE ~Holds(e)
  <2>1. p' = [p EXCEPT ![e] = Expunged] /\ dirty' = dirty
    BY <1>1, <1>3, <1>12, Zenon DEF Put
  <2>2. /\ p' \in [Entries -> Values \cup {Nil, Expunged}] /\ p'[e] = Expunged
        /\ \A d \in Entries \ {e} : p'[d] = p[d]
    BY <1>8, <2>1
  <2>3. \A d \in Entries : Worth(d)' = Worth(d)
    BY <1>12, <2>2 DEF Worth, Holds
  <2>4. Maps'
    <3>1. \A j \in Keys \ {k} : Missing(j)' <=> Missing(j)
      BY <1>7, <2>1 DEF Missing
    <3>2. Missing(k)'
      BY <1>2, <1>4, <1>7, <2>1 DEF Missing
    <3>3. \A j \in Keys : InDirty(j)' <=> InDirty(j)
      BY <2>1 DEF InDirty
    <3>4. ASSUME NEW j \in Keys, read.m[j] # NoEntry PROVE p'[read.m[j]] = Expunged <=> Missing(j)'
      <4>1. CASE j = k
        BY <1>3, <2>2, <3>2, <4>1
      <4>2. CASE j # k
        <5>1. read.m[j] \in Entries \ {e}
          BY <1>10, <3>4, <4>2, EntryTypes DEF IInv, Structure, Entry
        <5> QED
          BY <2>2, <3>1, <3>4, <4>2, <5>1 DEF IInv, Structure, Maps
      <4> QED
        BY <4>1, <4>2
    <3>5. ASSUME NEW j \in Keys, InDirty(j) PROVE p'[dirty[j]] # Expunged
      <4>1. dirty[j] \in Entries \ {e}
        BY <1>2, <1>4, <1>10, <3>5 DEF InDirty, Entry
      <4> QED
        BY <2>2, <3>5, <4>1 DEF IInv, Structure, Maps
    <3> QED
      BY <1>1, <1>9, <2>1, <3>3, <3>4, <3>5 DEF IInv, Structure, Maps
  <2>5. Content' = Content
    <3>1. ASSUME NEW j \in Keys PROVE Content'[j] = Content[j]
      <4>1. PICK d : d = EntryOf(j)
        OBVIOUS
      <4>2. EntryOf(j)' = d
        BY <1>1, <2>1, <4>1 DEF EntryOf
      <4>3. Content'[j] = IF d # NoEntry THEN Worth(d)' ELSE Nil
        BY <4>2 DEF Content, Worth, Holds
      <4> QED
        BY <2>3, <4>1, <4>3, ContentAt, EntryOfRefers DEF IInv
    <3>2. Content' = [j \in Keys |-> Content'[j]] /\ Content = [j \in Keys |-> Content[j]]
      BY DEF Content
    <3> QED
      BY <3>1, <3>2
  <2>6. HandlesKept
    <3> SUFFICES ASSUME NEW j \in Keys, NEW d \in Entries, p[d] = Expunged \/ d = read.m[j]
                 PROVE  p'[d] = Expunged \/ d = read.m[j]
      BY <1>1 DEF HandlesKept
    <3> QED
      BY <2>2
  <2>7. NoNewReference(g)
    BY <1>1, <1>6, <2>1, MapsRefer DEF NoNewReference
  <2>8. Holder(g)'
    BY <1>1, <1>2, <1>5, <1>6, <2>1, SyncMapAssumption DEF Holder, At, Key
  <2>9. EntriesKept(g)
    BY <1>2, <2>3, <2>4, <2>6 DEF EntriesKept, WorthKept, HolderKept
  <2> QED
    BY <1>1, <1>2, <1>6, <2>1, <2>2, <2>5, <2>7, <2>8, <2>9, MoveKeeps DEF MutexStep, OwnPart, IInv, Structure, Types
<1> QED
  BY <1>11, <1>12

LEMMA UnusedUnreferred ==
  ASSUME Types
  PROVE  \E e \in Entries : e = (CHOOSE x \in Unused : TRUE) /\ Unreferred(e)
                            /\ \A g \in G : e # st[g].e
<1>1. PICK e \in Unused : e = CHOOSE x \in Unused : TRUE
  BY HeapIsEnough
<1>2. e \in Entries
  BY <1>1 DEF Unused
<1>3. ASSUME NEW g \in G PROVE e # st[g].e /\ e \notin Range(st[g].snap)
  BY <1>1 DEF Unused
<1>4. e \notin Range(read.m) /\ (dirty # NoMap => e \notin Range(dirty))
  BY <1>1 DEF Unused
<1>5. Unreferred(e)
  <2> SUFFICES ASSUME NEW k \in Keys, RefersTo(k, e) PROVE FALSE
    BY DEF Unreferred
  <2>1. read.m[k] # e
    BY <1>4 DEF Range, Types
  <2>2. dirty # NoMap => dirty[k] # e
    BY <1>4 DEF Range, Types
  <2>3. \A g \in G : st[g].snap[k] # e
    BY <1>3 DEF Range, Types, Locals
  <2> QED
    BY <1>3, <2>1, <2>2, <2>3 DEF RefersTo
<1> QED
  BY <1>1, <1>2, <1>3, <1>5

LEMMA newEntryKeeps ==
  ASSUME IInv, NEW g \in G, newEntry(g), A!Witness(Content')
  PROVE  IInv' /\ A!Next
<1>1. PICK e \in Entries : e = (CHOOSE x \in Unused : TRUE) /\ Unreferred(e)
  BY UnusedUnreferred DEF IInv, Structure
<1> DEFINE y == IF st[g].call.op = "Store" THEN Nil ELSE Val(g)
<1>2. /\ At(g, "addKey") /\ st[g].todo = {} /\ mu' = None /\ misses' = misses
      /\ read' = [read EXCEPT !.amended = TRUE] /\ dirty' = [dirty EXCEPT ![Key(g)] = e]
      /\ p' = [p EXCEPT ![e] = Val(g)] /\ st' = [st EXCEPT ![g] = Idle]
      /\ res' = [res EXCEPT ![g] = A!Result(st[g].call, y, FALSE)]
  BY <1>1 DEF newEntry, Put, Finish
<1>3. /\ Key(g) \in Keys /\ st[g].call \in A!Call /\ st[g].call.op \in Adding
      /\ Val(g) \in Values /\ CallOf(g) # None
      /\ mu = g /\ dirty \in [Keys -> Entry] /\ dirty # NoMap
      /\ \A h \in G \ {g} : ~At(h, "addKey")
      /\ \A k \in Keys : ~Pending(k)
      /\ dirty[Key(g)] = NoEntry /\ read.m[Key(g)] = NoEntry
  BY <1>2, AtAddKey
<1>4. y \in Values \cup {Nil}
  BY <1>3
<1> HIDE DEF y
<1>5. mu' # g
  BY <1>2, SyncMapAssumption
<1>6. Others(g)
  BY <1>2, OthersStay DEF IInv, Structure, Types
<1>7. /\ OwnPart(g)' /\ ~AddsKey(g)' /\ CallOf(g)' = None /\ st' \in [G -> Locals]
      /\ \A k \in Keys : st'[g].snap[k] = NoEntry
      /\ st'[g].pc \notin {"entry", "write"}
  BY <1>2, <1>5, EndsCall DEF IInv
<1>8. read'.m = read.m /\ read'.amended = TRUE /\ read' \in [m : [Keys -> Entry], amended : BOOLEAN]
      /\ misses' \in 0 .. Cardinality(Keys)
  BY <1>2 DEF IInv, Structure, Types
<1>9. /\ dirty' \in [Keys -> Entry] /\ dirty' # NoMap /\ dirty'[Key(g)] = e
      /\ \A k \in Keys \ {Key(g)} : dirty'[k] = dirty[k]
  BY <1>2, <1>3, IsAMap DEF Entry
<1>10. p \in [Entries -> Values \cup {Nil, Expunged}]
  BY DEF IInv, Structure, Types
<1>11. /\ p' \in [Entries -> Values \cup {Nil, Expunged}] /\ p'[e] = Val(g)
       /\ \A d \in Entries \ {e} : p'[d] = p[d]
  BY <1>2, <1>3, <1>10
<1>12. e # NoEntry /\ Val(g) # Expunged /\ Val(g) # Nil
  BY <1>3, SyncMapAssumption
<1>13. \A k \in Keys : read.m[k] # e /\ dirty[k] # e
  BY <1>1, <1>3 DEF Unreferred, RefersTo
<1>14. \A h \in G : ~At(h, "addKey")'
  BY <1>3, <1>6, <1>7 DEF Others, AddsKey, At
<1>15. \A d \in Entries \ {e} : Worth(d)' = Worth(d)
  BY <1>11 DEF Worth, Holds
<1>16. Worth(e)' = Val(g)
  BY <1>11, <1>12 DEF Worth, Holds
<1>17. Maps'
  <2>1. \A k \in Keys \ {Key(g)} : Missing(k)' <=> Missing(k)
    BY <1>3, <1>9, <1>14 DEF Missing, Pending
  <2>2. ASSUME NEW k \in Keys, read.m[k] # NoEntry
        PROVE  /\ p'[read.m[k]] = Expunged <=> Missing(k)'
               /\ dirty'[k] = dirty[k]
    <3>1. k # Key(g) /\ read.m[k] \in Entries \ {e}
      BY <1>3, <1>13, <2>2, EntryTypes DEF IInv, Structure, Entry
    <3> QED
      BY <1>9, <1>11, <2>1, <2>2, <3>1 DEF IInv, Structure, Maps
  <2>3. ASSUME NEW k \in Keys, InDirty(k)' PROVE p'[dirty'[k]] # Expunged
    <3>1. CASE k = Key(g)
      BY <1>9, <1>11, <1>12, <3>1
    <3>2. CASE k # Key(g)
      <4>1. InDirty(k) /\ dirty'[k] = dirty[k] /\ dirty[k] \in Entries \ {e}
        BY <1>3, <1>9, <1>13, <2>3, <3>2 DEF InDirty, Entry
      <4> QED
        BY <1>11, <4>1 DEF IInv, Structure, Maps
    <3> QED
      BY <3>1, <3>2
  <2> QED
    BY <1>3, <1>8, <1>9, <2>2, <2>3 DEF IInv, Structure, Maps, InDirty
<1>18. Content[Key(g)] = Nil
  BY <1>3, ContentAt DEF EntryOf
<1>19. Content' = [Content EXCEPT ![Key(g)] = Val(g)]
  <2>1. ASSUME NEW j \in Keys PROVE Content'[j] = IF j = Key(g) THEN Val(g) ELSE Content[j]
    <3>1. CASE j = Key(g)
      <4>1. EntryOf(j)' = e
        BY <1>3, <1>8, <1>9, <3>1 DEF EntryOf
      <4>2. Content'[j] = IF e # NoEntry THEN Worth(e)' ELSE Nil
        BY <4>1 DEF Content, Worth, Holds
      <4> QED
        BY <1>12, <1>16, <3>1, <4>2
    <3>2. CASE j # Key(g)
      <4>1. PICK d : d = EntryOf(j)
        OBVIOUS
      <4>2. EntryOf(j)' = d
        BY <1>3, <1>8, <1>9, <3>2, <4>1 DEF EntryOf, IInv, Structure, Maps, InDirty
      <4>3. Content'[j] = IF d # NoEntry THEN Worth(d)' ELSE Nil
        BY <4>2 DEF Content, Worth, Holds
      <4>4. d # NoEntry => d \in Entries \ {e}
        BY <1>1, <4>1, EntryOfRefers DEF IInv, Unreferred
      <4> QED
        BY <1>15, <3>2, <4>1, <4>3, <4>4, ContentAt
    <3> QED
      BY <3>1, <3>2
  <2>2. Content' = [j \in Keys |-> Content'[j]] /\ Content = [j \in Keys |-> Content[j]]
    BY DEF Content
  <2> QED
    BY <2>1, <2>2
<1>20. WorthKept /\ HandlesKept
  <2>1. ASSUME NEW k \in Keys, NEW d \in Entries, RefersTo(k, d) PROVE d # e
    BY <1>1, <2>1 DEF Unreferred
  <2> QED
    BY <1>8, <1>11, <1>15, <2>1 DEF WorthKept, HandlesKept
<1>21. EntriesKept(g)
  BY <1>3, <1>17, <1>20 DEF EntriesKept, HolderKept
<1>22. NoNewReference(g)
  <2>1. \A k \in Keys : dirty'[k] # NoEntry =>
          RefersTo(k, dirty'[k]) \/ (k = Key(g) /\ Unreferred(dirty'[k]))
    BY <1>1, <1>3, <1>9 DEF RefersTo
  <2> QED
    BY <1>7, <1>8, <2>1 DEF NoNewReference, RefersTo
<1>23. ValueTypes'
  BY <1>2, <1>3, <1>4, <1>11, AnswerTypes
<1>24. IInv'
  BY <1>2, <1>3, <1>6, <1>7, <1>8, <1>9, <1>21, <1>22, <1>23, Concludes DEF MutexStep
<1>25. A!Next
  <2>1. CASE st[g].call.op = "Store"
    <3>1. y = Nil
      BY <2>1 DEF y
    <3> QED
      BY <1>2, <1>3, <1>6, <1>7, <1>19, <2>1, <3>1, ChangeStep
  <2>2. CASE st[g].call.op # "Store"
    <3>1. y = Val(g) /\ st[g].call.op = "LoadOrStore"
      BY <1>3, <2>2 DEF y, Adding
    <3> QED
      BY <1>2, <1>3, <1>6, <1>7, <1>18, <1>19, <3>1, ChangeStep
  <2> QED
    BY <2>1, <2>2
<1> QED
  BY <1>24, <1>25

LEMMA DeleteLockedKeeps ==
  ASSUME IInv, NEW g \in G, DeleteLocked(g), A!Witness(Content')
  PROVE  IInv' /\ (A!Next \/ UNCHANGED A!vars)
<1>1. /\ At(g, "lock") /\ st[g].call.op = "Delete" /\ mu = None /\ UNCHANGED <<mu, read, misses, p>>
      /\ IF read.m[Key(g)] = NoEntry /\ read.amended THEN dirty' = [dirty EXCEPT ![Key(g)] = NoEntry]
                                                     ELSE UNCHANGED dirty
      /\ IF read.m[Key(g)] = NoEntry THEN Finish(g, Nil) ELSE With(g, "entry", read.m[Key(g)])
  BY Zenon DEF DeleteLocked, Free
<1>2. /\ Key(g) \in Keys /\ ~AddsKey(g) /\ mu # g /\ CallOf(g) # None
      /\ st[g].call \in A!Call
  BY <1>1, AtLock
<1>3. /\ \A h \in G : ~At(h, "addKey")
      /\ \A k \in Keys : ~Pending(k)
      /\ read.amended <=> dirty # NoMap
  BY <1>1, <1>2, NoneAdding DEF IInv
<1>4. CASE read.m[Key(g)] # NoEntry
  <2>1. PICK e : e = read.m[Key(g)]
    OBVIOUS
  <2>2. With(g, "entry", e) /\ dirty' = dirty
    BY <1>1, <1>4, <2>1
  <2>3. e \in Entry /\ e # NoEntry /\ RefersTo(Key(g), e)
    BY <1>2, <1>4, <2>1, EntryTypes DEF IInv, Structure, RefersTo
  <2>4. Others(g) /\ ~AddsKey(g)'
    BY <2>2, WithOthers
  <2>5. EntriesKept(g) /\ Content' = Content
    BY <1>1, <1>2, <2>2, <2>4, SameMaps DEF EntriesKept, IInv
  <2>6. Worth(e) = Content[Key(g)] /\ Worth(e)' = Worth(e)
    BY <1>1, <1>2, <2>1, <2>3, ContentAt DEF EntryOf, Worth, Holds
  <2>7. /\ st' \in [G -> Locals] /\ res' = res
        /\ CallOf(g)' = CallOf(g)
        /\ st'[g].pc = "entry" /\ st'[g].e = e /\ st'[g].call = st[g].call
        /\ Place(g)' /\ (CallOf(g)' # None => Recorded(g)')
        /\ \A j \in Keys : st'[g].snap[j] = NoEntry
    BY <1>1, <1>2, <2>2, <2>3, <2>5, <2>6, GoesOn DEF At
  <2>8. Holder(g)' /\ Handle(g)'
    BY <1>1, <2>1, <2>7 DEF Holder, Handle, At, Key
  <2>9. NoNewReference(g)
    <3>1. RefersTo(st'[g].call.key, st'[g].e)
      BY <2>3, <2>7 DEF Key
    <3> QED
      BY <1>1, <2>2, <2>7, <3>1, MapsRefer DEF NoNewReference
  <2> QED
    BY <1>1, <2>2, <2>4, <2>5, <2>7, <2>8, <2>9, MoveKeeps, MapTypes DEF MutexStep, OwnPart, IInv, Structure, Types
<1>5. CASE read.m[Key(g)] = NoEntry
  <2>1. /\ st' = [st EXCEPT ![g] = Idle]
        /\ res' = [res EXCEPT ![g] = A!Result(st[g].call, Nil, FALSE)]
        /\ IF read.amended THEN dirty' = [dirty EXCEPT ![Key(g)] = NoEntry] ELSE UNCHANGED dirty
    BY <1>1, <1>5 DEF Finish
  <2>2. Others(g)
    BY <2>1, OthersStay DEF IInv, Structure, Types
  <2>3. /\ OwnPart(g)' /\ ~AddsKey(g)' /\ CallOf(g)' = None /\ st' \in [G -> Locals]
        /\ \A k \in Keys : st'[g].snap[k] = NoEntry
        /\ st'[g].pc \notin {"entry", "write"}
    BY <1>1, <1>2, <2>1, EndsCall DEF IInv
  <2>4. /\ dirty' \in [Keys -> Entry] \cup {NoMap} /\ (dirty' # NoMap <=> dirty # NoMap)
        /\ dirty # NoMap => /\ dirty'[Key(g)] = NoEntry
                            /\ \A k \in Keys \ {Key(g)} : dirty'[k] = dirty[k]
    <3>1. CASE dirty # NoMap
      <4>1. dirty \in [Keys -> Entry] /\ dirty' = [dirty EXCEPT ![Key(g)] = NoEntry]
        BY <1>3, <2>1, <3>1, EntryTypes DEF IInv, Structure
      <4>2. dirty' \in [Keys -> Entry] /\ dirty' # NoMap
        BY <4>1, IsAMap DEF Entry
      <4> QED
        BY <1>2, <3>1, <4>1, <4>2
    <3>2. CASE dirty = NoMap
      BY <1>3, <2>1, <3>2
    <3> QED
      BY <3>1, <3>2
  <2>5. \A k \in Keys : /\ InDirty(k)' => InDirty(k) /\ dirty'[k] = dirty[k]
                        /\ read.m[k] # NoEntry => (Missing(k)' <=> Missing(k)) /\ (InDirty(k)' <=> InDirty(k))
    <3>1. \A k \in Keys : ~Pending(k)'
      BY <1>3, PendingKept, <1>2, <2>2, <2>3
    <3> QED
      BY <1>3, <1>5, <2>4, <3>1 DEF InDirty, Missing
  <2>6. Maps'
    <3>1. ASSUME NEW k \in Keys
          PROVE  /\ read.m[k] # NoEntry => (p[read.m[k]] = Expunged <=> Missing(k)')
                 /\ InDirty(k)' => p[dirty'[k]] # Expunged /\ (read.m[k] # NoEntry => dirty'[k] = read.m[k])
      BY <2>5 DEF IInv, Structure, Maps
    <3>2. \A k \in Keys : InDirty(k)' => read.amended
      BY <1>3, <2>4 DEF InDirty
    <3> QED
      BY <1>1, <1>3, <2>4, <3>1, <3>2 DEF Maps
  <2>7. Content' = [Content EXCEPT ![Key(g)] = Nil]
    <3>1. ASSUME NEW j \in Keys PROVE Content'[j] = IF j = Key(g) THEN Nil ELSE Content[j]
      <4>1. CASE j = Key(g)
        <5>1. EntryOf(j)' = NoEntry
          BY <1>1, <1>3, <1>5, <2>4, <4>1 DEF EntryOf
        <5> QED
          BY <4>1, <5>1 DEF Content
      <4>2. CASE j # Key(g)
        <5>1. EntryOf(j)' = EntryOf(j)
          BY <1>1, <1>3, <2>4, <4>2 DEF EntryOf
        <5> QED
          BY <1>1, <4>2, <5>1 DEF Content, Holds
      <4> QED
        BY <4>1, <4>2
    <3>2. Content' = [j \in Keys |-> Content'[j]] /\ Content = [j \in Keys |-> Content[j]]
      BY DEF Content
    <3> QED
      BY <3>1, <3>2
  <2>8. EntriesKept(g)
    <3>1. WorthKept /\ HandlesKept
      BY <1>1 DEF WorthKept, Worth, Holds, HandlesKept
    <3> QED
      BY <1>1, <2>6, <3>1 DEF EntriesKept, HolderKept
  <2>9. NoNewReference(g)
    <3>1. dirty' # NoMap => \A k \in Keys : dirty'[k] # NoEntry => RefersTo(k, dirty'[k])
      BY <2>4 DEF RefersTo
    <3>2. \A k \in Keys : read'.m[k] # NoEntry => RefersTo(k, read'.m[k])
      BY <1>1 DEF RefersTo
    <3> QED
      BY <2>3, <3>1, <3>2 DEF NoNewReference
  <2>10. ValueTypes'
    BY <1>1, <1>2, <2>1, AnswerTypes DEF IInv, Structure, Types
  <2>11. IInv'
    BY <1>1, <2>2, <2>3, <2>4, <2>8, <2>9, <2>10, Concludes DEF MutexStep, IInv, Structure, Types
  <2>12. A!Next
    BY <1>1, <1>2, <2>1, <2>2, <2>3, <2>7, ChangeStep
  <2> QED
    BY <2>11, <2>12
<1> QED
  BY <1>4, <1>5

----------------------------------------------------------------------------
(* Steps that begin a call, and Range.                                     *)

LEMMA BeginKeeps ==
  ASSUME IInv, NEW g \in G, A!Witness(Content'), At(g, "idle"), UNCHANGED shared,
         Others(g), ~AddsKey(g)', st' \in [G -> Locals], res' = [res EXCEPT ![g] = None],
         NoNewReference(g), Place(g)', Handle(g)', st'[g].pc \in {"entry", "lock", "absent", "promote", "visit"},
         NEW c \in A!Call, st'[g].call = c, Recorded(g)'
  PROVE  IInv' /\ A!Next
<1>1. UNCHANGED <<mu, read, dirty, misses, p>>
  BY DEF shared
<1>2. ~AddsKey(g)
  BY DEF AddsKey, At
<1>3. EntriesKept(g) /\ Content' = Content
  BY <1>1, <1>2, SameMaps DEF EntriesKept, IInv
<1>4. ValueTypes'
  BY <1>1 DEF ValueTypes, IInv, Structure, Types
<1>5. Holder(g)'
  BY DEF Holder, At
<1>6. IInv'
  BY <1>1, <1>3, <1>4, <1>5, MapTypes, Concludes DEF OwnPart, MutexStep
<1>7. CallOf(g) = None /\ CallOf(g)' = c
  BY DEF CallOf, At
<1>8. A!Next
  BY <1>3, <1>7, Begins
<1> QED
  BY <1>6, <1>8

LEMMA StartKeeps ==
  ASSUME IInv, NEW g \in G, At(g, "idle"), NEW c \in A!Call, c.op # "Range", Start(g, c), A!Witness(Content')
  PROVE  IInv' /\ A!Next
<1>1. PICK e : e = read.m[c.key]
  OBVIOUS
<1> DEFINE next == IF e # NoEntry THEN "entry"
                   ELSE IF read.amended \/ c.op \in {"Store", "LoadOrStore"} THEN "lock" ELSE "absent"
<1>2. PICK l : l = next
  OBVIOUS
<1>3. /\ st' = [st EXCEPT ![g] = [Idle EXCEPT !.pc = l, !.e = e, !.call = c]]
      /\ res' = [res EXCEPT ![g] = None] /\ UNCHANGED shared
  BY <1>1, <1>2 DEF Start
<1>4. /\ c.key \in Keys /\ c.op \in Keyed /\ c # None /\ A!KeysOf(c) = {c.key}
  BY CallFields DEF Keyed
<1>5. e \in Entry /\ (e # NoEntry => RefersTo(c.key, e))
  BY <1>1, <1>4, EntryTypes DEF IInv, Structure, RefersTo
<1>6. l \in {"entry", "lock", "absent"} /\ (l = "entry" <=> e # NoEntry)
      /\ (l = "absent" => ~read.amended /\ c.op \notin Adding)
  BY <1>2 DEF Adding
<1> HIDE DEF next
<1>7. UNCHANGED <<mu, read, dirty, misses, p>>
  BY <1>3 DEF shared
<1>8. PICK s : s = [Idle EXCEPT !.pc = l, !.e = e, !.call = c]
  OBVIOUS
<1>9. /\ s.pc = l /\ s.e = e /\ s.call = c /\ s.snap = NoKeys /\ s \in Locals
  BY <1>4, <1>5, <1>6, <1>8, IdleType DEF Idle, Locals
<1>10. /\ st'[g] = s /\ Others(g) /\ st' \in [G -> Locals] /\ res'[g] = None
  BY <1>3, <1>8, <1>9, OthersStay DEF IInv, Structure, Types
<1>11. Place(g)'
  <2>1. mu # g
    BY DEF IInv, Structure, Places, Place, At, Locked
  <2> QED
    BY <1>4, <1>6, <1>7, <1>9, <1>10, <2>1 DEF Place, At, Locked, Keyed, Adding
<1>12. Handle(g)'
  BY <1>1, <1>7, <1>9, <1>10 DEF Handle, Key
<1>13. NoNewReference(g)
  <2>1. \A k \in Keys : st'[g].snap[k] = NoEntry
    BY <1>9, <1>10 DEF NoKeys
  <2>2. st'[g].pc \in {"entry", "write"} => RefersTo(st'[g].call.key, st'[g].e)
    BY <1>5, <1>6, <1>9, <1>10
  <2> QED
    BY <1>7, <2>1, <2>2, MapsRefer DEF NoNewReference
<1>14. ~AddsKey(g)'
  BY <1>6, <1>9, <1>10 DEF AddsKey, At
<1>15. Recorded(g)'
  <2>1. CallOf(g) = None /\ CallOf(g)' = c
    BY <1>6, <1>9, <1>10 DEF CallOf, At
  <2>2. seen'[g] = [k \in A!KeysOf(c) |-> {Content'[k]}]
    BY <1>4, <2>1, SeenNow
  <2>3. Content' = Content
    BY <1>7 DEF Content, EntryOf, Holds
  <2>4. l = "absent" => Content[c.key] = Nil
    BY <1>1, <1>4, <1>6, ContentAt DEF EntryOf
  <2>5. l = "entry" => Content[c.key] = Worth(e) /\ Worth(e)' = Worth(e)
    BY <1>1, <1>4, <1>6, <1>7, ContentAt DEF EntryOf, Worth, Holds
  <2>6. /\ seen'[g] = [k \in A!KeysOf(c) |-> seen'[g][k]]
        /\ \A k \in A!KeysOf(c) : Content'[k] \in seen'[g][k]
        /\ seen'[g][c.key] = {Content'[c.key]}
    BY <1>4, <2>2
  <2>7. Worth(st[g].e)' = Worth(e)'
    BY <1>9, <1>10 DEF Worth, Holds
  <2>8. l = "entry" => Worth(st[g].e)' \in seen'[g][c.key]
    BY <2>3, <2>5, <2>6, <2>7
  <2>9. l = "absent" => Nil \in seen'[g][c.key]
    BY <2>3, <2>4, <2>6
  <2>10. ~At(g, "visit")' /\ Key(g)' = c.key
    BY <1>6, <1>9, <1>10 DEF At, Key
  <2> QED
    BY <1>9, <1>10, <2>6, <2>8, <2>9, <2>10 DEF Recorded, At
<1> QED
  BY <1>3, <1>6, <1>9, <1>10, <1>11, <1>12, <1>13, <1>14, <1>15, BeginKeeps

(* A Range holds the entries of an m.read that has all keys, each worth    *)
(* what its key has.                                                       *)
LEMMA VisitOwn ==
  ASSUME IInv, NEW g \in G, A!Witness(Content'), st[g].pc \in {"idle", "promote"},
         NEW m \in [Keys -> Entry], Visit(g, m), mu' = mu, p' = p, Content' = Content,
         \A k \in Keys : Content[k] = (IF m[k] = NoEntry THEN Nil ELSE Worth(m[k])),
         \A k \in Keys : m[k] # NoEntry => RefersTo(k, m[k])
  PROVE  /\ Others(g) /\ ~AddsKey(g) /\ ~AddsKey(g)' /\ st' \in [G -> Locals]
         /\ st'[g].pc = "visit" /\ st'[g].call = [op |-> "Range"] /\ mu # g
         /\ Place(g)' /\ Handle(g)' /\ Holder(g)' /\ Recorded(g)'
         /\ \A k \in Keys : st'[g].snap[k] # NoEntry => RefersTo(k, st'[g].snap[k])
<1> DEFINE S == {k \in Keys : m[k] # NoEntry}
           a == [k \in Keys |-> Nil]
           c == [op |-> "Range"]
<1>1. c \in A!Call
  BY DEF A!Call
<1>2. A!KeysOf(c) = Keys /\ c # None /\ c.op = "Range"
  BY <1>1, CallFields
<1>3. a \in [Keys -> Values \cup {Nil}] /\ S \in SUBSET Keys /\ \A k \in Keys : a[k] = Nil
  OBVIOUS
<1>4. PICK s : s = [pc |-> "visit", call |-> c, e |-> NoEntry, todo |-> S, snap |-> m, acc |-> a]
  OBVIOUS
<1>5. st' = [st EXCEPT ![g] = s] /\ res' = [res EXCEPT ![g] = None]
  BY <1>4 DEF Visit
<1>6. \A k \in Keys : k \in S <=> m[k] # NoEntry
  OBVIOUS
<1>7. S = {k \in Keys : m[k] # NoEntry}
  OBVIOUS
<1> HIDE DEF S, a
<1>8. /\ s.pc = "visit" /\ s.call = c /\ s.e = NoEntry /\ s.todo = S /\ s.snap = m /\ s.acc = a
      /\ s \in Locals
  BY <1>1, <1>3, <1>4 DEF Locals, Entry
<1> HIDE DEF c
<1>9. st'[g] = s /\ Others(g) /\ st' \in [G -> Locals] /\ res'[g] = None
  BY <1>5, <1>8, OthersStay DEF IInv, Structure, Types
<1>10. mu # g /\ ~AddsKey(g)
  BY DEF IInv, Structure, Places, Place, At, Locked, AddsKey
<1>11. ~AddsKey(g)' /\ Handle(g)' /\ Holder(g)'
  BY <1>8, <1>9 DEF AddsKey, Handle, Holder, At
<1>12. Place(g)'
  BY <1>2, <1>3, <1>7, <1>8, <1>9, <1>10 DEF Place, At, Locked
<1>13. /\ seen'[g] = [k \in Keys |-> seen'[g][k]]
       /\ \A k \in Keys : Content'[k] \in seen'[g][k]
  <2>1. CallOf(g)' = c
    BY <1>8, <1>9 DEF CallOf
  <2>2. CASE CallOf(g) = None
    <3>1. seen'[g] = [k \in Keys |-> {Content'[k]}]
      BY <1>2, <2>1, <2>2, SeenNow
    <3> QED
      BY <3>1
  <2>3. CASE CallOf(g) # None
    <3>1. CallOf(g) = c
      BY <2>3, CallOfType DEF IInv, CallOf, c
    <3>2. seen'[g] = [k \in Keys |-> seen[g][k] \cup {Content'[k]}]
      BY <1>2, <2>1, <3>1, SeenNow
    <3> QED
      BY <3>2
  <2> QED
    BY <2>2, <2>3
<1>14. \A k \in Keys : IF k \in S THEN (Worth(st[g].snap[k]) \in seen[g][k])' ELSE a[k] \in seen'[g][k]
  <2>1. ASSUME NEW k \in Keys, k \in S PROVE (Worth(st[g].snap[k]) \in seen[g][k])'
    <3>1. PICK e : e = m[k]
      OBVIOUS
    <3>2. Worth(e)' = Worth(e) /\ (Worth(st[g].snap[k]))' = Worth(e)'
      BY <1>8, <1>9, <3>1 DEF Worth, Holds
    <3>3. Content[k] = Worth(e)
      BY <1>6, <2>1, <3>1
    <3> QED
      BY <1>13, <3>2, <3>3
  <2>2. ASSUME NEW k \in Keys, k \notin S PROVE a[k] \in seen'[g][k]
    <3>1. Content[k] = Nil
      BY <1>6, <2>2
    <3> QED
      BY <1>3, <1>13, <3>1
  <2> QED
    BY <2>1, <2>2
<1>15. Recorded(g)'
  BY <1>2, <1>8, <1>9, <1>13, <1>14 DEF Recorded, At
<1>16. \A k \in Keys : st'[g].snap[k] # NoEntry => RefersTo(k, st'[g].snap[k])
  BY <1>8, <1>9
<1> QED
  BY <1>8, <1>9, <1>10, <1>11, <1>12, <1>15, <1>16 DEF c

LEMMA WholeRead ==
  ASSUME IInv, ~read.amended
  PROVE  /\ read.m \in [Keys -> Entry]
         /\ \A k \in Keys : Content[k] = (IF read.m[k] = NoEntry THEN Nil ELSE Worth(read.m[k]))
         /\ \A k \in Keys : read.m[k] # NoEntry => RefersTo(k, read.m[k])
<1>1. \A k \in Keys : EntryOf(k) = read.m[k]
  BY DEF EntryOf
<1> QED
  BY <1>1, ContentAt DEF IInv, Structure, Types, RefersTo

LEMMA StartRangeKeeps ==
  ASSUME IInv, NEW g \in G, At(g, "idle"), StartRange(g), A!Witness(Content')
  PROVE  IInv' /\ A!Next
<1>1. UNCHANGED shared /\ UNCHANGED <<mu, read, dirty, misses, p>>
  BY DEF StartRange, shared
<1>2. Content' = Content
  BY <1>1 DEF Content, EntryOf, Holds
<1>3. [op |-> "Range"] \in A!Call
  BY DEF A!Call
<1>4. CASE read.amended
  <2> DEFINE c == [op |-> "Range"]
  <2>1. /\ st' = [st EXCEPT ![g] = [Idle EXCEPT !.pc = "promote", !.call = c]]
        /\ res' = [res EXCEPT ![g] = None]
    BY <1>4, Zenon DEF StartRange
  <2>2. A!KeysOf(c) = Keys /\ c # None /\ c.op = "Range" /\ c \in A!Call
    BY <1>3, CallFields
  <2> HIDE DEF c
  <2>3. PICK s : s = [Idle EXCEPT !.pc = "promote", !.call = c]
    OBVIOUS
  <2>4. s.pc = "promote" /\ s.call = c /\ s.e = NoEntry /\ s.snap = NoKeys /\ s \in Locals
    BY <2>2, <2>3, IdleType DEF Idle, Locals
  <2>5. st'[g] = s /\ Others(g) /\ st' \in [G -> Locals] /\ res'[g] = None
    BY <2>1, <2>3, <2>4, OthersStay DEF IInv, Structure, Types
  <2>6. mu # g
    BY DEF IInv, Structure, Places, Place, At, Locked
  <2>7. Place(g)' /\ Handle(g)' /\ ~AddsKey(g)'
    BY <1>1, <2>2, <2>4, <2>5, <2>6 DEF Place, Handle, AddsKey, At, Locked
  <2>8. NoNewReference(g)
    <3>1. \A k \in Keys : st'[g].snap[k] = NoEntry
      BY <2>4, <2>5 DEF NoKeys
    <3> QED
      BY <1>1, <2>4, <2>5, <3>1, MapsRefer DEF NoNewReference
  <2>9. Recorded(g)'
    <3>1. CallOf(g) = None /\ CallOf(g)' = c
      BY <2>4, <2>5 DEF CallOf, At
    <3>2. seen'[g] = [k \in Keys |-> {Content'[k]}]
      BY <2>2, <3>1, SeenNow
    <3>3. /\ seen'[g] = [k \in Keys |-> seen'[g][k]]
          /\ \A k \in Keys : Content'[k] \in seen'[g][k]
      BY <3>2
    <3> QED
      BY <2>2, <2>4, <2>5, <3>3 DEF Recorded, At
  <2> QED
    BY <1>1, <2>1, <2>2, <2>4, <2>5, <2>7, <2>8, <2>9, BeginKeeps
<1>5. CASE ~read.amended
  <2>1. Visit(g, read.m)
    BY <1>5, Zenon DEF StartRange
  <2>2. /\ Others(g) /\ ~AddsKey(g) /\ ~AddsKey(g)' /\ st' \in [G -> Locals]
        /\ st'[g].pc = "visit" /\ st'[g].call = [op |-> "Range"]
        /\ Place(g)' /\ Handle(g)' /\ Holder(g)' /\ Recorded(g)'
        /\ \A k \in Keys : st'[g].snap[k] # NoEntry => RefersTo(k, st'[g].snap[k])
    BY <1>1, <1>2, <1>5, <2>1, WholeRead, VisitOwn DEF At
  <2>3. res' = [res EXCEPT ![g] = None]
    BY <2>1 DEF Visit
  <2>4. NoNewReference(g)
    BY <1>1, <2>2, MapsRefer DEF NoNewReference
  <2> QED
    BY <1>1, <1>3, <2>2, <2>3, <2>4, BeginKeeps
<1> QED
  BY <1>4, <1>5

LEMMA RangeLockedKeeps ==
  ASSUME IInv, NEW g \in G, RangeLocked(g), A!Witness(Content')
  PROVE  IInv' /\ UNCHANGED A!vars
<1>1. /\ At(g, "promote") /\ mu = None /\ UNCHANGED <<mu, p>>
      /\ IF read.amended THEN Promote /\ Visit(g, dirty)
                         ELSE UNCHANGED <<read, dirty, misses>> /\ Visit(g, read.m)
  BY Zenon DEF RangeLocked, Free
<1>2. ~AddsKey(g)
  BY <1>1 DEF AddsKey, At
<1>3. CallOf(g) = [op |-> "Range"] /\ res[g] = None
  <2>1. CallOf(g) = [op |-> "Range"] /\ [op |-> "Range"] \in A!Call
    BY <1>1, CallOfType DEF IInv, At, CallOf, A!Call
  <2> QED
    BY <2>1, CallFields DEF IInv, History, Recorded
<1>4. PICK m : m = IF read.amended THEN dirty ELSE read.m
  OBVIOUS
<1>5. Visit(g, m)
  BY <1>1, <1>4
<1>6. Others(g) /\ st'[g].pc = "visit" /\ st'[g].call = [op |-> "Range"]
  BY <1>5 DEF Visit, Others, IInv, Structure, Types
<1>7. ~AddsKey(g)'
  BY <1>6 DEF AddsKey, At
<1>8. /\ EntriesKept(g) /\ Content' = Content
      /\ m \in [Keys -> Entry]
      /\ \A k \in Keys : Content[k] = (IF m[k] = NoEntry THEN Nil ELSE Worth(m[k]))
      /\ \A k \in Keys : m[k] # NoEntry => RefersTo(k, m[k])
      /\ \A j \in Keys : read'.m[j] # NoEntry => RefersTo(j, read'.m[j])
      /\ dirty' # NoMap => \A j \in Keys : dirty'[j] # NoEntry => RefersTo(j, dirty'[j])
      /\ read' \in [m : [Keys -> Entry], amended : BOOLEAN]
      /\ dirty' \in [Keys -> Entry] \cup {NoMap}
      /\ misses' \in 0 .. Cardinality(Keys)
  <2>1. CASE read.amended
    <3>1. m = dirty /\ Promote /\ dirty # NoMap
      BY <1>1, <1>4, <2>1 DEF IInv, Structure, Maps
    <3>2. /\ EntriesKept(g) /\ Content' = Content
          /\ \A k \in Keys : Content[k] = IF dirty[k] = NoEntry THEN Nil ELSE Worth(dirty[k])
      BY <1>1, <1>2, <1>6, <1>7, <3>1, Promoted DEF EntriesKept, IInv
    <3>3. m \in [Keys -> Entry] /\ \A k \in Keys : m[k] # NoEntry => RefersTo(k, m[k])
      BY <3>1, EntryTypes DEF IInv, Structure, RefersTo
    <3>4. read' = [m |-> m, amended |-> FALSE] /\ dirty' = NoMap /\ misses' = 0
      BY <3>1 DEF Promote
    <3>5. 0 \in 0 .. Cardinality(Keys)
      BY SyncMapAssumption, FS_CardinalityType
    <3> QED
      BY <3>1, <3>2, <3>3, <3>4, <3>5
  <2>2. CASE ~read.amended
    <3>1. m = read.m /\ UNCHANGED <<read, dirty, misses>>
      BY <1>1, <1>4, <2>2
    <3>2. EntriesKept(g) /\ Content' = Content
      BY <1>1, <1>2, <1>6, <1>7, <3>1, SameMaps DEF EntriesKept, IInv
    <3> QED
      BY <2>2, <3>1, <3>2, WholeRead, MapsRefer, MapTypes
  <2> QED
    BY <2>1, <2>2
<1>9. /\ st' \in [G -> Locals] /\ mu # g
      /\ Place(g)' /\ Handle(g)' /\ Holder(g)' /\ Recorded(g)'
      /\ \A k \in Keys : st'[g].snap[k] # NoEntry => RefersTo(k, st'[g].snap[k])
  BY <1>1, <1>5, <1>8, VisitOwn DEF At
<1>10. res' = res
  BY <1>3, <1>5 DEF Visit, IInv, Structure, Types
<1>11. CallOf(g)' = CallOf(g)
  BY <1>3, <1>6 DEF CallOf
<1>12. NoNewReference(g)
  BY <1>6, <1>8, <1>9 DEF NoNewReference
<1>13. p' \in [Entries -> Values \cup {Nil, Expunged}]
  BY <1>1 DEF IInv, Structure, Types
<1> QED
  BY <1>1, <1>6, <1>8, <1>9, <1>10, <1>11, <1>12, <1>13, MoveKeeps DEF MutexStep, OwnPart

LEMMA AtVisit ==
  ASSUME IInv, NEW g \in G, At(g, "visit")
  PROVE  /\ CallOf(g) = [op |-> "Range"] /\ CallOf(g) # None /\ st[g].call = [op |-> "Range"]
         /\ A!KeysOf(st[g].call) = Keys /\ st[g].call \in A!Call
         /\ Place(g) /\ Recorded(g) /\ ~AddsKey(g) /\ mu # g /\ st[g] \in Locals
         /\ st[g].acc \in [Keys -> Values \cup {Nil}]
<1>1. st[g].call = [op |-> "Range"] /\ [op |-> "Range"] \in A!Call
  BY CallOfType DEF IInv, At, A!Call
<1>2. A!KeysOf(st[g].call) = Keys /\ st[g].call # None /\ st[g].call.op = "Range"
  BY <1>1, CallFields
<1>3. CallOf(g) = st[g].call
  BY DEF CallOf, At
<1>4. Place(g) /\ Recorded(g) /\ st[g] \in Locals
  BY <1>2, <1>3 DEF IInv, Structure, Types, Places, History
<1> QED
  BY <1>1, <1>2, <1>3, <1>4 DEF Place, At, Locked, AddsKey

LEMMA VisitKeyKeeps ==
  ASSUME IInv, NEW g \in G, VisitKey(g), A!Witness(Content')
  PROVE  IInv' /\ UNCHANGED A!vars
<1>1. PICK k \in st[g].todo :
        /\ At(g, "visit") /\ UNCHANGED <<shared, res>>
        /\ st' = [st EXCEPT ![g].todo = @ \ {k}, ![g].snap[k] = NoEntry,
                            ![g].acc[k] = IF Holds(st[g].snap[k]) THEN p[st[g].snap[k]] ELSE Nil]
  BY Zenon DEF VisitKey
<1>2. UNCHANGED <<mu, read, dirty, misses, p, res>>
  BY <1>1 DEF shared
<1>3. /\ CallOf(g) = [op |-> "Range"] /\ CallOf(g) # None /\ st[g].call = [op |-> "Range"]
      /\ A!KeysOf(st[g].call) = Keys
      /\ Place(g) /\ Recorded(g) /\ ~AddsKey(g) /\ mu # g /\ st[g] \in Locals
      /\ st[g].acc \in [Keys -> Values \cup {Nil}]
  BY <1>1, AtVisit
<1>4. PICK e : e = st[g].snap[k]
  OBVIOUS
<1>5. k \in Keys /\ e \in Entries /\ st[g].snap \in [Keys -> Entry]
      /\ st[g].todo = {j \in Keys : st[g].snap[j] # NoEntry}
  BY <1>1, <1>3, <1>4 DEF Place, Locals, Entry
<1>6. PICK a : a = [st[g].acc EXCEPT ![k] = Worth(e)]
  OBVIOUS
<1>7. PICK m : m = [st[g].snap EXCEPT ![k] = NoEntry]
  OBVIOUS
<1>8. PICK S : S = st[g].todo \ {k}
  OBVIOUS
<1>9. Worth(e) \in Values \cup {Nil}
  BY <1>5, EntryTypes DEF IInv, Structure
<1>10. /\ a \in [Keys -> Values \cup {Nil}] /\ a[k] = Worth(e)
       /\ \A j \in Keys \ {k} : a[j] = st[g].acc[j]
  BY <1>3, <1>5, <1>6, <1>9
<1>11. /\ m \in [Keys -> Entry] /\ m[k] = NoEntry
       /\ \A j \in Keys \ {k} : m[j] = st[g].snap[j]
  BY <1>5, <1>7 DEF Entry
<1>12. S = {j \in Keys : m[j] # NoEntry} /\ S \in SUBSET Keys /\ S \subseteq st[g].todo /\ k \notin S
  BY <1>5, <1>8, <1>11
<1>13. PICK s : s = [st[g] EXCEPT !.todo = S, !.snap = m, !.acc = a]
  OBVIOUS
<1>14. st' = [st EXCEPT ![g] = s]
  <2>1. a = [st[g].acc EXCEPT ![k] = IF Holds(st[g].snap[k]) THEN p[st[g].snap[k]] ELSE Nil]
    BY <1>4, <1>6 DEF Worth
  <2>2. st \in [G -> Locals]
    BY DEF IInv, Structure, Types
  <2>3. s = [st[g] EXCEPT !.todo = st[g].todo \ {k}, !.snap = [st[g].snap EXCEPT ![k] = NoEntry],
                          !.acc = [st[g].acc EXCEPT ![k] = IF Holds(st[g].snap[k]) THEN p[st[g].snap[k]] ELSE Nil]]
    BY <1>7, <1>8, <1>13, <2>1
  <2> QED
    BY <1>1, <2>2, <2>3, Zenon DEF Locals
<1>15. /\ s.pc = "visit" /\ s.call = st[g].call /\ s.e = st[g].e /\ s.todo = S /\ s.snap = m
       /\ s.acc = a /\ s \in Locals
  BY <1>1, <1>3, <1>10, <1>11, <1>12, <1>13 DEF Locals, At
<1>16. st'[g] = s /\ Others(g) /\ st' \in [G -> Locals] /\ res' = res
  BY <1>2, <1>14, <1>15 DEF IInv, Structure, Types, Others
<1>17. Place(g)' /\ Handle(g)' /\ Holder(g)' /\ ~AddsKey(g)'
  <2>1. st'[g].todo = {j \in Keys : st'[g].snap[j] # NoEntry}
    BY <1>12, <1>15, <1>16
  <2>2. /\ st'[g].pc = "visit" /\ st'[g].call = st[g].call /\ st'[g].e = st[g].e
        /\ st'[g].acc \in [Keys -> Values \cup {Nil}]
    BY <1>10, <1>15, <1>16
  <2>3. Place(g)'
    BY <1>1, <1>2, <1>3, <2>1, <2>2 DEF Place, At, Locked
  <2> QED
    BY <2>2, <2>3 DEF Handle, Holder, AddsKey, At
<1>18. EntriesKept(g) /\ Content' = Content
  BY <1>2, <1>3, <1>16, <1>17, SameMaps DEF EntriesKept, IInv
<1>19. CallOf(g)' = CallOf(g)
  BY <1>1, <1>15, <1>16 DEF CallOf, At
<1>20. Recorded(g)'
  <2>1. seen'[g] = [j \in Keys |-> seen[g][j] \cup {Content'[j]}]
    BY <1>3, <1>19, SeenNow
  <2>2. /\ seen'[g] = [j \in Keys |-> seen'[g][j]]
        /\ \A j \in Keys : Content'[j] \in seen'[g][j] /\ seen[g][j] \subseteq seen'[g][j]
    BY <2>1
  <2>3. \A j \in Keys : IF j \in st[g].todo THEN Worth(st[g].snap[j]) \in seen[g][j]
                                            ELSE st[g].acc[j] \in seen[g][j]
    BY <1>1, <1>3 DEF Recorded
  <2>4. ASSUME NEW j \in Keys
        PROVE  IF j \in S THEN (Worth(st[g].snap[j]) \in seen[g][j])' ELSE a[j] \in seen'[g][j]
    <3>1. CASE j \in S
      <4>1. PICK d : d = st[g].snap[j]
        OBVIOUS
      <4>2. (Worth(st[g].snap[j]))' = Worth(d)
        BY <1>2, <1>11, <1>12, <1>15, <1>16, <3>1, <4>1 DEF Worth, Holds
      <4>3. Worth(d) \in seen[g][j]
        BY <1>12, <2>3, <3>1, <4>1
      <4> QED
        BY <2>2, <3>1, <4>2, <4>3
    <3>2. CASE j = k
      BY <1>1, <1>4, <1>10, <1>12, <2>2, <2>3, <3>2
    <3>3. CASE j \notin S /\ j # k
      BY <1>8, <1>10, <2>2, <2>3, <3>3
    <3> QED
      BY <3>1, <3>2, <3>3
  <2>5. res'[g] = None
    BY <1>3, <1>16 DEF Recorded
  <2> QED
    BY <1>1, <1>3, <1>15, <1>16, <2>2, <2>4, <2>5 DEF Recorded, At
<1>21. NoNewReference(g)
  <2>1. \A j \in Keys : m[j] # NoEntry => RefersTo(j, m[j])
    BY <1>11 DEF RefersTo
  <2> QED
    BY <1>1, <1>2, <1>15, <1>16, <2>1, MapsRefer DEF NoNewReference, At
<1> QED
  BY <1>2, <1>16, <1>17, <1>18, <1>19, <1>20, <1>21, MapTypes, MoveKeeps DEF MutexStep, OwnPart, IInv, Structure, Types

LEMMA EndRangeKeeps ==
  ASSUME IInv, NEW g \in G, EndRange(g), A!Witness(Content')
  PROVE  IInv' /\ A!Next
<1> DEFINE r == [vals |-> st[g].acc, loaded |-> FALSE]
<1>1. /\ At(g, "visit") /\ st[g].todo = {} /\ st' = [st EXCEPT ![g] = Idle]
      /\ res' = [res EXCEPT ![g] = r] /\ UNCHANGED <<mu, read, dirty, misses, p>>
  BY DEF EndRange, shared
<1>2. /\ CallOf(g) = [op |-> "Range"] /\ CallOf(g) # None /\ st[g].call = [op |-> "Range"]
      /\ A!KeysOf(st[g].call) = Keys
      /\ Place(g) /\ Recorded(g) /\ ~AddsKey(g) /\ mu # g
      /\ st[g].acc \in [Keys -> Values \cup {Nil}]
  BY <1>1, AtVisit
<1>3. r \in A!Answer /\ r # None /\ r.vals = st[g].acc /\ r.loaded = FALSE
  BY <1>2, AnswerType
<1> HIDE DEF r
<1>4. Others(g) /\ res'[g] = r /\ res' \in [G -> A!Answer \cup {None}]
  BY <1>1, <1>3, OthersStay DEF IInv, Structure, Types
<1>5. ~AddsKey(g)' /\ CallOf(g)' = None
  BY <1>1, <1>2, EndsCall DEF IInv
<1>6. EntriesKept(g) /\ Content' = Content
  BY <1>1, <1>2, <1>4, <1>5, SameMaps DEF EntriesKept, IInv
<1>7. ValueTypes'
  BY <1>1, <1>4 DEF ValueTypes, IInv, Structure, Types
<1>8. IInv'
  BY <1>1, <1>2, <1>6, <1>7, EndKeeps DEF MutexStep
<1>9. A!Reports(g, st[g].call, r)
  <2>1. \A k \in Keys : r.vals[k] \in seen[g][k]
    BY <1>1, <1>2, <1>3 DEF Recorded
  <2>2. st[g].call.op = "Range"
    BY <1>2
  <2> QED
    BY <1>2, <1>3, <2>1, <2>2 DEF A!Reports
<1>10. A!Next
  BY <1>1, <1>2, <1>4, <1>5, <1>6, <1>9, EffectStep
<1> QED
  BY <1>8, <1>10

----------------------------------------------------------------------------
(* The theorems.                                                           *)

LEMMA InitIInv == Init => IInv /\ A!Init
<1> SUFFICES ASSUME Init PROVE IInv /\ A!Init
  OBVIOUS
<1>1. /\ mu = None /\ read = [m |-> NoKeys, amended |-> FALSE] /\ dirty = NoMap /\ misses = 0
      /\ p = [e \in Entries |-> Nil] /\ st = [g \in G |-> Idle] /\ res = [g \in G |-> None]
      /\ seen = [g \in G |-> <<>>]
  BY DEF Init
<1>2. /\ read.m = NoKeys /\ ~read.amended /\ \A k \in Keys : read.m[k] = NoEntry
      /\ \A g \in G : /\ At(g, "idle") /\ st[g].call = None /\ st[g].e = NoEntry /\ st[g].snap = NoKeys
                      /\ st[g] = Idle
  BY <1>1 DEF NoKeys, Idle, At
<1>3. Types
  <2>1. 0 \in 0 .. Cardinality(Keys)
    BY SyncMapAssumption, FS_CardinalityType
  <2>2. Idle \in Locals /\ NoKeys \in [Keys -> Entry]
    BY IdleType
  <2> QED
    BY <1>1, <2>1, <2>2 DEF Types
<1>4. Places
  BY <1>1, <1>2, SyncMapAssumption DEF Places, Place, At, Locked
<1>5. Holders /\ Handles
  BY <1>2 DEF Holders, Holder, Handles, Handle, At
<1>6. Maps
  BY <1>1, <1>2 DEF Maps, InDirty
<1>7. Apart
  <2>1. \A e \in Entries, k \in Keys : ~RefersTo(k, e)
    BY <1>1, <1>2, SyncMapAssumption DEF RefersTo, NoKeys, At
  <2> QED
    BY <2>1 DEF Apart
<1>8. \A g \in G : CallOf(g) = None
  BY <1>2 DEF CallOf, At
<1>9. History
  BY <1>1, <1>8 DEF History
<1>10. Content = [k \in Keys |-> Nil]
  BY <1>2 DEF Content, EntryOf
<1> QED
  BY <1>1, <1>3, <1>4, <1>5, <1>6, <1>7, <1>8, <1>9, <1>10 DEF IInv, Structure, A!Init

LEMMA NextIInv ==
  ASSUME IInv, Next
  PROVE  IInv' /\ (A!Next \/ UNCHANGED A!vars)
<1>1. A!Witness(Content')
  BY DEF Next
<1>2. PICK g \in G : Step(g)
  BY DEF Next
<1>3. ASSUME At(g, "idle"), NEW c \in Calls, IF c.op = "Range" THEN StartRange(g) ELSE Start(g, c)
      PROVE  IInv' /\ A!Next
  <2>1. c \in A!Call
    BY SyncMapAssumption
  <2>2. CASE c.op = "Range"
    BY <1>1, <1>3, <2>2, StartRangeKeeps
  <2>3. CASE c.op # "Range"
    BY <1>1, <1>3, <2>1, <2>3, StartKeeps
  <2> QED
    BY <2>2, <2>3
<1>4. CASE LoadEntry(g)
  BY <1>1, <1>4, LoadEntryKeeps
<1>5. CASE LoadLocked(g)
  BY <1>1, <1>5, LoadLockedKeeps
<1>6. CASE Absent(g)
  BY <1>1, <1>6, AbsentKeeps
<1>7. CASE tryStore(g)
  BY <1>1, <1>7, tryStoreKeeps
<1>8. CASE tryLoadOrStore(g)
  BY <1>1, <1>8, tryLoadOrStoreKeeps
<1>9. CASE unexpungeLocked(g)
  BY <1>1, <1>9, unexpungeLockedKeeps
<1>10. CASE WriteLocked(g)
  BY <1>1, <1>10, WriteLockedKeeps
<1>11. CASE WriteDirty(g)
  BY <1>1, <1>11, WriteDirtyKeeps
<1>12. CASE CountMiss(g)
  BY <1>1, <1>12, CountMissKeeps
<1>13. CASE dirtyLocked(g)
  BY <1>1, <1>13, dirtyLockedKeeps
<1>14. CASE tryExpungeLocked(g)
  BY <1>1, <1>14, tryExpungeLockedKeeps
<1>15. CASE newEntry(g)
  BY <1>1, <1>15, newEntryKeeps
<1>16. CASE DeleteEntry(g)
  BY <1>1, <1>16, DeleteEntryKeeps
<1>17. CASE DeleteLocked(g)
  BY <1>1, <1>17, DeleteLockedKeeps
<1>18. CASE RangeLocked(g)
  BY <1>1, <1>18, RangeLockedKeeps
<1>19. CASE VisitKey(g)
  BY <1>1, <1>19, VisitKeyKeeps
<1>20. CASE EndRange(g)
  BY <1>1, <1>20, EndRangeKeeps
<1> QED
  BY <1>2, <1>3, <1>4, <1>5, <1>6, <1>7, <1>8, <1>9, <1>10, <1>11, <1>12, <1>13, <1>14, <1>15, <1>16,
     <1>17, <1>18, <1>19, <1>20, Zenon DEF Step

LEMMA StuttersKeep == IInv /\ UNCHANGED vars => IInv' /\ UNCHANGED A!vars
<1> SUFFICES ASSUME IInv, UNCHANGED <<mu, read, dirty, misses, p, st, res, seen>>
             PROVE  IInv' /\ UNCHANGED A!vars
  BY DEF vars
<1>1. Types'
  BY DEF IInv, Structure, Types
<1>2. Places' /\ Holders' /\ Handles'
  BY DEF IInv, Structure, Places, Place, Holders, Holder, Handles, Handle, At, Key
<1>3. Maps' /\ Apart'
  BY DEF IInv, Structure, Maps, Missing, Pending, InDirty, Apart, RefersTo, At, Key
<1>4. Content' = Content /\ \A g \in G : CallOf(g)' = CallOf(g)
  BY DEF Content, EntryOf, Holds, CallOf
<1>5. History'
  BY <1>4 DEF IInv, History, Recorded, At, Key, Worth, Holds
<1>6. CallMap' = CallMap
  BY <1>4 DEF CallMap
<1> QED
  BY <1>1, <1>2, <1>3, <1>4, <1>5, <1>6 DEF IInv, Structure, A!vars, CallMap

LEMMA IInvAlways == Spec => []IInv
<1>1. Init => IInv
  BY InitIInv
<1>2. IInv /\ [Next]_vars => IInv'
  BY NextIInv, StuttersKeep
<1> QED
  BY <1>1, <1>2, PTL DEF Spec

(* The maps are as the comments of map.go say (34-51, 73-92): m.dirty      *)
(* exists exactly when m.read is amended, an entry of m.read is expunged   *)
(* exactly when m.dirty lacks it, and otherwise the maps share entries.    *)
THEOREM Invariance == Spec => []MapInvariant
<1>1. ASSUME IInv PROVE MapInvariant
  <2>1. TypeOK
    BY <1>1, HeapIsEnough DEF IInv, Structure, Types, TypeOK, Entry
  <2>2. ASSUME Free PROVE \A g \in G : ~At(g, "addKey")
    BY <1>1, <2>2, SyncMapAssumption DEF Free, IInv, Structure, Places, Place, At, Locked
  <2>3. ASSUME Free
        PROVE  /\ read.amended <=> dirty # NoMap
               /\ \A k \in Keys : read.m[k] # NoEntry =>
                    (p[read.m[k]] = Expunged <=> dirty # NoMap /\ dirty[k] = NoEntry)
               /\ \A k \in Keys : read.m[k] # NoEntry /\ InDirty(k) => dirty[k] = read.m[k]
               /\ \A k \in Keys : InDirty(k) => p[dirty[k]] # Expunged
    <3>1. \A k \in Keys : ~Pending(k)
      BY <2>2, <2>3 DEF Pending
    <3> QED
      BY <1>1, <2>2, <2>3, <3>1 DEF IInv, Structure, Maps, Missing
  <2> QED
    BY <2>1, <2>3 DEF MapInvariant
<1> QED
  BY <1>1, IInvAlways, PTL

(* sync.Map is an atomic map (map.go:12-13): a Load, Store, LoadOrStore or *)
(* Delete takes effect at one instant between its start and its end, and   *)
(* a Range reports for every key a value it had meanwhile (301-308).       *)
THEOREM Atomic == Spec => ImplementsAtomicMap
<1>1. Init => A!Init
  BY InitIInv
<1>2. IInv /\ [Next]_vars => [A!Next]_(A!vars)
  BY NextIInv, StuttersKeep
<1> QED
  BY <1>1, <1>2, IInvAlways, PTL DEF Spec, ImplementsAtomicMap, A!Spec
=============================================================================
