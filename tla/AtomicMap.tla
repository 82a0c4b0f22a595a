------------------------------ MODULE AtomicMap ------------------------------
(***************************************************************************)
(* What sync.Map promises (sync/map.go:12-13, 301-308): a call of Load,    *)
(* Store, LoadOrStore or Delete takes effect at one instant between its    *)
(* start and its end; a Range reports, for each key, a value the key had   *)
(* at some instant of the call, and need not be a snapshot.                *)
(***************************************************************************)
CONSTANTS
  G,      \* the goroutines
  Keys,   \* the keys
  Values, \* the values
  Nil,    \* no value
  None    \* no call, no result

VARIABLES
  amap,  \* the map
  call,  \* the call a goroutine is in, or None
  seen,  \* per goroutine in a call and key of it: the values it had since the start
  res    \* the result of the last call, None before it takes effect

vars == <<amap, call, seen, res>>

Call ==
  [op : {"Load", "Delete"}, key : Keys] \cup [op : {"Range"}]
    \cup [op : {"Store", "LoadOrStore"}, key : Keys, val : Values]

KeysOf(c) == IF c.op = "Range" THEN Keys ELSE {c.key}

(* Every call that is under way sees what the map holds after the step.    *)
SeenBy(c, old, m) == [k \in KeysOf(c) |-> old[k] \cup {m[k]}]
Witness(m) ==
  seen' = [g \in G |-> IF call'[g] = None THEN <<>>
                       ELSE IF call[g] = None THEN [k \in KeysOf(call'[g]) |-> {m[k]}]
                       ELSE SeenBy(call[g], seen[g], m)]

Init ==
  /\ amap = [k \in Keys |-> Nil]
  /\ call = [g \in G |-> None]
  /\ seen = [g \in G |-> <<>>]
  /\ res = [g \in G |-> None]

Begin(g, c) ==
  /\ call[g] = None
  /\ call' = [call EXCEPT ![g] = c]
  /\ res' = [res EXCEPT ![g] = None]
  /\ UNCHANGED amap

(* A result gives a value for each key of the call (Nil where it returns   *)
(* none) and whether LoadOrStore loaded it.                                *)
Result(c, x, loaded) == [vals |-> [k \in KeysOf(c) |-> x], loaded |-> loaded]
Answer == [vals : UNION {[S -> Values \cup {Nil}] : S \in {Keys} \cup {{k} : k \in Keys}}, loaded : BOOLEAN]

(* A call that changes the map changes it now, and reports on it now.      *)
Changes(g, c) ==
  \/ /\ c.op = "Store"
     /\ amap' = [amap EXCEPT ![c.key] = c.val]
     /\ res' = [res EXCEPT ![g] = Result(c, Nil, FALSE)]
  \/ /\ c.op = "LoadOrStore" /\ amap[c.key] = Nil
     /\ amap' = [amap EXCEPT ![c.key] = c.val]
     /\ res' = [res EXCEPT ![g] = Result(c, c.val, FALSE)]
  \/ /\ c.op = "Delete"
     /\ amap' = [amap EXCEPT ![c.key] = Nil]
     /\ res' = [res EXCEPT ![g] = Result(c, Nil, FALSE)]

(* What a call that does not change the map may report: what was there at  *)
(* some instant of the call.                                               *)
Reports(g, c, r) ==
  /\ r # None
  /\ c.op # "Store"
  /\ \A k \in KeysOf(c) : r.vals[k] \in seen[g][k]
  /\ r.loaded = (c.op = "LoadOrStore")
  /\ c.op = "LoadOrStore" => r.vals[c.key] # Nil
  /\ c.op = "Delete" => r.vals[c.key] = Nil

TakeEffect(g) ==
  /\ call[g] # None
  /\ res[g] = None
  /\ \/ Changes(g, call[g])
     \/ /\ Reports(g, call[g], res'[g])
        /\ res' = [res EXCEPT ![g] = res'[g]]
        /\ UNCHANGED amap
  /\ call' \in {call, [call EXCEPT ![g] = None]}

(* A call may return some steps after it took effect.                      *)
Return(g) ==
  /\ call[g] # None
  /\ res[g] # None
  /\ call' = [call EXCEPT ![g] = None]
  /\ UNCHANGED <<amap, res>>

Next ==
  /\ \E g \in G : TakeEffect(g) \/ Return(g) \/ \E c \in Call : Begin(g, c)
  /\ Witness(amap')

Spec == Init /\ [][Next]_vars
=============================================================================
