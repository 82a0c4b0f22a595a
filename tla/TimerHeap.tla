------------------------------ MODULE TimerHeap ------------------------------
(***************************************************************************)
(* The heap of a timers bucket (runtime/time.go, siftupTimer and           *)
(* siftdownTimer): a 4-ary heap in an array of timers ordered by when,     *)
(* with the position of each timer kept in the timer itself.               *)
(*                                                                         *)
(* A heap is a record: t, the array (a function from 0..n-1 to timers),    *)
(* and i, the position that each timer has noted.  The sift loops move a   *)
(* hole: up[k] and down[k] are the positions it takes from k on, and       *)
(* Sifted moves the timers that lie on its way.                            *)
(***************************************************************************)
EXTENDS Integers, FiniteSets, FiniteSetsExt

CONSTANTS
  MaxHeap,   \* bound: the size of the heaps on which the operations are checked
  HeapTimes  \* bound: their deadlines

ASSUME TimerHeapAssumption == MaxHeap \in Nat /\ HeapTimes \subseteq Nat

Size(h) == Cardinality(DOMAIN h.t)
Parent(k) == (k - 1) \div 4
Children(k, n) == {c \in 4 * k + 1 .. 4 * k + 4 : c < n}

(* The child the code descends to: the leftmost of those with the least    *)
(* when.                                                                   *)
LeastChild(h, when, k) ==
  LET kids == Children(k, Size(h))
  IN  Min({c \in kids : \A d \in kids : when[h.t[c]] <= when[h.t[d]]})

RECURSIVE UpFrom(_, _, _, _), DownFrom(_, _, _, _)

(* The way of the hole up from k, for the timer x.                         *)
UpFrom(h, when, x, k) ==
  IF k = 0 \/ when[x] >= when[h.t[Parent(k)]] THEN {k}
  ELSE {k} \cup UpFrom(h, when, x, Parent(k))

(* The way of the hole down from k, for the timer x.                       *)
DownFrom(h, when, x, k) ==
  IF \/ Children(k, Size(h)) = {}
     \/ when[h.t[LeastChild(h, when, k)]] >= when[x] THEN {k}
  ELSE {k} \cup DownFrom(h, when, x, LeastChild(h, when, k))

(* Put x at the end of the way and shift the timers on it towards start.   *)
Sifted(h, x, way, end, from(_)) ==
  LET put == [k \in way |-> IF k = end THEN x ELSE h.t[from(k)]]
  IN  [t |-> [k \in DOMAIN h.t |-> IF k \in way THEN put[k] ELSE h.t[k]],
       i |-> [y \in DOMAIN h.i |-> IF Cardinality(way) > 1 /\ \E k \in way : put[k] = y
                                   THEN CHOOSE k \in way : put[k] = y ELSE h.i[y]]]

siftupTimer(h, when, k) ==
  LET way == UpFrom(h, when, h.t[k], k)
  IN  Sifted(h, h.t[k], way, Min(way), Parent)

siftdownTimer(h, when, k) ==
  LET way == DownFrom(h, when, h.t[k], k)
  IN  Sifted(h, h.t[k], way, Max(way), LAMBDA j : LeastChild(h, when, j))

----------------------------------------------------------------------------
(* addtimerLocked: append and sift up.                                     *)
Inserted(h, when, x) ==
  LET n == Size(h)
  IN  siftupTimer([t |-> [k \in 0..n |-> IF k = n THEN x ELSE h.t[k]],
                   i |-> [h.i EXCEPT ![x] = n]], when, n)

(* The last timer takes the place of the one at k, in a shorter array.     *)
LastMovedTo(h, k) ==
  LET last == Size(h) - 1
  IN  [t |-> [j \in 0..(last - 1) |-> IF j = k THEN h.t[last] ELSE h.t[j]],
       i |-> IF k = last THEN h.i ELSE [h.i EXCEPT ![h.t[last]] = k]]

(* Mutant: the moved timer can only go down.                               *)
DeletedNoUp(h, when, k) ==
  LET moved == LastMovedTo(h, k)
  IN  IF k = Size(h) - 1 THEN moved ELSE siftdownTimer(moved, when, k)

(* deltimer: from there it may have to go up as well as down.              *)
Deleted(h, when, k) ==
  LET moved == LastMovedTo(h, k)
  IN  IF k = Size(h) - 1 THEN moved
      ELSE siftdownTimer(siftupTimer(moved, when, k), when, k)

(* timerproc: take out the timer at the top, and mark it as removed.       *)
Popped(h, when) ==
  LET moved == LastMovedTo(h, 0)
      rest == IF Size(h) = 1 THEN moved ELSE siftdownTimer(moved, when, 0)
  IN  [rest EXCEPT !.i[h.t[0]] = -1]

(* deltimer: is the timer in the heap, where it says it is?                *)
Holds(h, x) == h.i[x] \in DOMAIN h.t /\ h.t[h.i[x]] = x
----------------------------------------------------------------------------
(* Timers are named by numbers: the heap of 0..n-1 in this order in the    *)
(* array, and a timer n that is outside.                                   *)
HeapOf(n) == [t |-> [k \in 0..(n - 1) |-> k], i |-> [x \in 0..n |-> IF x = n THEN -1 ELSE x]]
Ordered(h, when) == \A k \in DOMAIN h.t : k > 0 => when[h.t[Parent(k)]] <= when[h.t[k]]

(* In order, and every timer inside is in the array once and knows its     *)
(* place: deltimer finds it there, and finds no other (time.go:193-195).   *)
Keeps(h, when, inside) ==
  /\ Ordered(h, when)
  /\ Size(h) = Cardinality(inside)
  /\ \A x \in DOMAIN h.i : Holds(h, x) <=> x \in inside

(* Every operation of time.go, on every heap of up to MaxHeap timers with  *)
(* deadlines in HeapTimes: so the timer at the top, the only one timerproc *)
(* looks at, is the earliest.  Ten timers is the least with which a timer  *)
(* that was moved by deltimer has to go up.                                *)
OperationsKeepHeap ==
  \A n \in 0..MaxHeap : \A w \in [0..(n - 1) -> HeapTimes] :
    LET h == HeapOf(n)
        inside == 0..(n - 1)
    IN  Ordered(h, w) =>
          /\ \A d \in HeapTimes :
               LET v == [x \in 0..n |-> IF x = n THEN d ELSE w[x]]
               IN  Keeps(Inserted(h, v, n), v, 0..n)
          /\ \A k \in inside : Keeps(Deleted(h, w, k), w, inside \ {k})
          /\ n > 0 => Keeps(Popped(h, w), w, inside \ {0})
          /\ n > 0 => \A d \in {e \in HeapTimes : e > w[0]} :
               LET v == [w EXCEPT ![0] = d] IN Keeps(siftdownTimer(h, v, 0), v, inside)
=============================================================================
