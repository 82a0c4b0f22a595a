------------------------------ MODULE RunQueue ------------------------------
(***************************************************************************)
(* The run queues of runtime/proc.go (globrunqput to runqsteal): per P a   *)
(* ring with a head and a tail counter and the runnext slot, and the global*)
(* queue under sched.lock.  Only the owner of a P writes its ring and its  *)
(* tail; its head and runnext change by compare and swap of anybody.  A    *)
(* step is one access to shared memory; reads of what only the owner writes*)
(* are part of the owner's next step, a compare-and-swap loop on runnext is*)
(* the step that succeeds, and a critical section of sched.lock is one step*)
(* unless it puts goroutines on the P.  A goroutine taken from a queue runs*)
(* and may be readied again: both are its being in state waiting.          *)
(*                                                                         *)
(* Counters are taken modulo Wrap as 2^32 in the code.  MaxReady bounds how*)
(* far a head may advance and is below Wrap: a thief that sleeps while a   *)
(* head goes around by 2^32 exactly is left out.                           *)
(***************************************************************************)
EXTENDS Naturals, FiniteSets, SequencesExt

CONSTANTS
  P,       \* the Ps
  Gs,      \* the goroutines
  Makers,  \* the Ps that make goroutines runnable
  Len0,    \* len(p.runq), even
  Wrap,    \* the range of the counters, a multiple of Len0
  Start,   \* the heads when a behaviour starts,
  Filled,  \* and what the rings hold then: behaviours start after some runqputs
  MaxReady, \* bound: how often a goroutine is made runnable
  None

ASSUME RunQueueAssumption ==
  /\ Len0 \in Nat /\ Len0 % 2 = 0 /\ Len0 > 0
  /\ Wrap % Len0 = 0 /\ Start < Wrap
  /\ MaxReady \in Nat /\ MaxReady + Len0 < Wrap
  /\ \A p \in P : Filled[p] \in Seq(Gs) /\ Len(Filled[p]) <= Len0

VARIABLES
  ring,     \* p.runq
  head,     \* p.runqhead
  tail,     \* p.runqtail
  runnext,  \* p.runnext
  global,   \* the global queue
  lock,     \* sched.lock: the P whose M holds it across steps, or None
  op,       \* what the M of each P is doing, with its local variables
  runnable, \* history: the goroutines made runnable and not yet taken to run
  readied,  \* history: how often a goroutine was made runnable
  emptied   \* history: the runqempty under way has coincided with an empty queue

vars == <<ring, head, tail, runnext, global, lock, op, runnable, readied, emptied>>
queues == <<ring, head, tail, runnext, global, lock>>

Idle == [pc |-> "idle"]

Init ==
  /\ ring = [p \in P |-> [i \in 0 .. Len0 - 1 |->
               LET n == ((i + Wrap - Start) % Len0) + 1
               IN  IF n \in DOMAIN Filled[p] THEN Filled[p][n] ELSE None]]
  /\ head = [p \in P |-> Start]
  /\ tail = [p \in P |-> (Start + Len(Filled[p])) % Wrap]
  /\ runnext = [p \in P |-> None]
  /\ global = <<>>
  /\ lock = None
  /\ op = [p \in P |-> Idle]
  /\ runnable = UNION {ToSet(Filled[p]) : p \in P}
  /\ readied = 0
  /\ emptied = [p \in P |-> FALSE]

Plus(c, n) == (c + n) % Wrap
Minus(c, d) == (c + Wrap - d) % Wrap
Slot(c) == c % Len0
At(p, l) == op[p].pc = l
Become(p, r) == op' = [op EXCEPT ![p] = r]
AdvanceTail(p, n) == tail' = [tail EXCEPT ![p] = Plus(@, n)]

(* A goroutine that was waiting becomes runnable.                          *)
Ready(gp) ==
  /\ readied < MaxReady
  /\ gp \notin runnable
  /\ runnable' = runnable \cup {gp}
  /\ readied' = readied + 1

(* A goroutine that was taken to run is not runnable any more.             *)
Run(p, g) ==
  /\ runnable' = runnable \ {g}
  /\ Become(p, Idle)

----------------------------------------------------------------------------
(* runqput: with next, gp takes runnext and kicks out what was there.  The *)
(* goroutines in rest follow (globrunqget puts several).                   *)
Putting(gp, rest) == [pc |-> "put", gp |-> gp, rest |-> rest]

runqput(p, gp, next) ==
  /\ At(p, "idle")
  /\ Ready(gp)
  /\ IF next THEN /\ runnext' = [runnext EXCEPT ![p] = gp]
                  /\ Become(p, IF runnext[p] = None THEN Idle ELSE Putting(runnext[p], <<>>))
             ELSE Become(p, Putting(gp, <<>>)) /\ UNCHANGED runnext
  /\ UNCHANGED <<ring, head, tail, global, lock>>

(* Loads the head to see if there is room.                                 *)
PutLoad(p) ==
  /\ At(p, "put")
  /\ Become(p, [op[p] EXCEPT !.pc = IF Minus(tail[p], head[p]) < Len0 THEN "putSlot" ELSE "putSlow"]
                 @@ [h |-> head[p]])
  /\ UNCHANGED <<queues, runnable, readied>>

PutSlot(p) ==
  /\ At(p, "putSlot")
  /\ ring' = [ring EXCEPT ![p][Slot(tail[p])] = op[p].gp]
  /\ Become(p, [op[p] EXCEPT !.pc = "putTail"])
  /\ UNCHANGED <<head, tail, runnext, global, lock, runnable, readied>>

PutTail(p) ==
  LET rest == op[p].rest
  IN  /\ At(p, "putTail")
      /\ AdvanceTail(p, 1)
      /\ IF rest = <<>>
         THEN Become(p, Idle) /\ lock' = (IF lock = p THEN None ELSE lock)
         ELSE Become(p, Putting(Head(rest), Tail(rest))) /\ UNCHANGED lock
      /\ UNCHANGED <<ring, head, runnext, global, runnable, readied>>

Oldest(p, h, n) == [i \in 1 .. n |-> ring[p][Slot(h + i - 1)]]

(* Mutant: the older half is moved without checking that it is still there.*)
runqputslowNoCas(p) ==
  LET h == op[p].h
      n == Minus(tail[p], h) \div 2
  IN  /\ At(p, "putSlow")
      /\ head' = [head EXCEPT ![p] = Plus(h, n)]
      /\ Become(p, [op[p] EXCEPT !.pc = "putGlobal"] @@ [batch |-> Append(Oldest(p, h, n), op[p].gp)])
      /\ UNCHANGED <<ring, tail, runnext, global, lock, runnable, readied>>

(* runqputslow: half of the queue and gp move to the global queue, unless  *)
(* the head has moved meanwhile.                                           *)
runqputslow(p) ==
  LET h == op[p].h
      n == Minus(tail[p], h) \div 2
  IN  /\ At(p, "putSlow")
      /\ IF head[p] = h
         THEN /\ head' = [head EXCEPT ![p] = Plus(h, n)]
              /\ Become(p, [op[p] EXCEPT !.pc = "putGlobal"]
                             @@ [batch |-> Append(Oldest(p, h, n), op[p].gp)])
         ELSE Become(p, Putting(op[p].gp, op[p].rest)) /\ UNCHANGED head
      /\ UNCHANGED <<ring, tail, runnext, global, lock, runnable, readied>>

globrunqputbatch(p) ==
  /\ At(p, "putGlobal")
  /\ lock = None
  /\ global' = global \o op[p].batch
  /\ Become(p, Idle)
  /\ UNCHANGED <<ring, head, tail, runnext, lock, runnable, readied>>

----------------------------------------------------------------------------
(* runqget: runnext first, then the head of the ring.                      *)
runqget(p) ==
  /\ At(p, "idle")
  /\ IF runnext[p] # None
     THEN runnext' = [runnext EXCEPT ![p] = None] /\ Run(p, runnext[p])
     ELSE Become(p, [pc |-> "get"]) /\ UNCHANGED <<runnext, runnable>>
  /\ UNCHANGED <<ring, head, tail, global, lock, readied>>

GetLoad(p) ==
  /\ At(p, "get")
  /\ Become(p, IF head[p] = tail[p] THEN [pc |-> "none"]
               ELSE [pc |-> "getCas", h |-> head[p], gp |-> ring[p][Slot(head[p])]])
  /\ UNCHANGED <<queues, runnable, readied>>

GetCas(p) ==
  /\ At(p, "getCas")
  /\ IF head[p] = op[p].h
     THEN head' = [head EXCEPT ![p] = Plus(@, 1)] /\ Run(p, op[p].gp)
     ELSE Become(p, [pc |-> "get"]) /\ UNCHANGED <<head, runnable>>
  /\ UNCHANGED <<ring, tail, runnext, global, lock, readied>>

(* With nothing on the P, findrunnable looks further (globrunqget,         *)
(* runqsteal, runqempty of another P) or gives up.                         *)
GiveUp(p) ==
  /\ At(p, "none")
  /\ Become(p, Idle)
  /\ UNCHANGED <<queues, runnable, readied>>

(* globrunqget(p, 0): the first of a share of the global queue runs, the   *)
(* others go to the ring while sched.lock is held.                         *)
LeastOf(S) == CHOOSE x \in S : \A y \in S : x <= y
globrunqget(p) ==
  LET size == Len(global)
      n == LeastOf({(size \div Cardinality(P)) + 1, size, Len0 \div 2})
      rest == SubSeq(global, 2, n)
  IN  /\ At(p, "none")
      /\ lock = None
      /\ size > 0
      /\ global' = SubSeq(global, n + 1, size)
      /\ runnable' = runnable \ {global[1]}
      /\ IF rest = <<>> THEN Become(p, Idle) /\ UNCHANGED lock
                        ELSE Become(p, Putting(Head(rest), Tail(rest))) /\ lock' = p
      /\ UNCHANGED <<ring, head, tail, runnext, readied>>

(* schedule takes one from time to time while the P has work;              *)
(* goschedImpl puts the running goroutine there.                           *)
globrunqget1(p) ==
  /\ At(p, "idle")
  /\ lock = None
  /\ global # <<>>
  /\ global' = Tail(global)
  /\ Run(p, Head(global))
  /\ UNCHANGED <<ring, head, tail, runnext, lock, readied>>

globrunqput(p, gp) ==
  /\ At(p, "idle")
  /\ lock = None
  /\ Ready(gp)
  /\ global' = Append(global, gp)
  /\ UNCHANGED <<ring, head, tail, runnext, lock, op>>

----------------------------------------------------------------------------
(* runqsteal(p, q, stealRunNextG): runqgrab copies half of the queue of q  *)
(* behind the tail of p and then moves the head of q.                      *)
Grab(q, s) == [pc |-> "grab", q |-> q, next |-> s]

runqsteal(p, q, s) ==
  /\ At(p, "none")
  /\ Become(p, Grab(q, s))
  /\ UNCHANGED <<queues, runnable, readied>>

GrabHead(p) ==
  /\ At(p, "grab")
  /\ Become(p, [op[p] EXCEPT !.pc = "grabTail"] @@ [h |-> head[op[p].q]])
  /\ UNCHANGED <<queues, runnable, readied>>

(* Half of the queue, rounded up; a head and a tail that do not fit        *)
(* together are loaded again.                                              *)
GrabTail(p) ==
  LET q == op[p].q
      n == Minus(tail[q], op[p].h) - Minus(tail[q], op[p].h) \div 2
  IN  /\ At(p, "grabTail")
      /\ Become(p, IF n > Len0 \div 2 THEN Grab(q, op[p].next)
                   ELSE IF n > 0 THEN [op[p] EXCEPT !.pc = "copy"] @@ [n |-> n, i |-> 0]
                   ELSE IF op[p].next THEN [op[p] EXCEPT !.pc = "grabNext"]
                   ELSE [pc |-> "none"])
      /\ UNCHANGED <<queues, runnable, readied>>

(* With an empty ring the thief loads runnext, waits a little if q is      *)
(* running, and takes it if it is still the same.                          *)
GrabNext(p) ==
  /\ At(p, "grabNext")
  /\ Become(p, IF runnext[op[p].q] = None THEN [pc |-> "none"]
               ELSE [op[p] EXCEPT !.pc = "grabNextCas"] @@ [gp |-> runnext[op[p].q]])
  /\ UNCHANGED <<queues, runnable, readied>>

GrabNextCas(p) ==
  LET q == op[p].q
  IN  /\ At(p, "grabNextCas")
      /\ IF runnext[q] = op[p].gp
         THEN /\ runnext' = [runnext EXCEPT ![q] = None]
              /\ ring' = [ring EXCEPT ![p][Slot(tail[p])] = op[p].gp]
              /\ Become(p, [pc |-> "publish", n |-> 1])
         ELSE Become(p, Grab(q, op[p].next)) /\ UNCHANGED <<runnext, ring>>
      /\ UNCHANGED <<head, tail, global, lock, runnable, readied>>

GrabCopy(p) ==
  LET q == op[p].q
      i == op[p].i
  IN  /\ At(p, "copy")
      /\ ring' = [ring EXCEPT ![p][Slot(tail[p] + i)] = ring[q][Slot(op[p].h + i)]]
      /\ Become(p, [op[p] EXCEPT !.i = i + 1, !.pc = IF i + 1 = op[p].n THEN "grabCas" ELSE "copy"])
      /\ UNCHANGED <<head, tail, runnext, global, lock, runnable, readied>>

GrabCas(p) ==
  LET q == op[p].q
  IN  /\ At(p, "grabCas")
      /\ IF head[q] = op[p].h
         THEN /\ head' = [head EXCEPT ![q] = Plus(@, op[p].n)]
              /\ Become(p, [pc |-> "publish", n |-> op[p].n])
         ELSE Become(p, Grab(q, op[p].next)) /\ UNCHANGED head
      /\ UNCHANGED <<ring, tail, runnext, global, lock, runnable, readied>>

(* The last stolen goroutine runs, the others become visible.              *)
StealPublish(p) ==
  LET n == op[p].n - 1
  IN  /\ At(p, "publish")
      /\ Run(p, ring[p][Slot(tail[p] + n)])
      /\ AdvanceTail(p, n)
      /\ UNCHANGED <<ring, head, runnext, global, lock, readied>>

----------------------------------------------------------------------------
(* runqempty(q) by another M: head, tail, runnext, and the tail again.     *)
Checking(q) == [pc |-> "emptyHead", q |-> q]

runqempty(p, q) ==
  /\ At(p, "none")
  /\ Become(p, Checking(q))
  /\ UNCHANGED <<queues, runnable, readied>>

EmptyHead(p) ==
  /\ At(p, "emptyHead")
  /\ Become(p, [op[p] EXCEPT !.pc = "emptyTail"] @@ [h |-> head[op[p].q]])
  /\ UNCHANGED <<queues, runnable, readied>>

EmptyTail(p) ==
  /\ At(p, "emptyTail")
  /\ Become(p, [op[p] EXCEPT !.pc = "emptyNext"] @@ [t |-> tail[op[p].q]])
  /\ UNCHANGED <<queues, runnable, readied>>

EmptyNext(p) ==
  /\ At(p, "emptyNext")
  /\ Become(p, [op[p] EXCEPT !.pc = "emptyTest"] @@ [next |-> runnext[op[p].q]])
  /\ UNCHANGED <<queues, runnable, readied>>

Looks(p) == op[p].h = op[p].t /\ op[p].next = None

(* Mutant: the tail is not loaded a second time.                           *)
EmptyTestOnce(p) ==
  /\ At(p, "emptyTest")
  /\ Become(p, IF Looks(p) THEN [op[p] EXCEPT !.pc = "isEmpty"] ELSE Idle)
  /\ UNCHANGED <<queues, runnable, readied>>

EmptyTest(p) ==
  /\ At(p, "emptyTest")
  /\ Become(p, IF op[p].t # tail[op[p].q] THEN Checking(op[p].q)
               ELSE IF Looks(p) THEN [op[p] EXCEPT !.pc = "isEmpty"] ELSE Idle)
  /\ UNCHANGED <<queues, runnable, readied>>

EmptyDone(p) ==
  /\ At(p, "isEmpty")
  /\ Become(p, Idle)
  /\ UNCHANGED <<queues, runnable, readied>>

----------------------------------------------------------------------------
Step(p) ==
  \/ p \in Makers /\ \E g \in Gs : globrunqput(p, g) \/ \E next \in BOOLEAN : runqput(p, g, next)
  \/ PutLoad(p) \/ PutSlot(p) \/ PutTail(p) \/ runqputslow(p) \/ globrunqputbatch(p)
  \/ runqget(p) \/ GetLoad(p) \/ GetCas(p) \/ GiveUp(p) \/ globrunqget(p) \/ globrunqget1(p)
  \/ \E q \in P \ {p} : runqempty(p, q) \/ \E s \in BOOLEAN : runqsteal(p, q, s)
  \/ GrabHead(p) \/ GrabTail(p) \/ GrabNext(p) \/ GrabNextCas(p) \/ GrabCopy(p) \/ GrabCas(p)
  \/ StealPublish(p)
  \/ EmptyHead(p) \/ EmptyTail(p) \/ EmptyNext(p) \/ EmptyTest(p) \/ EmptyDone(p)

EmptyNow(q) == head[q] = tail[q] /\ runnext[q] = None
Checks(p) == op[p].pc \in {"emptyHead", "emptyTail", "emptyNext", "emptyTest", "isEmpty"}
Witness ==
  emptied' = [p \in P |-> Checks(p)' /\ ((Checks(p) /\ emptied[p]) \/ EmptyNow(op[p].q)')]

Next == (\E p \in P : Step(p)) /\ Witness

Spec == Init /\ [][Next]_vars

----------------------------------------------------------------------------
(* Where goroutine g is to be found: the published part of a ring, runnext,*)
(* the global queue, the hands of an M that puts it, and the part of a ring*)
(* that a thief has taken and not yet published.                           *)
Span(p, c, n, g) == Cardinality({i \in 0 .. n - 1 : ring[p][Slot(c + i)] = g})
InSeq(s, g) == Cardinality({i \in DOMAIN s : s[i] = g})
InHands(p, g) ==
  CASE op[p].pc \in {"put", "putSlot", "putTail", "putSlow"} -> InSeq(<<op[p].gp>> \o op[p].rest, g)
    [] At(p, "putGlobal") -> InSeq(op[p].batch \o op[p].rest, g)
    [] At(p, "publish")   -> Span(p, tail[p], op[p].n, g)
    [] OTHER              -> 0
Copies(g) ==
  InSeq(global, g) + FoldFunction(+, 0, [p \in P |->
    Span(p, head[p], Minus(tail[p], head[p]), g) + InHands(p, g) + (IF runnext[p] = g THEN 1 ELSE 0)])

(* The throws of the code, and sched.lock taken twice by one M: a P that   *)
(* gets goroutines under sched.lock never needs the global queue for them. *)
NeverThrows ==
  \A p \in P :
    /\ At(p, "putSlow") => Minus(tail[p], op[p].h) = Len0
    /\ At(p, "putGlobal") => lock # p
    /\ At(p, "publish") => Minus(tail[p], head[p]) + op[p].n <= Len0

(* However puts, gets and steals interleave, a goroutine made runnable is  *)
(* in one place until it is taken to run, and then in none: none is lost   *)
(* and none runs twice.                                                    *)
EachOnce ==
  /\ NeverThrows
  /\ \A g \in Gs : Copies(g) = IF g \in runnable THEN 1 ELSE 0

(* "It never returns true spuriously" (proc.go:4767): when runqempty says  *)
(* that a P has nothing, this was so at some instant of the call.          *)
EmptyWasEmpty == \A p \in P : At(p, "isEmpty") => emptied[p]
=============================================================================
