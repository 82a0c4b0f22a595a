-------------------------------- MODULE Chan --------------------------------
(***************************************************************************)
(* Channels and select (runtime/chan.go, runtime/select.go).               *)
(*                                                                         *)
(* An operation is a set of cases <<channel, direction>>: one case for     *)
(* chansend and chanrecv, several for selectgo.  kind says whether it      *)
(* blocks ("block"), does not ("try": selectnbsend and selectnbrecv for    *)
(* one case, a select with default for several), or closes a channel.      *)
(* Cases on nil channels drop out of a select and are left out here, as    *)
(* are two equal cases of one select.                                      *)
(*                                                                         *)
(* A sudog is named by its goroutine: a waitq is a sequence of goroutines. *)
(* What is done under the locks of all channels of an operation is one     *)
(* step, but closechan, whose store to closed and whose draining of the    *)
(* queues, one sudog after the other, are seen apart by the unlocked reads *)
(* of the fast paths.  An operation on one channel locks and unlocks       *)
(* within that step; a select takes its locks one by one, in the order of  *)
(* the channels' addresses.                                                *)
(***************************************************************************)
EXTENDS Integers, Sequences, FiniteSets, SequencesExt, FiniteSetsExt

CONSTANTS
  G,        \* the goroutines; a goroutine sends its own name
  Chan,     \* the channels, as their addresses (sortkey)
  Cap,      \* dataqsiz of each
  None,     \* no value, no goroutine
  Programs  \* bound: sets of operations; in one execution the goroutines
            \* perform operations of one of them

Case == Chan \X {"send", "recv"}

ASSUME ChanAssumption ==
  /\ Chan \subseteq Nat /\ IsFiniteSet(Chan) /\ Cap \in [Chan -> Nat]
  /\ None \notin G
  /\ None \notin [case : Case \cup {<<None, "none">>}, val : G \cup {None}, ok : BOOLEAN]
  /\ \A o \in UNION Programs :
       \/ o.kind \in {"block", "try"} /\ o.cases \in (SUBSET Case) \ {{}}
       \/ o.kind = "close" /\ \E c \in Chan : o.cases = {<<c, "close">>}

VARIABLES
  ops,                         \* the program: the operations goroutines perform
  ring, sendx, recvx, qcount,  \* c.buf, c.sendx, c.recvx, c.qcount
  closed,                      \* c.closed
  sendq, recvq,                \* c.sendq, c.recvq
  lock,                        \* c.lock: its holder, or None
  pc,                          \* where a goroutine is in its operation
  op,                          \* its operation: kind and cases
  selectDone,                  \* gp.selectDone
  param,                       \* gp.param: the case that was served, or NoCase
  elem,                        \* what was received
  todo,                        \* goroutines to ready after unlock, with their param
  res,                         \* the result, when it is done
  blocked                      \* history: "try" operations that were seen to be
                               \* impossible on an open channel since their call

chanVars == <<ring, sendx, recvx, qcount, closed, sendq, recvq>>
gVars == <<pc, op, selectDone, param, elem, todo, res>>
vars == <<ops, chanVars, lock, gVars, blocked>>

NoCase == <<None, "none">>
NoOp == [kind |-> "none", cases |-> {}]
Result(case, val, ok) == [case |-> case, val |-> val, ok |-> ok]
Fail == Result(NoCase, None, FALSE)

Init ==
  /\ ops \in Programs
  /\ ring = [c \in Chan |-> [i \in 0..(Cap[c] - 1) |-> None]]
  /\ sendx = [c \in Chan |-> 0] /\ recvx = [c \in Chan |-> 0]
  /\ qcount = [c \in Chan |-> 0]
  /\ closed = [c \in Chan |-> FALSE]
  /\ sendq = [c \in Chan |-> <<>>] /\ recvq = [c \in Chan |-> <<>>]
  /\ lock = [c \in Chan |-> None]
  /\ pc = [g \in G |-> "idle"]
  /\ op = [g \in G |-> NoOp]
  /\ selectDone = [g \in G |-> 0]
  /\ param = [g \in G |-> NoCase]
  /\ elem = [g \in G |-> None]
  /\ todo = [g \in G |-> <<>>]
  /\ res = [g \in G |-> Fail]
  /\ blocked = {}

At(g, l) == pc[g] = l
Goto(g, l) == pc' = [pc EXCEPT ![g] = l]
ChansOf(g) == {cs[1] : cs \in op[g].cases}
IsSelect(g) == Cardinality(op[g].cases) > 1
Finish(g, r) == Goto(g, "done") /\ res' = [res EXCEPT ![g] = r]

----------------------------------------------------------------------------
(* waitq.dequeue: the first sudog that is not a select served already on   *)
(* another channel; those in front of it are dropped.                      *)
Live(g) == IsSelect(g) => selectDone[g] = 0
LiveIn(q) == \E i \in DOMAIN q : Live(q[i])
FirstLive(q) == SelectInSeq(q, Live)
Dequeued(q) == q[FirstLive(q)]
Rest(q) == SubSeq(q, FirstLive(q) + 1, Len(q))
ClaimSelect(h) ==
  selectDone' = IF IsSelect(h) THEN [selectDone EXCEPT ![h] = 1] ELSE selectDone

Next1(c, i) == IF i + 1 = Cap[c] THEN 0 ELSE i + 1

(* Can the case be served, under the lock of its channel?                  *)
Possible(c, dir) ==
  IF dir = "send" THEN closed[c] \/ LiveIn(recvq[c]) \/ qcount[c] < Cap[c]
                  ELSE closed[c] \/ LiveIn(sendq[c]) \/ qcount[c] > 0

(* Mutant: dequeue leaves the sudogs of finished selects.                  *)
SweptNot(q, dir, polled) == q

(* Cases that were polled in vain have had their queues dequeued to the    *)
(* end.                                                                    *)
Swept(q, dir, polled) == [c \in Chan |-> IF <<c, dir>> \in polled THEN <<>> ELSE q[c]]

----------------------------------------------------------------------------
Call(g, o) ==
  /\ At(g, "idle")
  /\ op' = [op EXCEPT ![g] = o]
  /\ Goto(g, IF o.kind = "try" /\ Cardinality(o.cases) = 1 THEN "look"
             ELSE IF o.kind = "close" THEN "close" ELSE "lock")
  /\ UNCHANGED <<chanVars, lock, selectDone, param, elem, todo, res>>

Return(g) ==
  /\ At(g, "done")
  /\ Goto(g, "idle")
  /\ op' = [op EXCEPT ![g] = NoOp]
  /\ elem' = [elem EXCEPT ![g] = None]
  /\ res' = [res EXCEPT ![g] = Fail]
  /\ UNCHANGED <<chanVars, lock, selectDone, param, todo>>

(* The fast path of an operation that does not block, without the lock:    *)
(* two reads, of closed and then of the queue or the count for a send, the *)
(* other way round for a receive.                                          *)
LooksBusy(c, dir) ==
  IF dir = "send"
  THEN IF Cap[c] = 0 THEN recvq[c] = <<>> ELSE qcount[c] = Cap[c]
  ELSE IF Cap[c] = 0 THEN sendq[c] = <<>> ELSE qcount[c] = 0

(* Mutant: a receive too reads closed before the queue.                    *)
ClosedFirstAlways(dir) == TRUE

ClosedFirst(dir) == dir = "send"

Look(g) ==
  /\ At(g, "look")
  /\ \E cs \in op[g].cases :
       Goto(g, IF (IF ClosedFirst(cs[2]) THEN ~closed[cs[1]] ELSE LooksBusy(cs[1], cs[2]))
               THEN "look2" ELSE "lock")
  /\ UNCHANGED <<chanVars, lock, op, selectDone, param, elem, todo, res>>

Look2(g) ==
  /\ At(g, "look2")
  /\ \E cs \in op[g].cases :
       IF (IF ClosedFirst(cs[2]) THEN LooksBusy(cs[1], cs[2]) ELSE ~closed[cs[1]])
       THEN Finish(g, Fail)
       ELSE Goto(g, "lock") /\ UNCHANGED res
  /\ UNCHANGED <<chanVars, lock, op, selectDone, param, elem, todo>>

----------------------------------------------------------------------------
(* Mutant: the locks are taken in any order.                               *)
SelLockAnyOrder(g) ==
  /\ pc[g] \in {"lock", "relock"}
  /\ IsSelect(g)
  /\ \E c \in ChansOf(g) :
       /\ lock[c] = None
       /\ lock' = [lock EXCEPT ![c] = g]
       /\ IF \A d \in ChansOf(g) : lock'[d] = g
          THEN Goto(g, IF At(g, "lock") THEN "poll" ELSE "pass3") ELSE UNCHANGED pc
  /\ UNCHANGED <<chanVars, op, selectDone, param, elem, todo, res>>

(* sellock: the lock of the next channel in the order of addresses.        *)
SelLock(g) ==
  /\ pc[g] \in {"lock", "relock"}
  /\ IsSelect(g)
  /\ \E c \in ChansOf(g) :
       /\ lock[c] = None
       /\ \A d \in ChansOf(g) : lock[d] = g <=> d < c
       /\ lock' = [lock EXCEPT ![c] = g]
       /\ IF \A d \in ChansOf(g) : d <= c THEN Goto(g, IF At(g, "lock") THEN "poll" ELSE "pass3")
          ELSE UNCHANGED pc
  /\ UNCHANGED <<chanVars, op, selectDone, param, elem, todo, res>>

(* An operation on one channel takes its lock here and drops it in the     *)
(* same step; a select has all its locks.                                  *)
Polling(g) ==
  \/ pc[g] \in {"poll", "again"}
  \/ At(g, "lock") /\ ~IsSelect(g) /\ \A c \in ChansOf(g) : lock[c] = None
Unlock(g) == lock' = [c \in Chan |-> IF lock[c] = g THEN None ELSE lock[c]]

(* g serves its own case and that of a goroutine asleep: ready it after    *)
(* unlock.                                                                 *)
ServeBoth(g, case, val, h, hcase) ==
  /\ ClaimSelect(h)
  /\ todo' = [todo EXCEPT ![g] = <<[g |-> h, param |-> hcase]>>]
  /\ res' = [res EXCEPT ![g] = Result(case, val, TRUE)]
  /\ Goto(g, "ready")

ServeOwn(g, case, val, ok) ==
  /\ Finish(g, Result(case, val, ok))
  /\ UNCHANGED <<selectDone, todo>>

SendCase(g, c, polled) ==
  /\ ~closed[c]
  /\ \/ /\ LiveIn(recvq[c])
        /\ LET h == Dequeued(recvq[c])
           IN  /\ ServeBoth(g, <<c, "send">>, None, h, <<c, "recv">>)
               /\ elem' = [elem EXCEPT ![h] = g]
        /\ recvq' = [Swept(recvq, "send", polled) EXCEPT ![c] = Rest(recvq[c])]
        /\ UNCHANGED <<ring, sendx, qcount>>
     \/ /\ ~LiveIn(recvq[c]) /\ qcount[c] < Cap[c]
        /\ ServeOwn(g, <<c, "send">>, None, TRUE)
        /\ recvq' = Swept(recvq, "send", polled \cup {<<c, "send">>})
        /\ ring' = [ring EXCEPT ![c][sendx[c]] = g]
        /\ sendx' = [sendx EXCEPT ![c] = Next1(c, @)]
        /\ qcount' = [qcount EXCEPT ![c] = @ + 1]
        /\ UNCHANGED elem
  /\ sendq' = Swept(sendq, "recv", polled)
  /\ UNCHANGED recvx

(* Mutant: the value of a waiting sender overtakes those in the buffer.    *)
RecvCaseOvertakes(g, c, polled) ==
  /\ \/ /\ LiveIn(sendq[c])
        /\ LET h == Dequeued(sendq[c]) IN ServeBoth(g, <<c, "recv">>, h, h, <<c, "send">>)
        /\ sendq' = [Swept(sendq, "recv", polled) EXCEPT ![c] = Rest(sendq[c])]
        /\ UNCHANGED <<ring, recvx, sendx, qcount>>
     \/ /\ ~LiveIn(sendq[c]) /\ qcount[c] > 0
        /\ ServeOwn(g, <<c, "recv">>, ring[c][recvx[c]], TRUE)
        /\ sendq' = Swept(sendq, "recv", polled \cup {<<c, "recv">>})
        /\ ring' = [ring EXCEPT ![c][recvx[c]] = None]
        /\ recvx' = [recvx EXCEPT ![c] = Next1(c, @)]
        /\ qcount' = [qcount EXCEPT ![c] = @ - 1]
        /\ UNCHANGED sendx
  /\ recvq' = Swept(recvq, "send", polled)
  /\ UNCHANGED elem

(* A waiting sender hands its value over, or, if the buffer is full, puts  *)
(* it into the slot that this receive empties.                             *)
RecvCase(g, c, polled) ==
  /\ \/ /\ LiveIn(sendq[c])
        /\ LET h == Dequeued(sendq[c])
               val == IF Cap[c] = 0 THEN h ELSE ring[c][recvx[c]]
           IN  /\ ServeBoth(g, <<c, "recv">>, val, h, <<c, "send">>)
               /\ IF Cap[c] = 0 THEN UNCHANGED <<ring, recvx, sendx>>
                  ELSE /\ ring' = [ring EXCEPT ![c][recvx[c]] = h]
                       /\ recvx' = [recvx EXCEPT ![c] = Next1(c, @)]
                       /\ sendx' = [sendx EXCEPT ![c] = recvx'[c]]
        /\ sendq' = [Swept(sendq, "recv", polled) EXCEPT ![c] = Rest(sendq[c])]
        /\ UNCHANGED qcount
     \/ /\ ~LiveIn(sendq[c]) /\ qcount[c] > 0
        /\ ServeOwn(g, <<c, "recv">>, ring[c][recvx[c]], TRUE)
        /\ sendq' = Swept(sendq, "recv", polled \cup {<<c, "recv">>})
        /\ ring' = [ring EXCEPT ![c][recvx[c]] = None]
        /\ recvx' = [recvx EXCEPT ![c] = Next1(c, @)]
        /\ qcount' = [qcount EXCEPT ![c] = @ - 1]
        /\ UNCHANGED sendx
  /\ recvq' = Swept(recvq, "send", polled)
  /\ UNCHANGED elem

(* On a closed channel: a receive from the empty buffer, or a send (panic).*)
ClosedCase(g, c, dir, polled) ==
  /\ closed[c]
  /\ dir = "recv" => ~LiveIn(sendq[c]) /\ qcount[c] = 0
  /\ ServeOwn(g, <<c, dir>>, None, FALSE)
  /\ sendq' = Swept(sendq, "recv", polled \cup (IF dir = "recv" THEN {<<c, dir>>} ELSE {}))
  /\ recvq' = Swept(recvq, "send", polled)
  /\ UNCHANGED <<ring, sendx, recvx, qcount, elem>>

(* Pass 1: the cases are polled in random order up to the first that can   *)
(* be served.                                                              *)
Serve(g) ==
  /\ Polling(g)
  /\ \E cs \in op[g].cases :
       /\ Possible(cs[1], cs[2])
       /\ \E polled \in SUBSET {x \in op[g].cases : ~Possible(x[1], x[2])} :
            \/ cs[2] = "send" /\ SendCase(g, cs[1], polled)
            \/ cs[2] = "recv" /\ RecvCase(g, cs[1], polled)
            \/ ClosedCase(g, cs[1], cs[2], polled)
  /\ Unlock(g)
  /\ UNCHANGED <<closed, op, param>>

NothingPossible(g) ==
  Polling(g) /\ \A cs \in op[g].cases : ~Possible(cs[1], cs[2])

(* The default case.                                                       *)
GiveUp(g) ==
  /\ NothingPossible(g)
  /\ op[g].kind = "try"
  /\ sendq' = Swept(sendq, "recv", op[g].cases)
  /\ recvq' = Swept(recvq, "send", op[g].cases)
  /\ Finish(g, Fail)
  /\ Unlock(g)
  /\ UNCHANGED <<ring, sendx, recvx, qcount, closed, op, selectDone, param, elem, todo>>

(* Pass 2: enqueue on all channels, park, and unlock.                      *)
Joined(q, opposite, dir, g) ==
  [c \in Chan |-> IF <<c, dir>> \in op[g].cases
                  THEN Append(Swept(q, opposite, op[g].cases)[c], g)
                  ELSE Swept(q, opposite, op[g].cases)[c]]

Park(g) ==
  /\ NothingPossible(g)
  /\ op[g].kind = "block"
  /\ sendq' = Joined(sendq, "recv", "send", g)
  /\ recvq' = Joined(recvq, "send", "recv", g)
  /\ param' = [param EXCEPT ![g] = NoCase]
  /\ Goto(g, "parked")
  /\ Unlock(g)
  /\ UNCHANGED <<ring, sendx, recvx, qcount, closed, op, selectDone, elem, todo, res>>

----------------------------------------------------------------------------
(* goready of the next goroutine, after unlock.                            *)
Ready(g) ==
  /\ At(g, "ready")
  /\ LET w == Head(todo[g])
     IN  /\ param' = [param EXCEPT ![w.g] = w.param]
         /\ pc' = [pc EXCEPT ![w.g] = "woken",
                             ![g] = IF Len(todo[g]) = 1 THEN "done" ELSE "ready"]
  /\ todo' = [todo EXCEPT ![g] = Tail(@)]
  /\ UNCHANGED <<chanVars, lock, op, selectDone, elem, res>>

(* chansend and chanrecv after the sleep: no param means closed.  A send   *)
(* then panics (and throws "spurious wakeup" if the channel is open).      *)
Woken(g) ==
  /\ At(g, "woken")
  /\ \E cs \in op[g].cases :
       IF IsSelect(g) THEN Goto(g, "relock") /\ UNCHANGED <<res, param>>
       ELSE /\ param' = [param EXCEPT ![g] = NoCase]
            /\ IF param[g] = NoCase /\ cs[2] = "send" /\ ~closed[cs[1]]
               THEN Goto(g, "throw") /\ UNCHANGED res
               ELSE Finish(g, Result(cs, IF cs[2] = "recv" THEN elem[g] ELSE None, param[g] # NoCase))
  /\ UNCHANGED <<chanVars, lock, op, selectDone, elem, todo>>

(* Pass 3, with all locks: leave the queues of the cases that were not     *)
(* served.  Without a param a channel was closed: poll again.              *)
Pass3(g) ==
  /\ At(g, "pass3")
  /\ selectDone' = [selectDone EXCEPT ![g] = 0]
  /\ sendq' = [c \in Chan |-> RemoveFirst(sendq[c], g)]
  /\ recvq' = [c \in Chan |-> RemoveFirst(recvq[c], g)]
  /\ param' = [param EXCEPT ![g] = NoCase]
  /\ IF param[g] = NoCase
     THEN Goto(g, "again") /\ UNCHANGED <<lock, res>>
     ELSE /\ Finish(g, Result(param[g], IF param[g][2] = "recv" THEN elem[g] ELSE None, TRUE))
          /\ Unlock(g)
  /\ UNCHANGED <<ring, sendx, recvx, qcount, closed, op, elem, todo>>

----------------------------------------------------------------------------
(* closechan: mark, ...                                                    *)
CloseMark(g) ==
  /\ At(g, "close")
  /\ \E c \in ChansOf(g) :
       /\ lock[c] = None
       /\ IF closed[c] THEN Finish(g, Fail) /\ UNCHANGED <<closed, lock>>
          ELSE /\ closed' = [closed EXCEPT ![c] = TRUE]
               /\ lock' = [lock EXCEPT ![c] = g]
               /\ Goto(g, "drain")
               /\ UNCHANGED res
  /\ UNCHANGED <<ring, sendx, recvx, qcount, sendq, recvq, op, selectDone, param, elem, todo>>

(* ... release all readers and then all writers, one after the other; each *)
(* is put in front of those to be readied; ...                             *)
Release(g, h) ==
  /\ ClaimSelect(h)
  /\ todo' = [todo EXCEPT ![g] = <<[g |-> h, param |-> NoCase]>> \o @]
  /\ UNCHANGED <<lock, pc, res>>

(* ... unlock.                                                             *)
Released(g) ==
  /\ Unlock(g)
  /\ res' = [res EXCEPT ![g] = Result(NoCase, None, TRUE)]
  /\ Goto(g, IF todo[g] = <<>> THEN "done" ELSE "ready")
  /\ UNCHANGED <<selectDone, todo>>

(* Mutant: only the readers are released.                                  *)
CloseDrainReaders(g) ==
  /\ At(g, "drain")
  /\ \E c \in ChansOf(g) :
       \/ /\ LiveIn(recvq[c])
          /\ Release(g, Dequeued(recvq[c]))
          /\ recvq' = [recvq EXCEPT ![c] = Rest(@)]
       \/ /\ ~LiveIn(recvq[c])
          /\ Released(g)
          /\ recvq' = [recvq EXCEPT ![c] = <<>>]
  /\ UNCHANGED <<ring, sendx, recvx, qcount, closed, sendq, op, param, elem>>

CloseDrain(g) ==
  /\ At(g, "drain")
  /\ \E c \in ChansOf(g) :
       \/ /\ LiveIn(recvq[c])
          /\ Release(g, Dequeued(recvq[c]))
          /\ recvq' = [recvq EXCEPT ![c] = Rest(@)]
          /\ UNCHANGED sendq
       \/ /\ ~LiveIn(recvq[c]) /\ LiveIn(sendq[c])
          /\ Release(g, Dequeued(sendq[c]))
          /\ sendq' = [sendq EXCEPT ![c] = Rest(@)]
          /\ recvq' = [recvq EXCEPT ![c] = <<>>]
       \/ /\ ~LiveIn(recvq[c]) /\ ~LiveIn(sendq[c])
          /\ Released(g)
          /\ recvq' = [recvq EXCEPT ![c] = <<>>]
          /\ sendq' = [sendq EXCEPT ![c] = <<>>]
  /\ UNCHANGED <<ring, sendx, recvx, qcount, closed, op, param, elem>>

----------------------------------------------------------------------------
Step(g) ==
  \/ Look(g) \/ Look2(g) \/ SelLock(g) \/ Serve(g) \/ GiveUp(g) \/ Park(g)
  \/ Ready(g) \/ Woken(g) \/ Pass3(g) \/ CloseMark(g) \/ CloseDrain(g) \/ Return(g)

(* A "try" is impossible at a moment when its channel is open and neither  *)
(* room nor a partner is there.                                            *)
Tries == {g \in G : op[g].kind = "try" /\ Cardinality(op[g].cases) = 1}
Remember ==
  blocked' = {g \in Tries' : \/ g \in blocked
                             \/ \A cs \in op'[g].cases : ~Possible(cs[1], cs[2])'}

Next == /\ \E g \in G : Step(g) \/ \E o \in ops : Call(g, o)
        /\ Remember
        /\ UNCHANGED ops

Spec == Init /\ [][Next]_vars

----------------------------------------------------------------------------
TypeOK ==
  /\ \A c \in Chan : qcount[c] \in 0..Cap[c] /\ sendx[c] \in 0..Cap[c] /\ recvx[c] \in 0..Cap[c]
  /\ closed \in [Chan -> BOOLEAN]
  /\ sendq \in [Chan -> Seq(G)] /\ recvq \in [Chan -> Seq(G)]
  /\ lock \in [Chan -> G \cup {None}]
  /\ selectDone \in [G -> {0, 1}]
  /\ param \in [G -> Case \cup {NoCase}]

(* select.go:370: a select that was woken without a case finds one: "we    *)
(* know that something closed, and things never un-close, so we won't      *)
(* block again".  And chan.go:242-244: no sender is woken for nothing.     *)
WokenFindsCase ==
  \A g \in G : /\ At(g, "again") => ~NothingPossible(g)
               /\ ~At(g, "throw")

(* The invariants at the head of chan.go (lines 9-18), when no operation   *)
(* is inside: one queue is empty, unless one goroutine waits in both with  *)
(* a select; a buffer with values has no receivers waiting, one with room  *)
(* has no senders waiting.  They hold of the queues as they are, with the  *)
(* sudogs that selects served elsewhere have left behind.  With them goes  *)
(* WokenFindsCase: whoever is taken off a queue has something to do.       *)
QueueInvariants ==
  /\ TypeOK
  /\ WokenFindsCase
  /\ \A c \in Chan : lock[c] = None =>
       /\ \/ sendq[c] = <<>> \/ recvq[c] = <<>>
          \/ Cap[c] = 0 /\ \E g \in G : IsSelect(g) /\ ToSet(sendq[c] \o recvq[c]) = {g}
       /\ Cap[c] > 0 => /\ qcount[c] > 0 => recvq[c] = <<>>
                        /\ qcount[c] < Cap[c] => sendq[c] = <<>>

(* What another goroutine has decided for g and g has not seen yet.        *)
Owed(g) == {w \in UNION {ToSet(todo[h]) : h \in G} : w.g = g}
Decision(g) ==
  IF param[g] # NoCase THEN param[g]
  ELSE IF \E w \in Owed(g) : w.param # NoCase THEN (CHOOSE w \in Owed(g) : TRUE).param
  ELSE NoCase

(* No goroutine stays asleep that could go on: it sleeps in the queues of  *)
(* all its cases, and while nobody is inside their channels, none of them  *)
(* could be served by or for another goroutine.                            *)
PartnerFor(g, c, dir) ==
  \E h \in ToSet(IF dir = "send" THEN recvq[c] ELSE sendq[c]) : h # g /\ Live(h)
NobodySleepsForNothing ==
  \A g \in G : At(g, "parked") /\ Owed(g) = {} =>
    \A cs \in op[g].cases :
      /\ Contains(IF cs[2] = "send" THEN sendq[cs[1]] ELSE recvq[cs[1]], g)
      /\ Live(g)
      /\ lock[cs[1]] = None =>
           /\ ~closed[cs[1]] /\ ~PartnerFor(g, cs[1], cs[2])
           /\ qcount[cs[1]] = IF cs[2] = "send" THEN Cap[cs[1]] ELSE 0

(* The order of the locks: whenever channel locks are held, some holder    *)
(* can take the next one it wants, or has them all.                        *)
Wants(g) == {c \in ChansOf(g) : lock[c] # g}
LocksMove ==
  (\E c \in Chan : lock[c] # None) =>
    \E g \in G : /\ \E c \in Chan : lock[c] = g
                 /\ pc[g] \in {"lock", "relock"} => lock[Min(Wants(g))] = None

(* An operation that does not block fails only if there was a moment since *)
(* its call when it was impossible and the channel was open (chan.go       *)
(* 435-441 of the fast path of a receive); a send may also fail on a       *)
(* channel that has been closed since.                                     *)
FailedTry(g) == At(g, "done") /\ g \in Tries /\ res[g] = Fail
FailureWasReal ==
  \A g \in G : FailedTry(g) =>
    \/ g \in blocked
    \/ \E cs \in op[g].cases : cs[2] = "send" /\ closed[cs[1]]

(* chan.go 162-166 of the fast path of a send: its two observations "imply *)
(* a moment between the two when the channel was both not yet closed and   *)
(* not ready for sending".                                                 *)
SendFailureWasReal == \A g \in G : FailedTry(g) => g \in blocked

(* The channels keep their promise.  An operation happens when it is       *)
(* decided, by the goroutine itself or by the one that serves it.          *)
Slot(c, i) == IF recvx[c] + i <= Cap[c] THEN recvx[c] + i - 1 ELSE recvx[c] + i - 1 - Cap[c]
Contents(c) == [i \in 1..qcount[c] |-> ring[c][Slot(c, i)]]
Offer(o) == IF o.kind = "close" THEN {} ELSE o.cases
Outcome(g) ==
  IF pc[g] \in {"ready", "done"} THEN IF op[g].kind = "close" THEN None ELSE res[g]
  ELSE IF pc[g] \notin {"parked", "woken", "relock", "pass3"} \/ Decision(g) = NoCase THEN None
  ELSE Result(Decision(g), IF Decision(g)[2] = "recv" THEN elem[g] ELSE None, TRUE)

Promise == INSTANCE Channels WITH
  Offers <- {o.cases : o \in {p \in UNION Programs : p.kind # "close"}},
  buf <- [c \in Chan |-> Contents(c)],
  shut <- {c \in Chan : closed[c]},
  offer <- [g \in G |-> Offer(op[g])],
  tries <- {g \in G : op[g].kind = "try"},
  out <- [g \in G |-> Outcome(g)]

ImplementsChannels == Promise!Spec
=============================================================================
