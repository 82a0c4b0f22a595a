----------------------------- MODULE ChanProofs -----------------------------
(***************************************************************************)
(* Proofs about module Chan, for any goroutines, any finite set of         *)
(* channels of any capacities and any operations: the queues and the ring  *)
(* keep their invariants, nobody sleeps who could go on, the locks do not  *)
(* deadlock, an operation that does not block fails only for a reason, and *)
(* the channels keep the promise of module Channels.                       *)
(***************************************************************************)
EXTENDS Chan, FiniteSetTheorems, SequenceTheorems, WellFoundedInduction, TLAPS

----------------------------------------------------------------------------
(* The inductive invariant.                                                *)

Dir == {"send", "recv"}
Queue(c, dir) == IF dir = "send" THEN sendq[c] ELSE recvq[c]
Distinct(q) == \A i, j \in DOMAIN q : q[i] = q[j] => i = j
Operations == UNION Programs
Ready1 == [g : G, param : Case \cup {NoCase}]
PC == {"idle", "look", "look2", "lock", "poll", "again", "ready", "done", "parked", "woken",
       "relock", "pass3", "close", "drain"}
Results == [case : Case \cup {NoCase}, val : G \cup {None}, ok : BOOLEAN]

Types ==
  /\ ops \in Programs
  /\ ring = [c \in Chan |-> ring[c]]
  /\ \A c \in Chan : ring[c] \in [0..(Cap[c] - 1) -> G \cup {None}]
  /\ sendx \in [Chan -> Nat] /\ recvx \in [Chan -> Nat] /\ qcount \in [Chan -> Nat]
  /\ closed \in [Chan -> BOOLEAN]
  /\ sendq \in [Chan -> Seq(G)] /\ recvq \in [Chan -> Seq(G)]
  /\ lock \in [Chan -> G \cup {None}]
  /\ pc \in [G -> PC]
  /\ op \in [G -> Operations \cup {NoOp}]
  /\ selectDone \in [G -> {0, 1}]
  /\ param \in [G -> Case \cup {NoCase}]
  /\ elem \in [G -> G \cup {None}]
  /\ todo \in [G -> Seq(Ready1)]
  /\ res \in [G -> Results]

(* What is decided, by somebody else, for a goroutine that is parked, and  *)
(* which will be readied then (Owed).                                      *)
Asleep(g) == At(g, "parked") /\ Owed(g) = {}
Back == {"woken", "relock", "pass3"}

(* A channel of the operation was closed with nothing left to receive.     *)
Ended(g) == \E cs \in op[g].cases : closed[cs[1]] /\ (cs[2] = "recv" => qcount[cs[1]] = 0)

(* What goroutines do where they are.                                      *)
Place(g) ==
  /\ op[g] = NoOp <=> At(g, "idle")
  /\ pc[g] \in {"close", "drain"} => op[g].kind = "close"
  /\ pc[g] \in {"look", "look2"} => op[g].kind = "try" /\ ~IsSelect(g)
  /\ pc[g] \in {"lock", "poll"} => op[g].kind \in {"block", "try"}
  /\ pc[g] \in {"again", "parked"} \cup Back => op[g].kind = "block"
  /\ pc[g] \in {"poll", "again", "relock", "pass3"} => IsSelect(g)
  /\ todo[g] # <<>> => pc[g] \in {"ready", "drain"}
  /\ At(g, "ready") => todo[g] # <<>> /\ res[g] # Fail
Places == \A g \in G : Place(g)

(* A select takes its locks in order; who has one is in the operation.     *)
Inside == {"poll", "pass3", "again", "drain"}
Locking(g) == pc[g] \in {"lock", "relock"} /\ IsSelect(g)
Lock(g) ==
  /\ \A c \in Chan : lock[c] = g => c \in ChansOf(g) /\ (pc[g] \in Inside \/ Locking(g))
  /\ pc[g] \in Inside => \A c \in ChansOf(g) : lock[c] = g
  /\ Locking(g) => /\ \E c \in ChansOf(g) : lock[c] # g
                   /\ \A c, d \in ChansOf(g) : lock[c] = g /\ d < c => lock[d] = g
Locks == \A g \in G : Lock(g)

(* What others have decided for g: one of its cases, or that it has ended. *)
Param(g) ==
  /\ param[g] \in op[g].cases \cup {NoCase}
  /\ param[g] # NoCase => pc[g] \in Back
  /\ pc[g] \in Back /\ param[g] = NoCase => Ended(g)
  /\ At(g, "again") => Ended(g)
  /\ selectDone[g] = 1 <=> IsSelect(g) /\ (pc[g] \in Back \/ (At(g, "parked") /\ Owed(g) # {}))
Params == \A g \in G : Param(g)

Debt(w) ==
  /\ At(w.g, "parked")
  /\ w.param \in op[w.g].cases \cup {NoCase}
  /\ w.param = NoCase => Ended(w.g)
Debts == \A g \in G : \A w \in Owed(g) : Debt(w)
OwedOnce ==
  \A h, k \in G : \A i \in DOMAIN todo[h], j \in DOMAIN todo[k] :
    todo[h][i].g = todo[k][j].g => h = k /\ i = j

(* Who is in a queue, and who has to be.                                   *)
Queued(c, dir) ==
  /\ Distinct(Queue(c, dir))
  /\ \A g \in ToSet(Queue(c, dir)) :
       /\ <<c, dir>> \in op[g].cases
       /\ Asleep(g) \/ (IsSelect(g) /\ pc[g] \in {"parked"} \cup Back)
Sleeper(g) == Asleep(g) => \A cs \in op[g].cases : g \in ToSet(Queue(cs[1], cs[2]))
Queues ==
  /\ \A c \in Chan, dir \in Dir : Queued(c, dir)
  /\ \A g \in G : Sleeper(g)

(* One channel: its ring, and who may wait.                                *)
Buffer(c) ==
  /\ qcount[c] <= Cap[c]
  /\ IF Cap[c] = 0 THEN sendx[c] = 0 /\ recvx[c] = 0
     ELSE /\ sendx[c] < Cap[c] /\ recvx[c] < Cap[c]
          /\ sendx[c] = recvx[c] + qcount[c] \/ sendx[c] = recvx[c] + qcount[c] - Cap[c]
Room(c) ==
  Cap[c] > 0 => /\ qcount[c] > 0 => recvq[c] = <<>>
                /\ qcount[c] < Cap[c] => sendq[c] = <<>>
Channel(c) ==
  /\ Buffer(c) /\ Room(c)
  /\ \/ sendq[c] = <<>> \/ recvq[c] = <<>>
     \/ Cap[c] = 0 /\ \E g \in G : IsSelect(g) /\ ToSet(sendq[c]) = {g} /\ ToSet(recvq[c]) = {g}
  /\ closed[c] => \/ sendq[c] = <<>> /\ recvq[c] = <<>>
                  \/ \E g \in G : At(g, "drain") /\ lock[c] = g
ChannelsAre == \A c \in Chan : Channel(c)
Draining == \A g \in G : At(g, "drain") => \A c \in ChansOf(g) : closed[c]

(* What a goroutine was given, it was given with a decision to receive.    *)
Given(g) ==
  elem[g] # None =>
    \/ At(g, "done")
    \/ param[g] # NoCase
    \/ \E w \in Owed(g) : w.param # NoCase
Givens == \A g \in G : Given(g)

(* The second read of the fast path of a receive.                          *)
Looked(g) ==
  At(g, "look2") => \A cs \in op[g].cases : cs[2] = "recv" /\ ~closed[cs[1]] => g \in blocked
Looks == \A g \in G : Looked(g)

IInv ==
  /\ Types /\ Places /\ Locks /\ Params /\ Debts /\ OwedOnce /\ Queues /\ ChannelsAre /\ Draining
  /\ Givens /\ Looks /\ FailureWasReal

----------------------------------------------------------------------------
(* Sequences as queues.                                                    *)

(* A nonempty set of natural numbers has a least element: what the         *)
(* induction of this module comes down to.                                 *)
LEMMA Least ==
  ASSUME NEW T \in SUBSET Nat, T # {}
  PROVE  \E x \in T : \A y \in T : x <= y
<1> DEFINE R == {ss \in Nat \X Nat : ss[1] < ss[2]}
<1>1. IsWellFoundedOn(R, Nat)
  BY NatLessThanWellFounded DEF OpToRel
<1>2. \A x, y \in Nat : <<y, x>> \in R <=> y < x
  OBVIOUS
<1> HIDE DEF R
<1>3. \E x \in T : \A y \in T : ~(<<y, x>> \in R)
  BY <1>1, WFMin
<1>4. PICK x \in T : \A y \in T : ~(<<y, x>> \in R)
  BY <1>3
<1>5. \A y \in T : ~(y < x)
  BY <1>2, <1>4
<1> QED
  BY <1>5

LEMMA MinIs ==
  ASSUME NEW T \in SUBSET Nat, T # {}
  PROVE  Min(T) \in T /\ \A y \in T : Min(T) <= y
BY Least DEF Min

LEMMA ToSetFacts ==
  /\ \A S : \A q \in Seq(S) : ToSet(q) \subseteq S /\ (ToSet(q) = {} <=> q = <<>>)
  /\ ToSet(<<>>) = {} /\ Distinct(<<>>)
<1>1. ASSUME NEW S, NEW q \in Seq(S) PROVE ToSet(q) \subseteq S /\ (ToSet(q) = {} <=> q = <<>>)
  <2>1. DOMAIN q = 1..Len(q) /\ Len(q) \in Nat
    OBVIOUS
  <2>2. CASE Len(q) = 0
    BY <2>1, <2>2 DEF ToSet
  <2>3. CASE Len(q) # 0
    <3>1. 1 \in DOMAIN q /\ q # <<>>
      BY <2>1, <2>3
    <3>2. q[1] \in ToSet(q)
      BY <3>1 DEF ToSet
    <3>3. ToSet(q) \subseteq S
      BY <2>1 DEF ToSet
    <3> QED
      BY <3>1, <3>2, <3>3
  <2> QED
    BY <2>2, <2>3
<1>2. ToSet(<<>>) = {} /\ Distinct(<<>>)
  BY DEF ToSet, Distinct
<1> QED
  BY <1>1, <1>2

LEMMA Appended ==
  ASSUME NEW S, NEW q \in Seq(S), NEW x \in S, x \notin ToSet(q), Distinct(q)
  PROVE  /\ Append(q, x) \in Seq(S) /\ Distinct(Append(q, x))
         /\ ToSet(Append(q, x)) = ToSet(q) \cup {x}
<1>1. Append(q, x) \in Seq(S) /\ Len(Append(q, x)) = Len(q) + 1 /\ DOMAIN Append(q, x) = 1..(Len(q) + 1)
  OBVIOUS
<1>2. \A i \in 1..(Len(q) + 1) : Append(q, x)[i] = IF i <= Len(q) THEN q[i] ELSE x
  OBVIOUS
<1>3. \A i \in DOMAIN q : i \in 1..Len(q) /\ q[i] # x
  BY DEF ToSet
<1>4. Distinct(Append(q, x))
  BY <1>1, <1>2, <1>3 DEF Distinct
<1>5. ToSet(Append(q, x)) = ToSet(q) \cup {x}
  <2>1. \A y \in ToSet(Append(q, x)) : y \in ToSet(q) \cup {x}
    BY <1>1, <1>2 DEF ToSet
  <2>2. \A y \in ToSet(q) : y \in ToSet(Append(q, x))
    <3> TAKE y \in ToSet(q)
    <3>1. PICK i \in 1..Len(q) : q[i] = y
      BY DEF ToSet
    <3>2. i \in DOMAIN Append(q, x) /\ Append(q, x)[i] = y
      BY <1>1, <1>2, <3>1
    <3> QED
      BY <3>2 DEF ToSet
  <2>3. x \in ToSet(Append(q, x))
    <3>1. Len(q) + 1 \in DOMAIN Append(q, x) /\ Append(q, x)[Len(q) + 1] = x
      BY <1>1, <1>2
    <3> QED
      BY <3>1 DEF ToSet
  <2> QED
    BY <2>1, <2>2, <2>3
<1> QED
  BY <1>1, <1>4, <1>5

(* The first of the sudogs for which f holds, and those behind it.         *)
LEMMA SubSeqFacts ==
  ASSUME NEW S, NEW q \in Seq(S), NEW k \in 1..Len(q)
  PROVE  /\ SubSeq(q, k + 1, Len(q)) \in Seq(S)
         /\ Len(SubSeq(q, k + 1, Len(q))) = Len(q) - k
         /\ DOMAIN SubSeq(q, k + 1, Len(q)) = 1..(Len(q) - k)
         /\ \A i \in 1..(Len(q) - k) : SubSeq(q, k + 1, Len(q))[i] = q[k + i]
<1>1. Len(q) \in Nat /\ k \in Nat /\ k + 1 \in Nat
  OBVIOUS
<1>2. Len(SubSeq(q, k + 1, Len(q))) = Len(q) - k
  BY <1>1
<1> QED
  BY <1>1, <1>2

LEMMA Behind ==
  ASSUME NEW S, NEW q \in Seq(S), NEW k \in 1..Len(q), Distinct(q)
  PROVE  /\ SubSeq(q, k + 1, Len(q)) \in Seq(S) /\ Distinct(SubSeq(q, k + 1, Len(q)))
         /\ \A x \in ToSet(SubSeq(q, k + 1, Len(q))) :
              x \in ToSet(q) /\ \A i \in 1..k : x # q[i]
         /\ \A x \in ToSet(q) : x \in ToSet(SubSeq(q, k + 1, Len(q))) \/ \E i \in 1..k : x = q[i]
<1> DEFINE r == SubSeq(q, k + 1, Len(q))
<1>1. r \in Seq(S) /\ DOMAIN r = 1..(Len(q) - k) /\ \A i \in 1..(Len(q) - k) : r[i] = q[k + i]
  BY SubSeqFacts
<1>2. DOMAIN q = 1..Len(q) /\ Len(q) \in Nat
  OBVIOUS
<1> HIDE DEF r
<1>3. \A i \in DOMAIN r : k + i \in DOMAIN q /\ r[i] = q[k + i]
  BY <1>1, <1>2
<1>4. Distinct(r)
  BY <1>1, <1>2, <1>3 DEF Distinct
<1>5. ASSUME NEW x \in ToSet(r) PROVE x \in ToSet(q) /\ \A i \in 1..k : x # q[i]
  <2>1. PICK j \in DOMAIN r : x = r[j]
    BY DEF ToSet
  <2>2. x \in ToSet(q)
    BY <2>1, <1>3 DEF ToSet
  <2>3. \A i \in 1..k : i \in DOMAIN q /\ i # k + j
    BY <1>1, <1>2, <2>1
  <2> QED
    BY <2>1, <2>2, <2>3, <1>3 DEF Distinct
<1>6. ASSUME NEW x \in ToSet(q) PROVE x \in ToSet(r) \/ \E i \in 1..k : x = q[i]
  <2>1. PICK j \in 1..Len(q) : x = q[j]
    BY <1>2 DEF ToSet
  <2>2. CASE j > k
    <3>1. j - k \in DOMAIN r /\ k + (j - k) = j
      BY <1>1, <1>2, <2>2
    <3>2. r[j - k] = x
      BY <3>1, <2>1, <1>3
    <3> QED
      BY <3>1, <3>2 DEF ToSet
  <2> QED
    BY <2>1, <2>2
<1> QED
  BY <1>1, <1>4, <1>5, <1>6 DEF r

(* waitq.dequeue.                                                          *)
LEMMA Dequeues ==
  ASSUME NEW q \in Seq(G), Distinct(q), LiveIn(q)
  PROVE  /\ Dequeued(q) \in ToSet(q) /\ Live(Dequeued(q))
         /\ Rest(q) \in Seq(G) /\ Distinct(Rest(q))
         /\ ToSet(Rest(q)) \subseteq ToSet(q) \ {Dequeued(q)}
         /\ \A h \in ToSet(q) : Live(h) => h = Dequeued(q) \/ h \in ToSet(Rest(q))
<1> DEFINE I == {i \in 1..Len(q) : Live(q[i])}
<1>1. I # {} /\ I \in SUBSET Nat
  BY DEF LiveIn
<1>2. FirstLive(q) = Min(I)
  BY <1>1 DEF FirstLive, SelectInSeq
<1>3. FirstLive(q) \in I /\ \A i \in I : FirstLive(q) <= i
  BY <1>1, <1>2, MinIs
<1> DEFINE k == FirstLive(q)
<1>4. k \in 1..Len(q) /\ Live(q[k])
  BY <1>3
<1>5. \A i \in 1..k : Live(q[i]) => i = k
  BY <1>3, <1>4
<1> HIDE DEF I, k
<1>6. /\ SubSeq(q, k + 1, Len(q)) \in Seq(G) /\ Distinct(SubSeq(q, k + 1, Len(q)))
      /\ \A x \in ToSet(SubSeq(q, k + 1, Len(q))) : x \in ToSet(q) /\ \A i \in 1..k : x # q[i]
      /\ \A x \in ToSet(q) : x \in ToSet(SubSeq(q, k + 1, Len(q))) \/ \E i \in 1..k : x = q[i]
  BY <1>4, Behind
<1>7. Rest(q) = SubSeq(q, k + 1, Len(q)) /\ Dequeued(q) = q[k]
  BY DEF Rest, Dequeued, k
<1>8. q[k] \in ToSet(q) /\ k \in 1..k
  BY <1>4 DEF ToSet
<1> QED
  BY <1>4, <1>5, <1>6, <1>7, <1>8

(* dequeueSudoG.                                                           *)
LEMMA Leaves ==
  ASSUME NEW q \in Seq(G), Distinct(q), NEW g \in G
  PROVE  /\ RemoveFirst(q, g) \in Seq(G) /\ Distinct(RemoveFirst(q, g))
         /\ ToSet(RemoveFirst(q, g)) = ToSet(q) \ {g}
<1>1. CASE ~\E i \in 1..Len(q) : q[i] = g
  BY <1>1 DEF RemoveFirst, ToSet
<1>2. CASE \E i \in 1..Len(q) : q[i] = g
  <2> DEFINE I == {i \in 1..Len(q) : q[i] = g}
  <2>1. I # {} /\ I \in SUBSET Nat
    BY <1>2
  <2>2. SelectInSeq(q, LAMBDA v : v = g) = Min(I)
    BY <2>1 DEF SelectInSeq
  <2> DEFINE k == Min(I)
  <2>3. k \in 1..Len(q) /\ q[k] = g
    BY <2>1, MinIs
  <2>4. RemoveFirst(q, g) = SubSeq(q, 1, k - 1) \o SubSeq(q, k + 1, Len(q))
    BY <1>2, <2>2 DEF RemoveFirst, RemoveAt
  <2> HIDE DEF I, k
  <2> DEFINE a == SubSeq(q, 1, k - 1)
             b == SubSeq(q, k + 1, Len(q))
  <2>5. a \in Seq(G) /\ Len(a) = k - 1 /\ \A i \in 1..(k - 1) : a[i] = q[i]
    BY <2>3
  <2>6. b \in Seq(G) /\ Len(b) = Len(q) - k /\ \A i \in 1..(Len(q) - k) : b[i] = q[k + i]
    BY <2>3, SubSeqFacts
  <2> HIDE DEF a, b
  <2> DEFINE r == a \o b
  <2>7. /\ r \in Seq(G) /\ DOMAIN r = 1..(Len(q) - 1)
        /\ \A i \in 1..(Len(q) - 1) : r[i] = IF i < k THEN q[i] ELSE q[i + 1]
    <3>1. r \in Seq(G) /\ Len(r) = Len(q) - 1 /\ Len(q) \in Nat
      <4>1. Len(a \o b) = Len(a) + Len(b) /\ a \o b \in Seq(G)
        BY <2>5, <2>6
      <4> QED
        BY <4>1, <2>3, <2>5, <2>6
    <3>2. ASSUME NEW i \in 1..(Len(q) - 1) PROVE r[i] = IF i < k THEN q[i] ELSE q[i + 1]
      <4>1. CASE i < k
        BY <4>1, <2>3, <2>5, <2>6, <3>1
      <4>2. CASE ~(i < k)
        <5>1. r[i] = b[i - (k - 1)]
          BY <4>2, <2>3, <2>5, <2>6, <3>1
        <5>2. i - (k - 1) \in 1..(Len(q) - k) /\ k + (i - (k - 1)) = i + 1
          BY <4>2, <2>3, <3>1
        <5> QED
          BY <5>1, <5>2, <2>6, <4>2
      <4> QED
        BY <4>1, <4>2
    <3> QED
      BY <3>1, <3>2
  <2>8. RemoveFirst(q, g) = r
    BY <2>4 DEF a, b
  <2> HIDE DEF r
  <2>9. Distinct(r)
    <3> SUFFICES ASSUME NEW i \in DOMAIN r, NEW j \in DOMAIN r, r[i] = r[j] PROVE i = j
      BY DEF Distinct
    <3> DEFINE At1(n) == IF n < k THEN n ELSE n + 1
    <3>1. At1(i) \in DOMAIN q /\ At1(j) \in DOMAIN q
      BY <2>3, <2>7
    <3>2. r[i] = q[At1(i)] /\ r[j] = q[At1(j)]
      BY <2>7
    <3>3. At1(i) = At1(j)
      BY <3>1, <3>2 DEF Distinct
    <3> QED
      BY <3>3, <2>3, <2>7
  <2>10. ASSUME NEW x \in ToSet(r) PROVE x \in ToSet(q) \ {g}
    <3>1. PICK i \in 1..(Len(q) - 1) : x = r[i]
      BY <2>7 DEF ToSet
    <3>2. PICK j \in 1..Len(q) : x = q[j] /\ j # k
      BY <2>3, <2>7, <3>1
    <3> QED
      BY <2>3, <3>2 DEF ToSet, Distinct
  <2>11. ASSUME NEW x \in ToSet(q) \ {g} PROVE x \in ToSet(r)
    <3>1. PICK j \in 1..Len(q) : x = q[j]
      BY DEF ToSet
    <3>2. j # k
      BY <2>3, <3>1
    <3>3. PICK i \in 1..(Len(q) - 1) : r[i] = x
      <4>1. CASE j < k
        BY <4>1, <2>3, <2>7, <3>1
      <4>2. CASE j > k
        <5>1. j - 1 \in 1..(Len(q) - 1) /\ ~(j - 1 < k) /\ (j - 1) + 1 = j
          BY <4>2, <2>3
        <5> QED
          BY <5>1, <2>7, <3>1
      <4> QED
        BY <4>1, <4>2, <3>2, <2>3
    <3> QED
      BY <3>3, <2>7 DEF ToSet
  <2> QED
    BY <2>7, <2>8, <2>9, <2>10, <2>11
<1> QED
  BY <1>1, <1>2

----------------------------------------------------------------------------
(* Operations, and what is owed to goroutines.                             *)

LEMMA OpFacts ==
  ASSUME NEW o \in Operations
  PROVE  /\ o # NoOp /\ o.kind \in {"block", "try", "close"}
         /\ o.kind # "close" => o.cases \in SUBSET Case /\ o.cases # {} /\ IsFiniteSet(o.cases)
         /\ o.kind = "close" => \E c \in Chan : o.cases = {<<c, "close">>}
<1>1. IsFiniteSet(Case)
  <2>1. IsFiniteSet({"send", "recv"})
    <3>1. IsFiniteSet({"send"}) /\ {"send", "recv"} = {"send"} \cup {"recv"}
      BY FS_Singleton
    <3> QED
      BY <3>1, FS_AddElement
  <2> QED
    BY <2>1, ChanAssumption, FS_Product DEF Case
<1>2. \/ o.kind \in {"block", "try"} /\ o.cases \in (SUBSET Case) \ {{}}
      \/ o.kind = "close" /\ \E c \in Chan : o.cases = {<<c, "close">>}
  BY ChanAssumption DEF Operations
<1>3. o.kind \in {"block", "try"} => o.cases \in SUBSET Case /\ o.cases # {} /\ IsFiniteSet(o.cases)
  <2> SUFFICES ASSUME o.kind \in {"block", "try"} PROVE o.cases \in SUBSET Case /\ o.cases # {} /\ IsFiniteSet(o.cases)
    OBVIOUS
  <2>1. o.cases \in (SUBSET Case) \ {{}}
    BY <1>2
  <2> QED
    BY <2>1, <1>1, FS_Subset
<1> QED
  BY <1>2, <1>3 DEF NoOp

(* An operation that is no select has one case.                            *)
LEMMA OneCase ==
  ASSUME NEW g \in G, op[g] \in Operations, op[g].kind # "close"
  PROVE  /\ ~IsSelect(g) => \E cs \in Case : op[g].cases = {cs}
         /\ ~IsSelect(g) <=> Cardinality(op[g].cases) = 1
<1>1. op[g].cases \in SUBSET Case /\ op[g].cases # {} /\ IsFiniteSet(op[g].cases)
  BY OpFacts
<1>2. Cardinality(op[g].cases) \in Nat /\ Cardinality(op[g].cases) # 0
  BY <1>1, FS_CardinalityType, FS_EmptySet
<1>3. Cardinality(op[g].cases) = 1 <=> \E cs : op[g].cases = {cs}
  BY <1>1, FS_Singleton
<1> QED
  BY <1>1, <1>2, <1>3 DEF IsSelect

LEMMA ChansAre ==
  ASSUME NEW g \in G, op[g] \in Operations
  PROVE  ChansOf(g) \subseteq Chan /\ ChansOf(g) # {} /\ (op[g].kind # "close" => op[g].cases \subseteq Case)
<1>1. CASE op[g].kind = "close"
  <2>1. PICK c \in Chan : op[g].cases = {<<c, "close">>}
    BY <1>1, OpFacts
  <2>2. ChansOf(g) = {c}
    BY <2>1 DEF ChansOf
  <2> QED
    BY <2>2, <1>1
<1>2. CASE op[g].kind # "close"
  <2>1. op[g].cases \in SUBSET Case /\ op[g].cases # {}
    BY <1>2, OpFacts
  <2>2. \A cs \in Case : cs[1] \in Chan
    BY DEF Case
  <2> QED
    BY <2>1, <2>2 DEF ChansOf
<1> QED
  BY <1>1, <1>2

LEMMA CaseFacts ==
  /\ \A cs \in Case : cs[1] \in Chan /\ cs[2] \in Dir /\ cs = <<cs[1], cs[2]>> /\ cs # NoCase
  /\ NoCase \notin Case
BY DEF Case, Dir, NoCase

LEMMA OwedKept ==
  ASSUME UNCHANGED todo
  PROVE  /\ \A g : Owed(g)' = Owed(g)
         /\ OwedOnce => OwedOnce'
BY DEF Owed, OwedOnce, ToSet

LEMMA OwedIs ==
  \A x, w : w \in Owed(x) <=> w.g = x /\ \E h \in G : \E i \in DOMAIN todo[h] : w = todo[h][i]
BY DEF Owed, ToSet

LEMMA OwedOne ==
  ASSUME OwedOnce, NEW x, NEW w \in Owed(x)
  PROVE  Owed(x) = {w}
<1>1. PICK h, i : h \in G /\ i \in DOMAIN todo[h] /\ w = todo[h][i] /\ w.g = x
  BY OwedIs
<1>2. ASSUME NEW v \in Owed(x) PROVE v = w
  <2>1. PICK k, j : k \in G /\ j \in DOMAIN todo[k] /\ v = todo[k][j] /\ v.g = x
    BY OwedIs
  <2> QED
    BY <1>1, <2>1 DEF OwedOnce
<1> QED
  BY <1>2

(* A goroutine is put in front of those that g readies.                    *)
LEMMA OwedMore ==
  ASSUME Types, OwedOnce, NEW g \in G, NEW w \in Ready1, Owed(w.g) = {},
         todo' = [todo EXCEPT ![g] = <<w>> \o @]
  PROVE  /\ \A x : Owed(x)' = IF x = w.g THEN {w} ELSE Owed(x)
         /\ OwedOnce'
<1> DEFINE t == <<w>> \o todo[g]
<1>1. /\ t \in Seq(Ready1) /\ DOMAIN t = 1..(Len(todo[g]) + 1) /\ DOMAIN todo[g] = 1..Len(todo[g])
      /\ Len(todo[g]) \in Nat
      /\ t[1] = w /\ \A i \in DOMAIN todo[g] : t[i + 1] = todo[g][i]
  <2>1. todo[g] \in Seq(Ready1) /\ <<w>> \in Seq(Ready1) /\ Len(<<w>>) = 1 /\ <<w>>[1] = w
    BY DEF Types
  <2>2. Len(t) = 1 + Len(todo[g])
    BY <2>1
  <2>3. t[1] = w
    BY <2>1, <2>2
  <2>4. ASSUME NEW i \in DOMAIN todo[g] PROVE t[i + 1] = todo[g][i]
    <3>1. i \in 1..Len(todo[g]) /\ i + 1 \in 1..(1 + Len(todo[g])) /\ ~(i + 1 <= 1) /\ (i + 1) - 1 = i
      BY <2>1
    <3> QED
      BY <2>1, <3>1
  <2> QED
    BY <2>1, <2>2, <2>3, <2>4
<1>2. \A h \in G : todo'[h] = IF h = g THEN t ELSE todo[h]
  BY DEF Types
<1> HIDE DEF t
<1>3. \A h \in G : \A i \in DOMAIN todo[h] : todo[h][i].g # w.g
  BY OwedIs
<1>4. ASSUME NEW x PROVE Owed(x)' = IF x = w.g THEN {w} ELSE Owed(x)
  <2>1. ASSUME NEW v \in Owed(x)' PROVE v \in (IF x = w.g THEN {w} ELSE Owed(x))
    <3>1. PICK h, i : h \in G /\ i \in DOMAIN todo'[h] /\ v = todo'[h][i] /\ v.g = x
      BY DEF Owed, ToSet
    <3>2. CASE h # g
      BY <3>1, <3>2, <1>2, <1>3, OwedIs
    <3>3. CASE h = g /\ i = 1
      BY <3>1, <3>3, <1>1, <1>2
    <3>4. CASE h = g /\ i # 1
      <4>1. i - 1 \in DOMAIN todo[g] /\ (i - 1) + 1 = i
        BY <3>1, <3>4, <1>1, <1>2
      <4>2. v = todo[g][i - 1]
        BY <4>1, <3>1, <3>4, <1>1, <1>2
      <4> QED
        BY <4>1, <4>2, <3>1, <1>3, OwedIs
    <3> QED
      BY <3>2, <3>3, <3>4
  <2>2. ASSUME NEW v \in (IF x = w.g THEN {w} ELSE Owed(x)) PROVE v \in Owed(x)'
    <3>1. CASE x = w.g
      <4>1. 1 \in DOMAIN todo'[g] /\ todo'[g][1] = v /\ v.g = x
        BY <3>1, <1>1, <1>2, <2>2
      <4> QED
        BY <4>1 DEF Owed, ToSet
    <3>2. CASE x # w.g
      <4>1. PICK h, i : h \in G /\ i \in DOMAIN todo[h] /\ v = todo[h][i] /\ v.g = x
        BY <3>2, <2>2, OwedIs
      <4>2. \E k \in DOMAIN todo'[h] : v = todo'[h][k]
        <5>1. CASE h # g
          BY <5>1, <4>1, <1>2
        <5>2. CASE h = g
          <6>1. i + 1 \in DOMAIN todo'[h] /\ v = todo'[h][i + 1]
            BY <5>2, <4>1, <1>1, <1>2
          <6> QED
            BY <6>1
        <5> QED
          BY <5>1, <5>2
      <4> QED
        BY <4>1, <4>2 DEF Owed, ToSet
    <3> QED
      BY <3>1, <3>2
  <2> QED
    BY <2>1, <2>2
<1>5. OwedOnce'
  <2> SUFFICES ASSUME NEW h \in G, NEW k \in G, NEW i \in DOMAIN todo'[h], NEW j \in DOMAIN todo'[k],
                      todo'[h][i].g = todo'[k][j].g
               PROVE  h = k /\ i = j
    BY DEF OwedOnce
  <2> DEFINE Old(a, n) == IF a = g THEN n - 1 ELSE n
             New(a, n) == a = g /\ n = 1
  <2>1. ASSUME NEW a \in G, NEW n \in DOMAIN todo'[a]
        PROVE  IF New(a, n) THEN todo'[a][n] = w
               ELSE Old(a, n) \in DOMAIN todo[a] /\ todo'[a][n] = todo[a][Old(a, n)]
    <3>1. CASE a # g
      BY <3>1, <1>2
    <3>2. CASE a = g /\ n = 1
      BY <3>2, <1>1, <1>2
    <3>3. CASE a = g /\ n # 1
      <4>1. n - 1 \in DOMAIN todo[g] /\ (n - 1) + 1 = n
        BY <3>3, <1>1, <1>2
      <4> QED
        BY <4>1, <3>3, <1>1, <1>2
    <3> QED
      BY <3>1, <3>2, <3>3
  <2>2. CASE New(h, i) \/ New(k, j)
    BY <2>1, <2>2, <1>3
  <2>3. CASE ~New(h, i) /\ ~New(k, j)
    <3>1. h = k /\ Old(h, i) = Old(k, j)
      BY <2>1, <2>3 DEF OwedOnce
    <3>2. h = g => i \in Int /\ j \in Int
      BY <3>1, <1>1, <1>2
    <3> QED
      BY <3>1, <3>2
  <2> QED
    BY <2>2, <2>3
<1> QED
  BY <1>4, <1>5

(* The first of those that g readies is readied.                           *)
LEMMA OwedLess ==
  ASSUME Types, OwedOnce, NEW g \in G, todo[g] # <<>>,
         todo' = [todo EXCEPT ![g] = Tail(@)]
  PROVE  /\ Head(todo[g]) \in Ready1 /\ Owed(Head(todo[g]).g) = {Head(todo[g])}
         /\ \A x : Owed(x)' = IF x = Head(todo[g]).g THEN {} ELSE Owed(x)
         /\ OwedOnce'
<1> DEFINE w == Head(todo[g])
           t == Tail(todo[g])
<1>1. /\ DOMAIN todo[g] = 1..Len(todo[g]) /\ Len(todo[g]) \in Nat \ {0}
      /\ DOMAIN t = 1..(Len(todo[g]) - 1) /\ \A i \in DOMAIN t : t[i] = todo[g][i + 1]
      /\ w = todo[g][1] /\ w \in Ready1
  <2>1. todo[g] \in Seq(Ready1) /\ Len(todo[g]) \in Nat \ {0}
    BY DEF Types
  <2>2. t \in Seq(Ready1) /\ Len(t) = Len(todo[g]) - 1
    BY <2>1
  <2>3. \A i \in 1..Len(t) : t[i] = todo[g][i + 1]
    BY <2>1, <2>2
  <2> QED
    BY <2>1, <2>2, <2>3
<1>2. \A h \in G : todo'[h] = IF h = g THEN t ELSE todo[h]
  BY DEF Types
<1> HIDE DEF t, w
<1>3. \A i \in DOMAIN t : i + 1 \in DOMAIN todo[g] /\ t[i] = todo[g][i + 1] /\ i + 1 # 1
  BY <1>1
<1>4. 1 \in DOMAIN todo[g]
  BY <1>1
<1>5. Owed(w.g) = {w}
  <2>1. w \in Owed(w.g)
    BY <1>1, <1>4, OwedIs
  <2> QED
    BY <2>1, OwedOne
<1>6. ASSUME NEW x PROVE Owed(x)' = IF x = w.g THEN {} ELSE Owed(x)
  <2>1. ASSUME NEW v \in Owed(x)' PROVE x # w.g /\ v \in Owed(x)
    <3>1. PICK h, i : h \in G /\ i \in DOMAIN todo'[h] /\ v = todo'[h][i] /\ v.g = x
      BY DEF Owed, ToSet
    <3>2. \E j \in DOMAIN todo[h] : v = todo[h][j] /\ ~(h = g /\ j = 1)
      BY <3>1, <1>2, <1>3
    <3>3. v.g # w.g
      <4>1. PICK j \in DOMAIN todo[h] : v = todo[h][j] /\ ~(h = g /\ j = 1)
        BY <3>2
      <4>2. w = todo[g][1] /\ h \in G
        BY <1>1, <3>1
      <4>3. todo[h][j].g = todo[g][1].g => h = g /\ j = 1
        BY <1>4, <4>1, <4>2 DEF OwedOnce
      <4> QED
        BY <4>1, <4>2, <4>3
    <3> QED
      BY <3>1, <3>2, <3>3, OwedIs
  <2>2. ASSUME x # w.g, NEW v \in Owed(x) PROVE v \in Owed(x)'
    <3>1. PICK h, i : h \in G /\ i \in DOMAIN todo[h] /\ v = todo[h][i] /\ v.g = x
      BY OwedIs
    <3>2. \E j \in DOMAIN todo'[h] : v = todo'[h][j]
      <4>1. CASE h # g
        BY <4>1, <3>1, <1>2
      <4>2. CASE h = g
        <5>1. i # 1
          BY <4>2, <3>1, <2>2, <1>1
        <5>2. i - 1 \in DOMAIN t /\ (i - 1) + 1 = i
          <6>1. i \in 1..Len(todo[g]) /\ Len(todo[g]) \in Nat
            BY <4>2, <3>1, <1>1
          <6> QED
            BY <6>1, <5>1, <1>1
        <5>3. t[i - 1] = v
          BY <5>2, <1>3, <3>1, <4>2
        <5> QED
          BY <5>2, <5>3, <1>2, <4>2
      <4> QED
        BY <4>1, <4>2
    <3> QED
      BY <3>1, <3>2 DEF Owed, ToSet
  <2> QED
    BY <2>1, <2>2
<1>7. OwedOnce'
  <2> SUFFICES ASSUME NEW h \in G, NEW k \in G, NEW i \in DOMAIN todo'[h], NEW j \in DOMAIN todo'[k],
                      todo'[h][i].g = todo'[k][j].g
               PROVE  h = k /\ i = j
    BY DEF OwedOnce
  <2> DEFINE Old(a, n) == IF a = g THEN n + 1 ELSE n
  <2>1. \A a \in G : \A n \in DOMAIN todo'[a] : Old(a, n) \in DOMAIN todo[a] /\ todo'[a][n] = todo[a][Old(a, n)]
    BY <1>2, <1>3
  <2>2. h = k /\ Old(h, i) = Old(k, j)
    <3>1. Old(h, i) \in DOMAIN todo[h] /\ todo'[h][i] = todo[h][Old(h, i)]
      BY <2>1
    <3>2. Old(k, j) \in DOMAIN todo[k] /\ todo'[k][j] = todo[k][Old(k, j)]
      BY <2>1
    <3> HIDE DEF Old
    <3> QED
      BY <3>1, <3>2 DEF OwedOnce
  <2>3. h = g => i \in Int /\ j \in Int
    BY <2>2, <1>1, <1>2
  <2> QED
    BY <2>2, <2>3
<1> QED
  BY <1>1, <1>5, <1>6, <1>7 DEF w

----------------------------------------------------------------------------
(* How the others fare in a step: nothing happens to them, they are served *)
(* in their sleep, or they are readied.                                    *)

Same(h) ==
  /\ pc'[h] = pc[h] /\ param'[h] = param[h] /\ selectDone'[h] = selectDone[h] /\ elem'[h] = elem[h]
  /\ Owed(h)' = Owed(h)
Served(h, w) ==
  /\ w.g = h /\ Asleep(h)
  /\ pc'[h] = pc[h] /\ param'[h] = param[h]
  /\ selectDone'[h] = IF IsSelect(h) THEN 1 ELSE selectDone[h]
  /\ elem'[h] = elem[h] \/ w.param # NoCase
  /\ Owed(h)' = {w}
  /\ w.param \in op[h].cases \cup {NoCase} /\ (w.param = NoCase => Ended(h)')
Readied(h, w) ==
  /\ pc'[h] = "woken" /\ param'[h] = w.param
  /\ selectDone'[h] = selectDone[h] /\ elem'[h] = elem[h]
  /\ Owed(h) = {w} /\ Owed(h)' = {}
Fares(h) ==
  /\ op'[h] = op[h] /\ res'[h] = res[h]
  /\ Same(h) \/ \E w : Served(h, w) \/ Readied(h, w)

(* Channels stay closed, and empty then.                                   *)
Stable ==
  \A c \in Chan : closed[c] => closed'[c] /\ (qcount[c] = 0 => qcount'[c] = 0)

(* The part of the step that is about the goroutine itself.                *)
Failed(g) ==
  FailedTry(g) => g \in blocked \/ \E cs \in op[g].cases : cs[2] = "send" /\ closed[cs[1]]
Own(g) ==
  /\ Place(g)' /\ Lock(g)' /\ Param(g)' /\ Given(g)' /\ Looked(g)' /\ Failed(g)'
  /\ Owed(g)' = {}
  /\ At(g, "drain")' => \A c \in ChansOf(g)' : closed'[c]
OthersFare(g) ==
  /\ \A h \in G \ {g} : Fares(h) /\ todo'[h] = todo[h]
  /\ \A c \in Chan : \A h \in G \ {g} : lock'[c] = h <=> lock[c] = h

LEMMA OwedParked ==
  ASSUME IInv, NEW g \in G, Owed(g) # {}
  PROVE  At(g, "parked")
<1>1. PICK w \in Owed(g) : Debt(w)
  BY DEF IInv, Debts
<1>2. w.g = g
  BY OwedIs
<1> QED
  BY <1>1, <1>2 DEF Debt

LEMMA EndedStays ==
  ASSUME IInv, NEW h \in G, op'[h] = op[h], Stable, Ended(h), op[h] \in Operations
  PROVE  Ended(h)'
<1>1. PICK cs \in op[h].cases : closed[cs[1]] /\ (cs[2] = "recv" => qcount[cs[1]] = 0)
  BY DEF Ended
<1>2. cs[1] \in Chan
  BY ChansAre DEF ChansOf
<1> QED
  BY <1>1, <1>2 DEF Stable, Ended

LEMMA InOperation ==
  ASSUME IInv, NEW g \in G
  PROVE  ~At(g, "idle") => op[g] \in Operations /\ op[g] # NoOp
BY OpFacts DEF IInv, Types, Places, Place

LEMMA FaresWell ==
  ASSUME IInv, NEW h \in G, Fares(h), Stable
  PROVE  /\ Param(h)' /\ Given(h)'
         /\ \A w \in Owed(h)' : Debt(w)'
<1> USE DEF At
<1>0. op'[h] = op[h] /\ (IsSelect(h)' <=> IsSelect(h))
  BY DEF Fares, IsSelect
<1>1. Param(h) /\ Given(h) /\ (\A w \in Owed(h) : Debt(w) /\ w.g = h) /\ (Owed(h) # {} => pc[h] = "parked")
  BY OwedIs, OwedParked DEF IInv, Params, Givens, Debts
<1>2. Ended(h) /\ pc[h] # "idle" => Ended(h)'
  BY <1>0, InOperation, EndedStays
<1>3. CASE Same(h)
  <2> USE <1>3 DEF Same
  <2>1. Param(h)'
    BY <1>0, <1>1, <1>2 DEF Param, Back
  <2>2. Given(h)'
    BY <1>1 DEF Given
  <2>3. \A w \in Owed(h)' : Debt(w)'
    <3> TAKE w \in Owed(h)'
    <3>1. Debt(w) /\ w.g = h /\ pc[h] = "parked"
      BY <1>1
    <3> QED
      BY <3>1, <1>0, <1>2 DEF Debt
  <2> QED
    BY <2>1, <2>2, <2>3
<1>4. ASSUME NEW w, Served(h, w) PROVE Param(h)' /\ Given(h)' /\ \A v \in Owed(h)' : Debt(v)'
  <2> USE <1>4 DEF Served
  <2>1. pc[h] = "parked" /\ param[h] = NoCase /\ selectDone[h] \in {0, 1}
    BY <1>1 DEF Asleep, Param, Back, IInv, Types
  <2>2. Param(h)'
    BY <1>0, <1>1, <2>1 DEF Param, Back, Asleep
  <2>3. Given(h)'
    <3>1. CASE w.param # NoCase
      BY <3>1 DEF Given
    <3>2. CASE w.param = NoCase
      <4>1. elem[h] = None
        BY <1>1, <2>1 DEF Given, Asleep
      <4> QED
        BY <4>1, <3>2 DEF Given
    <3> QED
      BY <3>1, <3>2
  <2>4. Debt(w)'
    BY <1>0, <2>1 DEF Debt
  <2> QED
    BY <2>2, <2>3, <2>4
<1>5. ASSUME NEW w, Readied(h, w) PROVE Param(h)' /\ Given(h)' /\ \A v \in Owed(h)' : Debt(v)'
  <2> USE <1>5 DEF Readied
  <2>1. pc[h] = "parked" /\ Debt(w) /\ w.g = h
    BY <1>1
  <2>2. Param(h)'
    BY <1>0, <1>1, <1>2, <2>1 DEF Param, Back, Debt
  <2>3. Given(h)'
    BY <1>1, <2>1 DEF Given, Param, Back
  <2> QED
    BY <2>2, <2>3
<1> QED
  BY <1>3, <1>4, <1>5 DEF Fares

(* Putting the parts of a step together.                                   *)
LEMMA StepKeeps ==
  ASSUME IInv, NEW g \in G, Types', Stable, Remember, OthersFare(g), Own(g),
         OwedOnce', Queues', ChannelsAre'
  PROVE  IInv'
<1>0. \A h \in G \ {g} : Fares(h) /\ todo'[h] = todo[h] /\ (pc'[h] = pc[h] \/ (At(h, "parked") /\ pc'[h] = "woken"))
  <2> TAKE h \in G \ {g}
  <2>1. Fares(h) /\ todo'[h] = todo[h]
    BY DEF OthersFare
  <2>2. Owed(h) # {} => At(h, "parked")
    BY OwedParked
  <2> QED
    BY <2>1, <2>2 DEF Fares, Same, Served, Readied
<1>1. Places'
  <2>1. ASSUME NEW h \in G \ {g} PROVE Place(h)'
    <3>1. Place(h) /\ op'[h] = op[h] /\ (IsSelect(h)' <=> IsSelect(h)) /\ todo'[h] = todo[h] /\ res'[h] = res[h]
      BY <1>0 DEF Fares, IsSelect, IInv, Places
    <3>2. pc'[h] = pc[h] => Place(h)'
      BY <3>1 DEF Place, At, Back
    <3>3. pc[h] = "parked" /\ pc'[h] = "woken" => Place(h)'
      BY <3>1, InOperation DEF Place, At, Back
    <3> QED
      BY <1>0, <3>2, <3>3 DEF At
  <2> QED
    BY <2>1 DEF Places, Own
<1>2. Locks'
  <2>1. ASSUME NEW h \in G \ {g} PROVE Lock(h)'
    <3>1. Lock(h) /\ op'[h] = op[h] /\ (IsSelect(h)' <=> IsSelect(h)) /\ ChansOf(h)' = ChansOf(h)
      BY <1>0 DEF Fares, IsSelect, ChansOf, IInv, Locks
    <3>2. \A c \in Chan : lock'[c] = h <=> lock[c] = h
      BY DEF OthersFare
    <3>3. (Locking(h)' <=> Locking(h)) /\ (pc'[h] \in Inside <=> pc[h] \in Inside)
      BY <3>1, <1>0 DEF Locking, Inside, At
    <3>4. pc[h] = "idle" \/ ChansOf(h) \subseteq Chan
      BY InOperation, ChansAre DEF At
    <3>5. pc[h] = "idle" => ~Locking(h) /\ pc[h] \notin Inside
      BY DEF Locking, Inside
    <3> QED
      BY <3>1, <3>2, <3>3, <3>4, <3>5 DEF Lock
  <2> QED
    BY <2>1 DEF Locks, Own
<1>3. Params' /\ Givens' /\ Debts'
  <2>1. \A h \in G \ {g} : Param(h)' /\ Given(h)' /\ \A w \in Owed(h)' : Debt(w)'
    BY <1>0, FaresWell
  <2> QED
    BY <2>1 DEF Params, Givens, Debts, Own
<1>4. Draining'
  <2>1. ASSUME NEW h \in G \ {g}, At(h, "drain")' PROVE \A c \in ChansOf(h)' : closed'[c]
    <3>1. At(h, "drain") /\ ChansOf(h)' = ChansOf(h)
      BY <1>0, <2>1 DEF At, ChansOf, Fares
    <3>2. ChansOf(h) \subseteq Chan
      BY <3>1, InOperation, ChansAre DEF At
    <3> QED
      BY <3>1, <3>2 DEF IInv, Draining, Stable
  <2> QED
    BY <2>1 DEF Draining, Own
<1>5. Looks' /\ FailureWasReal'
  <2>1. ASSUME NEW h \in G \ {g} PROVE Looked(h)' /\ Failed(h)'
    <3>1. op'[h] = op[h] /\ res'[h] = res[h] /\ Looked(h) /\ Failed(h)
      BY <1>0 DEF Fares, IInv, Looks, FailureWasReal, Failed
    <3>2. h \in blocked /\ h \in Tries => h \in blocked'
      BY <3>1 DEF Remember, Tries
    <3>3. pc'[h] \in {"look2", "done"} => pc'[h] = pc[h]
      BY <1>0
    <3>4. \A cs \in op[h].cases : pc[h] # "idle" /\ closed[cs[1]] => closed'[cs[1]]
      BY InOperation, ChansAre DEF At, ChansOf, Stable
    <3>5. Looked(h)'
      <4> SUFFICES ASSUME At(h, "look2")', NEW cs \in op[h].cases, cs[2] = "recv", ~closed'[cs[1]]
                   PROVE  h \in blocked'
        BY <3>1 DEF Looked
      <4>1. At(h, "look2") /\ h \in blocked
        BY <3>1, <3>3, <3>4 DEF Looked, At
      <4>2. h \in Tries
        BY <4>1, OneCase, InOperation DEF IInv, Places, Place, Tries, At
      <4> QED
        BY <4>1, <4>2, <3>2
    <3>6. Failed(h)'
      <4> SUFFICES ASSUME FailedTry(h)' PROVE h \in blocked' \/ \E cs \in op[h].cases : cs[2] = "send" /\ closed'[cs[1]]
        BY <3>1 DEF Failed
      <4>1. FailedTry(h)
        BY <3>1, <3>3 DEF FailedTry, At, Tries, Fail, Result, NoCase
      <4> QED
        BY <4>1, <3>1, <3>2, <3>4 DEF Failed, FailedTry, At
    <3> QED
      BY <3>5, <3>6
  <2>2. Looks'
    BY <2>1 DEF Looks, Own
  <2>3. \A h \in G : Failed(h)'
    BY <2>1 DEF Own
  <2> QED
    BY <2>2, <2>3 DEF FailureWasReal, Failed
<1> QED
  BY <1>1, <1>2, <1>3, <1>4, <1>5 DEF IInv

----------------------------------------------------------------------------
(* The queues in a step.                                                   *)

LEMMA QueueTypes ==
  /\ Types => \A c \in Chan, dir \in Dir : Queue(c, dir) \in Seq(G)
  /\ Types' => \A c \in Chan, dir \in Dir : Queue(c, dir)' \in Seq(G)
BY DEF Types, Queue

LEMMA Members ==
  ASSUME IInv, NEW c \in Chan, NEW dir \in Dir, NEW h \in ToSet(Queue(c, dir))
  PROVE  /\ h \in G /\ <<c, dir>> \in op[h].cases /\ pc[h] \in {"parked"} \cup Back
         /\ Asleep(h) \/ (IsSelect(h) /\ (Live(h) <=> Asleep(h)))
         /\ Live(h) <=> Asleep(h)
<1>1. h \in G
  BY QueueTypes, ToSetFacts DEF IInv
<1>2. <<c, dir>> \in op[h].cases /\ (Asleep(h) \/ (IsSelect(h) /\ pc[h] \in {"parked"} \cup Back))
  BY DEF IInv, Queues, Queued
<1>3. selectDone[h] \in {0, 1} /\ (selectDone[h] = 1 <=> IsSelect(h) /\ (pc[h] \in Back \/ (At(h, "parked") /\ Owed(h) # {})))
  BY <1>1 DEF IInv, Types, Params, Param
<1> QED
  BY <1>1, <1>2, <1>3 DEF Live, Asleep, At, Back

LEMMA QueuesKept ==
  ASSUME IInv, NEW g \in G, ~Asleep(g), ~Asleep(g)',
         \A h \in G \ {g} : Fares(h),
         \A c \in Chan, dir \in Dir :
           /\ Distinct(Queue(c, dir)')
           /\ ToSet(Queue(c, dir)') \subseteq ToSet(Queue(c, dir))
           /\ g \in ToSet(Queue(c, dir)') => op'[g] = op[g] /\ pc'[g] \in Back
           /\ \A h \in ToSet(Queue(c, dir)) : h \in ToSet(Queue(c, dir)') \/ ~Asleep(h)'
           /\ \A w : \A h \in ToSet(Queue(c, dir)') : h # g /\ Served(h, w) => IsSelect(h)
  PROVE  Queues'
<1>1. ASSUME NEW c \in Chan, NEW dir \in Dir, NEW h \in ToSet(Queue(c, dir)')
      PROVE  <<c, dir>> \in op'[h].cases /\ (Asleep(h)' \/ (IsSelect(h)' /\ pc'[h] \in {"parked"} \cup Back))
  <2>1. h \in ToSet(Queue(c, dir))
    OBVIOUS
  <2>2. h \in G /\ <<c, dir>> \in op[h].cases /\ (Asleep(h) \/ IsSelect(h)) /\ pc[h] \in {"parked"} \cup Back
    BY <2>1, Members
  <2>3. CASE h = g
    BY <2>2, <2>3 DEF IsSelect
  <2>4. CASE h # g
    <3>1. Fares(h) /\ op'[h] = op[h] /\ (IsSelect(h)' <=> IsSelect(h))
      BY <2>2, <2>4 DEF Fares, IsSelect
    <3>2. CASE Same(h)
      BY <2>2, <3>1, <3>2 DEF Same, Asleep, At
    <3>3. ASSUME NEW w, Served(h, w) PROVE IsSelect(h) /\ pc'[h] = pc[h]
      BY <2>4, <3>3 DEF Served
    <3>4. ASSUME NEW w, Readied(h, w) PROVE ~Asleep(h) /\ pc'[h] = "woken"
      BY <3>4 DEF Readied, Asleep
    <3> QED
      BY <2>2, <3>1, <3>2, <3>3, <3>4 DEF Fares, Back
  <2> QED
    BY <2>3, <2>4
<1>2. ASSUME NEW h \in G, Asleep(h)', NEW cs \in op'[h].cases PROVE h \in ToSet(Queue(cs[1], cs[2])')
  <2>1. h # g /\ Fares(h)
    BY <1>2
  <2>2. Asleep(h) /\ op'[h] = op[h]
    BY <1>2, <2>1 DEF Fares, Same, Served, Readied, Asleep, At
  <2>3. op[h] \in Operations /\ op[h].kind = "block"
    BY <2>2, InOperation DEF Asleep, At, IInv, Places, Place
  <2>4. cs \in Case /\ cs[1] \in Chan /\ cs[2] \in Dir
    BY <2>2, <2>3, ChansAre, CaseFacts
  <2>5. h \in ToSet(Queue(cs[1], cs[2]))
    BY <2>2 DEF IInv, Queues, Sleeper
  <2> QED
    BY <1>2, <2>4, <2>5
<1> QED
  BY <1>1, <1>2 DEF Queues, Queued, Sleeper

LEMMA EmptyIs ==
  ASSUME NEW q \in Seq(G)
  PROVE  ToSet(q) = {} <=> q = <<>>
BY ToSetFacts

LEMMA EmptyLen ==
  ASSUME NEW S, NEW q \in Seq(S)
  PROVE  q = <<>> <=> Len(q) = 0
OBVIOUS

LEMMA ChannelKept ==
  ASSUME IInv, Types', NEW g \in G, NEW c \in Chan, OthersFare(g),
         At(g, "drain") /\ lock[c] = g => At(g, "drain")' /\ lock'[c] = g,
         \A dir \in Dir : /\ ToSet(Queue(c, dir)') \subseteq ToSet(Queue(c, dir))
                          /\ g \in ToSet(Queue(c, dir)') => op'[g] = op[g],
         Buffer(c)', Room(c)', closed'[c] = closed[c]
  PROVE  Channel(c)'
<1>1. Channel(c) /\ sendq[c] \in Seq(G) /\ recvq[c] \in Seq(G) /\ sendq'[c] \in Seq(G) /\ recvq'[c] \in Seq(G)
  BY DEF IInv, ChannelsAre, Types
<1>2. ToSet(sendq'[c]) \subseteq ToSet(sendq[c]) /\ ToSet(recvq'[c]) \subseteq ToSet(recvq[c])
  BY DEF Queue, Dir
<1>0. /\ ToSet(sendq[c]) = {} <=> sendq[c] = <<>>
      /\ ToSet(recvq[c]) = {} <=> recvq[c] = <<>>
      /\ ToSet(sendq'[c]) = {} <=> sendq'[c] = <<>>
      /\ ToSet(recvq'[c]) = {} <=> recvq'[c] = <<>>
  BY <1>1, EmptyIs
<1>3. /\ sendq[c] = <<>> => sendq'[c] = <<>>
      /\ recvq[c] = <<>> => recvq'[c] = <<>>
  BY <1>2, <1>0
<1>4. \/ sendq'[c] = <<>> \/ recvq'[c] = <<>>
      \/ Cap[c] = 0 /\ \E h \in G : IsSelect(h)' /\ ToSet(sendq'[c]) = {h} /\ ToSet(recvq'[c]) = {h}
  <2> SUFFICES ASSUME sendq'[c] # <<>>, recvq'[c] # <<>>
               PROVE  Cap[c] = 0 /\ \E h \in G : IsSelect(h)' /\ ToSet(sendq'[c]) = {h} /\ ToSet(recvq'[c]) = {h}
    OBVIOUS
  <2>1. PICK h \in G : Cap[c] = 0 /\ IsSelect(h) /\ ToSet(sendq[c]) = {h} /\ ToSet(recvq[c]) = {h}
    BY <1>1, <1>3 DEF Channel
  <2>2. ToSet(sendq'[c]) # {} /\ ToSet(recvq'[c]) # {}
    BY <1>0
  <2>3. ToSet(sendq'[c]) = {h} /\ ToSet(recvq'[c]) = {h}
    BY <1>2, <2>1, <2>2
  <2>4. op'[h] = op[h]
    BY <2>3 DEF Queue, Dir, OthersFare, Fares
  <2> QED
    BY <2>1, <2>3, <2>4 DEF IsSelect
<1>5. closed[c] => \/ sendq'[c] = <<>> /\ recvq'[c] = <<>>
                   \/ \E h \in G : At(h, "drain")' /\ lock'[c] = h
  <2> SUFFICES ASSUME NEW h \in G, At(h, "drain"), lock[c] = h PROVE At(h, "drain")' /\ lock'[c] = h
    BY <1>1, <1>3 DEF Channel
  <2>1. CASE h = g
    BY <2>1
  <2>2. CASE h # g
    <3>1. Fares(h) /\ lock'[c] = h
      BY <2>2 DEF OthersFare
    <3>2. Owed(h) = {}
      BY OwedParked DEF At
    <3> QED
      BY <3>1, <3>2 DEF Fares, Same, Served, Readied, Asleep, At
  <2> QED
    BY <2>1, <2>2
<1> QED
  BY <1>1, <1>3, <1>4, <1>5 DEF Channel

(* The same when its ring is left alone.                                   *)
LEMMA BufferKept ==
  ASSUME IInv, Types', NEW c \in Chan,
         \A dir \in Dir : ToSet(Queue(c, dir)') \subseteq ToSet(Queue(c, dir)),
         sendx'[c] = sendx[c], recvx'[c] = recvx[c], qcount'[c] = qcount[c]
  PROVE  Buffer(c)' /\ Room(c)'
<1>1. Buffer(c) /\ Room(c)
  BY DEF IInv, ChannelsAre, Channel
<1>2. /\ sendq[c] \in Seq(G) /\ recvq[c] \in Seq(G) /\ sendq'[c] \in Seq(G) /\ recvq'[c] \in Seq(G)
      /\ ToSet(sendq'[c]) \subseteq ToSet(sendq[c]) /\ ToSet(recvq'[c]) \subseteq ToSet(recvq[c])
  BY DEF IInv, Types, Queue, Dir
<1>3. /\ sendq[c] = <<>> => sendq'[c] = <<>>
      /\ recvq[c] = <<>> => recvq'[c] = <<>>
  BY <1>2, EmptyIs
<1> QED
  BY <1>1, <1>3 DEF Buffer, Room

(* A step that does not touch the channels.                                *)
LEMMA LocalKeeps ==
  ASSUME IInv, NEW g \in G, Types', Remember, UNCHANGED <<chanVars, todo, selectDone>>,
         \A h \in G \ {g} : /\ pc'[h] = pc[h] /\ op'[h] = op[h] /\ param'[h] = param[h]
                            /\ elem'[h] = elem[h] /\ res'[h] = res[h],
         \A c \in Chan : \A h \in G \ {g} : lock'[c] = h <=> lock[c] = h,
         pc[g] \notin {"parked", "drain"}, pc'[g] \notin {"parked", "drain"},
         pc[g] \in Back /\ IsSelect(g) => op'[g] = op[g] /\ pc'[g] \in Back,
         Place(g)', Lock(g)', Param(g)', Given(g)', Looked(g)', Failed(g)'
  PROVE  IInv'
<1>1. Owed(g) = {} /\ \A h : Owed(h)' = Owed(h)
  BY OwedParked, OwedKept DEF At
<1>2. OwedOnce'
  BY OwedKept DEF IInv
<1>3. Stable
  BY DEF Stable, chanVars
<1>4. Own(g)
  BY <1>1 DEF Own, At
<1>5. OthersFare(g)
  BY <1>1 DEF OthersFare, Fares, Same
<1>6. ~Asleep(g) /\ ~Asleep(g)'
  BY DEF Asleep, At
<1>7. \A c, dir : Queue(c, dir)' = Queue(c, dir)
  BY DEF Queue, chanVars
<1>8. \A c \in Chan, dir \in Dir : g \in ToSet(Queue(c, dir)) => op'[g] = op[g] /\ pc'[g] \in Back
  <2> SUFFICES ASSUME NEW c \in Chan, NEW dir \in Dir, g \in ToSet(Queue(c, dir))
               PROVE  op'[g] = op[g] /\ pc'[g] \in Back
    OBVIOUS
  <2>1. pc[g] \in {"parked"} \cup Back /\ (Asleep(g) \/ IsSelect(g))
    BY Members
  <2> QED
    BY <2>1, <1>6
<1>9. \A w : \A h \in G \ {g} : ~Served(h, w)
  BY <1>1 DEF Served, Asleep
<1>10. Queues'
  <2>1. \A c \in Chan, dir \in Dir : Distinct(Queue(c, dir)) /\ ToSet(Queue(c, dir)) \subseteq G
    BY QueueTypes, ToSetFacts DEF IInv, Queues, Queued
  <2>2. \A h \in G \ {g} : Fares(h)
    BY <1>5 DEF OthersFare
  <2>3. \A c \in Chan, dir \in Dir : Distinct(Queue(c, dir)') /\ ToSet(Queue(c, dir)') = ToSet(Queue(c, dir))
    BY <1>7, <2>1 DEF Distinct, ToSet
  <2> QED
    BY <1>6, <1>8, <1>9, <2>1, <2>2, <2>3, QueuesKept
<1>11. ChannelsAre'
  <2>1. ASSUME NEW c \in Chan PROVE Channel(c)'
    <3>1. \A dir \in Dir : ToSet(Queue(c, dir)') = ToSet(Queue(c, dir))
      BY <1>7 DEF ToSet
    <3>2. Buffer(c)' /\ Room(c)'
      BY <3>1, BufferKept DEF chanVars
    <3> QED
      BY <3>1, <3>2, <1>5, <1>8, ChannelKept DEF chanVars, At
  <2> QED
    BY <2>1 DEF ChannelsAre
<1> QED
  BY <1>2, <1>3, <1>4, <1>5, <1>10, <1>11, StepKeeps

----------------------------------------------------------------------------
(* Steps that touch no channel.                                            *)

LEMMA Outside ==
  ASSUME IInv, NEW g \in G, pc[g] \notin {"parked"} \cup Back
  PROVE  /\ Owed(g) = {} /\ param[g] = NoCase /\ selectDone[g] = 0
         /\ pc[g] # "done" => elem[g] = None
<1>1. Owed(g) = {}
  BY OwedParked DEF At
<1>2. Param(g) /\ Given(g) /\ selectDone[g] \in {0, 1}
  BY DEF IInv, Params, Givens, Types
<1> QED
  BY <1>1, <1>2 DEF Param, Given, At

LEMMA NoLocks ==
  ASSUME IInv, NEW g \in G, pc[g] \notin Inside, ~Locking(g)
  PROVE  \A c \in Chan : lock[c] # g
BY DEF IInv, Locks, Lock

LEMMA CallKeeps ==
  ASSUME IInv, NEW g \in G, NEW o \in ops, Call(g, o), Remember, UNCHANGED ops
  PROVE  IInv'
<1> USE DEF At, Goto
<1>1. o \in Operations /\ o # NoOp
  BY OpFacts DEF IInv, Types, Operations
<1>2. pc[g] = "idle" /\ op'[g] = o /\ pc' = [pc EXCEPT ![g] = pc'[g]]
      /\ pc'[g] = IF o.kind = "try" /\ Cardinality(o.cases) = 1 THEN "look"
                  ELSE IF o.kind = "close" THEN "close" ELSE "lock"
  BY DEF Call, IInv, Types
<1>3. Types'
  BY <1>1, <1>2 DEF Call, IInv, Types, PC, chanVars
<1>4. Owed(g) = {} /\ param[g] = NoCase /\ selectDone[g] = 0 /\ elem[g] = None
  BY <1>2, Outside DEF Back
<1>5. \A c \in Chan : lock[c] # g
  BY <1>2, NoLocks DEF Inside, Locking
<1>6. Place(g)'
  <2>1. todo'[g] = todo[g] /\ todo[g] = <<>>
    BY <1>2 DEF Call, IInv, Places, Place
  <2>2. o.kind \in {"block", "try", "close"}
    BY <1>1, OpFacts
  <2>3. pc'[g] = "look" => ~IsSelect(g)'
    BY <1>2 DEF IsSelect
  <2> QED
    BY <1>1, <1>2, <2>1, <2>2, <2>3 DEF Place, Back
<1>7. Lock(g)'
  <2>1. lock' = lock
    BY DEF Call
  <2>2. ChansOf(g)' \subseteq Chan /\ ChansOf(g)' # {}
    <3>1. ChansOf(g)' = {cs[1] : cs \in o.cases}
      BY <1>2 DEF ChansOf
    <3>2. CASE o.kind = "close"
      <4>1. PICK c \in Chan : o.cases = {<<c, "close">>}
        BY <1>1, <3>2, OpFacts
      <4> QED
        BY <3>1, <4>1
    <3>3. CASE o.kind # "close"
      BY <1>1, <3>1, <3>3, OpFacts, CaseFacts
    <3> QED
      BY <3>2, <3>3
  <2> QED
    BY <1>2, <1>5, <2>1, <2>2 DEF Lock, Inside, Locking
<1>8. Param(g)' /\ Given(g)' /\ Looked(g)' /\ Failed(g)'
  BY <1>2, <1>4 DEF Call, Param, Given, Looked, Failed, FailedTry, Back
<1>9. \A h \in G \ {g} : /\ pc'[h] = pc[h] /\ op'[h] = op[h] /\ param'[h] = param[h]
                         /\ elem'[h] = elem[h] /\ res'[h] = res[h]
  BY DEF Call, IInv, Types
<1>10. UNCHANGED <<chanVars, todo, selectDone>>
       /\ \A c \in Chan : \A h \in G \ {g} : lock'[c] = h <=> lock[c] = h
  BY DEF Call
<1> QED
  BY <1>2, <1>3, <1>6, <1>7, <1>8, <1>9, <1>10, LocalKeeps DEF Back

LEMMA ReturnKeeps ==
  ASSUME IInv, NEW g \in G, Return(g), Remember, UNCHANGED ops
  PROVE  IInv'
<1> USE DEF At, Goto
<1>1. pc[g] = "done" /\ pc'[g] = "idle" /\ op'[g] = NoOp /\ elem'[g] = None
  BY DEF Return, IInv, Types
<1>2. Types'
  BY DEF Return, IInv, Types, PC, chanVars, Results, Fail, Result
<1>3. Owed(g) = {} /\ param[g] = NoCase /\ selectDone[g] = 0
  BY <1>1, Outside DEF Back
<1>4. \A c \in Chan : lock[c] # g
  BY <1>1, NoLocks DEF Inside, Locking
<1>5. Place(g)'
  BY <1>1 DEF Return, Place, Back, IInv, Places
<1>6. Lock(g)'
  BY <1>1, <1>4 DEF Return, Lock, Inside, Locking
<1>7. Param(g)' /\ Given(g)' /\ Looked(g)' /\ Failed(g)'
  BY <1>1, <1>3 DEF Return, Param, Given, Looked, Failed, FailedTry, Back
<1>8. \A h \in G \ {g} : /\ pc'[h] = pc[h] /\ op'[h] = op[h] /\ param'[h] = param[h]
                         /\ elem'[h] = elem[h] /\ res'[h] = res[h]
  BY DEF Return, IInv, Types
<1>9. UNCHANGED <<chanVars, todo, selectDone>>
      /\ \A c \in Chan : \A h \in G \ {g} : lock'[c] = h <=> lock[c] = h
  BY DEF Return
<1> QED
  BY <1>1, <1>2, <1>5, <1>6, <1>7, <1>8, <1>9, LocalKeeps DEF Back

(* A goroutine that stays in its operation and changes nothing but where   *)
(* it is and what it has found.                                            *)
LEMMA MoveKeeps ==
  ASSUME IInv, NEW g \in G, Types', Remember,
         UNCHANGED <<chanVars, op, todo, selectDone, param, elem>>,
         \A h \in G \ {g} : pc'[h] = pc[h] /\ res'[h] = res[h],
         \A c \in Chan : \A h \in G \ {g} : lock'[c] = h <=> lock[c] = h,
         pc[g] \notin {"idle", "parked", "drain", "ready", "done"},
         pc'[g] \notin {"idle", "parked", "drain", "ready", "again"}, pc[g] \in Back <=> pc'[g] \in Back,
         Place(g)', Lock(g)', Looked(g)', Failed(g)'
  PROVE  IInv'
<1>1. Owed(g) = {} /\ Owed(g)' = {}
  BY OwedParked, OwedKept DEF At
<1>2. Param(g) /\ Given(g)
  BY DEF IInv, Params, Givens
<1>3. Ended(g)' = Ended(g) /\ IsSelect(g)' = IsSelect(g)
  BY DEF Ended, IsSelect, chanVars
<1>4. Param(g)'
  BY <1>1, <1>2, <1>3 DEF Param, At
<1>5. Given(g)'
  BY <1>1, <1>2 DEF Given, At
<1> QED
  BY <1>4, <1>5, LocalKeeps

(* The case of an operation on one channel.                                *)
LEMMA TheCase ==
  ASSUME IInv, NEW g \in G, ~At(g, "idle"), op[g].kind # "close", ~IsSelect(g), NEW cs \in op[g].cases
  PROVE  /\ op[g].cases = {cs} /\ cs \in Case /\ cs[1] \in Chan /\ cs[2] \in Dir
         /\ ChansOf(g) = {cs[1]} /\ cs = <<cs[1], cs[2]>>
<1>1. PICK x \in Case : op[g].cases = {x}
  BY InOperation, OneCase
<1> QED
  BY <1>1, CaseFacts DEF ChansOf

LEMMA LookKeeps ==
  ASSUME IInv, NEW g \in G, Look(g), Remember, UNCHANGED ops
  PROVE  IInv'
<1> USE DEF At, Goto
<1>1. Types' /\ pc[g] = "look" /\ pc'[g] \in {"look2", "lock"} /\ \A h \in G \ {g} : pc'[h] = pc[h] /\ res'[h] = res[h]
  BY DEF Look, IInv, Types, PC, chanVars
<1>2. op[g].kind = "try" /\ ~IsSelect(g) /\ ~IsSelect(g)' /\ op[g] # NoOp /\ todo[g] = <<>> /\ op' = op
  BY <1>1 DEF Look, IInv, Places, Place, IsSelect
<1>3. Place(g)'
  BY <1>1, <1>2 DEF Look, Place, Back
<1>4. \A c \in Chan : lock[c] # g
  BY <1>1, NoLocks DEF Inside, Locking
<1>5. Lock(g)'
  BY <1>1, <1>2, <1>4 DEF Look, Lock, Inside, Locking
<1>6. Looked(g)'
  <2> SUFFICES ASSUME pc'[g] = "look2", NEW cs \in op[g].cases, cs[2] = "recv", ~closed[cs[1]]
               PROVE  g \in blocked'
    BY <1>2 DEF Looked, Look, chanVars
  <2>1. op[g].cases = {cs} /\ cs[1] \in Chan
    BY <1>1, <1>2, TheCase
  <2>2. LooksBusy(cs[1], cs[2])
    BY <2>1, <1>1 DEF Look, ClosedFirst, IInv, Types
  <2>3. Channel(cs[1])
    BY <2>1 DEF IInv, ChannelsAre
  <2>4. Cap[cs[1]] \in Nat /\ qcount[cs[1]] \in Nat
    BY <2>1, ChanAssumption DEF IInv, Types
  <2>5. sendq[cs[1]] = <<>> /\ qcount[cs[1]] = 0
    BY <2>2, <2>3, <2>4 DEF LooksBusy, Channel, Buffer, Room
  <2>6. ~Possible(cs[1], cs[2])
    BY <2>5 DEF Possible, LiveIn
  <2>7. ~Possible(cs[1], cs[2])'
    <3>1. selectDone' = selectDone /\ UNCHANGED chanVars
      BY DEF Look
    <3> QED
      BY <2>5, <3>1 DEF Possible, LiveIn, chanVars
  <2>8. g \in Tries'
    BY <1>1, <1>2, OneCase, InOperation DEF Tries
  <2>9. \A x \in op'[g].cases : ~Possible(x[1], x[2])'
    BY <2>1, <2>7, <1>2
  <2> QED
    BY <2>8, <2>9 DEF Remember
<1>7. Failed(g)'
  BY <1>1 DEF Failed, FailedTry
<1>8. UNCHANGED <<chanVars, op, todo, selectDone, param, elem>> /\ lock' = lock
  BY DEF Look
<1> QED
  BY <1>1, <1>3, <1>5, <1>6, <1>7, <1>8, MoveKeeps DEF Back

LEMMA Look2Keeps ==
  ASSUME IInv, NEW g \in G, Look2(g), Remember, UNCHANGED ops
  PROVE  IInv'
<1> USE DEF At, Goto
<1>1. /\ Types' /\ pc[g] = "look2" /\ \A h \in G \ {g} : pc'[h] = pc[h] /\ res'[h] = res[h]
      /\ pc'[g] \in {"done", "lock"}
  <2>1. Fail \in Results
    BY DEF Fail, Result, Results
  <2> QED
    BY <2>1 DEF Look2, Finish, IInv, Types, PC, chanVars
<1>2. op[g].kind = "try" /\ ~IsSelect(g) /\ ~IsSelect(g)' /\ op[g] # NoOp /\ todo[g] = <<>> /\ op' = op
  BY <1>1 DEF Look2, IInv, Places, Place, IsSelect
<1>3. Place(g)'
  BY <1>1, <1>2 DEF Look2, Place, Back
<1>4. \A c \in Chan : lock[c] # g
  BY <1>1, NoLocks DEF Inside, Locking
<1>5. Lock(g)'
  BY <1>1, <1>2, <1>4 DEF Look2, Lock, Inside, Locking
<1>6. Looked(g)'
  BY <1>1 DEF Looked
<1>7. Failed(g)'
  <2> SUFFICES ASSUME pc'[g] = "done" PROVE g \in blocked' \/ \E cs \in op[g].cases : cs[2] = "send" /\ closed[cs[1]]
    BY <1>2 DEF Failed, FailedTry, Look2, chanVars
  <2>1. PICK cs \in op[g].cases : IF ClosedFirst(cs[2]) THEN LooksBusy(cs[1], cs[2]) ELSE ~closed[cs[1]]
    BY DEF Look2, Finish, IInv, Types
  <2>2. op[g].cases = {cs} /\ cs[1] \in Chan /\ cs[2] \in Dir
    BY <1>1, <1>2, TheCase
  <2>3. g \in Tries /\ g \in Tries'
    BY <1>1, <1>2, OneCase, InOperation DEF Tries
  <2>4. CASE cs[2] = "recv"
    <3>1. g \in blocked
      BY <1>1, <2>1, <2>4 DEF ClosedFirst, IInv, Looks, Looked
    <3> QED
      BY <3>1, <2>3 DEF Remember
  <2>5. CASE cs[2] = "send" /\ ~closed[cs[1]]
    <3>1. LooksBusy(cs[1], "send")
      BY <2>1, <2>5 DEF ClosedFirst
    <3>2. Channel(cs[1])
      BY <2>2 DEF IInv, ChannelsAre
    <3>3. Cap[cs[1]] \in Nat /\ qcount[cs[1]] \in Nat
      BY <2>2, ChanAssumption DEF IInv, Types
    <3>4. recvq[cs[1]] = <<>> /\ ~(qcount[cs[1]] < Cap[cs[1]])
      BY <3>1, <3>2, <3>3 DEF LooksBusy, Channel, Buffer, Room
    <3>5. selectDone' = selectDone /\ UNCHANGED chanVars
      BY DEF Look2
    <3>6. ~Possible(cs[1], cs[2])'
      BY <2>5, <3>4, <3>5 DEF Possible, LiveIn, chanVars
    <3>7. \A x \in op'[g].cases : ~Possible(x[1], x[2])'
      BY <2>2, <3>6, <1>2
    <3> QED
      BY <2>3, <3>7 DEF Remember
  <2> QED
    BY <2>2, <2>4, <2>5 DEF Dir
<1>8. UNCHANGED <<chanVars, op, todo, selectDone, param, elem>> /\ lock' = lock
  BY DEF Look2
<1> QED
  BY <1>1, <1>3, <1>5, <1>6, <1>7, <1>8, MoveKeeps DEF Back

LEMMA SelLockKeeps ==
  ASSUME IInv, NEW g \in G, SelLock(g), Remember, UNCHANGED ops
  PROVE  IInv'
<1> USE DEF At, Goto
<1>1. PICK c \in ChansOf(g) :
        /\ lock[c] = None
        /\ \A d \in ChansOf(g) : lock[d] = g <=> d < c
        /\ lock' = [lock EXCEPT ![c] = g]
        /\ IF \A d \in ChansOf(g) : d <= c THEN Goto(g, IF At(g, "lock") THEN "poll" ELSE "pass3")
           ELSE UNCHANGED pc
  BY DEF SelLock
<1>2. /\ pc[g] \in {"lock", "relock"} /\ IsSelect(g) /\ IsSelect(g)' /\ ChansOf(g)' = ChansOf(g)
      /\ UNCHANGED <<chanVars, op, todo, selectDone, param, elem, res>>
  BY DEF SelLock, IsSelect, ChansOf
<1>3. ChansOf(g) \subseteq Chan /\ Chan \subseteq Nat /\ c \in Chan
  BY <1>2, InOperation, ChansAre, ChanAssumption
<1>4. \A d \in Chan : lock'[d] = IF d = c THEN g ELSE lock[d]
  BY <1>1, <1>3 DEF IInv, Types
<1>5. pc'[g] = IF \A d \in ChansOf(g) : d <= c THEN IF pc[g] = "lock" THEN "poll" ELSE "pass3" ELSE pc[g]
  BY <1>1 DEF IInv, Types
<1>6. Types' /\ \A h \in G \ {g} : pc'[h] = pc[h] /\ res'[h] = res[h]
  BY <1>1, <1>2, <1>3 DEF IInv, Types, PC, chanVars
<1>7. Place(g)'
  BY <1>2, <1>5 DEF IInv, Places, Place, Back
<1>8. Lock(g)'
  <2>1. Lock(g)
    BY DEF IInv, Locks
  <2>2. \A d \in Chan : lock'[d] = g => d \in ChansOf(g)
    BY <1>4, <2>1 DEF Lock
  <2>3. CASE \A d \in ChansOf(g) : d <= c
    <3>1. \A d \in ChansOf(g) : lock'[d] = g
      BY <1>1, <1>3, <1>4, <2>3
    <3> QED
      BY <1>2, <1>5, <2>2, <2>3, <3>1 DEF Lock, Inside, Locking
  <2>4. CASE ~\A d \in ChansOf(g) : d <= c
    <3>1. PICK e \in ChansOf(g) : ~(e <= c)
      BY <2>4
    <3>2. lock'[e] # g
      BY <1>1, <1>3, <1>4, <3>1
    <3>3. \A d, f \in ChansOf(g) : lock'[d] = g /\ f < d => lock'[f] = g
      <4> TAKE d, f \in ChansOf(g)
      <4>1. d \in Nat /\ f \in Nat /\ c \in Nat
        BY <1>3
      <4>2. lock'[d] = g => d <= c
        BY <1>1, <1>3, <1>4, <4>1
      <4>3. f < c => lock'[f] = g
        BY <1>1, <1>3, <1>4
      <4> QED
        BY <4>1, <4>2, <4>3
    <3> QED
      BY <1>2, <1>5, <2>2, <2>4, <3>2, <3>3 DEF Lock, Inside, Locking
  <2> QED
    BY <2>3, <2>4
<1>9. Looked(g)' /\ Failed(g)'
  BY <1>2, <1>5 DEF Looked, Failed, FailedTry
<1>10. \A d \in Chan : \A h \in G \ {g} : lock'[d] = h <=> lock[d] = h
  BY <1>1, <1>4, ChanAssumption
<1> QED
  BY <1>2, <1>5, <1>6, <1>7, <1>8, <1>9, <1>10, MoveKeeps DEF Back

LEMMA WokenKeeps ==
  ASSUME IInv, NEW g \in G, Woken(g), Remember, UNCHANGED ops
  PROVE  IInv'
<1> USE DEF At, Goto
<1>1. PICK cs \in op[g].cases :
        IF IsSelect(g) THEN Goto(g, "relock") /\ UNCHANGED <<res, param>>
        ELSE /\ param' = [param EXCEPT ![g] = NoCase]
             /\ IF param[g] = NoCase /\ cs[2] = "send" /\ ~closed[cs[1]]
                THEN Goto(g, "throw") /\ UNCHANGED res
                ELSE Finish(g, Result(cs, IF cs[2] = "recv" THEN elem[g] ELSE None, param[g] # NoCase))
  BY DEF Woken
<1>2. /\ pc[g] = "woken" /\ op[g].kind = "block" /\ op[g] # NoOp /\ todo[g] = <<>>
      /\ UNCHANGED <<chanVars, lock, op, selectDone, elem, todo>>
      /\ (IsSelect(g)' <=> IsSelect(g)) /\ ChansOf(g)' = ChansOf(g)
  BY DEF Woken, IInv, Places, Place, IsSelect, Back, ChansOf
<1>3. \A c \in Chan : lock[c] # g
  BY <1>2, NoLocks DEF Inside, Locking
<1>4. CASE IsSelect(g)
  <2>1. pc'[g] = "relock" /\ Types' /\ UNCHANGED <<res, param>> /\ \A h \in G \ {g} : pc'[h] = pc[h]
    BY <1>1, <1>2, <1>4 DEF IInv, Types, PC, chanVars
  <2>2. Place(g)'
    BY <1>2, <1>4, <2>1 DEF Place, Back
  <2>3. ChansOf(g) # {} /\ ChansOf(g) \subseteq Chan
    BY <1>2, InOperation, ChansAre
  <2>4. Lock(g)'
    BY <1>2, <1>3, <1>4, <2>1, <2>3 DEF Lock, Inside, Locking
  <2>5. Looked(g)' /\ Failed(g)'
    BY <2>1 DEF Looked, Failed, FailedTry
  <2> QED
    BY <1>2, <2>1, <2>2, <2>4, <2>5, MoveKeeps DEF Back
<1>5. CASE ~IsSelect(g)
  <2>1. op[g].cases = {cs} /\ cs \in Case /\ cs[2] \in Dir
    BY <1>2, <1>5, TheCase
  <2>2. Param(g) /\ Owed(g) = {} /\ Owed(g)' = {}
    BY <1>2, OwedParked, OwedKept DEF IInv, Params
  <2>3. ~(param[g] = NoCase /\ cs[2] = "send" /\ ~closed[cs[1]])
    BY <1>2, <2>1, <2>2 DEF Param, Back, Ended
  <2>4. /\ pc'[g] = "done" /\ param'[g] = NoCase /\ \A h \in G \ {g} : param'[h] = param[h]
        /\ pc' = [pc EXCEPT ![g] = "done"]
        /\ res' = [res EXCEPT ![g] = Result(cs, IF cs[2] = "recv" THEN elem[g] ELSE None, param[g] # NoCase)]
    BY <1>1, <1>5, <2>3 DEF Finish, IInv, Types
  <2>5. Types'
    <3>1. Result(cs, IF cs[2] = "recv" THEN elem[g] ELSE None, param[g] # NoCase) \in Results
      BY <2>1 DEF Result, Results, IInv, Types
    <3>2. param' \in [G -> Case \cup {NoCase}]
      <4>1. param' = [param EXCEPT ![g] = NoCase]
        BY <1>1, <1>5
      <4>2. param \in [G -> Case \cup {NoCase}]
        BY DEF IInv, Types
      <4> QED
        BY <4>1, <4>2
    <3> QED
      BY <3>1, <3>2, <1>2, <2>4 DEF IInv, Types, PC, chanVars
  <2>6. Place(g)'
    BY <1>2, <2>4 DEF Place, Back
  <2>7. Lock(g)'
    BY <1>2, <1>3, <2>4 DEF Lock, Inside, Locking
  <2>8. Param(g)' /\ Given(g)' /\ Looked(g)'
    BY <1>2, <1>5, <2>2, <2>4 DEF Param, Given, Looked, Back, IInv, Types
  <2>9. Failed(g)'
    BY <1>2 DEF Failed, FailedTry, Tries
  <2>10. \A h \in G \ {g} : pc'[h] = pc[h] /\ res'[h] = res[h]
    BY <2>4 DEF IInv, Types
  <2> QED
    BY <1>2, <1>5, <2>4, <2>5, <2>6, <2>7, <2>8, <2>9, <2>10, LocalKeeps
<1> QED
  BY <1>4, <1>5

----------------------------------------------------------------------------
(* Steps under the locks of an operation: what the poll leaves behind.     *)

Shrinks(c, dir) ==
  /\ Distinct(Queue(c, dir)') /\ ToSet(Queue(c, dir)') \subseteq ToSet(Queue(c, dir))
  /\ \A h \in ToSet(Queue(c, dir)) : h \in ToSet(Queue(c, dir)') \/ ~Asleep(h)
Opposite(dir) == IF dir = "send" THEN "recv" ELSE "send"

LEMMA LiveAre ==
  ASSUME IInv, NEW c \in Chan, NEW dir \in Dir
  PROVE  LiveIn(Queue(c, dir)) <=> \E h \in ToSet(Queue(c, dir)) : Asleep(h)
<1>1. LiveIn(Queue(c, dir)) <=> \E h \in ToSet(Queue(c, dir)) : Live(h)
  BY DEF LiveIn, ToSet
<1> QED
  BY <1>1, Members

(* A case that was polled in vain has nobody asleep on the other side.     *)
Kept(c, dir, polled) == IF <<c, Opposite(dir)>> \in polled THEN <<>> ELSE Queue(c, dir)

InVain(polled) ==
  \A c \in Chan, dir \in Dir : <<c, Opposite(dir)>> \in polled => ~LiveIn(Queue(c, dir))

LEMMA NotPossible ==
  ASSUME NEW polled, \A x \in polled : ~Possible(x[1], x[2])
  PROVE  InVain(polled)
<1> SUFFICES ASSUME NEW c \in Chan, NEW dir \in Dir, <<c, Opposite(dir)>> \in polled
             PROVE  ~LiveIn(Queue(c, dir))
  BY DEF InVain
<1>1. ~Possible(c, Opposite(dir))
  OBVIOUS
<1> QED
  BY <1>1 DEF Possible, Opposite, Queue, Dir

LEMMA Sweeps ==
  ASSUME IInv, NEW c \in Chan, NEW dir \in Dir, NEW polled, InVain(polled)
  PROVE  /\ Kept(c, dir, polled) \in Seq(G) /\ Distinct(Kept(c, dir, polled))
         /\ ToSet(Kept(c, dir, polled)) \subseteq ToSet(Queue(c, dir))
         /\ \A h \in ToSet(Queue(c, dir)) : h \in ToSet(Kept(c, dir, polled)) \/ ~Asleep(h)
<1>1. Queue(c, dir) \in Seq(G) /\ Distinct(Queue(c, dir))
  BY QueueTypes DEF IInv, Queues, Queued
<1>2. CASE <<c, Opposite(dir)>> \in polled
  <2>1. ~LiveIn(Queue(c, dir))
    BY <1>2 DEF InVain
  <2>2. \A h \in ToSet(Queue(c, dir)) : ~Asleep(h)
    BY <2>1, LiveAre
  <2>3. <<>> \in Seq(G)
    OBVIOUS
  <2>4. Kept(c, dir, polled) = <<>>
    BY <1>2 DEF Kept
  <2> QED
    BY <2>2, <2>3, <2>4, ToSetFacts
<1>3. CASE <<c, Opposite(dir)>> \notin polled
  BY <1>1, <1>3 DEF Kept
<1> QED
  BY <1>2, <1>3

LEMMA SweptIs ==
  ASSUME NEW c \in Chan, NEW polled
  PROVE  /\ Swept(sendq, "recv", polled)[c] = Kept(c, "send", polled)
         /\ Swept(recvq, "send", polled)[c] = Kept(c, "recv", polled)
BY DEF Swept, Kept, Opposite, Queue

(* A goroutine that polls, and its unlock.                                 *)
LEMMA Polls ==
  ASSUME IInv, NEW g \in G, Polling(g)
  PROVE  /\ pc[g] \in {"poll", "again", "lock"} /\ op[g] \in Operations /\ op[g] # NoOp
         /\ op[g].kind \in {"block", "try"} /\ (pc[g] = "lock" => ~IsSelect(g))
         /\ op[g].cases \subseteq Case /\ todo[g] = <<>>
         /\ Owed(g) = {} /\ param[g] = NoCase /\ selectDone[g] = 0 /\ elem[g] = None
         /\ \A c \in Chan, dir \in Dir : g \notin ToSet(Queue(c, dir))
<1>1. pc[g] \in {"poll", "again", "lock"} /\ (pc[g] = "lock" => ~IsSelect(g))
  BY DEF Polling, At
<1>2. op[g] \in Operations /\ op[g] # NoOp /\ op[g].kind \in {"block", "try"} /\ todo[g] = <<>>
  BY <1>1, InOperation DEF IInv, Places, Place, At
<1> QED
  BY <1>1, <1>2, Outside, ChansAre, Members DEF Back

LEMMA Unlocks ==
  ASSUME Types, NEW g \in G, Unlock(g)
  PROVE  /\ lock' \in [Chan -> G \cup {None}]
         /\ \A c \in Chan : lock'[c] # g /\ \A h \in G \ {g} : lock'[c] = h <=> lock[c] = h
BY ChanAssumption DEF Unlock, Types

(* A goroutine that is done with its operation, having served or failed    *)
(* it alone.                                                               *)
LEMMA FinishKeeps ==
  ASSUME IInv, NEW g \in G, Polling(g), Types', Stable, Remember, Unlock(g),
         UNCHANGED <<op, todo, selectDone, param, elem>>,
         pc'[g] = "done", \A h \in G \ {g} : pc'[h] = pc[h] /\ res'[h] = res[h],
         \A c \in Chan, dir \in Dir : Shrinks(c, dir),
         \A c \in Chan : Buffer(c)' /\ Room(c)' /\ closed'[c] = closed[c],
         Failed(g)'
  PROVE  IInv'
<1>1. Owed(g) = {} /\ \A h : Owed(h)' = Owed(h)
  BY Polls, OwedKept
<1>2. OwedOnce'
  BY OwedKept DEF IInv
<1>3. /\ \A c \in Chan : lock'[c] # g
      /\ \A c \in Chan : \A h \in G \ {g} : lock'[c] = h <=> lock[c] = h
  BY Unlocks DEF IInv
<1>4. Own(g)
  <2>1. Place(g)'
    BY Polls DEF Place, At, Back
  <2>2. Lock(g)'
    BY <1>3 DEF Lock, Inside, Locking
  <2>3. Param(g)' /\ Given(g)' /\ Looked(g)'
    BY Polls DEF Param, Given, Looked, At, Back
  <2> QED
    BY <1>1, <2>1, <2>2, <2>3 DEF Own, At
<1>5. OthersFare(g)
  BY <1>1, <1>3 DEF OthersFare, Fares, Same
<1>6. Queues'
  <2>1. ~Asleep(g) /\ ~Asleep(g)'
    BY Polls DEF Asleep, At
  <2>2. \A w : \A h \in G \ {g} : ~Served(h, w)
    BY <1>1 DEF Served, Asleep
  <2>3. \A h \in G : ~Asleep(h) => ~Asleep(h)'
    BY <1>1, <2>1 DEF Asleep, At
  <2>4. \A c \in Chan, dir \in Dir : ToSet(Queue(c, dir)) \subseteq G /\ g \notin ToSet(Queue(c, dir))
    BY Polls, QueueTypes, ToSetFacts DEF IInv
  <2>5. \A h \in G \ {g} : Fares(h)
    BY <1>5 DEF OthersFare
  <2> QED
    BY <2>1, <2>2, <2>3, <2>4, <2>5, QueuesKept DEF Shrinks
<1>7. ChannelsAre'
  <2>1. ASSUME NEW c \in Chan PROVE Channel(c)'
    <3>1. ~At(g, "drain")
      BY Polls DEF At
    <3>2. \A dir \in Dir : ToSet(Queue(c, dir)') \subseteq ToSet(Queue(c, dir))
      BY DEF Shrinks
    <3> QED
      BY <3>1, <3>2, <1>5, ChannelKept
  <2> QED
    BY <2>1 DEF ChannelsAre
<1> QED
  BY <1>2, <1>4, <1>5, <1>6, <1>7, StepKeeps

(* A goroutine g takes another one, h, off the queue in which it sleeps,   *)
(* to be readied with the param p.                                         *)
Takes(g, c, dir, h, p) ==
  /\ LiveIn(Queue(c, dir)) /\ h = Dequeued(Queue(c, dir)) /\ Queue(c, dir)' = Rest(Queue(c, dir))
  /\ \A d \in Chan, e \in Dir : <<d, e>> # <<c, dir>> => Shrinks(d, e)
  /\ ClaimSelect(h) /\ todo' = [todo EXCEPT ![g] = <<[g |-> h, param |-> p]>> \o @]
  /\ p = NoCase \/ p = <<c, dir>>
  /\ \A x \in G : (x = h /\ p # NoCase) \/ elem'[x] = elem[x]
  /\ p = NoCase => Ended(h)'

LEMMA TakesKeeps ==
  ASSUME IInv, NEW g \in G, NEW c \in Chan, NEW dir \in Dir, NEW h, NEW p, Takes(g, c, dir, h, p),
         UNCHANGED <<op, param>>, \A x \in G \ {g} : pc'[x] = pc[x] /\ res'[x] = res[x],
         pc[g] \notin {"parked"} \cup Back, pc'[g] \notin {"parked", "look2", "done"} \cup Back,
         elem[g] = None,
         \A d \in Chan : \A x \in G \ {g} : lock'[d] = x <=> lock[d] = x,
         \A d \in Chan : /\ Buffer(d)' /\ Room(d)' /\ closed'[d] = closed[d]
                         /\ At(g, "drain") /\ lock[d] = g => At(g, "drain")' /\ lock'[d] = g,
         Types', Stable, Remember, Place(g)', Lock(g)',
         At(g, "again")' => Ended(g)',
         At(g, "drain")' => \A d \in ChansOf(g)' : closed'[d]
  PROVE  IInv'
<1> USE DEF Takes
<1> DEFINE w == [g |-> h, param |-> p]
<1>1. /\ Queue(c, dir) \in Seq(G) /\ Distinct(Queue(c, dir))
      /\ h \in ToSet(Queue(c, dir)) /\ Live(h) /\ Distinct(Rest(Queue(c, dir)))
      /\ ToSet(Rest(Queue(c, dir))) \subseteq ToSet(Queue(c, dir)) \ {h}
      /\ \A x \in ToSet(Queue(c, dir)) : Live(x) => x = h \/ x \in ToSet(Rest(Queue(c, dir)))
  <2>1. Queue(c, dir) \in Seq(G) /\ Distinct(Queue(c, dir))
    BY QueueTypes DEF IInv, Queues, Queued
  <2> QED
    BY <2>1, Dequeues
<1>2. h \in G /\ Asleep(h) /\ <<c, dir>> \in op[h].cases /\ h # g
  BY <1>1, Members DEF Asleep, At
<1>3. w \in Ready1 /\ w.g = h /\ w.param = p
  BY <1>2 DEF Ready1, Case, Dir
<1>4. (\A x : Owed(x)' = IF x = h THEN {w} ELSE Owed(x)) /\ OwedOnce'
  <2>1. Owed(w.g) = {} /\ todo' = [todo EXCEPT ![g] = <<w>> \o @]
    BY <1>2, <1>3 DEF Asleep
  <2>2. Types /\ OwedOnce
    BY DEF IInv
  <2> HIDE DEF w
  <2>3. (\A x : Owed(x)' = IF x = w.g THEN {w} ELSE Owed(x)) /\ OwedOnce'
    BY <1>3, <2>1, <2>2, OwedMore
  <2> QED
    BY <1>3, <2>3
<1> HIDE DEF w
<1>5. Served(h, w)
  <2>1. selectDone'[h] = IF IsSelect(h) THEN 1 ELSE selectDone[h]
    BY <1>2 DEF ClaimSelect, IInv, Types
  <2> QED
    BY <1>2, <1>3, <1>4, <2>1 DEF Served
<1>6. ASSUME NEW x \in G \ {g, h} PROVE Same(x)
  <2>1. selectDone'[x] = selectDone[x]
    BY <1>2 DEF ClaimSelect, IInv, Types
  <2> QED
    BY <1>4, <2>1 DEF Same
<1>7. OthersFare(g)
  <2>1. \A x \in G \ {g} : todo'[x] = todo[x]
    BY DEF IInv, Types
  <2>2. \A x \in G \ {g} : Fares(x)
    BY <1>2, <1>5, <1>6 DEF Fares
  <2> QED
    BY <2>1, <2>2 DEF OthersFare
<1>8. Owed(g) = {} /\ Owed(g)' = {} /\ param'[g] = NoCase /\ selectDone'[g] = 0 /\ elem'[g] = None
  <2>1. Owed(g) = {} /\ param[g] = NoCase /\ selectDone[g] = 0
    BY Outside
  <2>2. selectDone'[g] = selectDone[g]
    BY <1>2 DEF ClaimSelect, IInv, Types
  <2> QED
    BY <2>1, <2>2, <1>2, <1>4
<1>9. Own(g)
  <2>1. Param(g)' /\ Given(g)' /\ Looked(g)' /\ Failed(g)'
    BY <1>8 DEF Param, Given, Looked, Failed, FailedTry, At
  <2> QED
    BY <1>8, <2>1 DEF Own
<1>10. ASSUME NEW d \in Chan, NEW e \in Dir
       PROVE  /\ Distinct(Queue(d, e)') /\ ToSet(Queue(d, e)') \subseteq ToSet(Queue(d, e))
              /\ \A x \in ToSet(Queue(d, e)) : x \in ToSet(Queue(d, e)') \/ ~Asleep(x)'
              /\ h \in ToSet(Queue(d, e)') => IsSelect(h)
  <2>1. ~Asleep(h)' /\ \A x : ~Asleep(x) => ~Asleep(x)' \/ x \notin G
    <3>1. ~Asleep(h)'
      BY <1>4 DEF Asleep
    <3>2. ASSUME NEW x \in G, Asleep(x)' PROVE Asleep(x)
      BY <1>4, <3>1, <3>2, <1>6, <1>8 DEF Asleep, Same, At
    <3> QED
      BY <3>1, <3>2
  <2>2. CASE <<d, e>> = <<c, dir>>
    <3>1. \A x \in ToSet(Queue(c, dir)) : x \in ToSet(Queue(c, dir)') \/ x = h \/ ~Live(x)
      BY <1>1
    <3>2. \A x \in ToSet(Queue(c, dir)) : x \in G /\ (Live(x) <=> Asleep(x))
      BY Members
    <3> QED
      BY <1>1, <2>1, <2>2, <3>1, <3>2
  <2>3. CASE <<d, e>> # <<c, dir>>
    <3>1. Shrinks(d, e)
      BY <2>3
    <3>2. \A x \in ToSet(Queue(d, e)) : x \in G
      BY Members
    <3>3. h \in ToSet(Queue(d, e)) => IsSelect(h)
      <4> SUFFICES ASSUME h \in ToSet(Queue(d, e)), ~IsSelect(h) PROVE FALSE
        OBVIOUS
      <4>1. <<d, e>> \in op[h].cases
        BY Members
      <4>2. ~At(h, "idle") /\ op[h].kind = "block"
        BY <1>2 DEF Asleep, At, IInv, Places, Place
      <4> QED
        BY <1>2, <2>3, <4>1, <4>2, TheCase
    <3> QED
      BY <2>1, <3>1, <3>2, <3>3 DEF Shrinks
  <2> QED
    BY <2>2, <2>3
<1>11. Queues'
  <2>1. ~Asleep(g) /\ ~Asleep(g)'
    BY DEF Asleep, At
  <2>2. \A v : \A x \in G \ {g} : Served(x, v) => x = h
    BY <1>4 DEF Served, Asleep
  <2>3. \A d \in Chan, e \in Dir : g \notin ToSet(Queue(d, e))
    BY Members
  <2>4. \A x \in G \ {g} : Fares(x)
    BY <1>7 DEF OthersFare
  <2>5. \A d \in Chan, e \in Dir : ToSet(Queue(d, e)) \subseteq G
    BY Members
  <2> QED
    BY <2>1, <2>2, <2>3, <2>4, <2>5, <1>10, QueuesKept
<1>12. ChannelsAre'
  <2>1. ASSUME NEW d \in Chan PROVE Channel(d)'
    <3>1. \A e \in Dir : ToSet(Queue(d, e)') \subseteq ToSet(Queue(d, e)) /\ g \notin ToSet(Queue(d, e))
      BY <1>10, Members
    <3> QED
      BY <3>1, <1>7, ChannelKept
  <2> QED
    BY <2>1 DEF ChannelsAre
<1> QED
  BY <1>4, <1>7, <1>9, <1>11, <1>12, StepKeeps
----------------------------------------------------------------------------
(* The steps of a close, of parking and of waking up.                      *)

LEMMA CloseMarkKeeps ==
  ASSUME IInv, NEW g \in G, CloseMark(g), Remember, UNCHANGED ops
  PROVE  IInv'
<1> USE DEF At, Goto
<1>1. PICK c \in ChansOf(g) :
        /\ lock[c] = None
        /\ IF closed[c] THEN Finish(g, Fail) /\ UNCHANGED <<closed, lock>>
           ELSE /\ closed' = [closed EXCEPT ![c] = TRUE]
                /\ lock' = [lock EXCEPT ![c] = g]
                /\ Goto(g, "drain")
                /\ UNCHANGED res
  BY DEF CloseMark
<1>2. /\ pc[g] = "close" /\ op[g].kind = "close" /\ op[g] # NoOp /\ todo[g] = <<>>
      /\ UNCHANGED <<ring, sendx, recvx, qcount, sendq, recvq, op, selectDone, param, elem, todo>>
  BY DEF CloseMark, IInv, Places, Place
<1>3. /\ c \in Chan /\ ChansOf(g) = {c} /\ ChansOf(g)' = {c}
      /\ op[g].cases = {<<c, "close">>} /\ ~IsSelect(g) /\ ~IsSelect(g)'
  <2>1. PICK d \in Chan : op[g].cases = {<<d, "close">>}
    BY <1>2, InOperation, OpFacts
  <2>2. ChansOf(g) = {d}
    BY <2>1 DEF ChansOf
  <2>3. Cardinality(op[g].cases) = 1
    BY <2>1, FS_Singleton
  <2> QED
    BY <1>1, <1>2, <2>1, <2>2, <2>3 DEF ChansOf, IsSelect
<1>4. \A d \in Chan : lock[d] # g
  BY <1>2, NoLocks DEF Inside, Locking
<1>5. Owed(g) = {} /\ param[g] = NoCase /\ selectDone[g] = 0 /\ elem[g] = None
  BY <1>2, Outside DEF Back
<1>6. CASE closed[c]
  <2>1. /\ pc' = [pc EXCEPT ![g] = "done"] /\ res' = [res EXCEPT ![g] = Fail]
        /\ UNCHANGED <<closed, lock>>
    BY <1>1, <1>6 DEF Finish
  <2>2. pc'[g] = "done" /\ \A h \in G \ {g} : pc'[h] = pc[h] /\ res'[h] = res[h]
    BY <2>1 DEF IInv, Types
  <2>3. Types'
    <3>1. Fail \in Results
      BY DEF Fail, Result, Results
    <3> QED
      BY <1>2, <2>1, <3>1 DEF IInv, Types, PC
  <2>4. Place(g)'
    BY <1>2, <2>2 DEF Place, Back
  <2>5. Lock(g)'
    BY <1>4, <2>1, <2>2 DEF Lock, Inside, Locking
  <2>6. Param(g)' /\ Given(g)' /\ Looked(g)' /\ Failed(g)'
    BY <1>2, <1>5, <2>2 DEF Param, Given, Looked, Failed, FailedTry, Tries, Back
  <2> QED
    BY <1>2, <2>1, <2>2, <2>3, <2>4, <2>5, <2>6, LocalKeeps DEF Back, chanVars
<1>7. CASE ~closed[c]
  <2>1. /\ pc' = [pc EXCEPT ![g] = "drain"] /\ res' = res
        /\ closed' = [closed EXCEPT ![c] = TRUE] /\ lock' = [lock EXCEPT ![c] = g]
    BY <1>1, <1>7
  <2>2. /\ pc'[g] = "drain" /\ \A h \in G \ {g} : pc'[h] = pc[h] /\ res'[h] = res[h]
        /\ \A d \in Chan : closed'[d] = (d = c \/ closed[d])
        /\ \A d \in Chan : lock'[d] = IF d = c THEN g ELSE lock[d]
    BY <1>3, <2>1 DEF IInv, Types
  <2>3. Types'
    BY <1>2, <1>3, <2>1 DEF IInv, Types, PC
  <2>4. Stable
    BY <1>2, <2>2 DEF Stable
  <2>5. (\A h : Owed(h)' = Owed(h)) /\ OwedOnce'
    BY <1>2, OwedKept DEF IInv
  <2>6. Own(g)
    <3>1. Place(g)'
      BY <1>2, <2>2 DEF Place, Back
    <3>2. Lock(g)'
      BY <1>3, <1>4, <2>2 DEF Lock, Inside, Locking
    <3>3. Param(g)' /\ Given(g)' /\ Looked(g)' /\ Failed(g)'
      BY <1>2, <1>3, <1>5, <2>2 DEF Param, Given, Looked, Failed, FailedTry, Back
    <3> QED
      BY <1>3, <1>5, <2>2, <2>5, <3>1, <3>2, <3>3 DEF Own
  <2>7. OthersFare(g)
    <3>1. \A d \in Chan : \A h \in G \ {g} : lock'[d] = h <=> lock[d] = h
      BY <1>1, <2>2, ChanAssumption
    <3> QED
      BY <1>2, <2>2, <2>5, <3>1 DEF OthersFare, Fares, Same
  <2>8. \A d, e : Queue(d, e)' = Queue(d, e)
    BY <1>2 DEF Queue
  <2>9. \A d \in Chan, e \in Dir : /\ Distinct(Queue(d, e)') /\ ToSet(Queue(d, e)') = ToSet(Queue(d, e))
                                   /\ g \notin ToSet(Queue(d, e))
    BY <1>2, <2>8, Members DEF Distinct, ToSet, Back, IInv, Queues, Queued
  <2>10. Queues'
    <3>1. ~Asleep(g) /\ ~Asleep(g)'
      BY <1>2, <2>2 DEF Asleep
    <3>2. \A w : \A h \in G \ {g} : ~Served(h, w)
      BY <2>5 DEF Served, Asleep
    <3>3. \A h \in G \ {g} : Fares(h)
      BY <2>7 DEF OthersFare
    <3>4. \A d \in Chan, e \in Dir : ToSet(Queue(d, e)) \subseteq G
      BY Members
    <3> QED
      BY <2>9, <3>1, <3>2, <3>3, <3>4, QueuesKept
  <2>11. ChannelsAre'
    <3>1. ASSUME NEW d \in Chan PROVE Channel(d)'
      <4>1. \A e \in Dir : ToSet(Queue(d, e)') \subseteq ToSet(Queue(d, e)) /\ g \notin ToSet(Queue(d, e)')
        BY <2>9
      <4>2. Buffer(d)' /\ Room(d)'
        BY <1>2, <2>3, <4>1, BufferKept
      <4>3. CASE d # c
        <5>1. closed'[d] = closed[d]
          BY <1>3, <2>1, <4>3 DEF IInv, Types
        <5>2. ~At(g, "drain")
          BY <1>2
        <5> QED
          BY <2>3, <2>7, <4>1, <4>2, <5>1, <5>2, ChannelKept
      <4>4. CASE d = c
        <5>1. Channel(c) /\ sendq' = sendq /\ recvq' = recvq /\ op' = op
          BY <1>2, <1>3 DEF IInv, ChannelsAre
        <5>2. pc'[g] = "drain" /\ lock'[c] = g
          BY <1>3, <2>2
        <5> QED
          BY <4>2, <4>4, <5>1, <5>2 DEF Channel, IsSelect
      <4> QED
        BY <4>3, <4>4
    <3> QED
      BY <3>1 DEF ChannelsAre
  <2> QED
    BY <2>3, <2>4, <2>5, <2>6, <2>7, <2>10, <2>11, StepKeeps
<1> QED
  BY <1>6, <1>7

LEMMA GiveUpKeeps ==
  ASSUME IInv, NEW g \in G, GiveUp(g), Remember, UNCHANGED ops
  PROVE  IInv'
<1> USE DEF At, Goto
<1>1. /\ Polling(g) /\ \A x \in op[g].cases : ~Possible(x[1], x[2])
      /\ op[g].kind = "try" /\ Unlock(g)
      /\ sendq' = Swept(sendq, "recv", op[g].cases)
      /\ recvq' = Swept(recvq, "send", op[g].cases)
      /\ pc' = [pc EXCEPT ![g] = "done"] /\ res' = [res EXCEPT ![g] = Fail]
      /\ UNCHANGED <<ring, sendx, recvx, qcount, closed, op, selectDone, param, elem, todo>>
  BY DEF GiveUp, NothingPossible, Finish
<1>2. \A c \in Chan, dir \in Dir : Queue(c, dir)' = Kept(c, dir, op[g].cases)
  BY <1>1, SweptIs DEF Queue, Dir
<1>3. \A c \in Chan, dir \in Dir : Queue(c, dir)' \in Seq(G) /\ Shrinks(c, dir)
  BY <1>1, <1>2, NotPossible, Sweeps DEF Shrinks
<1>4. sendq' \in [Chan -> Seq(G)] /\ recvq' \in [Chan -> Seq(G)]
  <2>1. \A c \in Chan : sendq'[c] \in Seq(G) /\ recvq'[c] \in Seq(G)
    BY <1>3 DEF Queue, Dir
  <2> QED
    BY <1>1, <2>1 DEF Swept
<1>5. Types'
  <2>1. lock' \in [Chan -> G \cup {None}]
    BY <1>1, Unlocks DEF IInv
  <2>2. Fail \in Results
    BY DEF Fail, Result, Results
  <2> QED
    BY <1>1, <1>4, <2>1, <2>2 DEF IInv, Types, PC, GiveUp
<1>6. Stable
  BY <1>1 DEF Stable
<1>7. pc'[g] = "done" /\ \A h \in G \ {g} : pc'[h] = pc[h] /\ res'[h] = res[h]
  BY <1>1 DEF IInv, Types
<1>8. \A c \in Chan : Buffer(c)' /\ Room(c)'
  BY <1>1, <1>3, <1>5, BufferKept DEF Shrinks
<1>9. Failed(g)'
  <2> SUFFICES ASSUME g \in Tries' PROVE g \in blocked'
    BY DEF Failed, FailedTry
  <2>1. ASSUME NEW x \in op[g].cases PROVE ~Possible(x[1], x[2])'
    <3>1. x[1] \in Chan /\ x[2] \in Dir /\ x = <<x[1], x[2]>>
      BY <1>1, Polls, CaseFacts
    <3>2. ~Possible(x[1], x[2])
      BY <1>1
    <3>3. CASE x[2] = "send"
      <4>1. Queue(x[1], "recv")' = <<>>
        BY <1>2, <3>1, <3>3 DEF Dir, Opposite, Kept
      <4>2. recvq'[x[1]] = <<>>
        BY <4>1 DEF Queue
      <4> QED
        BY <1>1, <3>2, <3>3, <4>2 DEF Possible, LiveIn
    <3>4. CASE x[2] = "recv"
      <4>1. Queue(x[1], "send")' = <<>>
        BY <1>2, <3>1, <3>4 DEF Dir, Opposite, Kept
      <4>2. sendq'[x[1]] = <<>>
        BY <4>1 DEF Queue
      <4> QED
        BY <1>1, <3>2, <3>4, <4>2 DEF Possible, LiveIn
    <3> QED
      BY <3>1, <3>3, <3>4 DEF Dir
  <2>2. \A x \in op'[g].cases : ~Possible(x[1], x[2])'
    BY <1>1, <2>1
  <2> QED
    BY <2>2 DEF Remember
<1>10. UNCHANGED <<op, todo, selectDone, param, elem>> /\ \A c \in Chan : closed'[c] = closed[c]
  BY <1>1
<1> QED
  BY <1>1, <1>3, <1>5, <1>6, <1>7, <1>8, <1>9, <1>10, FinishKeeps

LEMMA ReadyKeeps ==
  ASSUME IInv, NEW g \in G, Ready(g), Remember, UNCHANGED ops
  PROVE  IInv'
<1> USE DEF At, Goto
<1>0. PICK w : w = Head(todo[g])
  OBVIOUS
<1>1. /\ pc[g] = "ready" /\ todo[g] # <<>> /\ op[g] # NoOp /\ res[g] # Fail
      /\ UNCHANGED <<chanVars, lock, op, selectDone, elem, res>>
      /\ todo' = [todo EXCEPT ![g] = Tail(@)]
      /\ param' = [param EXCEPT ![w.g] = w.param]
      /\ pc' = [pc EXCEPT ![w.g] = "woken", ![g] = IF Len(todo[g]) = 1 THEN "done" ELSE "ready"]
  BY <1>0 DEF Ready, IInv, Places, Place
<1>2. /\ w \in Ready1 /\ Owed(w.g) = {w} /\ OwedOnce'
      /\ \A x : Owed(x)' = IF x = w.g THEN {} ELSE Owed(x)
  BY <1>0, <1>1, OwedLess DEF IInv
<1>3. w.g \in G /\ w.g # g /\ Debt(w)
  <2>1. w.g \in G /\ Debt(w)
    BY <1>2 DEF Ready1, IInv, Debts
  <2> QED
    BY <1>1, <2>1 DEF Debt
<1>4. /\ pc'[g] = IF Len(todo[g]) = 1 THEN "done" ELSE "ready"
      /\ pc'[w.g] = "woken" /\ param'[w.g] = w.param
      /\ \A h \in G \ {g, w.g} : pc'[h] = pc[h]
      /\ \A h \in G \ {w.g} : param'[h] = param[h]
      /\ \A h \in G \ {g} : todo'[h] = todo[h]
  BY <1>1, <1>3 DEF IInv, Types
<1>5. todo'[g] = Tail(todo[g]) /\ Tail(todo[g]) \in Seq(Ready1) /\ (Tail(todo[g]) = <<>> <=> Len(todo[g]) = 1)
  <2>1. todo[g] \in Seq(Ready1) /\ Len(todo[g]) \in Nat \ {0}
    BY <1>1 DEF IInv, Types
  <2>2. Tail(todo[g]) \in Seq(Ready1) /\ Len(Tail(todo[g])) = Len(todo[g]) - 1
    BY <2>1
  <2>3. todo'[g] = Tail(todo[g])
    BY <1>1 DEF IInv, Types
  <2>4. Tail(todo[g]) = <<>> <=> Len(Tail(todo[g])) = 0
    BY <2>2, EmptyLen
  <2> QED
    BY <2>1, <2>2, <2>3, <2>4
<1>6. Types'
  <2>1. todo' \in [G -> Seq(Ready1)]
    BY <1>1, <1>5 DEF IInv, Types
  <2>2. param' \in [G -> Case \cup {NoCase}]
    BY <1>1, <1>2 DEF IInv, Types, Ready1
  <2>3. pc' \in [G -> PC]
    BY <1>1 DEF IInv, Types, PC
  <2> QED
    BY <1>1, <2>1, <2>2, <2>3 DEF IInv, Types, chanVars
<1>7. Stable
  BY <1>1 DEF Stable, chanVars
<1>8. OthersFare(g)
  <2>1. Readied(w.g, w)
    BY <1>1, <1>2, <1>4 DEF Readied
  <2>2. \A h \in G \ {g, w.g} : Same(h)
    BY <1>1, <1>2, <1>4 DEF Same
  <2> QED
    BY <1>1, <1>3, <1>4, <2>1, <2>2 DEF OthersFare, Fares
<1>9. Own(g)
  <2>1. Owed(g) = {} /\ Owed(g)' = {} /\ param'[g] = NoCase /\ selectDone'[g] = 0 /\ elem'[g] = None
    BY <1>1, <1>2, <1>3, <1>4, Outside DEF Back
  <2>2. Place(g)'
    <3>1. res' = res /\ op' = op
      BY <1>1
    <3>2. (pc'[g] = "ready" /\ todo'[g] # <<>>) \/ (pc'[g] = "done" /\ todo'[g] = <<>>)
      BY <1>4, <1>5
    <3>3. pc'[g] = "ready" => res'[g] # Fail
      BY <1>1, <3>1
    <3> QED
      BY <1>1, <3>1, <3>2, <3>3 DEF Place, Back
  <2>3. \A c \in Chan : lock[c] # g
    BY <1>1, NoLocks DEF Inside, Locking
  <2>4. Lock(g)'
    BY <1>1, <1>4, <2>3 DEF Lock, Inside, Locking
  <2>5. Param(g)' /\ Given(g)' /\ Looked(g)'
    BY <1>4, <2>1 DEF Param, Given, Looked, Back
  <2>6. Failed(g)'
    BY <1>1 DEF Failed, FailedTry, Fail, Result
  <2> QED
    BY <1>4, <2>1, <2>2, <2>4, <2>5, <2>6 DEF Own
<1>10. \A d, e : Queue(d, e)' = Queue(d, e)
  BY <1>1 DEF Queue, chanVars
<1>11. \A d \in Chan, e \in Dir :
         /\ Distinct(Queue(d, e)') /\ ToSet(Queue(d, e)') = ToSet(Queue(d, e))
         /\ g \notin ToSet(Queue(d, e)) /\ ToSet(Queue(d, e)) \subseteq G
  BY <1>1, <1>10, Members DEF Distinct, ToSet, Back, IInv, Queues, Queued
<1>12. Queues'
  <2>1. ~Asleep(g) /\ ~Asleep(g)'
    BY <1>1, <1>4 DEF Asleep
  <2>2. \A v : \A h \in G \ {g} : ~Served(h, v)
    BY <1>2 DEF Served, Asleep
  <2>3. \A h \in G \ {g} : Fares(h)
    BY <1>8 DEF OthersFare
  <2> QED
    BY <1>11, <2>1, <2>2, <2>3, QueuesKept
<1>13. ChannelsAre'
  <2>1. ASSUME NEW d \in Chan PROVE Channel(d)'
    <3>1. \A e \in Dir : ToSet(Queue(d, e)') \subseteq ToSet(Queue(d, e)) /\ g \notin ToSet(Queue(d, e)')
      BY <1>11
    <3>2. UNCHANGED <<sendx, recvx, qcount, closed>>
      BY <1>1 DEF chanVars
    <3>3. Buffer(d)' /\ Room(d)'
      BY <1>6, <3>1, <3>2, BufferKept
    <3> QED
      BY <1>1, <1>6, <1>8, <3>1, <3>2, <3>3, ChannelKept
  <2> QED
    BY <2>1 DEF ChannelsAre
<1> QED
  BY <1>2, <1>6, <1>7, <1>8, <1>9, <1>12, <1>13, StepKeeps
LEMMA Pass3Keeps ==
  ASSUME IInv, NEW g \in G, Pass3(g), Remember, UNCHANGED ops
  PROVE  IInv'
<1> USE DEF At, Goto
<1>1. /\ pc[g] = "pass3" /\ IsSelect(g) /\ IsSelect(g)' /\ op[g].kind = "block" /\ op[g] # NoOp /\ todo[g] = <<>>
      /\ ChansOf(g)' = ChansOf(g)
      /\ selectDone' = [selectDone EXCEPT ![g] = 0]
      /\ sendq' = [c \in Chan |-> RemoveFirst(sendq[c], g)]
      /\ recvq' = [c \in Chan |-> RemoveFirst(recvq[c], g)]
      /\ param' = [param EXCEPT ![g] = NoCase]
      /\ UNCHANGED <<ring, sendx, recvx, qcount, closed, op, elem, todo>>
  BY DEF Pass3, IInv, Places, Place, IsSelect, Back, ChansOf
<1>2. \/ param[g] = NoCase /\ pc' = [pc EXCEPT ![g] = "again"] /\ UNCHANGED <<lock, res>>
      \/ /\ param[g] # NoCase /\ pc' = [pc EXCEPT ![g] = "done"] /\ Unlock(g)
         /\ res' = [res EXCEPT ![g] = Result(param[g], IF param[g][2] = "recv" THEN elem[g] ELSE None, TRUE)]
  BY DEF Pass3, Finish
<1>3. /\ pc'[g] = IF param[g] = NoCase THEN "again" ELSE "done"
      /\ param'[g] = NoCase /\ selectDone'[g] = 0
      /\ \A h \in G \ {g} : /\ pc'[h] = pc[h] /\ res'[h] = res[h] /\ param'[h] = param[h]
                            /\ selectDone'[h] = selectDone[h]
  BY <1>1, <1>2 DEF IInv, Types
<1>4. \A c \in Chan, dir \in Dir :
        /\ Queue(c, dir)' \in Seq(G) /\ Distinct(Queue(c, dir)')
        /\ ToSet(Queue(c, dir)') = ToSet(Queue(c, dir)) \ {g} /\ ToSet(Queue(c, dir)) \subseteq G
  <2>1. ASSUME NEW c \in Chan, NEW dir \in Dir
        PROVE  /\ Queue(c, dir)' \in Seq(G) /\ Distinct(Queue(c, dir)')
               /\ ToSet(Queue(c, dir)') = ToSet(Queue(c, dir)) \ {g} /\ ToSet(Queue(c, dir)) \subseteq G
    <3>1. Queue(c, dir) \in Seq(G) /\ Distinct(Queue(c, dir))
      BY QueueTypes DEF IInv, Queues, Queued
    <3>2. Queue(c, dir)' = RemoveFirst(Queue(c, dir), g)
      BY <1>1 DEF Queue
    <3> QED
      BY <3>1, <3>2, Leaves, ToSetFacts
  <2> QED
    BY <2>1
<1>5. Types'
  <2>1. sendq' \in [Chan -> Seq(G)] /\ recvq' \in [Chan -> Seq(G)]
    <3>1. \A c \in Chan : sendq'[c] \in Seq(G) /\ recvq'[c] \in Seq(G)
      BY <1>4 DEF Queue, Dir
    <3> QED
      BY <1>1, <3>1
  <2>2. lock' \in [Chan -> G \cup {None}]
    BY <1>2, Unlocks DEF IInv, Types
  <2>3. Result(param[g], IF param[g][2] = "recv" THEN elem[g] ELSE None, TRUE) \in Results
    BY DEF Result, Results, IInv, Types
  <2>4. res' \in [G -> Results] /\ pc' \in [G -> PC]
    <3>1. pc' \in [G -> PC]
      BY <1>2 DEF IInv, Types, PC
    <3>2. PICK r \in Results : r = Result(param[g], IF param[g][2] = "recv" THEN elem[g] ELSE None, TRUE)
      BY <2>3
    <3>3. UNCHANGED res \/ res' = [res EXCEPT ![g] = r]
      BY <1>2, <3>2
    <3>4. res \in [G -> Results]
      BY DEF IInv, Types
    <3> QED
      BY <3>1, <3>3, <3>4
  <2>5. selectDone' \in [G -> {0, 1}] /\ param' \in [G -> Case \cup {NoCase}]
    BY <1>1 DEF IInv, Types
  <2> QED
    BY <1>1, <2>1, <2>2, <2>4, <2>5 DEF IInv, Types
<1>6. Stable
  BY <1>1 DEF Stable
<1>7. Owed(g) = {} /\ (\A h : Owed(h)' = Owed(h)) /\ OwedOnce'
  BY <1>1, OwedParked, OwedKept DEF IInv
<1>8. OthersFare(g)
  <2>1. \A c \in Chan : \A h \in G \ {g} : lock'[c] = h <=> lock[c] = h
    BY <1>2, Unlocks DEF IInv
  <2> QED
    BY <1>1, <1>3, <1>7, <2>1 DEF OthersFare, Fares, Same
<1>9. Own(g)
  <2>1. Place(g)'
    BY <1>1, <1>3 DEF Place, Back
  <2>2. Lock(g)'
    <3>1. CASE param[g] = NoCase
      <4>1. Lock(g) /\ lock' = lock /\ pc'[g] = "again"
        BY <1>2, <1>3, <3>1 DEF IInv, Locks
      <4> QED
        BY <1>1, <4>1 DEF Lock, Inside, Locking
    <3>2. CASE param[g] # NoCase
      <4>1. pc'[g] = "done" /\ \A c \in Chan : lock'[c] # g
        BY <1>2, <1>3, <3>2, Unlocks DEF IInv
      <4> QED
        BY <4>1 DEF Lock, Inside, Locking
    <3> QED
      BY <3>1, <3>2
  <2>3. Param(g) /\ Given(g)
    BY DEF IInv, Params, Givens
  <2>4. Ended(g)' <=> Ended(g)
    BY <1>1 DEF Ended
  <2>5. Param(g)'
    BY <1>1, <1>3, <1>7, <2>3, <2>4 DEF Param, Back
  <2>6. Given(g)'
    BY <1>1, <1>3, <1>7, <2>3 DEF Given
  <2>7. Looked(g)' /\ Failed(g)'
    BY <1>1, <1>3 DEF Looked, Failed, FailedTry, Tries
  <2> QED
    BY <1>3, <1>7, <2>1, <2>2, <2>5, <2>6, <2>7 DEF Own
<1>10. Queues'
  <2>1. ~Asleep(g) /\ ~Asleep(g)'
    BY <1>1, <1>3 DEF Asleep
  <2>2. \A w : \A h \in G \ {g} : ~Served(h, w)
    BY <1>7 DEF Served, Asleep
  <2>3. \A h \in G \ {g} : Fares(h)
    BY <1>8 DEF OthersFare
  <2> QED
    BY <1>4, <2>1, <2>2, <2>3, QueuesKept
<1>11. ChannelsAre'
  <2>1. ASSUME NEW c \in Chan PROVE Channel(c)'
    <3>1. \A dir \in Dir : ToSet(Queue(c, dir)') \subseteq ToSet(Queue(c, dir)) /\ g \notin ToSet(Queue(c, dir)')
      BY <1>4
    <3>2. Buffer(c)' /\ Room(c)'
      BY <1>1, <1>5, <3>1, BufferKept
    <3>3. ~At(g, "drain")
      BY <1>1
    <3> QED
      BY <1>1, <1>5, <1>8, <3>1, <3>2, <3>3, ChannelKept
  <2> QED
    BY <2>1 DEF ChannelsAre
<1> QED
  BY <1>5, <1>6, <1>7, <1>8, <1>9, <1>10, <1>11, StepKeeps

LEMMA ParkKeeps ==
  ASSUME IInv, NEW g \in G, Park(g), Remember, UNCHANGED ops
  PROVE  IInv'
<1> USE DEF At, Goto
<1>1. /\ Polling(g) /\ \A x \in op[g].cases : ~Possible(x[1], x[2])
      /\ op[g].kind = "block" /\ Unlock(g)
      /\ sendq' = Joined(sendq, "recv", "send", g)
      /\ recvq' = Joined(recvq, "send", "recv", g)
      /\ param' = [param EXCEPT ![g] = NoCase] /\ pc' = [pc EXCEPT ![g] = "parked"]
      /\ UNCHANGED <<ring, sendx, recvx, qcount, closed, op, selectDone, elem, todo, res>>
  BY DEF Park, NothingPossible
<1>2. /\ op[g] \in Operations /\ op[g] # NoOp /\ op[g].cases \subseteq Case /\ todo[g] = <<>> /\ Owed(g) = {}
      /\ param[g] = NoCase /\ selectDone[g] = 0 /\ elem[g] = None
      /\ \A c \in Chan, dir \in Dir : g \notin ToSet(Queue(c, dir))
  BY <1>1, Polls
<1>3. /\ pc'[g] = "parked" /\ param' = param
      /\ \A h \in G \ {g} : pc'[h] = pc[h]
  BY <1>1, <1>2 DEF IInv, Types
<1>4. \A c \in Chan, dir \in Dir :
        Queue(c, dir)' = IF <<c, dir>> \in op[g].cases THEN Append(Kept(c, dir, op[g].cases), g)
                         ELSE Kept(c, dir, op[g].cases)
  <2>1. ASSUME NEW c \in Chan
        PROVE  /\ sendq'[c] = IF <<c, "send">> \in op[g].cases THEN Append(Kept(c, "send", op[g].cases), g)
                              ELSE Kept(c, "send", op[g].cases)
               /\ recvq'[c] = IF <<c, "recv">> \in op[g].cases THEN Append(Kept(c, "recv", op[g].cases), g)
                              ELSE Kept(c, "recv", op[g].cases)
    BY <1>1, SweptIs DEF Joined
  <2> QED
    BY <2>1 DEF Queue, Dir
<1>5. \A c \in Chan, dir \in Dir :
        /\ Kept(c, dir, op[g].cases) \in Seq(G) /\ Distinct(Kept(c, dir, op[g].cases))
        /\ ToSet(Kept(c, dir, op[g].cases)) \subseteq ToSet(Queue(c, dir))
        /\ \A h \in ToSet(Queue(c, dir)) : h \in ToSet(Kept(c, dir, op[g].cases)) \/ ~Asleep(h)
  BY <1>1, NotPossible, Sweeps
<1>6. \A c \in Chan, dir \in Dir :
        /\ Queue(c, dir)' \in Seq(G) /\ Distinct(Queue(c, dir)')
        /\ ToSet(Queue(c, dir)') = ToSet(Kept(c, dir, op[g].cases)) \cup
                                   (IF <<c, dir>> \in op[g].cases THEN {g} ELSE {})
  <2>1. ASSUME NEW c \in Chan, NEW dir \in Dir
        PROVE  /\ Queue(c, dir)' \in Seq(G) /\ Distinct(Queue(c, dir)')
               /\ ToSet(Queue(c, dir)') = ToSet(Kept(c, dir, op[g].cases)) \cup
                                          (IF <<c, dir>> \in op[g].cases THEN {g} ELSE {})
    <3>1. g \notin ToSet(Kept(c, dir, op[g].cases))
      BY <1>2, <1>5
    <3> DEFINE q == Kept(c, dir, op[g].cases)
    <3>2. q \in Seq(G) /\ Distinct(q) /\ g \notin ToSet(q)
      BY <3>1, <1>5
    <3>3. Queue(c, dir)' = IF <<c, dir>> \in op[g].cases THEN Append(q, g) ELSE q
      BY <1>4
    <3> HIDE DEF q
    <3>4. Append(q, g) \in Seq(G) /\ Distinct(Append(q, g)) /\ ToSet(Append(q, g)) = ToSet(q) \cup {g}
      BY <3>2, Appended
    <3> QED
      BY <3>2, <3>3, <3>4 DEF q
  <2> QED
    BY <2>1
<1>7. Types'
  <2>1. sendq' \in [Chan -> Seq(G)] /\ recvq' \in [Chan -> Seq(G)]
    <3>1. \A c \in Chan : sendq'[c] \in Seq(G) /\ recvq'[c] \in Seq(G)
      BY <1>6 DEF Queue, Dir
    <3> QED
      BY <1>1, <3>1 DEF Joined
  <2>2. lock' \in [Chan -> G \cup {None}]
    BY <1>1, Unlocks DEF IInv
  <2>3. pc' \in [G -> PC]
    BY <1>1 DEF IInv, Types, PC
  <2> QED
    BY <1>1, <1>3, <2>1, <2>2, <2>3 DEF IInv, Types
<1>8. Stable
  BY <1>1 DEF Stable
<1>9. (\A h : Owed(h)' = Owed(h)) /\ OwedOnce'
  BY <1>1, OwedKept DEF IInv
<1>10. OthersFare(g)
  <2>1. \A c \in Chan : \A h \in G \ {g} : lock'[c] = h <=> lock[c] = h
    BY <1>1, Unlocks DEF IInv
  <2> QED
    BY <1>1, <1>3, <1>9, <2>1 DEF OthersFare, Fares, Same
<1>11. Own(g)
  <2>1. Place(g)'
    BY <1>1, <1>2, <1>3 DEF Place, Back
  <2>2. Lock(g)'
    BY <1>1, <1>3, Unlocks DEF Lock, Inside, Locking, IInv
  <2>3. Param(g)' /\ Given(g)' /\ Looked(g)' /\ Failed(g)'
    BY <1>1, <1>2, <1>3, <1>9 DEF Param, Given, Looked, Failed, FailedTry, Back
  <2> QED
    BY <1>2, <1>3, <1>9, <2>1, <2>2, <2>3 DEF Own
<1>12. /\ Asleep(g)' /\ ~Asleep(g) /\ (\A h \in G \ {g} : Asleep(h)' <=> Asleep(h))
       /\ \A h \in G : IsSelect(h)' <=> IsSelect(h)
  <2>1. pc[g] # "parked"
    BY <1>1, Polls
  <2> QED
    BY <1>1, <1>2, <1>3, <1>9, <2>1 DEF Asleep, IsSelect
<1>13. Queues'
  <2>1. ASSUME NEW c \in Chan, NEW dir \in Dir, NEW h \in ToSet(Queue(c, dir)')
        PROVE  <<c, dir>> \in op'[h].cases /\ (Asleep(h)' \/ (IsSelect(h)' /\ pc'[h] \in {"parked"} \cup Back))
    <3>1. CASE h = g
      <4>1. <<c, dir>> \in op[g].cases
        BY <3>1, <1>2, <1>5, <1>6
      <4> QED
        BY <4>1, <3>1, <1>1, <1>12
    <3>2. CASE h # g
      <4>1. h \in ToSet(Queue(c, dir))
        BY <3>2, <1>5, <1>6
      <4>2. h \in G /\ <<c, dir>> \in op[h].cases /\ (Asleep(h) \/ IsSelect(h)) /\ pc[h] \in {"parked"} \cup Back
        BY <4>1, Members
      <4> QED
        BY <3>2, <4>2, <1>1, <1>3, <1>12
    <3> QED
      BY <3>1, <3>2
  <2>2. ASSUME NEW h \in G, Asleep(h)', NEW cs \in op'[h].cases PROVE h \in ToSet(Queue(cs[1], cs[2])')
    <3>1. op'[h] = op[h] /\ cs \in op[h].cases
      BY <1>1
    <3>2. CASE h = g
      <4>1. cs[1] \in Chan /\ cs[2] \in Dir /\ cs = <<cs[1], cs[2]>>
        BY <3>1, <3>2, <1>2, CaseFacts
      <4> QED
        BY <3>1, <3>2, <4>1, <1>6
    <3>3. CASE h # g
      <4>1. Asleep(h)
        BY <2>2, <3>3, <1>12
      <4>2. op[h] \in Operations /\ op[h].kind = "block"
        BY <4>1, InOperation DEF Asleep, IInv, Places, Place
      <4>3. cs[1] \in Chan /\ cs[2] \in Dir
        BY <3>1, <4>2, ChansAre, CaseFacts
      <4>4. h \in ToSet(Queue(cs[1], cs[2]))
        BY <3>1, <4>1 DEF IInv, Queues, Sleeper
      <4> QED
        BY <4>1, <4>3, <4>4, <1>5, <1>6
    <3> QED
      BY <3>2, <3>3
  <2> QED
    BY <1>6, <2>1, <2>2 DEF Queues, Queued, Sleeper
<1>14. ChannelsAre'
  <2>1. ASSUME NEW c \in Chan PROVE Channel(c)'
    <3> DEFINE S == <<c, "send">> \in op[g].cases
               R == <<c, "recv">> \in op[g].cases
    <3>0. "send" \in Dir /\ "recv" \in Dir
      BY DEF Dir
    <3>1. CASE ~S /\ ~R
      <4>1. \A dir \in Dir : ToSet(Queue(c, dir)') \subseteq ToSet(Queue(c, dir)) /\ g \notin ToSet(Queue(c, dir)')
        BY <3>1, <1>2, <1>5, <1>6 DEF Dir
      <4>2. Buffer(c)' /\ Room(c)'
        BY <1>1, <1>7, <4>1, BufferKept
      <4>3. ~At(g, "drain")
        BY <1>1, Polls
      <4> QED
        BY <1>1, <1>7, <1>10, <4>1, <4>2, <4>3, ChannelKept
    <3>2. CASE S \/ R
      <4>1. /\ Channel(c) /\ Cap[c] \in Nat /\ qcount[c] \in Nat /\ closed'[c] = closed[c]
            /\ sendx'[c] = sendx[c] /\ recvx'[c] = recvx[c] /\ qcount'[c] = qcount[c]
        BY <1>1, ChanAssumption DEF IInv, ChannelsAre, Types
      <4>2. Buffer(c)'
        BY <4>1 DEF Channel, Buffer
      <4>3. ~closed[c] /\ (S => ~(qcount[c] < Cap[c])) /\ (R => ~(qcount[c] > 0))
        <5>1. S => ~Possible(c, "send")
          BY <1>1
        <5>2. R => ~Possible(c, "recv")
          BY <1>1
        <5> QED
          BY <3>2, <5>1, <5>2 DEF Possible
      <4>4. /\ S /\ ~R => recvq'[c] = <<>>
            /\ R /\ ~S => sendq'[c] = <<>>
        BY <1>4, <3>0 DEF Queue, Kept, Opposite
      <4>5. S /\ R => /\ Cap[c] = 0 /\ IsSelect(g)' /\ ToSet(sendq'[c]) = {g} /\ ToSet(recvq'[c]) = {g}
        <5> SUFFICES ASSUME S, R PROVE Cap[c] = 0 /\ IsSelect(g)' /\ ToSet(sendq'[c]) = {g} /\ ToSet(recvq'[c]) = {g}
          OBVIOUS
        <5>1. Cap[c] = 0
          BY <4>1, <4>3 DEF Channel, Buffer
        <5>2. IsSelect(g)
          <6> SUFFICES ASSUME ~IsSelect(g) PROVE FALSE
            OBVIOUS
          <6>1. PICK x : op[g].cases = {x}
            BY <1>1, <1>2, OneCase
          <6> QED
            BY <6>1
        <5>3. Kept(c, "send", op[g].cases) = <<>> /\ Kept(c, "recv", op[g].cases) = <<>>
          BY DEF Kept, Opposite
        <5>4. ToSet(Queue(c, "send")') = {g} /\ ToSet(Queue(c, "recv")') = {g}
          BY <1>6, <5>3, <3>0, ToSetFacts
        <5> QED
          BY <5>1, <5>2, <5>4, <1>12 DEF Queue
      <4>6. Room(c)'
        BY <4>1, <4>2, <4>3, <4>4, <4>5, <3>2 DEF Room, Buffer
      <4> QED
        BY <3>2, <4>1, <4>2, <4>3, <4>4, <4>5, <4>6 DEF Channel
    <3> QED
      BY <3>1, <3>2
  <2> QED
    BY <2>1 DEF ChannelsAre
<1> QED
  BY <1>7, <1>8, <1>9, <1>10, <1>11, <1>13, <1>14, StepKeeps
(* Who is dequeued.                                                        *)
LEMMA Sleepers ==
  ASSUME IInv, NEW c \in Chan, NEW dir \in Dir, LiveIn(Queue(c, dir)),
         NEW h, h = Dequeued(Queue(c, dir))
  PROVE  /\ h \in G /\ Asleep(h) /\ <<c, dir>> \in op[h].cases
         /\ Rest(Queue(c, dir)) \in Seq(G) /\ ToSet(Rest(Queue(c, dir))) \subseteq ToSet(Queue(c, dir))
         /\ Queue(c, dir) # <<>>
<1>1. Queue(c, dir) \in Seq(G) /\ Distinct(Queue(c, dir))
  BY QueueTypes DEF IInv, Queues, Queued
<1>2. /\ h \in ToSet(Queue(c, dir)) /\ Live(h) /\ Rest(Queue(c, dir)) \in Seq(G)
      /\ ToSet(Rest(Queue(c, dir))) \subseteq ToSet(Queue(c, dir))
  BY <1>1, Dequeues
<1> QED
  BY <1>1, <1>2, Members, ToSetFacts

LEMMA CloseDrainKeeps ==
  ASSUME IInv, NEW g \in G, CloseDrain(g), Remember, UNCHANGED ops
  PROVE  IInv'
<1> USE DEF At, Goto
<1>1. PICK c \in ChansOf(g) :
       \/ /\ LiveIn(recvq[c])
          /\ Release(g, Dequeued(recvq[c]))
          /\ recvq' = [recvq EXCEPT ![c] = Rest(@)]
          /\ UNCHANGED sendq
       \/ /\ ~LiveIn(recvq[c]) /\ LiveIn(sendq[c])
          /\ Release(g, Dequeued(sendq[c]))
          /\ sendq' = [sendq EXCEPT ![c] = Rest(@)]
          /\ recvq' = [recvq EXCEPT ![c] = <<>>]
       \/ /\ ~LiveIn(recvq[c]) /\ ~LiveIn(sendq[c])
          /\ Released(g)
          /\ recvq' = [recvq EXCEPT ![c] = <<>>]
          /\ sendq' = [sendq EXCEPT ![c] = <<>>]
  BY DEF CloseDrain
<1>2. /\ pc[g] = "drain" /\ op[g].kind = "close" /\ op[g] # NoOp
      /\ UNCHANGED <<ring, sendx, recvx, qcount, closed, op, param, elem>>
  BY DEF CloseDrain, IInv, Places, Place
<1>3. c \in Chan /\ ChansOf(g) = {c} /\ ChansOf(g)' = {c} /\ ~IsSelect(g) /\ ~IsSelect(g)'
  <2>1. PICK d \in Chan : op[g].cases = {<<d, "close">>}
    BY <1>2, InOperation, OpFacts
  <2>2. ChansOf(g) = {d}
    BY <2>1 DEF ChansOf
  <2>3. Cardinality(op[g].cases) = 1
    BY <2>1, FS_Singleton
  <2> QED
    BY <1>1, <1>2, <2>1, <2>2, <2>3 DEF ChansOf, IsSelect
<1>4. closed[c] /\ lock[c] = g /\ \A d \in Chan : lock[d] = g => d = c
  BY <1>2, <1>3 DEF IInv, Draining, Locks, Lock, Inside
<1>5. Owed(g) = {} /\ param[g] = NoCase /\ selectDone[g] = 0 /\ elem[g] = None
  BY <1>2, Outside DEF Back
<1>6. Stable
  BY <1>2 DEF Stable
<1>7. /\ Queue(c, "recv") = recvq[c] /\ Queue(c, "send") = sendq[c] /\ "send" \in Dir /\ "recv" \in Dir
      /\ \A d \in Chan, dir \in Dir : Distinct(Queue(d, dir)) /\ Queue(d, dir) \in Seq(G)
  BY QueueTypes DEF Queue, Dir, IInv, Queues, Queued
<1>8. ASSUME NEW dir \in Dir, LiveIn(Queue(c, dir)), Release(g, Dequeued(Queue(c, dir))),
             Queue(c, dir)' = Rest(Queue(c, dir)),
             \A d \in Chan, e \in Dir : <<d, e>> # <<c, dir>> => Shrinks(d, e),
             sendq' \in [Chan -> Seq(G)], recvq' \in [Chan -> Seq(G)]
      PROVE  IInv'
  <2>1. PICK h : h = Dequeued(Queue(c, dir))
    OBVIOUS
  <2>2. /\ h \in G /\ <<c, dir>> \in op[h].cases /\ Queue(c, dir) # <<>>
        /\ ToSet(Rest(Queue(c, dir))) \subseteq ToSet(Queue(c, dir))
    BY <1>3, <1>8, <2>1, Sleepers
  <2>3. /\ ClaimSelect(h) /\ todo' = [todo EXCEPT ![g] = <<[g |-> h, param |-> NoCase]>> \o @]
        /\ UNCHANGED <<lock, pc, res>>
    BY <1>8, <2>1 DEF Release
  <2>4. Ended(h)'
    <3>1. dir = "recv" => qcount[c] = 0
      <4>1. Channel(c) /\ Cap[c] \in Nat /\ qcount[c] \in Nat
        BY <1>3, ChanAssumption DEF IInv, ChannelsAre, Types
      <4> QED
        BY <1>7, <2>2, <4>1 DEF Channel, Buffer, Room
    <3>2. <<c, dir>>[1] = c /\ <<c, dir>>[2] = dir
      OBVIOUS
    <3> QED
      BY <1>2, <1>4, <2>2, <3>1, <3>2 DEF Ended
  <2>5. Types'
    <3>1. todo' \in [G -> Seq(Ready1)]
      <4>1. [g |-> h, param |-> NoCase] \in Ready1 /\ todo[g] \in Seq(Ready1)
        BY <2>2 DEF Ready1, IInv, Types
      <4>2. \A w \in Ready1 : <<w>> \o todo[g] \in Seq(Ready1)
        BY <4>1
      <4>3. <<[g |-> h, param |-> NoCase]>> \o todo[g] \in Seq(Ready1)
        BY <4>1, <4>2
      <4> QED
        BY <2>3, <4>3 DEF IInv, Types
    <3>2. selectDone' \in [G -> {0, 1}]
      BY <2>3 DEF ClaimSelect, IInv, Types
    <3> QED
      BY <1>2, <1>8, <2>3, <3>1, <3>2 DEF IInv, Types
  <2>6. Place(g)' /\ Lock(g)'
    <3>1. Place(g) /\ Lock(g)
      BY DEF IInv, Places, Locks
    <3> QED
      BY <1>2, <1>3, <2>3, <3>1 DEF Place, Lock, Locking, Inside, Back
  <2>7. \A d \in Chan : Buffer(d)' /\ Room(d)'
    <3>1. \A d \in Chan, e \in Dir : ToSet(Queue(d, e)') \subseteq ToSet(Queue(d, e))
      BY <1>8, <2>2 DEF Shrinks
    <3> QED
      BY <1>2, <2>5, <3>1, BufferKept
  <2>8. At(g, "drain")' => \A d \in ChansOf(g)' : closed'[d]
    BY <1>2, <1>3, <1>4
  <2>9. /\ pc[g] \notin {"parked"} \cup Back /\ pc'[g] \notin {"parked", "look2", "done"} \cup Back
        /\ At(g, "drain")'
    BY <1>2, <2>3 DEF Back
  <2>10. /\ UNCHANGED <<op, param>> /\ \A x \in G \ {g} : pc'[x] = pc[x] /\ res'[x] = res[x]
         /\ \A d \in Chan : lock'[d] = lock[d] /\ closed'[d] = closed[d]
         /\ \A x \in G : elem'[x] = elem[x]
    BY <1>2, <2>3
  <2>11. At(g, "again")' => Ended(g)'
    BY <2>9
  <2> HIDE DEF At, Goto
  <2>12. Takes(g, c, dir, h, NoCase)
    BY <1>8, <2>1, <2>3, <2>4, <2>10 DEF Takes
  <2>14. \A d \in Chan : \A x \in G \ {g} : lock'[d] = x <=> lock[d] = x
    BY <2>10
  <2>13. \A d \in Chan : /\ Buffer(d)' /\ Room(d)' /\ closed'[d] = closed[d]
                         /\ At(g, "drain") /\ lock[d] = g => At(g, "drain")' /\ lock'[d] = g
    BY <2>7, <2>9, <2>10
  <2> QED
    BY <1>3, <1>5, <1>6, <2>5, <2>6, <2>8, <2>9, <2>10, <2>11, <2>12, <2>13, <2>14, TakesKeeps
<1>9. CASE /\ LiveIn(recvq[c]) /\ Release(g, Dequeued(recvq[c]))
           /\ recvq' = [recvq EXCEPT ![c] = Rest(@)] /\ UNCHANGED sendq
  <2>1. Rest(recvq[c]) \in Seq(G)
    BY <1>3, <1>7, <1>9, Dequeues
  <2>2. sendq' \in [Chan -> Seq(G)] /\ recvq' \in [Chan -> Seq(G)]
    BY <1>9, <2>1 DEF IInv, Types
  <2>3. \A d \in Chan : recvq'[d] = IF d = c THEN Rest(recvq[d]) ELSE recvq[d]
    BY <1>9 DEF IInv, Types
  <2>4. Queue(c, "recv")' = Rest(Queue(c, "recv"))
    BY <1>3, <2>3 DEF Queue
  <2>5. \A d \in Chan, e \in Dir : <<d, e>> # <<c, "recv">> => Shrinks(d, e)
    <3>1. \A d \in Chan, e \in Dir : <<d, e>> # <<c, "recv">> => Queue(d, e)' = Queue(d, e)
      BY <1>9, <2>3 DEF Queue, Dir
    <3>2. \A d \in Chan, e \in Dir : Queue(d, e)' = Queue(d, e) => Shrinks(d, e)
      BY <1>7 DEF Shrinks, Distinct, ToSet
    <3> QED
      BY <3>1, <3>2
  <2>6. LiveIn(Queue(c, "recv")) /\ Release(g, Dequeued(Queue(c, "recv")))
    BY <1>7, <1>9
  <2> QED
    BY <1>7, <1>8, <2>2, <2>4, <2>5, <2>6, Zenon
<1>10. CASE /\ ~LiveIn(recvq[c]) /\ LiveIn(sendq[c]) /\ Release(g, Dequeued(sendq[c]))
            /\ sendq' = [sendq EXCEPT ![c] = Rest(@)] /\ recvq' = [recvq EXCEPT ![c] = <<>>]
  <2>1. Rest(sendq[c]) \in Seq(G)
    BY <1>3, <1>7, <1>10, Dequeues
  <2>2. sendq' \in [Chan -> Seq(G)] /\ recvq' \in [Chan -> Seq(G)]
    <3>1. <<>> \in Seq(G)
      OBVIOUS
    <3> QED
      BY <1>10, <2>1, <3>1 DEF IInv, Types
  <2>3. \A d \in Chan : /\ sendq'[d] = IF d = c THEN Rest(sendq[d]) ELSE sendq[d]
                        /\ recvq'[d] = IF d = c THEN <<>> ELSE recvq[d]
    BY <1>10 DEF IInv, Types
  <2>4. Queue(c, "send")' = Rest(Queue(c, "send"))
    BY <1>3, <2>3 DEF Queue
  <2>5. \A d \in Chan, e \in Dir : <<d, e>> # <<c, "send">> => Shrinks(d, e)
    <3>1. \A d \in Chan, e \in Dir :
            <<d, e>> # <<c, "send">> =>
              Queue(d, e)' = IF d = c /\ e = "recv" THEN <<>> ELSE Queue(d, e)
      BY <2>3 DEF Queue, Dir
    <3>2. \A d \in Chan, e \in Dir : Queue(d, e)' = Queue(d, e) => Shrinks(d, e)
      BY <1>7 DEF Shrinks, Distinct, ToSet
    <3>3. Queue(c, "recv")' = <<>> => Shrinks(c, "recv")
      BY <1>3, <1>7, <1>10, LiveAre, ToSetFacts DEF Shrinks
    <3> QED
      BY <3>1, <3>2, <3>3
  <2>6. LiveIn(Queue(c, "send")) /\ Release(g, Dequeued(Queue(c, "send")))
    BY <1>7, <1>10
  <2> QED
    BY <1>7, <1>8, <2>2, <2>4, <2>5, <2>6, Zenon
<1>11. CASE /\ ~LiveIn(recvq[c]) /\ ~LiveIn(sendq[c]) /\ Released(g)
            /\ recvq' = [recvq EXCEPT ![c] = <<>>] /\ sendq' = [sendq EXCEPT ![c] = <<>>]
  <2>1. /\ Unlock(g) /\ res' = [res EXCEPT ![g] = Result(NoCase, None, TRUE)]
        /\ pc' = [pc EXCEPT ![g] = IF todo[g] = <<>> THEN "done" ELSE "ready"]
        /\ UNCHANGED <<selectDone, todo>>
    BY <1>11 DEF Released
  <2>2. /\ pc'[g] = (IF todo[g] = <<>> THEN "done" ELSE "ready")
        /\ res'[g] = Result(NoCase, None, TRUE)
        /\ \A h \in G \ {g} : pc'[h] = pc[h] /\ res'[h] = res[h]
    BY <2>1 DEF IInv, Types
  <2>3. \A d \in Chan : /\ sendq'[d] = IF d = c THEN <<>> ELSE sendq[d]
                        /\ recvq'[d] = IF d = c THEN <<>> ELSE recvq[d]
    BY <1>11 DEF IInv, Types
  <2>4. Types'
    <3>1. Result(NoCase, None, TRUE) \in Results
      BY DEF Result, Results
    <3>2. sendq' \in [Chan -> Seq(G)] /\ recvq' \in [Chan -> Seq(G)]
      <4>1. <<>> \in Seq(G)
        OBVIOUS
      <4> QED
        BY <1>11, <4>1 DEF IInv, Types
    <3>3. lock' \in [Chan -> G \cup {None}]
      BY <2>1, Unlocks DEF IInv
    <3>4. pc' \in [G -> PC] /\ res' \in [G -> Results]
      BY <2>1, <3>1 DEF IInv, Types, PC
    <3> QED
      BY <1>2, <2>1, <3>2, <3>3, <3>4 DEF IInv, Types
  <2>5. \A d \in Chan : lock'[d] # g /\ \A h \in G \ {g} : lock'[d] = h <=> lock[d] = h
    BY <2>1, Unlocks DEF IInv
  <2>6. (\A h : Owed(h)' = Owed(h)) /\ OwedOnce'
    BY <2>1, OwedKept DEF IInv
  <2>7. OthersFare(g)
    BY <1>2, <2>1, <2>2, <2>5, <2>6 DEF OthersFare, Fares, Same
  <2>8. Own(g)
    <3>1. Place(g)'
      <4>1. res'[g] # Fail
        BY <2>2 DEF Result, Fail
      <4>2. todo' = todo
        BY <2>1
      <4>3. pc'[g] \in {"done", "ready"} /\ (pc'[g] = "ready" <=> todo'[g] # <<>>)
        BY <2>2, <4>2
      <4> QED
        BY <1>2, <4>1, <4>3 DEF Place, Back
    <3>2. Lock(g)'
      BY <2>2, <2>5, <1>3 DEF Lock, Inside, Locking
    <3>3. Param(g)'
      BY <1>2, <1>3, <1>5, <2>1, <2>2 DEF Param, Back
    <3>4. Given(g)' /\ Looked(g)'
      BY <1>2, <1>5, <2>2 DEF Given, Looked
    <3>5. Failed(g)'
      BY <1>2 DEF Failed, FailedTry, Tries
    <3> QED
      BY <1>5, <2>2, <2>6, <3>1, <3>2, <3>3, <3>4, <3>5 DEF Own
  <2>9. \A d \in Chan, e \in Dir : Shrinks(d, e)
    <3>1. \A d \in Chan, e \in Dir : Queue(d, e)' = IF d = c THEN <<>> ELSE Queue(d, e)
      BY <2>3 DEF Queue, Dir
    <3>2. \A d \in Chan, e \in Dir : Queue(d, e)' = Queue(d, e) => Shrinks(d, e)
      BY <1>7 DEF Shrinks, Distinct, ToSet
    <3>3. \A e \in Dir : Queue(c, e) = recvq[c] \/ Queue(c, e) = sendq[c]
      BY DEF Queue
    <3>4. \A e \in Dir : Queue(c, e)' = <<>> => Shrinks(c, e)
      BY <1>3, <1>11, <3>3, LiveAre, ToSetFacts DEF Shrinks
    <3> QED
      BY <3>1, <3>2, <3>4
  <2>10. Queues'
    <3>1. ~Asleep(g) /\ ~Asleep(g)'
      BY <1>2, <2>2 DEF Asleep
    <3>2. \A w : \A h \in G \ {g} : ~Served(h, w)
      BY <2>6 DEF Served, Asleep
    <3>3. \A h \in G \ {g} : Fares(h)
      BY <2>7 DEF OthersFare
    <3>4. \A d \in Chan, e \in Dir : ToSet(Queue(d, e)) \subseteq G /\ g \notin ToSet(Queue(d, e))
      BY <1>2, Members DEF Back
    <3>5. \A h \in G : ~Asleep(h) => ~Asleep(h)'
      BY <2>2, <2>6, <3>1 DEF Asleep
    <3> QED
      BY <2>9, <3>1, <3>2, <3>3, <3>4, <3>5, QueuesKept DEF Shrinks
  <2>11. ChannelsAre'
    <3>1. ASSUME NEW d \in Chan PROVE Channel(d)'
      <4>1. \A e \in Dir : ToSet(Queue(d, e)') \subseteq ToSet(Queue(d, e)) /\ g \notin ToSet(Queue(d, e)')
        BY <1>2, <2>9, Members DEF Back, Shrinks
      <4>2. Buffer(d)' /\ Room(d)' /\ closed'[d] = closed[d]
        BY <1>2, <2>4, <4>1, BufferKept
      <4>3. CASE d # c
        BY <1>4, <2>4, <2>7, <4>1, <4>2, <4>3, ChannelKept
      <4>4. CASE d = c
        BY <2>3, <4>2, <4>4 DEF Channel
      <4> QED
        BY <4>3, <4>4
    <3> QED
      BY <3>1 DEF ChannelsAre
  <2> QED
    BY <1>6, <2>4, <2>6, <2>7, <2>8, <2>10, <2>11, StepKeeps
<1> QED
  BY <1>1, <1>9, <1>10, <1>11
----------------------------------------------------------------------------
(* Serving a case.                                                         *)

LEMMA KeptTypes ==
  ASSUME IInv, NEW polled, InVain(polled),
         sendq' = Swept(sendq, "recv", polled), recvq' = Swept(recvq, "send", polled)
  PROVE  /\ sendq' \in [Chan -> Seq(G)] /\ recvq' \in [Chan -> Seq(G)]
         /\ \A c \in Chan, dir \in Dir : Queue(c, dir)' = Kept(c, dir, polled) /\ Shrinks(c, dir)
<1>1. \A c \in Chan, dir \in Dir : Queue(c, dir)' = Kept(c, dir, polled)
  BY SweptIs DEF Queue, Dir
<1>2. \A c \in Chan, dir \in Dir : Queue(c, dir)' \in Seq(G) /\ Shrinks(c, dir)
  BY <1>1, Sweeps DEF Shrinks
<1>3. \A c \in Chan : sendq'[c] \in Seq(G) /\ recvq'[c] \in Seq(G)
  BY <1>2 DEF Queue, Dir
<1> QED
  BY <1>1, <1>2, <1>3 DEF Swept

(* The rest of a step that serves a case of g alone ...                    *)
LEMMA OwnKeeps ==
  ASSUME IInv, NEW g \in G, Polling(g), Remember, Unlock(g),
         NEW polled, InVain(polled), NEW r \in Results, r # Fail,
         sendq' = Swept(sendq, "recv", polled), recvq' = Swept(recvq, "send", polled),
         pc' = [pc EXCEPT ![g] = "done"], res' = [res EXCEPT ![g] = r],
         UNCHANGED <<ops, closed, op, selectDone, param, elem, todo>>,
         ring' = [c \in Chan |-> ring'[c]],
         \A c \in Chan : ring'[c] \in [0..(Cap[c] - 1) -> G \cup {None}],
         sendx' \in [Chan -> Nat], recvx' \in [Chan -> Nat], qcount' \in [Chan -> Nat],
         \A c \in Chan : /\ Buffer(c)' /\ Room(c)'
                         /\ closed[c] /\ qcount[c] = 0 => qcount'[c] = 0
  PROVE  IInv'
<1>1. \A c \in Chan, dir \in Dir : Shrinks(c, dir)
  BY KeptTypes
<1>2. Types'
  <2>1. lock' \in [Chan -> G \cup {None}]
    BY Unlocks DEF IInv
  <2>2. sendq' \in [Chan -> Seq(G)] /\ recvq' \in [Chan -> Seq(G)]
    BY KeptTypes
  <2>3. pc' \in [G -> PC] /\ res' \in [G -> Results]
    BY DEF IInv, Types, PC
  <2> QED
    BY <2>1, <2>2, <2>3 DEF IInv, Types
<1>3. Stable
  BY DEF Stable
<1>4. pc'[g] = "done" /\ res'[g] = r /\ \A h \in G \ {g} : pc'[h] = pc[h] /\ res'[h] = res[h]
  BY DEF IInv, Types
<1>5. Failed(g)'
  BY <1>4 DEF Failed, FailedTry, Fail, Result, NoCase
<1>6. \A c \in Chan : Buffer(c)' /\ Room(c)' /\ closed'[c] = closed[c]
  OBVIOUS
<1> QED
  BY <1>1, <1>2, <1>3, <1>4, <1>5, <1>6, FinishKeeps

(* ... and of one that also serves a goroutine asleep in a queue.          *)
Hands(g, c, dir, h, polled) ==
  /\ LiveIn(Queue(c, dir)) /\ h = Dequeued(Queue(c, dir))
  /\ \E cs \in Case, val \in G \cup {None} : ServeBoth(g, cs, val, h, <<c, dir>>)
  /\ \A d \in Chan, e \in Dir :
       Queue(d, e)' = IF <<d, e>> = <<c, dir>> THEN Rest(Queue(c, dir)) ELSE Kept(d, e, polled)
  /\ sendq' = [d \in Chan |-> sendq'[d]] /\ recvq' = [d \in Chan |-> recvq'[d]]
  /\ elem' \in [G -> G \cup {None}] /\ \A x \in G \ {h} : elem'[x] = elem[x]

LEMMA BothKeep ==
  ASSUME IInv, NEW g \in G, Polling(g), Remember, Unlock(g),
         NEW polled, InVain(polled), NEW c \in Chan, NEW dir \in Dir, NEW h, Hands(g, c, dir, h, polled),
         UNCHANGED <<ops, closed, op, param, qcount>>,
         ring' = [d \in Chan |-> ring'[d]],
         \A d \in Chan : ring'[d] \in [0..(Cap[d] - 1) -> G \cup {None}],
         sendx' \in [Chan -> Nat], recvx' \in [Chan -> Nat],
         (\A d \in Chan, e \in Dir : ToSet(Queue(d, e)') \subseteq ToSet(Queue(d, e))) /\ Types'
           => \A d \in Chan : Buffer(d)' /\ Room(d)'
  PROVE  IInv'
<1> USE DEF Hands
<1>0. PICK cs \in Case, val \in G \cup {None} : ServeBoth(g, cs, val, h, <<c, dir>>)
  OBVIOUS
<1>1. /\ h \in G /\ Rest(Queue(c, dir)) \in Seq(G)
      /\ ToSet(Rest(Queue(c, dir))) \subseteq ToSet(Queue(c, dir))
  BY Sleepers
<1>2. \A d \in Chan, e \in Dir : <<d, e>> # <<c, dir>> => Queue(d, e)' \in Seq(G) /\ Shrinks(d, e)
  BY Sweeps DEF Shrinks
<1>3. \A d \in Chan, e \in Dir : Queue(d, e)' \in Seq(G) /\ ToSet(Queue(d, e)') \subseteq ToSet(Queue(d, e))
  BY <1>1, <1>2 DEF Shrinks
<1>4. /\ ClaimSelect(h) /\ todo' = [todo EXCEPT ![g] = <<[g |-> h, param |-> <<c, dir>>]>>]
      /\ pc' = [pc EXCEPT ![g] = "ready"] /\ res' = [res EXCEPT ![g] = Result(cs, val, TRUE)]
  BY <1>0 DEF ServeBoth, Goto
<1>5. Result(cs, val, TRUE) \in Results /\ Result(cs, val, TRUE) # Fail
  BY CaseFacts DEF Result, Results, Fail
<1>6. /\ pc'[g] = "ready" /\ res'[g] # Fail /\ todo'[g] = <<[g |-> h, param |-> <<c, dir>>]>>
      /\ \A x \in G \ {g} : pc'[x] = pc[x] /\ res'[x] = res[x]
  BY <1>4, <1>5 DEF IInv, Types
<1>7. [g |-> h, param |-> <<c, dir>>] \in Ready1
  BY <1>1 DEF Ready1, Case, Dir
<1>8. Types'
  <2>1. sendq' \in [Chan -> Seq(G)] /\ recvq' \in [Chan -> Seq(G)]
    <3>1. \A d \in Chan : sendq'[d] \in Seq(G) /\ recvq'[d] \in Seq(G)
      BY <1>3 DEF Queue, Dir
    <3> QED
      BY <3>1
  <2>2. lock' \in [Chan -> G \cup {None}]
    BY Unlocks DEF IInv
  <2>3. pc' \in [G -> PC] /\ res' \in [G -> Results]
    BY <1>4, <1>5 DEF IInv, Types, PC
  <2>4. selectDone' \in [G -> {0, 1}]
    BY <1>4 DEF ClaimSelect, IInv, Types
  <2>5. todo' \in [G -> Seq(Ready1)]
    <3>1. \A w \in Ready1 : <<w>> \in Seq(Ready1)
      OBVIOUS
    <3>2. <<[g |-> h, param |-> <<c, dir>>]>> \in Seq(Ready1)
      BY <1>7, <3>1
    <3> QED
      BY <1>4, <3>2 DEF IInv, Types
  <2> QED
    BY <2>1, <2>2, <2>3, <2>4, <2>5 DEF IInv, Types
<1>9. /\ todo[g] = <<>> /\ elem[g] = None /\ op[g] # NoOp /\ op[g].kind \in {"block", "try"}
      /\ pc[g] \in {"poll", "again", "lock"}
  BY Polls
<1>10. Takes(g, c, dir, h, <<c, dir>>)
  <2>1. <<c, dir>> # NoCase
    BY CaseFacts DEF Case, Dir
  <2>2. <<[g |-> h, param |-> <<c, dir>>]>> \o todo[g] = <<[g |-> h, param |-> <<c, dir>>]>>
    <3>1. \A w \in Ready1 : <<w>> \o <<>> = <<w>>
      OBVIOUS
    <3> QED
      BY <1>7, <1>9, <3>1
  <2>3. todo' = [todo EXCEPT ![g] = <<[g |-> h, param |-> <<c, dir>>]>> \o @]
    BY <1>4, <2>2
  <2>4. Queue(c, dir)' = Rest(Queue(c, dir))
    OBVIOUS
  <2> QED
    BY <1>2, <1>4, <2>1, <2>3, <2>4 DEF Takes
<1>11. Place(g)'
  <2>1. todo'[g] # <<>>
    BY <1>6
  <2> QED
    BY <1>6, <1>9, <2>1 DEF Place, At, Back
<1>12. Lock(g)'
  BY <1>6, Unlocks DEF Lock, Inside, Locking, IInv
<1>13. Stable
  BY DEF Stable
<1>14. /\ \A d \in Chan : \A x \in G \ {g} : lock'[d] = x <=> lock[d] = x
       /\ \A d \in Chan : /\ Buffer(d)' /\ Room(d)' /\ closed'[d] = closed[d]
                          /\ At(g, "drain") /\ lock[d] = g => At(g, "drain")' /\ lock'[d] = g
  <2>1. ~At(g, "drain")
    BY <1>9 DEF At
  <2> QED
    BY <1>3, <1>8, <2>1, Unlocks DEF IInv
<1>15. /\ pc[g] \notin {"parked"} \cup Back /\ pc'[g] \notin {"parked", "look2", "done"} \cup Back
       /\ ~At(g, "again")' /\ ~At(g, "drain")'
  BY <1>6, <1>9 DEF At, Back
<1> QED
  BY <1>6, <1>8, <1>9, <1>10, <1>11, <1>12, <1>13, <1>14, <1>15, TakesKeeps
(* What a case that is served finds and leaves in its channel.             *)
LEMMA ChannelFacts ==
  ASSUME IInv, NEW c \in Chan
  PROVE  /\ Cap[c] \in Nat /\ qcount[c] \in Nat /\ sendx[c] \in Nat /\ recvx[c] \in Nat
         /\ Buffer(c) /\ Room(c)
         /\ sendq[c] \in Seq(G) /\ recvq[c] \in Seq(G)
         /\ ring[c] \in [0..(Cap[c] - 1) -> G \cup {None}]
         /\ Queue(c, "send") = sendq[c] /\ Queue(c, "recv") = recvq[c]
         /\ LiveIn(sendq[c]) => sendq[c] # <<>> /\ (Cap[c] > 0 => qcount[c] = Cap[c] /\ recvq[c] = <<>>)
         /\ LiveIn(recvq[c]) => recvq[c] # <<>> /\ qcount[c] = 0
<1>1. /\ Cap[c] \in Nat /\ qcount[c] \in Nat /\ sendx[c] \in Nat /\ recvx[c] \in Nat
      /\ Buffer(c) /\ Room(c)
      /\ sendq[c] \in Seq(G) /\ recvq[c] \in Seq(G)
      /\ ring[c] \in [0..(Cap[c] - 1) -> G \cup {None}]
      /\ Queue(c, "send") = sendq[c] /\ Queue(c, "recv") = recvq[c]
  BY ChanAssumption DEF IInv, Types, ChannelsAre, Channel, Queue
<1>2. \A q \in Seq(G) : LiveIn(q) => q # <<>>
  BY DEF LiveIn
<1> QED
  BY <1>1, <1>2 DEF Buffer, Room

(* A send, under the lock of its channel.                                  *)
LEMMA SendKeeps ==
  ASSUME IInv, NEW g \in G, Polling(g), Remember, Unlock(g), NEW polled, InVain(polled),
         NEW c \in Chan, <<c, "send">> \in op[g].cases, SendCase(g, c, polled),
         UNCHANGED <<ops, closed, op, param>>
  PROVE  IInv'
<1> USE DEF Dir
<1>1. ~closed[c] /\ recvx' = recvx /\ sendq' = Swept(sendq, "recv", polled)
  BY DEF SendCase
<1>2. CASE LiveIn(recvq[c])
  <2>1. PICK h : h = Dequeued(recvq[c])
    OBVIOUS
  <2>2. /\ ServeBoth(g, <<c, "send">>, None, h, <<c, "recv">>)
        /\ elem' = [elem EXCEPT ![h] = g]
        /\ recvq' = [Swept(recvq, "send", polled) EXCEPT ![c] = Rest(recvq[c])]
        /\ UNCHANGED <<ring, sendx, qcount>>
    BY <1>2, <2>1 DEF SendCase
  <2>3. \A d \in Chan, e \in Dir :
          Queue(d, e)' = IF <<d, e>> = <<c, "recv">> THEN Rest(Queue(c, "recv")) ELSE Kept(d, e, polled)
    <3>1. \A d \in Chan : /\ sendq'[d] = Kept(d, "send", polled)
                          /\ recvq'[d] = IF d = c THEN Rest(recvq[c]) ELSE Kept(d, "recv", polled)
      BY <1>1, <2>2, SweptIs DEF Swept
    <3> QED
      BY <3>1 DEF Queue
  <2>4. sendq' = [d \in Chan |-> sendq'[d]] /\ recvq' = [d \in Chan |-> recvq'[d]]
    BY <1>1, <2>2 DEF Swept
  <2>5. elem' \in [G -> G \cup {None}] /\ \A x \in G \ {h} : elem'[x] = elem[x]
    BY <2>2 DEF IInv, Types
  <2>6. LiveIn(Queue(c, "recv")) /\ h = Dequeued(Queue(c, "recv")) /\ <<c, "send">> \in Case
    BY <1>2, <2>1 DEF Queue, Case
  <2>7. /\ ring' = [d \in Chan |-> ring'[d]]
        /\ \A d \in Chan : ring'[d] \in [0..(Cap[d] - 1) -> G \cup {None}]
        /\ sendx' \in [Chan -> Nat] /\ recvx' \in [Chan -> Nat]
    BY <1>1, <2>2 DEF IInv, Types
  <2>8. (\A d \in Chan, e \in Dir : ToSet(Queue(d, e)') \subseteq ToSet(Queue(d, e))) /\ Types'
           => \A d \in Chan : Buffer(d)' /\ Room(d)'
    BY <1>1, <2>2, BufferKept
  <2>9. Hands(g, c, "recv", h, polled)
    BY <2>2, <2>3, <2>4, <2>5, <2>6 DEF Hands
  <2> HIDE DEF Dir
  <2>10. "recv" \in Dir
    BY DEF Dir
  <2> QED
    BY <2>2, <2>7, <2>8, <2>9, <2>10, BothKeep
<1>3. CASE ~LiveIn(recvq[c])
  <2> DEFINE r == Result(<<c, "send">>, None, TRUE)
             p == polled \cup {<<c, "send">>}
  <2>1. /\ qcount[c] < Cap[c]
        /\ pc' = [pc EXCEPT ![g] = "done"] /\ res' = [res EXCEPT ![g] = r]
        /\ recvq' = Swept(recvq, "send", p)
        /\ ring' = [ring EXCEPT ![c][sendx[c]] = g]
        /\ sendx' = [sendx EXCEPT ![c] = Next1(c, @)]
        /\ qcount' = [qcount EXCEPT ![c] = @ + 1]
        /\ UNCHANGED <<elem, selectDone, todo>>
    BY <1>3 DEF SendCase, ServeOwn, Finish, Goto
  <2>2. sendq' = Swept(sendq, "recv", p)
    BY <1>1 DEF Swept
  <2>3. InVain(p)
    BY <1>3 DEF InVain, Opposite, Queue
  <2>4. r \in Results /\ r # Fail
    BY CaseFacts DEF Result, Results, Fail, Case
  <2> HIDE DEF r
  <2>5. /\ Cap[c] \in Nat /\ qcount[c] \in Nat /\ sendx[c] \in Nat /\ recvx[c] \in Nat
        /\ Buffer(c) /\ Room(c) /\ ring[c] \in [0..(Cap[c] - 1) -> G \cup {None}]
    BY ChannelFacts
  <2>6. /\ ring' = [d \in Chan |-> ring'[d]]
        /\ \A d \in Chan : ring'[d] \in [0..(Cap[d] - 1) -> G \cup {None}]
    <3>1. \A d \in Chan : ring'[d] = IF d = c THEN [ring[c] EXCEPT ![sendx[c]] = g] ELSE ring[d]
      BY <2>1 DEF IInv, Types
    <3>2. ring' = [d \in Chan |-> ring'[d]]
      BY <2>1 DEF IInv, Types
    <3>3. [ring[c] EXCEPT ![sendx[c]] = g] \in [0..(Cap[c] - 1) -> G \cup {None}]
      BY <2>5
    <3>4. \A d \in Chan : ring[d] \in [0..(Cap[d] - 1) -> G \cup {None}]
      BY DEF IInv, Types
    <3> QED
      BY <3>1, <3>2, <3>3, <3>4
  <2>7. /\ sendx' \in [Chan -> Nat] /\ recvx' \in [Chan -> Nat] /\ qcount' \in [Chan -> Nat]
        /\ \A d \in Chan : /\ sendx'[d] = IF d = c THEN Next1(c, sendx[c]) ELSE sendx[d]
                           /\ qcount'[d] = IF d = c THEN qcount[c] + 1 ELSE qcount[d]
    BY <1>1, <2>1, <2>5 DEF IInv, Types, Next1
  <2>8. ASSUME NEW d \in Chan PROVE Buffer(d)' /\ Room(d)'
    <3>1. \A e \in Dir : Queue(d, e)' = Kept(d, e, p) /\ Shrinks(d, e)
      BY <2>1, <2>2, <2>3, KeptTypes
    <3>2. /\ sendq[d] = <<>> => sendq'[d] = <<>>
          /\ recvq[d] = <<>> => recvq'[d] = <<>>
          /\ recvq'[c] = <<>>
      BY <2>1, <2>2 DEF Swept
    <3>3. CASE d = c
      <4>1. sendq[c] = <<>>
        BY <2>1, <2>5 DEF Room
      <4>2. /\ sendx[c] < Cap[c] /\ recvx[c] < Cap[c] /\ Cap[c] # 0
            /\ sendx[c] = recvx[c] + qcount[c] \/ sendx[c] = recvx[c] + qcount[c] - Cap[c]
        BY <2>1, <2>5 DEF Buffer
      <4>3. /\ Next1(c, sendx[c]) < Cap[c]
            /\ \/ Next1(c, sendx[c]) = recvx[c] + (qcount[c] + 1)
               \/ Next1(c, sendx[c]) = recvx[c] + (qcount[c] + 1) - Cap[c]
        <5>1. Cap[c] \in Nat /\ qcount[c] \in Nat /\ sendx[c] \in Nat /\ recvx[c] \in Nat /\ qcount[c] < Cap[c]
          BY <2>1, <2>5
        <5> QED
          BY <5>1, <4>2 DEF Next1
      <4>4. sendx'[c] = Next1(c, sendx[c]) /\ recvx'[c] = recvx[c] /\ qcount'[c] = qcount[c] + 1
        BY <1>1, <2>7
      <4>5. Buffer(c)'
        BY <2>1, <2>5, <4>2, <4>3, <4>4 DEF Buffer
      <4>6. Room(c)'
        BY <3>2, <3>3, <4>1 DEF Room
      <4> QED
        BY <3>3, <4>5, <4>6
    <3>4. CASE d # c
      BY <1>1, <2>7, <3>2, <3>4, ChannelFacts DEF Buffer, Room
    <3> QED
      BY <3>3, <3>4
  <2>9. \A d \in Chan : closed[d] /\ qcount[d] = 0 => qcount'[d] = 0
    BY <1>1, <2>7
  <2> HIDE DEF p
  <2> QED
    BY <2>1, <2>2, <2>3, <2>4, <2>6, <2>7, <2>8, <2>9, OwnKeeps
<1> QED
  BY <1>2, <1>3

(* A receive, under the lock of its channel.                               *)
LEMMA RecvKeeps ==
  ASSUME IInv, NEW g \in G, Polling(g), Remember, Unlock(g), NEW polled, InVain(polled),
         NEW c \in Chan, <<c, "recv">> \in op[g].cases, RecvCase(g, c, polled),
         UNCHANGED <<ops, closed, op, param>>
  PROVE  IInv'
<1> USE DEF Dir
<1>1. elem' = elem /\ recvq' = Swept(recvq, "send", polled)
  BY DEF RecvCase
<1>0. /\ Cap[c] \in Nat /\ qcount[c] \in Nat /\ sendx[c] \in Nat /\ recvx[c] \in Nat
      /\ Buffer(c) /\ Room(c) /\ ring[c] \in [0..(Cap[c] - 1) -> G \cup {None}]
      /\ LiveIn(sendq[c]) => sendq[c] # <<>> /\ (Cap[c] > 0 => qcount[c] = Cap[c] /\ recvq[c] = <<>>)
  BY ChannelFacts
<1>2. CASE LiveIn(sendq[c])
  <2>1. PICK h : h = Dequeued(sendq[c])
    OBVIOUS
  <2>a. PICK val : val = IF Cap[c] = 0 THEN h ELSE ring[c][recvx[c]]
    OBVIOUS
  <2>2. /\ ServeBoth(g, <<c, "recv">>, val, h, <<c, "send">>)
        /\ IF Cap[c] = 0 THEN UNCHANGED <<ring, recvx, sendx>>
           ELSE /\ ring' = [ring EXCEPT ![c][recvx[c]] = h]
                /\ recvx' = [recvx EXCEPT ![c] = Next1(c, @)]
                /\ sendx' = [sendx EXCEPT ![c] = recvx'[c]]
        /\ sendq' = [Swept(sendq, "recv", polled) EXCEPT ![c] = Rest(sendq[c])]
        /\ UNCHANGED qcount
    BY <1>2, <2>1, <2>a DEF RecvCase
  <2>3. \A d \in Chan, e \in Dir :
          Queue(d, e)' = IF <<d, e>> = <<c, "send">> THEN Rest(Queue(c, "send")) ELSE Kept(d, e, polled)
    <3>1. \A d \in Chan : /\ recvq'[d] = Kept(d, "recv", polled)
                          /\ sendq'[d] = IF d = c THEN Rest(sendq[c]) ELSE Kept(d, "send", polled)
      BY <1>1, <2>2, SweptIs DEF Swept
    <3> QED
      BY <3>1 DEF Queue
  <2>4. sendq' = [d \in Chan |-> sendq'[d]] /\ recvq' = [d \in Chan |-> recvq'[d]]
    BY <1>1, <2>2 DEF Swept
  <2>5. elem' \in [G -> G \cup {None}] /\ \A x \in G \ {h} : elem'[x] = elem[x]
    BY <1>1 DEF IInv, Types
  <2>6. LiveIn(Queue(c, "send")) /\ h = Dequeued(Queue(c, "send")) /\ <<c, "recv">> \in Case
    BY <1>2, <2>1 DEF Queue, Case
  <2>b. h \in G
    BY <2>6, Sleepers
  <2>c. val \in G \cup {None}
    BY <1>0, <2>a, <2>b DEF Buffer
  <2>7. /\ ring' = [d \in Chan |-> ring'[d]]
        /\ \A d \in Chan : ring'[d] \in [0..(Cap[d] - 1) -> G \cup {None}]
        /\ sendx' \in [Chan -> Nat] /\ recvx' \in [Chan -> Nat]
    <3>1. CASE Cap[c] = 0
      BY <2>2, <3>1 DEF IInv, Types
    <3>2. CASE Cap[c] # 0
      <4>1. /\ \A d \in Chan : ring'[d] = IF d = c THEN [ring[c] EXCEPT ![recvx[c]] = h] ELSE ring[d]
            /\ ring' = [d \in Chan |-> ring'[d]]
        BY <2>2, <3>2 DEF IInv, Types
      <4>2. recvx' \in [Chan -> Nat]
        <5>1. Next1(c, recvx[c]) \in Nat
          BY <1>0 DEF Next1
        <5>2. recvx' = [recvx EXCEPT ![c] = Next1(c, recvx[c])] /\ recvx \in [Chan -> Nat]
          BY <2>2, <3>2 DEF IInv, Types
        <5> QED
          BY <5>1, <5>2
      <4>3. sendx' \in [Chan -> Nat]
        <5>1. recvx'[c] \in Nat
          BY <4>2
        <5>2. sendx' = [sendx EXCEPT ![c] = recvx'[c]] /\ sendx \in [Chan -> Nat]
          BY <2>2, <3>2 DEF IInv, Types
        <5> QED
          BY <5>1, <5>2
      <4>4. [ring[c] EXCEPT ![recvx[c]] = h] \in [0..(Cap[c] - 1) -> G \cup {None}]
        BY <1>0, <2>b
      <4>5. \A d \in Chan : ring[d] \in [0..(Cap[d] - 1) -> G \cup {None}]
        BY DEF IInv, Types
      <4> QED
        BY <4>1, <4>2, <4>3, <4>4, <4>5
    <3> QED
      BY <3>1, <3>2
  <2>8. (\A d \in Chan, e \in Dir : ToSet(Queue(d, e)') \subseteq ToSet(Queue(d, e))) /\ Types'
           => \A d \in Chan : Buffer(d)' /\ Room(d)'
    <3> SUFFICES ASSUME \A d \in Chan, e \in Dir : ToSet(Queue(d, e)') \subseteq ToSet(Queue(d, e)), Types',
                        NEW d \in Chan
                 PROVE  Buffer(d)' /\ Room(d)'
      OBVIOUS
    <3>1. CASE Cap[c] = 0 \/ d # c
      <4>1. sendx'[d] = sendx[d] /\ recvx'[d] = recvx[d] /\ qcount'[d] = qcount[d]
        BY <2>2, <3>1 DEF IInv, Types
      <4> QED
        BY <4>1, BufferKept
    <3>2. CASE Cap[c] # 0 /\ d = c
      <4>1. recvx'[c] = Next1(c, recvx[c]) /\ sendx'[c] = recvx'[c] /\ qcount'[c] = qcount[c]
        BY <2>2, <3>2 DEF IInv, Types
      <4>2. recvq'[c] = <<>>
        BY <1>0, <1>1, <1>2, <3>2 DEF Swept
      <4> QED
        BY <1>0, <1>2, <3>2, <4>1, <4>2 DEF Buffer, Room, Next1
    <3> QED
      BY <3>1, <3>2
  <2>9. Hands(g, c, "send", h, polled)
    BY <2>2, <2>3, <2>4, <2>5, <2>6, <2>c DEF Hands
  <2> HIDE DEF Dir
  <2>10. "send" \in Dir
    BY DEF Dir
  <2> QED
    BY <2>2, <2>7, <2>8, <2>9, <2>10, BothKeep
<1>3. CASE ~LiveIn(sendq[c])
  <2> DEFINE r == Result(<<c, "recv">>, ring[c][recvx[c]], TRUE)
             p == polled \cup {<<c, "recv">>}
  <2>1. /\ qcount[c] > 0
        /\ pc' = [pc EXCEPT ![g] = "done"] /\ res' = [res EXCEPT ![g] = r]
        /\ sendq' = Swept(sendq, "recv", p)
        /\ ring' = [ring EXCEPT ![c][recvx[c]] = None]
        /\ recvx' = [recvx EXCEPT ![c] = Next1(c, @)]
        /\ qcount' = [qcount EXCEPT ![c] = @ - 1]
        /\ UNCHANGED <<sendx, elem, selectDone, todo>>
    BY <1>3, <1>1 DEF RecvCase, ServeOwn, Finish, Goto
  <2>2. recvq' = Swept(recvq, "send", p)
    BY <1>1 DEF Swept
  <2>3. InVain(p)
    BY <1>3 DEF InVain, Opposite, Queue
  <2>4. r \in Results /\ r # Fail
    <3>1. ring[c][recvx[c]] \in G \cup {None}
      BY <1>0, <2>1 DEF Buffer
    <3> QED
      BY <3>1, CaseFacts DEF Result, Results, Fail, Case
  <2>6. /\ ring' = [d \in Chan |-> ring'[d]]
        /\ \A d \in Chan : ring'[d] \in [0..(Cap[d] - 1) -> G \cup {None}]
    <3>1. \A d \in Chan : ring'[d] = IF d = c THEN [ring[c] EXCEPT ![recvx[c]] = None] ELSE ring[d]
      BY <2>1 DEF IInv, Types
    <3>2. ring' = [d \in Chan |-> ring'[d]]
      BY <2>1 DEF IInv, Types
    <3>3. [ring[c] EXCEPT ![recvx[c]] = None] \in [0..(Cap[c] - 1) -> G \cup {None}]
      BY <1>0
    <3>4. \A d \in Chan : ring[d] \in [0..(Cap[d] - 1) -> G \cup {None}]
      BY DEF IInv, Types
    <3> QED
      BY <3>1, <3>2, <3>3, <3>4
  <2>7. /\ sendx' \in [Chan -> Nat] /\ recvx' \in [Chan -> Nat] /\ qcount' \in [Chan -> Nat]
        /\ \A d \in Chan : /\ recvx'[d] = IF d = c THEN Next1(c, recvx[c]) ELSE recvx[d]
                           /\ qcount'[d] = IF d = c THEN qcount[c] - 1 ELSE qcount[d]
    <3>1. Next1(c, recvx[c]) \in Nat /\ qcount[c] - 1 \in Nat
      BY <1>0, <2>1 DEF Next1
    <3>2. /\ recvx' = [recvx EXCEPT ![c] = Next1(c, recvx[c])] /\ recvx \in [Chan -> Nat]
          /\ qcount' = [qcount EXCEPT ![c] = qcount[c] - 1] /\ qcount \in [Chan -> Nat]
          /\ sendx' = sendx /\ sendx \in [Chan -> Nat]
      BY <2>1 DEF IInv, Types
    <3> QED
      BY <3>1, <3>2
  <2>8. ASSUME NEW d \in Chan PROVE Buffer(d)' /\ Room(d)'
    <3>2. /\ sendq[d] = <<>> => sendq'[d] = <<>>
          /\ recvq[d] = <<>> => recvq'[d] = <<>>
          /\ sendq'[c] = <<>>
      BY <2>1, <2>2 DEF Swept
    <3>3. CASE d = c
      <4>1. recvq[c] = <<>>
        BY <1>0, <2>1 DEF Room, Buffer
      <4>2. /\ sendx[c] < Cap[c] /\ recvx[c] < Cap[c] /\ Cap[c] # 0 /\ qcount[c] <= Cap[c]
            /\ sendx[c] = recvx[c] + qcount[c] \/ sendx[c] = recvx[c] + qcount[c] - Cap[c]
        BY <1>0, <2>1 DEF Buffer
      <4>3. /\ Next1(c, recvx[c]) < Cap[c]
            /\ \/ sendx[c] = Next1(c, recvx[c]) + (qcount[c] - 1)
               \/ sendx[c] = Next1(c, recvx[c]) + (qcount[c] - 1) - Cap[c]
        <5>1. Cap[c] \in Nat /\ qcount[c] \in Nat /\ sendx[c] \in Nat /\ recvx[c] \in Nat /\ qcount[c] > 0
          BY <1>0, <2>1
        <5> QED
          BY <5>1, <4>2 DEF Next1
      <4>4. recvx'[c] = Next1(c, recvx[c]) /\ sendx'[c] = sendx[c] /\ qcount'[c] = qcount[c] - 1
        BY <2>1, <2>7
      <4>5. Buffer(c)'
        <5>1. Cap[c] \in Nat /\ qcount[c] \in Nat /\ recvx[c] \in Nat
          BY <1>0
        <5> QED
          BY <5>1, <4>2, <4>3, <4>4 DEF Buffer
      <4>6. Room(c)'
        BY <3>2, <3>3, <4>1 DEF Room
      <4> QED
        BY <3>3, <4>5, <4>6
    <3>4. CASE d # c
      BY <2>1, <2>7, <3>2, <3>4, ChannelFacts DEF Buffer, Room
    <3> QED
      BY <3>3, <3>4
  <2>9. \A d \in Chan : closed[d] /\ qcount[d] = 0 => qcount'[d] = 0
    BY <2>1, <2>7
  <2> HIDE DEF p, r
  <2> QED
    BY <2>1, <2>2, <2>3, <2>4, <2>6, <2>7, <2>8, <2>9, OwnKeeps
<1> QED
  BY <1>2, <1>3

LEMMA ClosedKeeps ==
  ASSUME IInv, NEW g \in G, Polling(g), Remember, Unlock(g), NEW polled, InVain(polled),
         NEW c \in Chan, NEW dir \in Dir, <<c, dir>> \in op[g].cases, ClosedCase(g, c, dir, polled),
         UNCHANGED <<ops, closed, op, param>>
  PROVE  IInv'
<1> DEFINE r == Result(<<c, dir>>, None, FALSE)
           p == polled \cup (IF dir = "recv" THEN {<<c, dir>>} ELSE {})
<1>1. /\ dir = "recv" => ~LiveIn(sendq[c])
      /\ pc' = [pc EXCEPT ![g] = "done"] /\ res' = [res EXCEPT ![g] = r]
      /\ sendq' = Swept(sendq, "recv", p) /\ recvq' = Swept(recvq, "send", polled)
      /\ UNCHANGED <<ring, sendx, recvx, qcount, elem, selectDone, todo>>
  BY DEF ClosedCase, ServeOwn, Finish, Goto
<1>2. recvq' = Swept(recvq, "send", p)
  BY <1>1 DEF Swept
<1>3. InVain(p)
  BY <1>1 DEF InVain, Opposite, Queue, Dir
<1>4. r \in Results /\ r # Fail
  BY CaseFacts DEF Result, Results, Fail, Case, Dir
<1>5. /\ ring' = [d \in Chan |-> ring'[d]]
      /\ \A d \in Chan : ring'[d] \in [0..(Cap[d] - 1) -> G \cup {None}]
      /\ sendx' \in [Chan -> Nat] /\ recvx' \in [Chan -> Nat] /\ qcount' \in [Chan -> Nat]
  BY <1>1 DEF IInv, Types
<1>6. \A d \in Chan : Buffer(d)' /\ Room(d)'
  <2>1. \A d \in Chan : /\ sendq[d] = <<>> => sendq'[d] = <<>>
                        /\ recvq[d] = <<>> => recvq'[d] = <<>>
    BY <1>1, <1>2 DEF Swept
  <2> QED
    BY <1>1, <2>1, ChannelFacts DEF Buffer, Room
<1>7. \A d \in Chan : closed[d] /\ qcount[d] = 0 => qcount'[d] = 0
  BY <1>1
<1> HIDE DEF p, r
<1> QED
  BY <1>1, <1>2, <1>3, <1>4, <1>5, <1>6, <1>7, OwnKeeps

LEMMA ServeKeeps ==
  ASSUME IInv, NEW g \in G, Serve(g), Remember, UNCHANGED ops
  PROVE  IInv'
<1>1. PICK cs \in op[g].cases :
        \E polled \in SUBSET {x \in op[g].cases : ~Possible(x[1], x[2])} :
            \/ cs[2] = "send" /\ SendCase(g, cs[1], polled)
            \/ cs[2] = "recv" /\ RecvCase(g, cs[1], polled)
            \/ ClosedCase(g, cs[1], cs[2], polled)
  BY DEF Serve
<1>2. PICK polled \in SUBSET {x \in op[g].cases : ~Possible(x[1], x[2])} :
            \/ cs[2] = "send" /\ SendCase(g, cs[1], polled)
            \/ cs[2] = "recv" /\ RecvCase(g, cs[1], polled)
            \/ ClosedCase(g, cs[1], cs[2], polled)
  BY <1>1
<1>3. Polling(g) /\ Unlock(g) /\ UNCHANGED <<ops, closed, op, param>>
  BY DEF Serve
<1>4. InVain(polled)
  BY NotPossible
<1>5. cs[1] \in Chan /\ cs[2] \in Dir /\ cs = <<cs[1], cs[2]>>
  BY <1>3, Polls, CaseFacts
<1>6. CASE cs[2] = "send" /\ SendCase(g, cs[1], polled)
  BY <1>3, <1>4, <1>5, <1>6, SendKeeps
<1>7. CASE cs[2] = "recv" /\ RecvCase(g, cs[1], polled)
  BY <1>3, <1>4, <1>5, <1>7, RecvKeeps
<1>8. CASE ClosedCase(g, cs[1], cs[2], polled)
  BY <1>3, <1>4, <1>5, <1>8, ClosedKeeps
<1> QED
  BY <1>2, <1>6, <1>7, <1>8
----------------------------------------------------------------------------
(* The invariant.                                                          *)

LEMMA InitIInv == Init => IInv
<1> SUFFICES ASSUME Init PROVE IInv
  OBVIOUS
<1> USE DEF Init, At
<1>1. Types
  <2>1. Fail \in Results
    BY DEF Fail, Result, Results
  <2>2. <<>> \in Seq(G) /\ <<>> \in Seq(Ready1)
    OBVIOUS
  <2>3. \A c \in Chan : ring[c] \in [0..(Cap[c] - 1) -> G \cup {None}]
    OBVIOUS
  <2> QED
    BY <2>1, <2>2, <2>3 DEF Types, PC
<1>2. \A g \in G : pc[g] = "idle" /\ op[g] = NoOp /\ todo[g] = <<>> /\ ChansOf(g) = {} /\ ~IsSelect(g)
  <2>1. Cardinality({}) = 0
    BY FS_EmptySet
  <2>2. \A g \in G : op[g].cases = {}
    BY DEF NoOp
  <2>3. \A g \in G : ChansOf(g) = {}
    BY <2>2 DEF ChansOf
  <2>4. \A g \in G : ~IsSelect(g)
    <3> SUFFICES ASSUME NEW g \in G PROVE ~IsSelect(g)
      OBVIOUS
    <3>1. Cardinality(op[g].cases) = 0
      BY <2>1, <2>2
    <3> QED
      BY <3>1 DEF IsSelect
  <2>5. \A g \in G : pc[g] = "idle" /\ op[g] = NoOp /\ todo[g] = <<>>
    OBVIOUS
  <2> QED
    BY <2>3, <2>4, <2>5
<1>3. \A g : Owed(g) = {}
  BY <1>2, OwedIs
<1>4. \A c \in Chan : lock[c] = None /\ sendq[c] = <<>> /\ recvq[c] = <<>> /\ ~closed[c]
  OBVIOUS
<1>5. Places /\ Draining /\ Looks /\ FailureWasReal
  BY <1>2 DEF Places, Place, Draining, Looks, Looked, FailureWasReal, FailedTry, Back
<1>6. Locks
  BY <1>2, <1>4, ChanAssumption DEF Locks, Lock, Inside, Locking
<1>7. Params /\ Givens /\ Debts /\ OwedOnce
  BY <1>2, <1>3 DEF Params, Param, Givens, Given, Debts, OwedOnce, Back
<1>8. Queues
  <2>1. \A c \in Chan, dir \in Dir : Queue(c, dir) = <<>>
    BY <1>4 DEF Queue
  <2>2. \A c \in Chan, dir \in Dir : Distinct(Queue(c, dir)) /\ ToSet(Queue(c, dir)) = {}
    BY <2>1, ToSetFacts
  <2>3. \A g \in G : ~Asleep(g)
    BY <1>2 DEF Asleep
  <2> QED
    BY <2>2, <2>3 DEF Queues, Queued, Sleeper
<1>9. ChannelsAre
  <2>1. \A c \in Chan : qcount[c] = 0 /\ sendx[c] = 0 /\ recvx[c] = 0 /\ Cap[c] \in Nat
    BY ChanAssumption
  <2> QED
    BY <1>4, <2>1 DEF ChannelsAre, Channel, Buffer, Room
<1> QED
  BY <1>1, <1>5, <1>6, <1>7, <1>8, <1>9 DEF IInv

LEMMA NextIInv == IInv /\ Next => IInv'
<1> SUFFICES ASSUME IInv, Next PROVE IInv'
  OBVIOUS
<1>1. PICK g \in G : Step(g) \/ \E o \in ops : Call(g, o)
  BY DEF Next
<1>2. Remember /\ UNCHANGED ops
  BY DEF Next
<1>3. CASE \E o \in ops : Call(g, o)
  BY <1>2, <1>3, CallKeeps
<1>4. CASE Step(g)
  BY <1>2, <1>4, LookKeeps, Look2Keeps, SelLockKeeps, ServeKeeps, GiveUpKeeps, ParkKeeps, ReadyKeeps,
     WokenKeeps, Pass3Keeps, CloseMarkKeeps, CloseDrainKeeps, ReturnKeeps DEF Step
<1> QED
  BY <1>1, <1>3, <1>4

LEMMA StutterKeeps == IInv /\ UNCHANGED vars => IInv'
<1> SUFFICES ASSUME IInv, UNCHANGED vars PROVE IInv'
  OBVIOUS
<1> USE DEF vars, chanVars, gVars
<1>1. (\A g : Owed(g)' = Owed(g)) /\ OwedOnce'
  BY OwedKept DEF IInv
<1>2. Types' /\ Places'
  BY DEF IInv, Types, Places, Place, At, IsSelect
<1>3. Locks' /\ Draining' /\ Looks' /\ FailureWasReal'
  BY DEF IInv, Locks, Lock, ChansOf, Locking, IsSelect, Draining, At, Looks, Looked, FailureWasReal, FailedTry,
         Tries
<1>4. Params' /\ Debts' /\ Givens'
  BY <1>1 DEF IInv, Params, Param, Debts, Debt, Givens, Given, Ended, IsSelect, At
<1>5. Queues'
  BY <1>1 DEF IInv, Queues, Queued, Sleeper, Queue, Asleep, At, IsSelect, Distinct, ToSet
<1>6. ChannelsAre'
  <2> SUFFICES ASSUME NEW c \in Chan PROVE Channel(c)'
    BY DEF ChannelsAre
  <2>1. Channel(c)
    BY DEF IInv, ChannelsAre
  <2>2. /\ Buffer(c)' = Buffer(c) /\ Room(c)' = Room(c)
        /\ sendq' = sendq /\ recvq' = recvq /\ closed' = closed /\ lock' = lock
        /\ \A g : (IsSelect(g)' <=> IsSelect(g)) /\ (At(g, "drain")' <=> At(g, "drain"))
    BY DEF Buffer, Room, IsSelect, At
  <2> QED
    BY <2>1, <2>2 DEF Channel
<1> QED
  BY <1>1, <1>2, <1>3, <1>4, <1>5, <1>6 DEF IInv

(* The parts of IInv hold in every reachable state.                        *)
THEOREM Invariance == Spec => []IInv
<1>1. IInv /\ [Next]_vars => IInv'
  BY NextIInv, StutterKeeps
<1> QED
  BY InitIInv, <1>1, PTL DEF Spec

----------------------------------------------------------------------------
(* What follows from it.                                                   *)

LEMMA Joint ==
  ASSUME NEW p \in Seq(G), NEW q \in Seq(G)
  PROVE  ToSet(p \o q) = ToSet(p) \cup ToSet(q)
<1>1. /\ DOMAIN p = 1..Len(p) /\ DOMAIN q = 1..Len(q) /\ Len(p) \in Nat /\ Len(q) \in Nat
      /\ DOMAIN (p \o q) = 1..(Len(p) + Len(q))
  OBVIOUS
<1>2. \A i \in 1..(Len(p) + Len(q)) : (p \o q)[i] = IF i <= Len(p) THEN p[i] ELSE q[i - Len(p)]
  OBVIOUS
<1>3. ASSUME NEW x \in ToSet(p \o q) PROVE x \in ToSet(p) \cup ToSet(q)
  <2>1. PICK i \in 1..(Len(p) + Len(q)) : x = (p \o q)[i]
    BY <1>1 DEF ToSet
  <2>2. CASE i <= Len(p)
    BY <1>1, <1>2, <2>1, <2>2 DEF ToSet
  <2>3. CASE ~(i <= Len(p))
    <3>1. i - Len(p) \in DOMAIN q /\ x = q[i - Len(p)]
      BY <1>1, <1>2, <2>1, <2>3
    <3> QED
      BY <3>1 DEF ToSet
  <2> QED
    BY <2>2, <2>3
<1>4. ASSUME NEW x \in ToSet(p) PROVE x \in ToSet(p \o q)
  <2>1. PICK i \in 1..Len(p) : x = p[i]
    BY <1>1 DEF ToSet
  <2>2. i \in DOMAIN (p \o q) /\ (p \o q)[i] = x
    BY <1>1, <1>2, <2>1
  <2> QED
    BY <2>2 DEF ToSet
<1>5. ASSUME NEW x \in ToSet(q) PROVE x \in ToSet(p \o q)
  <2>1. PICK i \in 1..Len(q) : x = q[i]
    BY <1>1 DEF ToSet
  <2>2. Len(p) + i \in DOMAIN (p \o q) /\ ~(Len(p) + i <= Len(p)) /\ (Len(p) + i) - Len(p) = i
    BY <1>1
  <2>3. (p \o q)[Len(p) + i] = x
    BY <1>1, <1>2, <2>1, <2>2
  <2> QED
    BY <2>2, <2>3 DEF ToSet
<1> QED
  BY <1>3, <1>4, <1>5

(* A select that was woken for a close finds the closed channel.           *)
LEMMA FindsCase == IInv => WokenFindsCase
<1> SUFFICES ASSUME IInv, NEW g \in G
             PROVE  (At(g, "again") => ~NothingPossible(g)) /\ ~At(g, "throw")
  BY DEF WokenFindsCase
<1>1. ~At(g, "throw")
  BY DEF IInv, Types, PC, At
<1>2. ASSUME At(g, "again") PROVE ~NothingPossible(g)
  <2>1. PICK cs \in op[g].cases : closed[cs[1]]
    BY <1>2 DEF IInv, Params, Param, Ended
  <2>2. Possible(cs[1], cs[2])
    BY <2>1 DEF Possible
  <2> QED
    BY <2>2 DEF NothingPossible
<1> QED
  BY <1>1, <1>2

(* The invariants at the head of chan.go, and that nobody is woken in vain.*)
THEOREM QueuesHold == Spec => []QueueInvariants
<1>1. IInv => QueueInvariants
  <2> SUFFICES ASSUME IInv PROVE QueueInvariants
    OBVIOUS
  <2>1. TypeOK
    <3>1. \A c \in Chan : qcount[c] \in 0..Cap[c] /\ sendx[c] \in 0..Cap[c] /\ recvx[c] \in 0..Cap[c]
      BY ChannelFacts DEF Buffer
    <3> QED
      BY <3>1 DEF IInv, Types, TypeOK
  <2>2. ASSUME NEW c \in Chan
        PROVE  /\ \/ sendq[c] = <<>> \/ recvq[c] = <<>>
                  \/ Cap[c] = 0 /\ \E g \in G : IsSelect(g) /\ ToSet(sendq[c] \o recvq[c]) = {g}
               /\ Cap[c] > 0 => /\ qcount[c] > 0 => recvq[c] = <<>>
                                /\ qcount[c] < Cap[c] => sendq[c] = <<>>
    <3>1. Channel(c)
      BY DEF IInv, ChannelsAre
    <3>2. ToSet(sendq[c] \o recvq[c]) = ToSet(sendq[c]) \cup ToSet(recvq[c])
      BY ChannelFacts, Joint
    <3>3. \A g : ToSet(sendq[c]) = {g} /\ ToSet(recvq[c]) = {g} => ToSet(sendq[c] \o recvq[c]) = {g}
      BY <3>2
    <3> QED
      BY <3>1, <3>3 DEF Channel, Room
  <2> QED
    BY <2>1, <2>2, FindsCase DEF QueueInvariants
<1> QED
  BY Invariance, <1>1, PTL

(* Nobody sleeps who could go on.                                          *)
THEOREM SleepersMustSleep == Spec => []NobodySleepsForNothing
<1>1. IInv => NobodySleepsForNothing
  <2> SUFFICES ASSUME IInv, NEW g \in G, At(g, "parked"), Owed(g) = {}, NEW cs \in op[g].cases
               PROVE  /\ Contains(IF cs[2] = "send" THEN sendq[cs[1]] ELSE recvq[cs[1]], g)
                      /\ Live(g)
                      /\ lock[cs[1]] = None =>
                           /\ ~closed[cs[1]] /\ ~PartnerFor(g, cs[1], cs[2])
                           /\ qcount[cs[1]] = IF cs[2] = "send" THEN Cap[cs[1]] ELSE 0
    BY DEF NobodySleepsForNothing
  <2>1. Asleep(g) /\ op[g] \in Operations /\ op[g].kind = "block"
    BY InOperation DEF Asleep, At, IInv, Places, Place
  <2>2. cs \in Case /\ cs[1] \in Chan /\ cs[2] \in Dir
    BY <2>1, ChansAre, CaseFacts
  <2> DEFINE c == cs[1]
             q == IF cs[2] = "send" THEN sendq[c] ELSE recvq[c]
  <2>3. q = Queue(c, cs[2]) /\ g \in ToSet(q) /\ q \in Seq(G)
    BY <2>1, <2>2, QueueTypes DEF Queue, IInv, Queues, Sleeper
  <2>4. Contains(q, g)
    BY <2>3 DEF ToSet, Contains
  <2>5. Live(g)
    BY <2>1, <2>2, <2>3, Members
  <2>6. Channel(c) /\ q # <<>>
    BY <2>2, <2>3, ToSetFacts DEF IInv, ChannelsAre
  <2>7. lock[c] = None => ~closed[c]
    BY <2>6, ChanAssumption DEF Channel
  <2>8. ~PartnerFor(g, c, cs[2])
    <3> SUFFICES ASSUME NEW h \in ToSet(IF cs[2] = "send" THEN recvq[c] ELSE sendq[c]), h # g PROVE FALSE
      BY DEF PartnerFor
    <3>1. recvq[c] # <<>> /\ sendq[c] # <<>>
      BY <2>6, ToSetFacts
    <3>2. PICK x \in G : ToSet(sendq[c]) = {x} /\ ToSet(recvq[c]) = {x}
      BY <2>6, <3>1 DEF Channel
    <3> QED
      BY <2>3, <3>2
  <2>9. qcount[c] = IF cs[2] = "send" THEN Cap[c] ELSE 0
    BY <2>2, <2>6, ChannelFacts DEF Room, Buffer, Dir
  <2> QED
    BY <2>4, <2>5, <2>7, <2>8, <2>9
<1> QED
  BY Invariance, <1>1, PTL

(* A finite nonempty set of numbers has a greatest element: otherwise      *)
(* there would be a smallest set without one.                              *)
LEMMA Greatest ==
  ASSUME NEW T \in SUBSET Nat, IsFiniteSet(T), T # {}
  PROVE  \E x \in T : \A y \in T : y <= x
<1> DEFINE Bad(U) == U # {} /\ ~\E x \in U : \A y \in U : y <= x
           K == {n \in Nat : \E U \in SUBSET T : Bad(U) /\ Cardinality(U) = n}
<1> SUFFICES ASSUME Bad(T) PROVE FALSE
  OBVIOUS
<1>1. \A U \in SUBSET T : IsFiniteSet(U) /\ Cardinality(U) \in Nat
  BY FS_Subset, FS_CardinalityType
<1>2. K # {} /\ K \in SUBSET Nat
  <2>1. Cardinality(T) \in K
    BY <1>1
  <2> QED
    BY <2>1
<1>3. PICK n \in K : \A m \in K : n <= m
  <2> HIDE DEF K
  <2> QED
    BY <1>2, Least
<1>4. PICK U \in SUBSET T : Bad(U) /\ Cardinality(U) = n
  OBVIOUS
<1>5. PICK x \in U : TRUE
  BY <1>4
<1>6. Cardinality(U \ {x}) = n - 1 /\ U \ {x} \in SUBSET T /\ n - 1 \in Nat
  <2>1. IsFiniteSet(U) /\ Cardinality(U) = n /\ x \in U
    BY <1>1, <1>4, <1>5
  <2>2. Cardinality(U \ {x}) = n - 1
    BY <2>1, FS_RemoveElement
  <2> QED
    BY <1>1, <2>2
<1>7. ~Bad(U \ {x})
  <2>1. ~(n <= n - 1)
    BY <1>6
  <2>2. n - 1 \notin K
    BY <1>3, <2>1
  <2> QED
    BY <1>6, <2>2
<1>8. \E z \in U : \A y \in U : y <= z
  <2>1. U \subseteq Nat
    OBVIOUS
  <2>2. CASE U \ {x} = {}
    BY <2>1, <2>2
  <2>3. CASE U \ {x} # {}
    <3>1. PICK z \in U \ {x} : \A y \in U \ {x} : y <= z
      BY <1>7, <2>3
    <3>2. x \in Nat /\ z \in Nat /\ \A y \in U : y \in Nat
      BY <2>1
    <3>3. CASE x <= z
      BY <3>1, <3>2, <3>3
    <3>4. CASE ~(x <= z)
      BY <3>1, <3>2, <3>4
    <3> QED
      BY <3>3, <3>4
  <2> QED
    BY <2>2, <2>3
<1> QED
  BY <1>4, <1>8

(* Whoever holds the last of the locked channels can take its next lock.   *)
THEOREM LocksCanMove == Spec => []LocksMove
<1>1. IInv => LocksMove
  <2> SUFFICES ASSUME IInv, NEW d \in Chan, lock[d] # None
               PROVE  \E g \in G : /\ \E c \in Chan : lock[c] = g
                                   /\ pc[g] \in {"lock", "relock"} => lock[Min(Wants(g))] = None
    BY DEF LocksMove
  <2> DEFINE T == {c \in Chan : lock[c] # None}
  <2>1. IsFiniteSet(T) /\ T # {} /\ T \in SUBSET Nat
    <3>1. T \subseteq Chan /\ IsFiniteSet(Chan) /\ Chan \subseteq Nat /\ d \in T
      BY ChanAssumption
    <3> QED
      BY <3>1, FS_Subset
  <2>2. PICK c \in T : \A e \in T : e <= c
    <3> HIDE DEF T
    <3> QED
      BY <2>1, Greatest
  <2>3. PICK g \in G : lock[c] = g
    BY <2>2 DEF IInv, Types
  <2>4. Lock(g) /\ c \in Chan
    BY DEF IInv, Locks
  <2>5. ASSUME pc[g] \in {"lock", "relock"} PROVE lock[Min(Wants(g))] = None
    <3>1. Locking(g) /\ c \in ChansOf(g) /\ op[g] \in Operations
      BY <2>3, <2>4, <2>5, InOperation DEF Lock, Inside, At
    <3>2. Wants(g) # {} /\ Wants(g) \in SUBSET Nat /\ ChansOf(g) \subseteq Chan /\ Chan \subseteq Nat
      BY <2>4, <3>1, ChansAre, ChanAssumption DEF Lock, Wants
    <3>3. Min(Wants(g)) \in Wants(g)
      BY <3>2, MinIs
    <3>4. PICK m \in ChansOf(g) : m = Min(Wants(g)) /\ lock[m] # g
      BY <3>3 DEF Wants
    <3>5. ~(m < c) /\ m # c
      BY <2>3, <2>4, <3>1, <3>4 DEF Lock
    <3>6. m \in Nat /\ c \in Nat /\ m \in Chan
      BY <3>2, <3>4
    <3>7. ~(m <= c)
      BY <3>5, <3>6
    <3>8. m \notin T
      BY <2>2, <3>7
    <3> QED
      BY <3>4, <3>6, <3>8
  <2> QED
    BY <2>3, <2>4, <2>5
<1> QED
  BY Invariance, <1>1, PTL

(* A try fails only if it was impossible, or its channel is closed.        *)
THEOREM FailuresAreReal == Spec => []FailureWasReal
<1>1. IInv => FailureWasReal
  BY DEF IInv
<1> QED
  BY Invariance, <1>1, PTL
----------------------------------------------------------------------------
(* The channels keep their promise: the mapping of the state.              *)

PBuf == [c \in Chan |-> Contents(c)]
PShut == {c \in Chan : closed[c]}
POffer == [g \in G |-> Offer(op[g])]
PTries == {g \in G : op[g].kind = "try"}
POut == [g \in G |-> Outcome(g)]

LEMMA ContentsAre ==
  ASSUME IInv, NEW c \in Chan
  PROVE  /\ Contents(c) \in Seq(G \cup {None}) /\ Len(Contents(c)) = qcount[c]
         /\ \A i \in 1..qcount[c] : Contents(c)[i] = ring[c][Slot(c, i)]
         /\ qcount[c] = 0 <=> Contents(c) = <<>>
<1>1. /\ Cap[c] \in Nat /\ qcount[c] \in Nat /\ recvx[c] \in Nat
      /\ Buffer(c) /\ ring[c] \in [0..(Cap[c] - 1) -> G \cup {None}]
  BY ChannelFacts
<1>2. ASSUME NEW i \in 1..qcount[c] PROVE Slot(c, i) \in 0..(Cap[c] - 1)
  BY <1>1 DEF Buffer, Slot
<1>3. Contents(c) \in [1..qcount[c] -> G \cup {None}]
  BY <1>1, <1>2 DEF Contents
<1>4. Contents(c) \in Seq(G \cup {None})
  BY <1>1, <1>3, SeqDef
<1>5. Len(Contents(c)) = qcount[c]
  BY <1>1, <1>3, <1>4, LenProperties
<1>6. \A i \in 1..qcount[c] : Contents(c)[i] = ring[c][Slot(c, i)]
  BY DEF Contents
<1>7. qcount[c] = 0 <=> Contents(c) = <<>>
  BY <1>4, <1>5, EmptyLen
<1> QED
  BY <1>4, <1>5, <1>6, <1>7

(* A channel whose ring is left alone holds what it held.                  *)
LEMMA SameContents ==
  ASSUME UNCHANGED <<ring, recvx, qcount>>
  PROVE  PBuf' = PBuf
BY DEF PBuf, Contents, Slot
LEMMA OutcomeSame ==
  ASSUME NEW x \in G, pc'[x] = pc[x], op'[x] = op[x], res'[x] = res[x], param'[x] = param[x],
         elem'[x] = elem[x], Owed(x)' = Owed(x)
  PROVE  Outcome(x)' = Outcome(x)
<1>1. Decision(x)' = Decision(x)
  BY DEF Decision
<1> QED
  BY <1>1 DEF Outcome, At

(* The outcome of an operation: before it is decided, in its sleep when    *)
(* others have decided it, awake, and when it is done.                     *)
Taken(p, e) == IF p = NoCase THEN None ELSE Result(p, IF p[2] = "recv" THEN e ELSE None, TRUE)
Undecided(x) ==
  /\ pc[x] \notin {"ready", "done", "parked"} \cup Back => Outcome(x) = None
  /\ op[x].kind = "close" /\ pc[x] \in {"ready", "done"} => Outcome(x) = None
  /\ At(x, "parked") /\ Owed(x) = {} /\ param[x] = NoCase => Outcome(x) = None
Decided(x) ==
  /\ op[x].kind # "close" /\ pc[x] \in {"ready", "done"} => Outcome(x) = res[x]
  /\ \A w : At(x, "parked") /\ Owed(x) = {w} /\ param[x] = NoCase => Outcome(x) = Taken(w.param, elem[x])
  /\ pc[x] \in Back /\ Owed(x) = {} => Outcome(x) = Taken(param[x], elem[x])
Outcomes == \A x \in G : Undecided(x) /\ Decided(x)

LEMMA OutcomesNow == Outcomes
<1> SUFFICES ASSUME NEW x \in G PROVE Undecided(x) /\ Decided(x)
  BY DEF Outcomes
<1>1. pc[x] \notin {"ready", "done", "parked"} \cup Back => Outcome(x) = None
  BY DEF Outcome, Back
<1>2. op[x].kind = "close" /\ pc[x] \in {"ready", "done"} => Outcome(x) = None
  BY DEF Outcome, Back
<1>3. Owed(x) = {} => Decision(x) = param[x]
  BY DEF Decision
<1>4. At(x, "parked") /\ Owed(x) = {} /\ param[x] = NoCase => Outcome(x) = None
  BY <1>3 DEF Outcome, At
<1>5. op[x].kind # "close" /\ pc[x] \in {"ready", "done"} => Outcome(x) = res[x]
  BY DEF Outcome
<1>6. ASSUME NEW w, At(x, "parked"), Owed(x) = {w}, param[x] = NoCase PROVE Outcome(x) = Taken(w.param, elem[x])
  <2>1. (CHOOSE v \in Owed(x) : TRUE) = w
    BY <1>6
  <2>2. Decision(x) = w.param
    BY <1>6, <2>1 DEF Decision
  <2> QED
    BY <1>6, <2>2 DEF Outcome, Taken, At
<1>7. pc[x] \in Back /\ Owed(x) = {} => Outcome(x) = Taken(param[x], elem[x])
  BY <1>3 DEF Outcome, Back, Taken
<1> QED
  BY <1>1, <1>2, <1>4, <1>5, <1>6, <1>7 DEF Undecided, Decided

LEMMA OutcomesThen == Outcomes'
BY OutcomesNow, PTL

LEMMA AsleepOutcome ==
  ASSUME IInv, NEW x \in G, Asleep(x)
  PROVE  Outcome(x) = None /\ param[x] = NoCase /\ pc[x] = "parked" /\ Owed(x) = {} /\ op[x].kind # "close"
<1>1. Owed(x) = {} /\ pc[x] = "parked" /\ param[x] = NoCase /\ op[x].kind # "close"
  BY DEF Asleep, At, IInv, Params, Param, Back, Places, Place
<1> QED
  BY <1>1, OutcomesNow DEF Outcomes, Undecided, At

----------------------------------------------------------------------------
(* The steps of the promise, in terms of the mapped state.                 *)

PVars == <<PBuf, PShut, POffer, PTries, POut>>

LEMMA VarsKept == UNCHANGED PVars => UNCHANGED Promise!promiseVars
BY DEF Promise!promiseVars, PVars, PBuf, PShut, POffer, PTries, POut

LEMMA Calls ==
  ASSUME NEW g \in G, NEW cases \in {o.cases : o \in {p \in UNION Programs : p.kind # "close"}},
         POffer[g] = {}, POut[g] = None, PTries' \in {PTries, PTries \cup {g}},
         POffer' = [POffer EXCEPT ![g] = cases], UNCHANGED <<PBuf, PShut, POut>>
  PROVE  Promise!Next
<1>1. Promise!Call(g)
  BY DEF Promise!Call, PBuf, PShut, POffer, PTries, POut
<1> QED
  BY <1>1 DEF Promise!Next

LEMMA Returns ==
  ASSUME NEW g \in G, POut[g] # None, POffer' = [POffer EXCEPT ![g] = {}], PTries' = PTries \ {g},
         POut' = [POut EXCEPT ![g] = None], UNCHANGED <<PBuf, PShut>>
  PROVE  Promise!Next
<1>1. Promise!Return(g)
  BY DEF Promise!Return, PBuf, PShut, POffer, PTries, POut
<1> QED
  BY <1>1 DEF Promise!Next

LEMMA GivesUp ==
  ASSUME NEW g \in G, g \in PTries, POut[g] = None, POut' = [POut EXCEPT ![g] = Fail],
         UNCHANGED <<PBuf, PShut, POffer, PTries>>
  PROVE  Promise!Next
<1>1. Promise!GiveUp(g)
  BY DEF Promise!GiveUp, PBuf, PShut, POffer, PTries, POut, Promise!Fail, Promise!Result, Promise!NoCase,
         Fail, Result, NoCase
<1> QED
  BY <1>1 DEF Promise!Next

LEMMA Closes ==
  ASSUME NEW c \in Chan, c \notin PShut, PShut' = PShut \cup {c}, UNCHANGED <<PBuf, POffer, PTries, POut>>
  PROVE  Promise!Next
<1>1. Promise!Close(c)
  BY DEF Promise!Close, PBuf, PShut, POffer, PTries, POut
<1> QED
  BY <1>1 DEF Promise!Next
PPending(g, c, dir) == <<c, dir>> \in POffer[g] /\ POut[g] = None

LEMMA PendingIs ==
  ASSUME NEW g \in G, NEW c \in Chan, NEW dir, PPending(g, c, dir)
  PROVE  /\ Promise!Pending(g, c, dir)
         /\ [x \in G |-> Outcome(x)][g] = None
         /\ c \in {case[1] : case \in [x \in G |-> Offer(op[x])][g]}
<1>1. Promise!Pending(g, c, dir)
  BY DEF PPending, Promise!Pending, POffer, POut
<1>2. <<c, dir>>[1] = c
  OBVIOUS
<1> QED
  BY <1>1, <1>2 DEF PPending, POffer, POut

LEMMA Sends ==
  ASSUME NEW g \in G, NEW c \in Chan, PPending(g, c, "send"), c \notin PShut, Len(PBuf[c]) < Cap[c],
         PBuf' = [PBuf EXCEPT ![c] = Append(PBuf[c], g)],
         POut' = [POut EXCEPT ![g] = Result(<<c, "send">>, None, TRUE)],
         UNCHANGED <<PShut, POffer, PTries>>
  PROVE  Promise!Next
<1>1. Promise!Send(g, c)
  BY PendingIs DEF Promise!Send, Promise!Result, Result, PBuf, PShut, POffer, PTries, POut
<1>2. Promise!Happens(g)
  BY <1>1, PendingIs DEF Promise!Happens
<1> QED
  BY <1>2 DEF Promise!Next

LEMMA Receives ==
  ASSUME NEW g \in G, NEW c \in Chan, PPending(g, c, "recv"), PBuf[c] # <<>>,
         PBuf' = [PBuf EXCEPT ![c] = Tail(PBuf[c])],
         POut' = [POut EXCEPT ![g] = Result(<<c, "recv">>, Head(PBuf[c]), TRUE)],
         UNCHANGED <<PShut, POffer, PTries>>
  PROVE  Promise!Next
<1>1. Promise!Recv(g, c)
  BY PendingIs DEF Promise!Recv, Promise!Result, Result, PBuf, PShut, POffer, PTries, POut
<1>2. Promise!Happens(g)
  BY <1>1, PendingIs DEF Promise!Happens
<1> QED
  BY <1>2 DEF Promise!Next

LEMMA EndsOnClosed ==
  ASSUME NEW g \in G, NEW c \in Chan, NEW dir \in Dir, PPending(g, c, dir), c \in PShut,
         dir = "recv" => PBuf[c] = <<>>,
         POut' = [POut EXCEPT ![g] = Result(<<c, dir>>, None, FALSE)],
         UNCHANGED <<PBuf, PShut, POffer, PTries>>
  PROVE  Promise!Next
<1>1. Promise!OnClosed(g, c, dir)
  BY PendingIs DEF Promise!OnClosed, Promise!Result, Result, PBuf, PShut, POffer, PTries, POut
<1>2. Promise!Happens(g)
  BY <1>1, PendingIs DEF Promise!Happens, Dir
<1> QED
  BY <1>2 DEF Promise!Next

LEMMA Transfers ==
  ASSUME NEW s \in G, NEW r \in G, s # r, NEW c \in Chan, PPending(s, c, "send"), PPending(r, c, "recv"),
         c \notin PShut, PBuf[c] = <<>>,
         POut' = [POut EXCEPT ![s] = Result(<<c, "send">>, None, TRUE),
                              ![r] = Result(<<c, "recv">>, s, TRUE)],
         UNCHANGED <<PBuf, PShut, POffer, PTries>>
  PROVE  Promise!Next
<1>1. Promise!Transfer(s, r, c)
  BY PendingIs DEF Promise!Transfer, Promise!Result, Result, PBuf, PShut, POffer, PTries, POut
<1>2. Promise!Happens(s)
  BY <1>1, PendingIs DEF Promise!Happens
<1> QED
  BY <1>2 DEF Promise!Next

LEMMA Exchanges ==
  ASSUME NEW s \in G, NEW r \in G, s # r, NEW c \in Chan, PPending(s, c, "send"), PPending(r, c, "recv"),
         c \notin PShut, PBuf[c] # <<>>,
         PBuf' = [PBuf EXCEPT ![c] = Append(Tail(PBuf[c]), s)],
         POut' = [POut EXCEPT ![r] = Result(<<c, "recv">>, Head(PBuf[c]), TRUE),
                              ![s] = Result(<<c, "send">>, None, TRUE)],
         UNCHANGED <<PShut, POffer, PTries>>
  PROVE  Promise!Next
<1>1. Promise!RecvAndSend(r, s, c)
  BY PendingIs DEF Promise!RecvAndSend, Promise!Result, Result, PBuf, PShut, POffer, PTries, POut
<1>2. Promise!Happens(r)
  BY <1>1, PendingIs DEF Promise!Happens
<1> QED
  BY <1>2 DEF Promise!Next
----------------------------------------------------------------------------
(* Every step is one of the promise, or changes nothing it speaks about.   *)

Fulfils == Promise!Next \/ UNCHANGED PVars

LEMMA Frames ==
  /\ UNCHANGED closed => UNCHANGED PShut
  /\ UNCHANGED op => UNCHANGED <<POffer, PTries>>
  /\ (\A x \in G : Outcome(x)' = Outcome(x)) => UNCHANGED POut
  /\ \A x \in G : POut[x] = Outcome(x) /\ POffer[x] = Offer(op[x])
<1>1. UNCHANGED closed => UNCHANGED PShut
  BY DEF PShut
<1>2. UNCHANGED op => UNCHANGED <<POffer, PTries>>
  BY DEF POffer, PTries
<1>3. (\A x \in G : Outcome(x)' = Outcome(x)) => UNCHANGED POut
  BY DEF POut
<1>4. \A x \in G : POut[x] = Outcome(x) /\ POffer[x] = Offer(op[x])
  BY DEF POut, POffer
<1> QED
  BY <1>1, <1>2, <1>3, <1>4

LEMMA OneOutcome ==
  ASSUME NEW g \in G, NEW v, Outcome(g)' = v, \A x \in G \ {g} : Outcome(x)' = Outcome(x)
  PROVE  POut' = [POut EXCEPT ![g] = v]
BY DEF POut

LEMMA TwoOutcomes ==
  ASSUME NEW g \in G, NEW h \in G, g # h, NEW v, NEW w, Outcome(g)' = v, Outcome(h)' = w,
         \A x \in G \ {g, h} : Outcome(x)' = Outcome(x)
  PROVE  POut' = [POut EXCEPT ![g] = v, ![h] = w] /\ POut' = [POut EXCEPT ![h] = w, ![g] = v]
BY DEF POut

(* The others have the outcome they had.                                   *)
LEMMA OthersOutcome ==
  ASSUME NEW g \in G, UNCHANGED todo,
         \A x \in G \ {g} : /\ pc'[x] = pc[x] /\ op'[x] = op[x] /\ res'[x] = res[x]
                            /\ param'[x] = param[x] /\ elem'[x] = elem[x]
  PROVE  \A x \in G \ {g} : Outcome(x)' = Outcome(x)
BY OwedKept, OutcomeSame

LEMMA CallFulfils ==
  ASSUME IInv, NEW g \in G, NEW o \in ops, Call(g, o)
  PROVE  Fulfils
<1>1. /\ At(g, "idle") /\ op' = [op EXCEPT ![g] = o] /\ UNCHANGED <<chanVars, lock, selectDone, param, elem, todo, res>>
      /\ pc'[g] \in {"look", "close", "lock"} /\ \A x \in G \ {g} : pc'[x] = pc[x]
      /\ op[g] = NoOp /\ o \in UNION Programs
      /\ op'[g] = o /\ \A x \in G \ {g} : op'[x] = op[x]
  BY DEF Call, Goto, IInv, Types, Places, Place
<1>2. UNCHANGED <<PBuf, PShut>>
  BY <1>1, SameContents, Frames DEF chanVars
<1>3. Outcome(g) = None /\ Outcome(g)' = None
  BY <1>1, OutcomesNow, OutcomesThen DEF Outcomes, Undecided, At, Back
<1>4. \A x \in G \ {g} : Outcome(x)' = Outcome(x)
  BY <1>1, OthersOutcome
<1>5. UNCHANGED POut /\ POut[g] = None
  BY <1>3, <1>4, Frames
<1>6. POffer[g] = {} /\ NoOp.kind = "none" /\ NoOp.kind # "try"
  BY <1>1 DEF POffer, Offer, NoOp
<1>7. POffer' = [POffer EXCEPT ![g] = Offer(o)]
  <2>1. \A x \in G : Offer(op'[x]) = IF x = g THEN Offer(o) ELSE Offer(op[x])
    BY <1>1
  <2> QED
    BY <2>1 DEF POffer
<1>8. PTries' = IF o.kind = "try" THEN PTries \cup {g} ELSE PTries
  BY <1>1, <1>6 DEF PTries
<1>9. CASE o.kind = "close"
  <2>1. Offer(o) = {}
    BY <1>9 DEF Offer
  <2>2. UNCHANGED POffer
    BY <2>1, <1>6, <1>7 DEF POffer
  <2> QED
    BY <1>2, <1>5, <1>8, <1>9, <2>2 DEF Fulfils, PVars
<1>10. CASE o.kind # "close"
  <2>1. Offer(o) = o.cases
    BY <1>10 DEF Offer
  <2>2. Offer(o) \in {p.cases : p \in {q \in UNION Programs : q.kind # "close"}}
    BY <2>1, <1>1, <1>10
  <2> QED
    BY <1>2, <1>5, <1>6, <1>7, <1>8, <2>2, Calls DEF Fulfils
<1> QED
  BY <1>9, <1>10

LEMMA ReturnFulfils ==
  ASSUME IInv, NEW g \in G, Return(g)
  PROVE  Fulfils
<1>1. /\ At(g, "done") /\ op' = [op EXCEPT ![g] = NoOp] /\ UNCHANGED <<chanVars, lock, selectDone, param, todo>>
      /\ pc'[g] = "idle" /\ op'[g] = NoOp
      /\ \A x \in G \ {g} : pc'[x] = pc[x] /\ op'[x] = op[x] /\ elem'[x] = elem[x] /\ res'[x] = res[x]
  BY DEF Return, Goto, IInv, Types
<1>2. UNCHANGED <<PBuf, PShut>>
  BY <1>1, SameContents, Frames DEF chanVars
<1>3. Outcome(g)' = None
  BY <1>1, OutcomesThen DEF Outcomes, Undecided, Back
<1>4. \A x \in G \ {g} : Outcome(x)' = Outcome(x)
  BY <1>1, OthersOutcome
<1>5. POut' = [POut EXCEPT ![g] = None]
  BY <1>3, <1>4, OneOutcome
<1>6. Offer(NoOp) = {} /\ NoOp.kind # "try"
  BY DEF Offer, NoOp
<1>7. POffer' = [POffer EXCEPT ![g] = {}]
  <2>1. \A x \in G : Offer(op'[x]) = IF x = g THEN {} ELSE Offer(op[x])
    BY <1>1, <1>6
  <2> QED
    BY <2>1 DEF POffer
<1>8. PTries' = PTries \ {g}
  BY <1>1, <1>6 DEF PTries
<1>9. CASE op[g].kind = "close"
  <2>1. Offer(op[g]) = {} /\ op[g].kind # "try"
    BY <1>9 DEF Offer
  <2>2. Outcome(g) = None
    BY <1>1, <1>9, OutcomesNow DEF Outcomes, Undecided, At
  <2>3. UNCHANGED POffer
    BY <2>1, <1>7 DEF POffer
  <2>4. UNCHANGED PTries
    BY <2>1, <1>8 DEF PTries
  <2>5. UNCHANGED POut
    BY <2>2, <1>3, <1>4, Frames
  <2> QED
    BY <1>2, <2>3, <2>4, <2>5 DEF Fulfils, PVars
<1>10. CASE op[g].kind # "close"
  <2>1. Outcome(g) = res[g]
    BY <1>1, <1>10, OutcomesNow DEF Outcomes, Decided, At
  <2>2. res[g] # None
    <3>1. res[g] \in Results
      BY DEF IInv, Types
    <3> QED
      BY <3>1, ChanAssumption DEF Results, NoCase
  <2>3. POut[g] # None
    BY <2>1, <2>2, Frames
  <2> QED
    BY <1>2, <1>5, <1>7, <1>8, <2>3, Returns DEF Fulfils
<1> QED
  BY <1>9, <1>10
(* A step that leaves the channels and the operations alone, and the       *)
(* outcomes too.                                                           *)
LEMMA Stutters ==
  ASSUME UNCHANGED <<ring, recvx, qcount, closed, op>>, \A x \in G : Outcome(x)' = Outcome(x)
  PROVE  Fulfils
<1>1. UNCHANGED <<PBuf, PShut, POffer, PTries, POut>>
  BY SameContents, Frames
<1> QED
  BY <1>1 DEF Fulfils, PVars

(* One that gives up.                                                      *)
LEMMA FailsNow ==
  ASSUME NEW g \in G, UNCHANGED <<ring, recvx, qcount, closed, op>>, op[g].kind = "try",
         Outcome(g) = None, Outcome(g)' = Fail, \A x \in G \ {g} : Outcome(x)' = Outcome(x)
  PROVE  Fulfils
<1>1. UNCHANGED <<PBuf, PShut, POffer, PTries>> /\ POut[g] = None
  BY SameContents, Frames
<1>2. POut' = [POut EXCEPT ![g] = Fail]
  BY OneOutcome
<1>3. g \in PTries
  BY DEF PTries
<1> QED
  BY <1>1, <1>2, <1>3, GivesUp DEF Fulfils

Undone == {"idle", "look", "look2", "lock", "poll", "again", "close", "drain"}

LEMMA UndoneNone ==
  /\ \A x \in G : pc[x] \in Undone => Outcome(x) = None
  /\ \A x \in G : pc'[x] \in Undone => Outcome(x)' = None
BY OutcomesNow, OutcomesThen DEF Outcomes, Undecided, Undone, Back

LEMMA LookFulfils ==
  ASSUME IInv, NEW g \in G, Look(g)
  PROVE  Fulfils
<1>1. /\ At(g, "look") /\ UNCHANGED <<chanVars, lock, op, selectDone, param, elem, todo, res>>
      /\ pc'[g] \in {"look2", "lock"} /\ \A x \in G \ {g} : pc'[x] = pc[x]
  BY DEF Look, Goto, IInv, Types
<1>2. Outcome(g) = None /\ Outcome(g)' = None
  BY <1>1, UndoneNone DEF At, Undone
<1>3. \A x \in G \ {g} : Outcome(x)' = Outcome(x)
  BY <1>1, OthersOutcome
<1> QED
  BY <1>1, <1>2, <1>3, Stutters DEF chanVars

LEMMA Look2Fulfils ==
  ASSUME IInv, NEW g \in G, Look2(g)
  PROVE  Fulfils
<1>1. /\ At(g, "look2") /\ UNCHANGED <<chanVars, lock, op, selectDone, param, elem, todo>>
      /\ op[g].kind = "try"
      /\ \A x \in G \ {g} : pc'[x] = pc[x] /\ res'[x] = res[x]
      /\ (pc'[g] = "done" /\ res'[g] = Fail) \/ pc'[g] = "lock"
  <2>1. Finish(g, Fail) \/ (Goto(g, "lock") /\ UNCHANGED res)
    BY DEF Look2
  <2>2. At(g, "look2") /\ UNCHANGED <<chanVars, lock, op, selectDone, param, elem, todo>>
    BY DEF Look2
  <2>3. op[g].kind = "try"
    BY <2>2 DEF At, IInv, Places, Place
  <2> QED
    BY <2>1, <2>2, <2>3 DEF Goto, Finish, IInv, Types
<1>2. Outcome(g) = None
  BY <1>1, UndoneNone DEF At, Undone
<1>3. \A x \in G \ {g} : Outcome(x)' = Outcome(x)
  BY <1>1, OthersOutcome
<1>4. CASE pc'[g] = "done" /\ res'[g] = Fail
  <2>1. Outcome(g)' = Fail
    BY <1>1, <1>4, OutcomesThen DEF Outcomes, Decided
  <2> QED
    BY <1>1, <1>2, <1>3, <2>1, FailsNow DEF chanVars
<1>5. CASE pc'[g] = "lock"
  <2>1. Outcome(g)' = None
    BY <1>5, UndoneNone DEF Undone
  <2> QED
    BY <1>1, <1>2, <1>3, <2>1, Stutters DEF chanVars
<1> QED
  BY <1>1, <1>4, <1>5

LEMMA SelLockFulfils ==
  ASSUME IInv, NEW g \in G, SelLock(g)
  PROVE  Fulfils
<1>1. /\ UNCHANGED <<chanVars, op, selectDone, param, elem, todo, res>>
      /\ \/ pc[g] = "lock" /\ pc'[g] \in {"lock", "poll"}
         \/ pc[g] = "relock" /\ pc'[g] \in {"relock", "pass3"}
      /\ \A x \in G \ {g} : pc'[x] = pc[x]
  BY DEF SelLock, Goto, At, IInv, Types
<1>2. Outcome(g)' = Outcome(g)
  <2>1. CASE pc[g] = "lock" /\ pc'[g] \in {"lock", "poll"}
    BY <2>1, UndoneNone DEF Undone
  <2>2. CASE pc[g] = "relock" /\ pc'[g] \in {"relock", "pass3"}
    <3>1. Owed(g) = {} /\ Owed(g)' = {} /\ param'[g] = param[g] /\ elem'[g] = elem[g]
      BY <1>1, <2>2, OwedParked, OwedKept DEF At
    <3> QED
      BY <3>1, <2>2, OutcomesNow, OutcomesThen DEF Outcomes, Decided, Back
  <2> QED
    BY <1>1, <2>1, <2>2
<1>3. \A x \in G \ {g} : Outcome(x)' = Outcome(x)
  BY <1>1, OthersOutcome
<1> QED
  BY <1>1, <1>2, <1>3, Stutters DEF chanVars

LEMMA GiveUpFulfils ==
  ASSUME IInv, NEW g \in G, GiveUp(g)
  PROVE  Fulfils
<1>1. /\ UNCHANGED <<ring, sendx, recvx, qcount, closed, op, selectDone, param, elem, todo>>
      /\ op[g].kind = "try" /\ pc'[g] = "done" /\ res'[g] = Fail
      /\ pc[g] \in {"poll", "again", "lock"}
      /\ \A x \in G \ {g} : pc'[x] = pc[x] /\ res'[x] = res[x]
  BY DEF GiveUp, NothingPossible, Polling, Finish, Goto, At, IInv, Types
<1>2. Outcome(g) = None
  BY <1>1, UndoneNone DEF Undone
<1>3. \A x \in G \ {g} : Outcome(x)' = Outcome(x)
  BY <1>1, OthersOutcome
<1>4. Outcome(g)' = Fail
  BY <1>1, OutcomesThen DEF Outcomes, Decided
<1> QED
  BY <1>1, <1>2, <1>3, <1>4, FailsNow

LEMMA ParkFulfils ==
  ASSUME IInv, NEW g \in G, Park(g)
  PROVE  Fulfils
<1>1. /\ UNCHANGED <<ring, sendx, recvx, qcount, closed, op, selectDone, elem, todo, res>>
      /\ pc'[g] = "parked" /\ param'[g] = NoCase /\ Polling(g)
      /\ \A x \in G \ {g} : pc'[x] = pc[x] /\ param'[x] = param[x]
  BY DEF Park, NothingPossible, Goto, IInv, Types
<1>2. pc[g] \in {"poll", "again", "lock"} /\ Owed(g) = {} /\ Owed(g)' = {}
  BY <1>1, Polls, OwedKept
<1>3. Outcome(g) = None /\ Outcome(g)' = None
  BY <1>1, <1>2, UndoneNone, OutcomesThen DEF Undone, Outcomes, Undecided, At
<1>4. \A x \in G \ {g} : Outcome(x)' = Outcome(x)
  BY <1>1, OthersOutcome
<1> QED
  BY <1>1, <1>3, <1>4, Stutters

LEMMA CloseMarkFulfils ==
  ASSUME IInv, NEW g \in G, CloseMark(g)
  PROVE  Fulfils
<1>1. PICK c \in ChansOf(g) :
        IF closed[c] THEN Finish(g, Fail) /\ UNCHANGED <<closed, lock>>
        ELSE closed' = [closed EXCEPT ![c] = TRUE] /\ Goto(g, "drain") /\ UNCHANGED res
  BY DEF CloseMark
<1>2. /\ UNCHANGED <<ring, sendx, recvx, qcount, op, selectDone, param, elem, todo>>
      /\ pc[g] = "close" /\ op[g].kind = "close"
  BY DEF CloseMark, IInv, Places, Place, At
<1>3. /\ \A x \in G \ {g} : pc'[x] = pc[x] /\ res'[x] = res[x]
      /\ pc'[g] \in {"done", "drain"}
  BY <1>1 DEF Finish, Goto, IInv, Types
<1>4. \A x \in G : Outcome(x)' = Outcome(x)
  <2>1. Outcome(g) = None /\ Outcome(g)' = None
    BY <1>2, <1>3, UndoneNone, OutcomesThen DEF Undone, Outcomes, Undecided
  <2>2. \A x \in G \ {g} : Outcome(x)' = Outcome(x)
    BY <1>2, <1>3, OthersOutcome
  <2> QED
    BY <2>1, <2>2
<1>5. CASE closed[c]
  BY <1>1, <1>2, <1>4, <1>5, Stutters
<1>6. CASE ~closed[c]
  <2>1. c \in Chan
    BY <1>2, InOperation, ChansAre DEF At
  <2>2. \A d \in Chan : closed'[d] = IF d = c THEN TRUE ELSE closed[d]
    BY <1>1, <1>6 DEF IInv, Types
  <2>3. c \notin PShut /\ PShut' = PShut \cup {c}
    BY <1>6, <2>1, <2>2 DEF PShut
  <2>4. UNCHANGED <<PBuf, POffer, PTries, POut>>
    BY <1>2, <1>4, SameContents, Frames
  <2> QED
    BY <2>1, <2>3, <2>4, Closes DEF Fulfils
<1> QED
  BY <1>5, <1>6
LEMMA WokenFulfils ==
  ASSUME IInv, NEW g \in G, Woken(g)
  PROVE  Fulfils
<1> USE DEF At, Goto
<1>1. PICK cs \in op[g].cases :
        IF IsSelect(g) THEN Goto(g, "relock") /\ UNCHANGED <<res, param>>
        ELSE /\ param' = [param EXCEPT ![g] = NoCase]
             /\ IF param[g] = NoCase /\ cs[2] = "send" /\ ~closed[cs[1]]
                THEN Goto(g, "throw") /\ UNCHANGED res
                ELSE Finish(g, Result(cs, IF cs[2] = "recv" THEN elem[g] ELSE None, param[g] # NoCase))
  BY DEF Woken
<1>2. /\ pc[g] = "woken" /\ op[g].kind = "block" /\ UNCHANGED <<chanVars, lock, op, selectDone, elem, todo>>
  BY DEF Woken, IInv, Places, Place, Back
<1>3. /\ Param(g) /\ Owed(g) = {} /\ Owed(g)' = {} /\ elem'[g] = elem[g]
      /\ Outcome(g) = Taken(param[g], elem[g])
  BY <1>2, OwedParked, OwedKept, OutcomesNow DEF IInv, Params, Outcomes, Decided, Back
<1>4. CASE IsSelect(g)
  <2>1. pc'[g] = "relock" /\ UNCHANGED <<res, param>> /\ \A h \in G \ {g} : pc'[h] = pc[h]
    BY <1>1, <1>4 DEF IInv, Types
  <2>2. Outcome(g)' = Taken(param[g], elem[g])
    BY <1>3, <2>1, OutcomesThen DEF Outcomes, Decided, Back
  <2>3. \A x \in G \ {g} : Outcome(x)' = Outcome(x)
    BY <1>2, <2>1, OthersOutcome
  <2> QED
    BY <1>2, <1>3, <2>2, <2>3, Stutters DEF chanVars
<1>5. CASE ~IsSelect(g)
  <2>1. op[g].cases = {cs} /\ cs \in Case /\ cs[1] \in Chan /\ cs[2] \in Dir /\ cs = <<cs[1], cs[2]>> /\ cs # NoCase
    BY <1>2, <1>5, TheCase, CaseFacts
  <2>2. ~(param[g] = NoCase /\ cs[2] = "send" /\ ~closed[cs[1]])
    BY <1>2, <1>3, <2>1 DEF Param, Back, Ended
  <2>3. PICK b : b = (param[g] # NoCase)
    OBVIOUS
  <2>4. PICK r : r = Result(cs, IF cs[2] = "recv" THEN elem[g] ELSE None, b)
    OBVIOUS
  <2>5. /\ param' = [param EXCEPT ![g] = NoCase]
        /\ pc' = [pc EXCEPT ![g] = "done"] /\ res' = [res EXCEPT ![g] = r]
    <3>1. /\ param' = [param EXCEPT ![g] = NoCase]
          /\ Finish(g, Result(cs, IF cs[2] = "recv" THEN elem[g] ELSE None, b))
      BY <1>1, <1>5, <2>2, <2>3
    <3> QED
      BY <3>1, <2>4 DEF Finish
  <2>6. /\ pc'[g] = "done" /\ res'[g] = r
        /\ \A x \in G \ {g} : pc'[x] = pc[x] /\ res'[x] = res[x] /\ param'[x] = param[x]
    BY <2>5 DEF IInv, Types
  <2>7. \A x \in G \ {g} : Outcome(x)' = Outcome(x)
    BY <1>2, <2>6, OthersOutcome
  <2>8. Outcome(g)' = r
    BY <1>2, <2>6, OutcomesThen DEF Outcomes, Decided
  <2>9. CASE param[g] # NoCase
    <3>1. param[g] = cs
      BY <1>3, <2>1, <2>9 DEF Param
    <3>2. b = TRUE
      BY <2>3, <2>9
    <3>3. r = Taken(cs, elem[g])
      BY <2>1, <2>4, <3>2 DEF Taken
    <3> QED
      BY <1>2, <1>3, <2>7, <2>8, <3>1, <3>3, Stutters DEF chanVars
  <2>10. CASE param[g] = NoCase
    <3>1. Ended(g) /\ elem[g] = None
      BY <1>2, <1>3, <2>10 DEF Param, Back, IInv, Givens, Given
    <3>2. closed[cs[1]] /\ (cs[2] = "recv" => qcount[cs[1]] = 0)
      BY <2>1, <3>1 DEF Ended
    <3>3. b = FALSE
      BY <2>3, <2>10
    <3>4. r = Result(cs, None, FALSE)
      BY <2>4, <3>1, <3>3
    <3>5. PICK c \in Chan, dir \in Dir : c = cs[1] /\ dir = cs[2] /\ cs = <<c, dir>>
      BY <2>1
    <3>6. Outcome(g) = None
      BY <1>3, <2>10 DEF Taken
    <3>7. Offer(op[g]) = {cs}
      BY <1>2, <2>1 DEF Offer
    <3>8. PPending(g, c, dir)
      BY <3>5, <3>6, <3>7, Frames DEF PPending
    <3>9. c \in PShut
      BY <3>2, <3>5 DEF PShut
    <3>10. dir = "recv" => PBuf[c] = <<>>
      BY <3>2, <3>5, ContentsAre DEF PBuf
    <3>11. POut' = [POut EXCEPT ![g] = Result(<<c, dir>>, None, FALSE)]
      <4>1. POut' = [POut EXCEPT ![g] = r]
        BY <2>7, <2>8, OneOutcome
      <4> QED
        BY <4>1, <3>4, <3>5
    <3>12. UNCHANGED <<PBuf, PShut, POffer, PTries>>
      BY <1>2, SameContents, Frames DEF chanVars
    <3> QED
      BY <3>8, <3>9, <3>10, <3>11, <3>12, EndsOnClosed DEF Fulfils
  <2> QED
    BY <2>9, <2>10
<1> QED
  BY <1>4, <1>5

LEMMA Pass3Fulfils ==
  ASSUME IInv, NEW g \in G, Pass3(g)
  PROVE  Fulfils
<1> USE DEF At, Goto
<1>1. /\ pc[g] = "pass3" /\ op[g].kind = "block"
      /\ param' = [param EXCEPT ![g] = NoCase]
      /\ UNCHANGED <<ring, sendx, recvx, qcount, closed, op, elem, todo>>
  BY DEF Pass3, IInv, Places, Place, Back
<1>2. PICK r : r = Result(param[g], IF param[g][2] = "recv" THEN elem[g] ELSE None, TRUE)
  OBVIOUS
<1>3. \/ param[g] = NoCase /\ pc' = [pc EXCEPT ![g] = "again"] /\ UNCHANGED res
      \/ /\ param[g] # NoCase /\ pc' = [pc EXCEPT ![g] = "done"]
         /\ res' = [res EXCEPT ![g] = r]
  BY <1>2 DEF Pass3, Finish
<1>4. /\ \A x \in G \ {g} : pc'[x] = pc[x] /\ res'[x] = res[x] /\ param'[x] = param[x]
      /\ \/ param[g] = NoCase /\ pc'[g] = "again"
         \/ param[g] # NoCase /\ pc'[g] = "done" /\ res'[g] = r
  BY <1>1, <1>3 DEF IInv, Types
<1>5. \A x \in G \ {g} : Outcome(x)' = Outcome(x)
  BY <1>1, <1>4, OthersOutcome
<1>6. Outcome(g) = Taken(param[g], elem[g])
  BY <1>1, OwedParked, OutcomesNow DEF Outcomes, Decided, Back
<1>7. Outcome(g)' = Taken(param[g], elem[g])
  <2>1. CASE param[g] = NoCase /\ pc'[g] = "again"
    BY <2>1, UndoneNone DEF Undone, Taken
  <2>2. CASE param[g] # NoCase /\ pc'[g] = "done" /\ res'[g] = r
    <3>1. Outcome(g)' = r
      BY <1>1, <2>2, OutcomesThen DEF Outcomes, Decided
    <3> QED
      BY <3>1, <1>2, <2>2 DEF Taken
  <2> QED
    BY <1>4, <2>1, <2>2
<1> QED
  BY <1>1, <1>5, <1>6, <1>7, Stutters

LEMMA ReadyFulfils ==
  ASSUME IInv, NEW g \in G, Ready(g)
  PROVE  Fulfils
<1> USE DEF At
<1>0. PICK w : w = Head(todo[g])
  OBVIOUS
<1>1. /\ pc[g] = "ready" /\ todo[g] # <<>>
      /\ UNCHANGED <<chanVars, lock, op, selectDone, elem, res>>
      /\ todo' = [todo EXCEPT ![g] = Tail(@)]
      /\ param' = [param EXCEPT ![w.g] = w.param]
      /\ pc' = [pc EXCEPT ![w.g] = "woken", ![g] = IF Len(todo[g]) = 1 THEN "done" ELSE "ready"]
  BY <1>0 DEF Ready, IInv, Places, Place
<1>2. /\ w \in Ready1 /\ Owed(w.g) = {w} /\ \A x : Owed(x)' = IF x = w.g THEN {} ELSE Owed(x)
  BY <1>0, <1>1, OwedLess DEF IInv
<1>3. w.g \in G /\ w.g # g /\ pc[w.g] = "parked" /\ param[w.g] = NoCase
  <2>1. w.g \in G
    BY <1>2 DEF Ready1
  <2>2. pc[w.g] = "parked"
    BY <1>2, <2>1, OwedParked
  <2>3. Param(w.g)
    BY <2>1 DEF IInv, Params
  <2> QED
    BY <1>1, <2>1, <2>2, <2>3 DEF Param, Back
<1>4. /\ pc'[w.g] = "woken" /\ param'[w.g] = w.param /\ pc'[g] \in {"done", "ready"} /\ param'[g] = param[g]
      /\ \A x \in G \ {g, w.g} : pc'[x] = pc[x] /\ param'[x] = param[x]
  BY <1>1, <1>3 DEF IInv, Types
<1>5. Outcome(w.g)' = Outcome(w.g)
  <2>1. Outcome(w.g) = Taken(w.param, elem[w.g])
    BY <1>2, <1>3, OutcomesNow DEF Outcomes, Decided
  <2>2. Owed(w.g)' = {} /\ elem'[w.g] = elem[w.g]
    BY <1>1, <1>2
  <2>3. Outcome(w.g)' = Taken(w.param, elem[w.g])
    BY <1>3, <1>4, <2>2, OutcomesThen DEF Outcomes, Decided, Back
  <2> QED
    BY <2>1, <2>3
<1>6. Outcome(g)' = Outcome(g)
  <2>1. op'[g] = op[g] /\ res'[g] = res[g]
    BY <1>1
  <2> QED
    BY <1>1, <1>4, <2>1, OutcomesNow, OutcomesThen DEF Outcomes, Undecided, Decided
<1>7. \A x \in G \ {g, w.g} : Outcome(x)' = Outcome(x)
  BY <1>1, <1>2, <1>4, OutcomeSame
<1> QED
  BY <1>1, <1>5, <1>6, <1>7, Stutters DEF chanVars

LEMMA CloseDrainFulfils ==
  ASSUME IInv, NEW g \in G, CloseDrain(g)
  PROVE  Fulfils
<1> USE DEF At, Goto
<1>1. PICK c \in ChansOf(g) :
        \/ LiveIn(recvq[c]) /\ Release(g, Dequeued(recvq[c]))
        \/ LiveIn(sendq[c]) /\ Release(g, Dequeued(sendq[c]))
        \/ Released(g)
  BY DEF CloseDrain
<1>2. /\ UNCHANGED <<ring, sendx, recvx, qcount, closed, op, param, elem>>
      /\ pc[g] = "drain" /\ op[g].kind = "close"
  BY DEF CloseDrain, IInv, Places, Place
<1>3. c \in Chan
  BY <1>2, InOperation, ChansAre
<1>4. ASSUME NEW h, h \in G, Asleep(h), Release(g, h)
      PROVE  \A x \in G : Outcome(x)' = Outcome(x)
  <2> DEFINE w == [g |-> h, param |-> NoCase]
  <2>1. w \in Ready1 /\ w.g = h /\ w.param = NoCase
    BY <1>4 DEF Ready1
  <2>2. todo' = [todo EXCEPT ![g] = <<w>> \o @] /\ UNCHANGED <<pc, res>>
    BY <1>4 DEF Release
  <2>3. Owed(w.g) = {}
    BY <1>4, <2>1 DEF Asleep
  <2> HIDE DEF w
  <2>4. \A x : Owed(x)' = IF x = h THEN {w} ELSE Owed(x)
    BY <2>1, <2>2, <2>3, OwedMore DEF IInv
  <2>5. Outcome(h) = None /\ param[h] = NoCase /\ pc[h] = "parked"
    BY <1>4, AsleepOutcome
  <2>6. Outcome(h)' = None
    <3>1. pc'[h] = "parked" /\ param'[h] = NoCase /\ Owed(h)' = {w}
      BY <1>2, <2>2, <2>4, <2>5
    <3>2. Outcome(h)' = Taken(w.param, elem'[h])
      BY <1>4, <3>1, OutcomesThen DEF Outcomes, Decided
    <3> QED
      BY <3>2, <2>1 DEF Taken
  <2>7. \A x \in G \ {h} : Outcome(x)' = Outcome(x)
    BY <1>2, <2>2, <2>4, OutcomeSame
  <2> QED
    BY <2>5, <2>6, <2>7
<1>5. CASE LiveIn(recvq[c]) /\ Release(g, Dequeued(recvq[c]))
  <2>1. PICK h : h = Dequeued(recvq[c])
    OBVIOUS
  <2>2. h \in G /\ Asleep(h)
    <3>1. Queue(c, "recv") = recvq[c] /\ "recv" \in Dir
      BY DEF Queue, Dir
    <3> QED
      BY <1>3, <1>5, <2>1, <3>1, Sleepers
  <2> QED
    BY <1>2, <1>4, <1>5, <2>1, <2>2, Stutters
<1>6. CASE LiveIn(sendq[c]) /\ Release(g, Dequeued(sendq[c]))
  <2>1. PICK h : h = Dequeued(sendq[c])
    OBVIOUS
  <2>2. h \in G /\ Asleep(h)
    <3>1. Queue(c, "send") = sendq[c] /\ "send" \in Dir
      BY DEF Queue, Dir
    <3> QED
      BY <1>3, <1>6, <2>1, <3>1, Sleepers
  <2> QED
    BY <1>2, <1>4, <1>6, <2>1, <2>2, Stutters
<1>7. CASE Released(g)
  <2>1. pc'[g] \in {"done", "ready"} /\ UNCHANGED todo /\ \A x \in G \ {g} : pc'[x] = pc[x] /\ res'[x] = res[x]
    BY <1>7 DEF Released, IInv, Types
  <2>2. Outcome(g) = None /\ Outcome(g)' = None
    BY <1>2, <2>1, UndoneNone, OutcomesThen DEF Undone, Outcomes, Undecided
  <2>3. \A x \in G \ {g} : Outcome(x)' = Outcome(x)
    BY <1>2, <2>1, OthersOutcome
  <2> QED
    BY <1>2, <2>2, <2>3, Stutters
<1> QED
  BY <1>1, <1>5, <1>6, <1>7
(* What a goroutine that serves a case finds, and what it leaves.          *)
LEMMA Polled ==
  ASSUME IInv, NEW g \in G, Polling(g), NEW c \in Chan, NEW dir \in Dir, <<c, dir>> \in op[g].cases
  PROVE  /\ PPending(g, c, dir) /\ op[g].kind # "close"
         /\ closed[c] => recvq[c] = <<>> /\ sendq[c] = <<>>
<1>1. pc[g] \in {"poll", "again", "lock"} /\ op[g].kind \in {"block", "try"} /\ op[g] # NoOp
  BY Polls
<1>2. Outcome(g) = None
  BY <1>1, UndoneNone DEF Undone
<1>3. Offer(op[g]) = op[g].cases
  BY <1>1 DEF Offer
<1>4. PPending(g, c, dir)
  BY <1>2, <1>3, Frames DEF PPending
<1>5. ASSUME closed[c] PROVE recvq[c] = <<>> /\ sendq[c] = <<>>
  <2>1. c \in ChansOf(g)
    <3>1. <<c, dir>>[1] = c
      OBVIOUS
    <3> QED
      BY <3>1 DEF ChansOf
  <2>2. lock[c] = g \/ lock[c] = None
    BY <2>1 DEF Polling, At, IInv, Locks, Lock, Inside
  <2>3. Channel(c)
    BY DEF IInv, ChannelsAre
  <2>4. \A h \in G : ~(At(h, "drain") /\ lock[c] = h)
    BY <1>1, <2>2, ChanAssumption DEF At
  <2> QED
    BY <1>5, <2>3, <2>4 DEF Channel
<1> QED
  BY <1>1, <1>4, <1>5

(* The outcome of one that is served in its sleep.                         *)
LEMMA ServedOutcome ==
  ASSUME IInv, NEW g \in G, NEW h \in G, Asleep(h), Polling(g), NEW case, NEW val, NEW c \in Chan, NEW dir \in Dir,
         ServeBoth(g, case, val, h, <<c, dir>>), UNCHANGED <<op, param>>,
         \A x \in G \ {h} : elem'[x] = elem[x]
  PROVE  /\ g # h /\ Outcome(g)' = Result(case, val, TRUE)
         /\ Outcome(h)' = Result(<<c, dir>>, IF dir = "recv" THEN elem'[h] ELSE None, TRUE)
         /\ \A x \in G \ {g, h} : Outcome(x)' = Outcome(x)
<1> USE DEF At, Goto
<1> DEFINE w == [g |-> h, param |-> <<c, dir>>]
<1>1. /\ pc[g] \in {"poll", "again", "lock"} /\ op[g].kind \in {"block", "try"} /\ todo[g] = <<>>
  BY Polls
<1>2. g # h /\ param[h] = NoCase /\ pc[h] = "parked" /\ Owed(h) = {} /\ op[h].kind # "close"
  BY <1>1, AsleepOutcome
<1>3. w \in Ready1 /\ w.g = h /\ w.param = <<c, dir>>
  BY DEF Ready1, Case, Dir
<1>4. /\ todo' = [todo EXCEPT ![g] = <<w>>]
      /\ pc' = [pc EXCEPT ![g] = "ready"] /\ res' = [res EXCEPT ![g] = Result(case, val, TRUE)]
  BY DEF ServeBoth
<1> HIDE DEF w
<1>5. todo' = [todo EXCEPT ![g] = <<w>> \o @]
  <2>1. <<w>> \o <<>> = <<w>>
    BY <1>3
  <2> QED
    BY <1>1, <1>4, <2>1
<1>6. \A x : Owed(x)' = IF x = h THEN {w} ELSE Owed(x)
  <2>1. Owed(w.g) = {}
    BY <1>2, <1>3
  <2> QED
    BY <1>3, <1>5, <2>1, OwedMore DEF IInv
<1>7. /\ pc'[g] = "ready" /\ res'[g] = Result(case, val, TRUE)
      /\ \A x \in G \ {g} : pc'[x] = pc[x] /\ res'[x] = res[x]
  BY <1>4 DEF IInv, Types
<1>8. Outcome(g)' = Result(case, val, TRUE)
  BY <1>1, <1>7, OutcomesThen DEF Outcomes, Decided
<1>9. Outcome(h)' = Result(<<c, dir>>, IF dir = "recv" THEN elem'[h] ELSE None, TRUE)
  <2>1. pc'[h] = "parked" /\ param'[h] = NoCase /\ Owed(h)' = {w}
    BY <1>2, <1>6, <1>7
  <2>2. Outcome(h)' = Taken(<<c, dir>>, elem'[h])
    BY <1>3, <2>1, OutcomesThen DEF Outcomes, Decided
  <2>3. <<c, dir>> # NoCase /\ <<c, dir>>[2] = dir
    BY CaseFacts DEF Case, Dir
  <2> QED
    BY <2>2, <2>3 DEF Taken
<1>10. \A x \in G \ {g, h} : Outcome(x)' = Outcome(x)
  BY <1>6, <1>7, OutcomeSame
<1> QED
  BY <1>2, <1>8, <1>9, <1>10

(* The outcome of one that serves itself.                                  *)
LEMMA OwnOutcome ==
  ASSUME IInv, NEW g \in G, Polling(g), NEW r, Finish(g, r), UNCHANGED <<op, param, elem, todo>>
  PROVE  POut' = [POut EXCEPT ![g] = r]
<1>1. op[g].kind \in {"block", "try"}
  BY Polls
<1>2. pc'[g] = "done" /\ res'[g] = r /\ \A x \in G \ {g} : pc'[x] = pc[x] /\ res'[x] = res[x]
  BY DEF Finish, Goto, IInv, Types
<1>3. Outcome(g)' = r
  BY <1>1, <1>2, OutcomesThen DEF Outcomes, Decided
<1>4. \A x \in G \ {g} : Outcome(x)' = Outcome(x)
  BY <1>2, OthersOutcome
<1> QED
  BY <1>3, <1>4, OneOutcome
----------------------------------------------------------------------------
(* The ring as a queue of values.                                          *)

Ring == \A c \in Chan :
  /\ Contents(c) \in Seq(G \cup {None}) /\ Len(Contents(c)) = qcount[c]
  /\ \A i \in 1..qcount[c] : Contents(c)[i] = ring[c][Slot(c, i)]
  /\ qcount[c] = 0 <=> Contents(c) = <<>>

LEMMA RingNow == IInv => Ring
BY ContentsAre DEF Ring

LEMMA RingThen == IInv' => Ring'
BY RingNow, PTL

LEMMA OneContents ==
  ASSUME NEW c \in Chan, NEW s, Contents(c)' = s,
         \A d \in Chan \ {c} : ring'[d] = ring[d] /\ recvx'[d] = recvx[d] /\ qcount'[d] = qcount[d]
  PROVE  PBuf' = [PBuf EXCEPT ![c] = s]
<1>1. \A d \in Chan \ {c} : Contents(d)' = Contents(d)
  BY DEF Contents, Slot
<1> QED
  BY <1>1 DEF PBuf

(* A value is put behind the others, ...                                   *)
LEMMA Pushed ==
  ASSUME IInv, IInv', NEW c \in Chan, NEW g \in G, qcount[c] < Cap[c],
         ring' = [ring EXCEPT ![c][sendx[c]] = g], qcount' = [qcount EXCEPT ![c] = @ + 1], UNCHANGED recvx
  PROVE  PBuf' = [PBuf EXCEPT ![c] = Append(PBuf[c], g)] /\ Len(PBuf[c]) < Cap[c]
<1>1. /\ Cap[c] \in Nat /\ qcount[c] \in Nat /\ recvx[c] \in Nat /\ sendx[c] \in Nat
      /\ Buffer(c) /\ ring[c] \in [0..(Cap[c] - 1) -> G \cup {None}]
  BY ChannelFacts
<1>2. /\ ring'[c] = [ring[c] EXCEPT ![sendx[c]] = g] /\ qcount'[c] = qcount[c] + 1 /\ recvx'[c] = recvx[c]
      /\ \A d \in Chan \ {c} : ring'[d] = ring[d] /\ recvx'[d] = recvx[d] /\ qcount'[d] = qcount[d]
  BY DEF IInv, Types
<1>3. /\ sendx[c] \in 0..(Cap[c] - 1) /\ Slot(c, qcount[c] + 1) = sendx[c]
      /\ \A i \in 1..qcount[c] : Slot(c, i) \in 0..(Cap[c] - 1) /\ Slot(c, i) # sendx[c]
  <2>1. /\ Cap[c] \in Nat /\ qcount[c] \in Nat /\ recvx[c] \in Nat /\ sendx[c] \in Nat /\ Cap[c] # 0
        /\ qcount[c] < Cap[c] /\ sendx[c] < Cap[c] /\ recvx[c] < Cap[c]
    BY <1>1 DEF Buffer
  <2>2. sendx[c] = recvx[c] + qcount[c] \/ sendx[c] = recvx[c] + qcount[c] - Cap[c]
    BY <1>1, <2>1 DEF Buffer
  <2>3. sendx[c] \in 0..(Cap[c] - 1) /\ Slot(c, qcount[c] + 1) = sendx[c]
    BY <2>1, <2>2 DEF Slot
  <2>4. ASSUME NEW i \in 1..qcount[c] PROVE Slot(c, i) \in 0..(Cap[c] - 1) /\ Slot(c, i) # sendx[c]
    BY <2>1, <2>2 DEF Slot
  <2> QED
    BY <2>3, <2>4
<1>4. \A i \in 1..(qcount[c] + 1) : ring'[c][Slot(c, i)] = IF i = qcount[c] + 1 THEN g ELSE ring[c][Slot(c, i)]
  <2> SUFFICES ASSUME NEW i \in 1..(qcount[c] + 1)
               PROVE  ring'[c][Slot(c, i)] = IF i = qcount[c] + 1 THEN g ELSE ring[c][Slot(c, i)]
    OBVIOUS
  <2>1. CASE i = qcount[c] + 1
    BY <1>1, <1>2, <1>3, <2>1
  <2>2. CASE i # qcount[c] + 1
    <3>1. i \in 1..qcount[c]
      BY <1>1, <2>2
    <3> QED
      BY <1>1, <1>2, <1>3, <2>2, <3>1
  <2> QED
    BY <2>1, <2>2
<1>5. \A i : Slot(c, i)' = Slot(c, i)
  BY <1>2 DEF Slot
<1>6. /\ Contents(c) \in Seq(G \cup {None}) /\ Len(Contents(c)) = qcount[c]
      /\ \A i \in 1..qcount[c] : Contents(c)[i] = ring[c][Slot(c, i)]
      /\ Contents(c)' \in Seq(G \cup {None}) /\ Len(Contents(c)') = qcount[c] + 1
      /\ \A i \in 1..(qcount[c] + 1) : Contents(c)'[i] = ring'[c][Slot(c, i)]
  BY <1>2, <1>5, RingNow, RingThen DEF Ring
<1>7. Contents(c)' = Append(Contents(c), g)
  <2> DEFINE s == Contents(c)
             t == Contents(c)'
  <2>1. Append(s, g) \in Seq(G \cup {None}) /\ Len(Append(s, g)) = qcount[c] + 1
    BY <1>6
  <2>2. \A i \in 1..(qcount[c] + 1) : Append(s, g)[i] = IF i = qcount[c] + 1 THEN g ELSE s[i]
    BY <1>6
  <2>3. \A i \in 1..(qcount[c] + 1) : i # qcount[c] + 1 => i \in 1..qcount[c]
    BY <1>1
  <2>4. \A i \in 1..(qcount[c] + 1) : t[i] = IF i = qcount[c] + 1 THEN g ELSE s[i]
    BY <1>4, <1>6, <2>3
  <2> HIDE DEF s, t
  <2>5. t \in Seq(G \cup {None}) /\ Len(t) = qcount[c] + 1
    BY <1>6 DEF t
  <2>6. t = Append(s, g)
    BY <2>1, <2>2, <2>4, <2>5, SeqEqual
  <2> QED
    BY <2>6 DEF s, t
<1>8. PBuf[c] = Contents(c)
  BY DEF PBuf
<1> QED
  BY <1>1, <1>2, <1>6, <1>7, <1>8, OneContents

(* ... the first is taken, ...                                             *)
LEMMA Slots ==
  ASSUME IInv, NEW c \in Chan, qcount[c] > 0, recvx'[c] = Next1(c, recvx[c])
  PROVE  /\ recvx[c] \in 0..(Cap[c] - 1) /\ Slot(c, 1) = recvx[c]
         /\ \A i \in 1..(qcount[c] - 1) : /\ Slot(c, i)' = Slot(c, i + 1) /\ Slot(c, i + 1) # recvx[c]
                                          /\ Slot(c, i + 1) \in 0..(Cap[c] - 1)
         /\ Slot(c, Cap[c])' = recvx[c]
<1>1. /\ Cap[c] \in Nat /\ qcount[c] \in Nat /\ recvx[c] \in Nat /\ Buffer(c)
  BY ChannelFacts
<1>2. /\ recvx[c] < Cap[c] /\ qcount[c] <= Cap[c] /\ Cap[c] > 0
  BY <1>1 DEF Buffer
<1>3. recvx'[c] = IF recvx[c] + 1 = Cap[c] THEN 0 ELSE recvx[c] + 1
  BY DEF Next1
<1>4. recvx[c] \in 0..(Cap[c] - 1) /\ Slot(c, 1) = recvx[c]
  BY <1>1, <1>2 DEF Slot
<1>5. ASSUME NEW i \in 1..(qcount[c] - 1)
      PROVE  /\ Slot(c, i)' = Slot(c, i + 1) /\ Slot(c, i + 1) # recvx[c]
             /\ Slot(c, i + 1) \in 0..(Cap[c] - 1)
  BY <1>1, <1>2, <1>3 DEF Slot
<1>6. Slot(c, Cap[c])' = recvx[c]
  BY <1>1, <1>2, <1>3 DEF Slot
<1> QED
  BY <1>4, <1>5, <1>6

LEMMA Popped ==
  ASSUME IInv, IInv', NEW c \in Chan, qcount[c] > 0,
         ring' = [ring EXCEPT ![c][recvx[c]] = None], recvx' = [recvx EXCEPT ![c] = Next1(c, @)],
         qcount' = [qcount EXCEPT ![c] = @ - 1]
  PROVE  /\ PBuf[c] # <<>> /\ Head(PBuf[c]) = ring[c][recvx[c]]
         /\ PBuf' = [PBuf EXCEPT ![c] = Tail(PBuf[c])]
<1>1. /\ qcount[c] \in Nat /\ ring[c] \in [0..(Cap[c] - 1) -> G \cup {None}]
  BY ChannelFacts
<1>2. /\ ring'[c] = [ring[c] EXCEPT ![recvx[c]] = None] /\ qcount'[c] = qcount[c] - 1
      /\ recvx'[c] = Next1(c, recvx[c])
      /\ \A d \in Chan \ {c} : ring'[d] = ring[d] /\ recvx'[d] = recvx[d] /\ qcount'[d] = qcount[d]
  BY DEF IInv, Types
<1>3. \A i \in 1..(qcount[c] - 1) : ring'[c][Slot(c, i)'] = ring[c][Slot(c, i + 1)]
  BY <1>1, <1>2, Slots
<1>4. /\ Contents(c) \in Seq(G \cup {None}) /\ Len(Contents(c)) = qcount[c]
      /\ \A i \in 1..qcount[c] : Contents(c)[i] = ring[c][Slot(c, i)]
      /\ Contents(c)' \in Seq(G \cup {None}) /\ Len(Contents(c)') = qcount[c] - 1
      /\ \A i \in 1..(qcount[c] - 1) : Contents(c)'[i] = ring'[c][Slot(c, i)']
  BY <1>2, RingNow, RingThen DEF Ring
<1>5. Contents(c) # <<>> /\ Head(Contents(c)) = ring[c][recvx[c]]
  <2>1. Contents(c) # <<>>
    BY <1>4, EmptyLen
  <2>2. 1 \in 1..qcount[c]
    BY <1>1
  <2>3. Head(Contents(c)) = Contents(c)[1]
    BY <1>4, <2>1
  <2>4. Slot(c, 1) = recvx[c]
    BY <1>2, Slots
  <2> QED
    BY <1>4, <2>1, <2>2, <2>3, <2>4
<1>6. Contents(c)' = Tail(Contents(c))
  <2> DEFINE s == Contents(c)
             t == Contents(c)'
  <2>1. /\ Tail(s) \in Seq(G \cup {None}) /\ Len(Tail(s)) = qcount[c] - 1
        /\ \A i \in 1..(qcount[c] - 1) : Tail(s)[i] = s[i + 1]
    BY <1>4, <1>5, HeadTailProperties
  <2>2. \A i \in 1..(qcount[c] - 1) : i + 1 \in 1..qcount[c]
    BY <1>1
  <2>3. \A i \in 1..(qcount[c] - 1) : t[i] = s[i + 1]
    BY <1>3, <1>4, <2>2
  <2>4. t \in Seq(G \cup {None}) /\ Len(t) = qcount[c] - 1
    BY <1>4
  <2> HIDE DEF s, t
  <2>5. t = Tail(s)
    BY <2>1, <2>3, <2>4, SeqEqual
  <2> QED
    BY <2>5 DEF s, t
<1>7. PBuf[c] = Contents(c)
  BY DEF PBuf
<1> QED
  BY <1>2, <1>5, <1>6, <1>7, OneContents

(* ... and, when the ring is full, another is put into its place.          *)
LEMMA Exchanged ==
  ASSUME IInv, IInv', NEW c \in Chan, NEW h \in G, qcount[c] > 0, qcount[c] = Cap[c],
         ring' = [ring EXCEPT ![c][recvx[c]] = h], recvx' = [recvx EXCEPT ![c] = Next1(c, @)], UNCHANGED qcount
  PROVE  /\ PBuf[c] # <<>> /\ Head(PBuf[c]) = ring[c][recvx[c]]
         /\ PBuf' = [PBuf EXCEPT ![c] = Append(Tail(PBuf[c]), h)]
<1>1. /\ qcount[c] \in Nat /\ ring[c] \in [0..(Cap[c] - 1) -> G \cup {None}]
  BY ChannelFacts
<1>2. /\ ring'[c] = [ring[c] EXCEPT ![recvx[c]] = h] /\ qcount'[c] = qcount[c]
      /\ recvx'[c] = Next1(c, recvx[c])
      /\ \A d \in Chan \ {c} : ring'[d] = ring[d] /\ recvx'[d] = recvx[d] /\ qcount'[d] = qcount[d]
  BY DEF IInv, Types
<1>3. /\ \A i \in 1..(qcount[c] - 1) : ring'[c][Slot(c, i)'] = ring[c][Slot(c, i + 1)]
      /\ ring'[c][Slot(c, qcount[c])'] = h
  BY <1>1, <1>2, Slots
<1>4. /\ Contents(c) \in Seq(G \cup {None}) /\ Len(Contents(c)) = qcount[c]
      /\ \A i \in 1..qcount[c] : Contents(c)[i] = ring[c][Slot(c, i)]
      /\ Contents(c)' \in Seq(G \cup {None}) /\ Len(Contents(c)') = qcount[c]
      /\ \A i \in 1..qcount[c] : Contents(c)'[i] = ring'[c][Slot(c, i)']
  BY <1>2, RingNow, RingThen DEF Ring
<1>5. Contents(c) # <<>> /\ Head(Contents(c)) = ring[c][recvx[c]]
  <2>1. Contents(c) # <<>>
    BY <1>4, EmptyLen
  <2>2. 1 \in 1..qcount[c]
    BY <1>1
  <2>3. Head(Contents(c)) = Contents(c)[1]
    BY <1>4, <2>1
  <2>4. Slot(c, 1) = recvx[c]
    BY <1>2, Slots
  <2> QED
    BY <1>4, <2>1, <2>2, <2>3, <2>4
<1>6. Contents(c)' = Append(Tail(Contents(c)), h)
  <2> DEFINE s == Contents(c)
             t == Contents(c)'
  <2>1. /\ Tail(s) \in Seq(G \cup {None}) /\ Len(Tail(s)) = qcount[c] - 1
        /\ \A i \in 1..(qcount[c] - 1) : Tail(s)[i] = s[i + 1]
    BY <1>4, <1>5, HeadTailProperties
  <2>2. \A i \in 1..(qcount[c] - 1) : i + 1 \in 1..qcount[c] /\ i \in 1..qcount[c]
    BY <1>1
  <2>3. \A i \in 1..(qcount[c] - 1) : t[i] = s[i + 1]
    BY <1>3, <1>4, <2>2
  <2>4. t \in Seq(G \cup {None}) /\ Len(t) = qcount[c] /\ t[qcount[c]] = h
    <3>1. qcount[c] \in 1..qcount[c]
      BY <1>1
    <3> QED
      BY <1>3, <1>4, <3>1
  <2> HIDE DEF s, t
  <2>5. PICK u : u = Tail(s)
    OBVIOUS
  <2>6. /\ Append(u, h) \in Seq(G \cup {None}) /\ Len(Append(u, h)) = qcount[c]
        /\ \A i \in 1..qcount[c] : Append(u, h)[i] = IF i = qcount[c] THEN h ELSE u[i]
    <3>1. u \in Seq(G \cup {None}) /\ Len(u) = qcount[c] - 1
      BY <2>1, <2>5
    <3> QED
      BY <1>1, <3>1
  <2>7. \A i \in 1..qcount[c] : i # qcount[c] => i \in 1..(qcount[c] - 1)
    BY <1>1
  <2>8. \A i \in 1..qcount[c] : t[i] = Append(u, h)[i]
    BY <2>1, <2>3, <2>4, <2>5, <2>6, <2>7
  <2>9. t = Append(u, h)
    BY <2>4, <2>6, <2>8, SeqEqual
  <2> QED
    BY <2>5, <2>9 DEF s, t
<1>7. PBuf[c] = Contents(c)
  BY DEF PBuf
<1> QED
  BY <1>2, <1>5, <1>6, <1>7, OneContents
LEMMA SendFulfils ==
  ASSUME IInv, IInv', NEW g \in G, Polling(g), NEW polled, NEW c \in Chan, <<c, "send">> \in op[g].cases,
         SendCase(g, c, polled), UNCHANGED <<closed, op, param>>
  PROVE  Fulfils
<1>1. ~closed[c] /\ recvx' = recvx
  BY DEF SendCase
<1>2. PPending(g, c, "send") /\ c \notin PShut /\ UNCHANGED <<PShut, POffer, PTries>>
  BY <1>1, Polled, Frames DEF Dir, PShut
<1>3. CASE LiveIn(recvq[c])
  <2>1. PICK h : h = Dequeued(recvq[c])
    OBVIOUS
  <2>2. /\ ServeBoth(g, <<c, "send">>, None, h, <<c, "recv">>)
        /\ elem' = [elem EXCEPT ![h] = g]
        /\ UNCHANGED <<ring, qcount>>
    BY <1>3, <2>1 DEF SendCase
  <2>3. Queue(c, "recv") = recvq[c] /\ "recv" \in Dir
    BY DEF Queue, Dir
  <2>4. h \in G /\ Asleep(h) /\ <<c, "recv">> \in op[h].cases
    BY <1>3, <2>1, <2>3, Sleepers
  <2>5. elem'[h] = g /\ \A x \in G \ {h} : elem'[x] = elem[x]
    BY <2>2, <2>4 DEF IInv, Types
  <2>6. /\ g # h /\ Outcome(g)' = Result(<<c, "send">>, None, TRUE)
        /\ Outcome(h)' = Result(<<c, "recv">>, IF "recv" = "recv" THEN elem'[h] ELSE None, TRUE)
        /\ \A x \in G \ {g, h} : Outcome(x)' = Outcome(x)
    BY <2>2, <2>3, <2>4, <2>5, ServedOutcome
  <2>7. Outcome(h)' = Result(<<c, "recv">>, g, TRUE)
    BY <2>5, <2>6
  <2>8. POut' = [POut EXCEPT ![g] = Result(<<c, "send">>, None, TRUE), ![h] = Result(<<c, "recv">>, g, TRUE)]
    <3>1. PICK v, w : v = Result(<<c, "send">>, None, TRUE) /\ w = Result(<<c, "recv">>, g, TRUE)
      OBVIOUS
    <3>2. POut' = [POut EXCEPT ![g] = v, ![h] = w]
      <4>1. Outcome(g)' = v /\ Outcome(h)' = w
        BY <2>6, <2>7, <3>1
      <4>2. g # h /\ \A x \in G \ {g, h} : Outcome(x)' = Outcome(x)
        BY <2>6
      <4>3. h \in G
        BY <2>4
      <4> QED
        BY <4>1, <4>2, <4>3, TwoOutcomes
    <3> QED
      BY <3>1, <3>2
  <2>9. PPending(h, c, "recv")
    <3>1. Outcome(h) = None /\ Offer(op[h]) = op[h].cases
      BY <2>4, AsleepOutcome DEF Offer
    <3> QED
      BY <2>4, <3>1, Frames DEF PPending
  <2>10. PBuf[c] = <<>>
    <3>1. qcount[c] = 0
      BY <1>3, ChannelFacts
    <3> QED
      BY <3>1, ContentsAre DEF PBuf
  <2>11. UNCHANGED PBuf
    BY <1>1, <2>2, SameContents
  <2> QED
    BY <1>2, <2>4, <2>6, <2>8, <2>9, <2>10, <2>11, Transfers DEF Fulfils
<1>4. CASE ~LiveIn(recvq[c])
  <2>1. /\ qcount[c] < Cap[c] /\ ring' = [ring EXCEPT ![c][sendx[c]] = g]
        /\ qcount' = [qcount EXCEPT ![c] = @ + 1] /\ UNCHANGED <<elem, todo>>
        /\ Finish(g, Result(<<c, "send">>, None, TRUE))
    BY <1>4 DEF SendCase, ServeOwn
  <2>2. PBuf' = [PBuf EXCEPT ![c] = Append(PBuf[c], g)] /\ Len(PBuf[c]) < Cap[c]
    BY <1>1, <2>1, Pushed
  <2>3. POut' = [POut EXCEPT ![g] = Result(<<c, "send">>, None, TRUE)]
    BY <2>1, OwnOutcome
  <2> QED
    BY <1>2, <2>2, <2>3, Sends DEF Fulfils
<1> QED
  BY <1>3, <1>4

LEMMA RecvFulfils ==
  ASSUME IInv, IInv', NEW g \in G, Polling(g), NEW polled, NEW c \in Chan, <<c, "recv">> \in op[g].cases,
         RecvCase(g, c, polled), UNCHANGED <<closed, op, param>>
  PROVE  Fulfils
<1>1. elem' = elem
  BY DEF RecvCase
<1>2. PPending(g, c, "recv") /\ UNCHANGED <<PShut, POffer, PTries>>
  BY Polled, Frames DEF Dir
<1>3. CASE LiveIn(sendq[c])
  <2>1. PICK h : h = Dequeued(sendq[c])
    OBVIOUS
  <2>a. PICK val : val = IF Cap[c] = 0 THEN h ELSE ring[c][recvx[c]]
    OBVIOUS
  <2>2. /\ ServeBoth(g, <<c, "recv">>, val, h, <<c, "send">>)
        /\ IF Cap[c] = 0 THEN UNCHANGED <<ring, recvx, sendx>>
           ELSE /\ ring' = [ring EXCEPT ![c][recvx[c]] = h]
                /\ recvx' = [recvx EXCEPT ![c] = Next1(c, @)]
        /\ UNCHANGED qcount
    BY <1>3, <2>1, <2>a DEF RecvCase
  <2>3. Queue(c, "send") = sendq[c] /\ "send" \in Dir
    BY DEF Queue, Dir
  <2>4. h \in G /\ Asleep(h) /\ <<c, "send">> \in op[h].cases
    BY <1>3, <2>1, <2>3, Sleepers
  <2>5. \A x \in G \ {h} : elem'[x] = elem[x]
    BY <1>1
  <2>6. /\ g # h /\ Outcome(g)' = Result(<<c, "recv">>, val, TRUE)
        /\ Outcome(h)' = Result(<<c, "send">>, IF "send" = "recv" THEN elem'[h] ELSE None, TRUE)
        /\ \A x \in G \ {g, h} : Outcome(x)' = Outcome(x)
    BY <2>2, <2>3, <2>4, <2>5, ServedOutcome
  <2>7. Outcome(h)' = Result(<<c, "send">>, None, TRUE)
    BY <2>6
  <2>8. /\ POut' = [POut EXCEPT ![h] = Result(<<c, "send">>, None, TRUE), ![g] = Result(<<c, "recv">>, val, TRUE)]
        /\ POut' = [POut EXCEPT ![g] = Result(<<c, "recv">>, val, TRUE), ![h] = Result(<<c, "send">>, None, TRUE)]
    <3>1. PICK v, w : v = Result(<<c, "recv">>, val, TRUE) /\ w = Result(<<c, "send">>, None, TRUE)
      OBVIOUS
    <3>2. POut' = [POut EXCEPT ![g] = v, ![h] = w] /\ POut' = [POut EXCEPT ![h] = w, ![g] = v]
      <4>1. Outcome(g)' = v /\ Outcome(h)' = w
        BY <2>6, <2>7, <3>1
      <4>2. g # h /\ \A x \in G \ {g, h} : Outcome(x)' = Outcome(x)
        BY <2>6
      <4>3. h \in G
        BY <2>4
      <4> QED
        BY <4>1, <4>2, <4>3, TwoOutcomes
    <3> QED
      BY <3>1, <3>2
  <2>9. PPending(h, c, "send")
    <3>1. Outcome(h) = None /\ Offer(op[h]) = op[h].cases
      BY <2>4, AsleepOutcome DEF Offer
    <3> QED
      BY <2>4, <3>1, Frames DEF PPending
  <2>10. /\ c \notin PShut /\ qcount[c] <= Cap[c] /\ Cap[c] \in Nat /\ qcount[c] \in Nat
         /\ Cap[c] > 0 => qcount[c] = Cap[c]
    <3>1. sendq[c] # <<>> /\ Buffer(c) /\ Cap[c] \in Nat /\ qcount[c] \in Nat
      BY <1>3, ChannelFacts
    <3>2. ~closed[c]
      BY <3>1, Polled DEF Dir
    <3>3. Cap[c] > 0 => qcount[c] = Cap[c]
      BY <1>3, ChannelFacts
    <3> QED
      BY <3>1, <3>2, <3>3 DEF PShut, Buffer
  <2>11. CASE Cap[c] = 0
    <3>1. UNCHANGED PBuf
      BY <2>2, <2>11, SameContents
    <3>2. PBuf[c] = <<>>
      BY <2>10, <2>11, ContentsAre DEF PBuf
    <3>3. val = h
      BY <2>a, <2>11
    <3> QED
      BY <1>2, <2>4, <2>6, <2>8, <2>9, <2>10, <3>1, <3>2, <3>3, Transfers DEF Fulfils
  <2>12. CASE Cap[c] # 0
    <3>1. qcount[c] > 0 /\ qcount[c] = Cap[c]
      BY <2>10, <2>12
    <3>2. /\ PBuf[c] # <<>> /\ Head(PBuf[c]) = ring[c][recvx[c]]
          /\ PBuf' = [PBuf EXCEPT ![c] = Append(Tail(PBuf[c]), h)]
      BY <2>2, <2>4, <2>12, <3>1, Exchanged
    <3>3. val = Head(PBuf[c])
      BY <2>a, <2>12, <3>2
    <3> QED
      BY <1>2, <2>4, <2>6, <2>8, <2>9, <2>10, <3>2, <3>3, Exchanges DEF Fulfils
  <2> QED
    BY <2>11, <2>12
<1>4. CASE ~LiveIn(sendq[c])
  <2>1. /\ qcount[c] > 0 /\ ring' = [ring EXCEPT ![c][recvx[c]] = None]
        /\ recvx' = [recvx EXCEPT ![c] = Next1(c, @)]
        /\ qcount' = [qcount EXCEPT ![c] = @ - 1] /\ UNCHANGED todo
        /\ Finish(g, Result(<<c, "recv">>, ring[c][recvx[c]], TRUE))
    BY <1>4 DEF RecvCase, ServeOwn
  <2>2. /\ PBuf[c] # <<>> /\ Head(PBuf[c]) = ring[c][recvx[c]]
        /\ PBuf' = [PBuf EXCEPT ![c] = Tail(PBuf[c])]
    BY <2>1, Popped
  <2>3. PICK r : r = Result(<<c, "recv">>, ring[c][recvx[c]], TRUE)
    OBVIOUS
  <2>4. POut' = [POut EXCEPT ![g] = r]
    BY <1>1, <2>1, <2>3, OwnOutcome
  <2>5. r = Result(<<c, "recv">>, Head(PBuf[c]), TRUE)
    BY <2>2, <2>3
  <2> QED
    BY <1>2, <2>2, <2>4, <2>5, Receives DEF Fulfils
<1> QED
  BY <1>3, <1>4

LEMMA ClosedFulfils ==
  ASSUME IInv, NEW g \in G, Polling(g), NEW polled, NEW c \in Chan, NEW dir \in Dir, <<c, dir>> \in op[g].cases,
         ClosedCase(g, c, dir, polled), UNCHANGED <<closed, op, param>>
  PROVE  Fulfils
<1>1. /\ closed[c] /\ (dir = "recv" => qcount[c] = 0)
      /\ Finish(g, Result(<<c, dir>>, None, FALSE)) /\ UNCHANGED <<ring, recvx, qcount, elem, todo>>
  BY DEF ClosedCase, ServeOwn
<1>2. PPending(g, c, dir) /\ UNCHANGED <<PBuf, PShut, POffer, PTries>>
  BY <1>1, Polled, SameContents, Frames
<1>3. c \in PShut /\ (dir = "recv" => PBuf[c] = <<>>)
  BY <1>1, ContentsAre DEF PShut, PBuf
<1>4. POut' = [POut EXCEPT ![g] = Result(<<c, dir>>, None, FALSE)]
  BY <1>1, OwnOutcome
<1> QED
  BY <1>2, <1>3, <1>4, EndsOnClosed DEF Fulfils

LEMMA ServeFulfils ==
  ASSUME IInv, IInv', NEW g \in G, Serve(g)
  PROVE  Fulfils
<1>1. PICK cs \in op[g].cases :
        \E polled \in SUBSET {x \in op[g].cases : ~Possible(x[1], x[2])} :
            \/ cs[2] = "send" /\ SendCase(g, cs[1], polled)
            \/ cs[2] = "recv" /\ RecvCase(g, cs[1], polled)
            \/ ClosedCase(g, cs[1], cs[2], polled)
  BY DEF Serve
<1>2. PICK polled : \/ cs[2] = "send" /\ SendCase(g, cs[1], polled)
                    \/ cs[2] = "recv" /\ RecvCase(g, cs[1], polled)
                    \/ ClosedCase(g, cs[1], cs[2], polled)
  BY <1>1
<1>3. Polling(g) /\ UNCHANGED <<closed, op, param>>
  BY DEF Serve
<1>4. cs[1] \in Chan /\ cs[2] \in Dir /\ cs = <<cs[1], cs[2]>>
  BY <1>3, Polls, CaseFacts
<1>5. CASE cs[2] = "send" /\ SendCase(g, cs[1], polled)
  BY <1>3, <1>4, <1>5, SendFulfils
<1>6. CASE cs[2] = "recv" /\ RecvCase(g, cs[1], polled)
  BY <1>3, <1>4, <1>6, RecvFulfils
<1>7. CASE ClosedCase(g, cs[1], cs[2], polled)
  BY <1>3, <1>4, <1>7, ClosedFulfils
<1> QED
  BY <1>2, <1>5, <1>6, <1>7

----------------------------------------------------------------------------
LEMMA InitPromise == Init => Promise!Init
<1> SUFFICES ASSUME Init PROVE Promise!Init
  OBVIOUS
<1>1. IInv
  BY InitIInv
<1>2. \A c \in Chan : Contents(c) = <<>>
  <2>1. \A c \in Chan : qcount[c] = 0
    BY DEF Init
  <2> QED
    BY <1>1, <2>1, ContentsAre
<1>3. \A c \in Chan : closed[c] = FALSE
  BY DEF Init
<1>4. \A g \in G : op[g] = NoOp /\ pc[g] = "idle"
  BY DEF Init
<1>5. \A g \in G : Outcome(g) = None
  BY <1>4, UndoneNone DEF Undone
<1>6. Offer(NoOp) = {} /\ NoOp.kind # "try"
  BY DEF Offer, NoOp
<1>7. /\ [c \in Chan |-> Contents(c)] = [c \in Chan |-> <<>>]
      /\ {c \in Chan : closed[c]} = {}
      /\ [g \in G |-> Offer(op[g])] = [g \in G |-> {}]
      /\ {g \in G : op[g].kind = "try"} = {}
      /\ [g \in G |-> Outcome(g)] = [g \in G |-> None]
  BY <1>2, <1>3, <1>4, <1>5, <1>6
<1> QED
  BY <1>7 DEF Promise!Init

LEMMA NextPromise == IInv /\ IInv' /\ Next => Promise!Next \/ UNCHANGED Promise!promiseVars
<1> SUFFICES ASSUME IInv, IInv', Next PROVE Fulfils
  BY VarsKept DEF Fulfils
<1>1. PICK g \in G : Step(g) \/ \E o \in ops : Call(g, o)
  BY DEF Next
<1>2. CASE \E o \in ops : Call(g, o)
  BY <1>2, CallFulfils
<1>3. CASE Step(g)
  BY <1>3, LookFulfils, Look2Fulfils, SelLockFulfils, ServeFulfils, GiveUpFulfils, ParkFulfils, ReadyFulfils,
     WokenFulfils, Pass3Fulfils, CloseMarkFulfils, CloseDrainFulfils, ReturnFulfils DEF Step
<1> QED
  BY <1>1, <1>2, <1>3

(* The channels keep the promise of module Channels: what chansend,        *)
(* chanrecv, selectgo and closechan do, with their queues, their ring and  *)
(* their sudogs, is what FIFO channels and an atomic choice among the      *)
(* cases do.                                                               *)
THEOREM KeepsPromise == Spec => ImplementsChannels
<1>1. [Next]_vars /\ IInv /\ IInv' => [Promise!Next]_(Promise!promiseVars)
  <2>1. ASSUME UNCHANGED vars PROVE UNCHANGED Promise!promiseVars
    BY <2>1 DEF vars, chanVars, gVars, Promise!promiseVars, Contents, Slot, Outcome, Decision, Owed, At
  <2> QED
    BY <2>1, NextPromise
<1> QED
  BY <1>1, InitPromise, Invariance, PTL DEF Spec, ImplementsChannels, Promise!Spec
=============================================================================
