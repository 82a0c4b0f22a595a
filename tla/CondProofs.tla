----------------------------- MODULE CondProofs -----------------------------
(***************************************************************************)
(* Proofs about modules NotifyList and Cond, for any set of goroutines     *)
(* that is no larger than half the range of the tickets.                   *)
(***************************************************************************)
EXTENDS Cond, FiniteSetTheorems, SequenceTheorems, TLAPS

----------------------------------------------------------------------------
(* Tickets wrap around.                                                    *)

LEMMA HalfType == Half \in Nat \ {0} /\ MaxLag \in Nat \ {0} /\ MaxLag <= Half
  BY NotifyListAssumption

LEMMA Wraps ==
  ASSUME NEW m \in Nat \ {0}, NEW x \in 0..(2 * m - 1)
  PROVE  x % m = IF x < m THEN x ELSE x - m
<1>1. CASE x < m
  <2>1. x \in 0..(m - 1)
    BY <1>1
  <2> QED
    BY <2>1
<1>2. CASE x >= m
  <2>1. x - m \in 0..(m - 1) /\ x = 1 * m + (x - m)
    BY <1>2
  <2> QED
    BY <2>1
<1> QED
  BY <1>1, <1>2

LEMMA MinusIs ==
  ASSUME NEW x \in Ticket, NEW n \in Ticket
  PROVE  /\ Minus(x, n) = IF x >= n THEN x - n ELSE x - n + 2 * Half
         /\ Minus(x, n) \in Ticket
<1>1. x + (2 * Half - n) \in 0..(2 * (2 * Half) - 1) /\ 2 * Half \in Nat \ {0}
  BY HalfType DEF Ticket
<1> DEFINE y == x + (2 * Half - n)
<1>2. y % (2 * Half) = IF y < 2 * Half THEN y ELSE y - 2 * Half
  <2> HIDE DEF y
  <2> QED
    BY <1>1, Wraps DEF y
<1>3. Minus(x, n) = y % (2 * Half)
  BY DEF Minus, Plus
<1> QED
  BY <1>1, <1>2, <1>3, HalfType DEF Ticket

LEMMA NextTicket ==
  ASSUME NEW x \in Ticket
  PROVE  /\ Plus(x, 1) = IF x = 2 * Half - 1 THEN 0 ELSE x + 1
         /\ Plus(x, 1) \in Ticket
<1> DEFINE y == x + 1
<1>1. y \in 0..(2 * (2 * Half) - 1) /\ 2 * Half \in Nat \ {0}
  BY HalfType DEF Ticket
<1>2. Plus(x, 1) = y % (2 * Half)
  BY DEF Plus
<1>3. x \in Int /\ 0 <= x /\ x < 2 * Half /\ Half \in Int /\ y = x + 1
  BY HalfType DEF Ticket
<1> HIDE DEF y
<1>4. y % (2 * Half) = IF y < 2 * Half THEN y ELSE y - 2 * Half
  BY <1>1, Wraps
<1>5. Plus(x, 1) = IF x = 2 * Half - 1 THEN 0 ELSE x + 1
  BY <1>2, <1>3, <1>4
<1> QED
  BY <1>3, <1>5 DEF Ticket

(* How far x is ahead of n, when either of them moves.                     *)
LEMMA Moves ==
  ASSUME NEW x \in Ticket, NEW n \in Ticket
  PROVE  /\ Minus(x, n) = 0 <=> x = n
         /\ \A s \in Ticket : Minus(x, s) =
              IF Minus(x, n) >= Minus(s, n) THEN Minus(x, n) - Minus(s, n)
                                            ELSE Minus(x, n) - Minus(s, n) + 2 * Half
         /\ Minus(x, Plus(n, 1)) = IF x = n THEN 2 * Half - 1 ELSE Minus(x, n) - 1
         /\ Minus(x, n) < 2 * Half - 1 => Minus(Plus(x, 1), n) = Minus(x, n) + 1
<1>1. Minus(x, n) = IF x >= n THEN x - n ELSE x - n + 2 * Half
  BY MinusIs
<1>2. x \in Int /\ n \in Int /\ 0 <= x /\ x < 2 * Half /\ 0 <= n /\ n < 2 * Half
  BY HalfType DEF Ticket
<1>3. Minus(x, n) = 0 <=> x = n
  BY <1>1, <1>2, HalfType
<1>4. ASSUME NEW s \in Ticket
      PROVE  Minus(x, s) = IF Minus(x, n) >= Minus(s, n) THEN Minus(x, n) - Minus(s, n)
                                                         ELSE Minus(x, n) - Minus(s, n) + 2 * Half
  <2>1. /\ Minus(x, s) = IF x >= s THEN x - s ELSE x - s + 2 * Half
        /\ Minus(s, n) = IF s >= n THEN s - n ELSE s - n + 2 * Half
    BY MinusIs
  <2>2. s \in Int /\ 0 <= s /\ s < 2 * Half
    BY HalfType DEF Ticket
  <2> QED
    BY <1>1, <1>2, <2>1, <2>2, HalfType
<1>5. Minus(x, Plus(n, 1)) = IF x = n THEN 2 * Half - 1 ELSE Minus(x, n) - 1
  <2>1. Plus(n, 1) \in Ticket /\ Plus(n, 1) = IF n = 2 * Half - 1 THEN 0 ELSE n + 1
    BY NextTicket
  <2>2. Minus(x, Plus(n, 1)) = IF x >= Plus(n, 1) THEN x - Plus(n, 1) ELSE x - Plus(n, 1) + 2 * Half
    BY <2>1, MinusIs
  <2> QED
    BY <1>1, <1>2, <2>1, <2>2, HalfType
<1>6. Minus(x, n) < 2 * Half - 1 => Minus(Plus(x, 1), n) = Minus(x, n) + 1
  <2>1. Plus(x, 1) \in Ticket /\ Plus(x, 1) = IF x = 2 * Half - 1 THEN 0 ELSE x + 1
    BY NextTicket
  <2>2. Minus(Plus(x, 1), n) = IF Plus(x, 1) >= n THEN Plus(x, 1) - n ELSE Plus(x, 1) - n + 2 * Half
    BY <2>1, MinusIs
  <2> QED
    BY <1>1, <1>2, <2>1, <2>2, HalfType
<1> QED
  BY <1>3, <1>4, <1>5, <1>6

----------------------------------------------------------------------------
(* Lists of goroutines.                                                    *)

LEMMA EmptyList == ToSet(<<>>) = {} /\ IsInjective(<<>>) /\ <<>> \in Seq(G)
  BY DEF ToSet, IsInjective

LEMMA OneInList ==
  ASSUME NEW g \in G
  PROVE  ToSet(<<g>>) = {g} /\ IsInjective(<<g>>) /\ <<g>> \in Seq(G) /\ <<g>> # <<>>
  BY DEF ToSet, IsInjective

LEMMA ContainsIs ==
  ASSUME NEW q \in Seq(G), NEW g
  PROVE  Contains(q, g) <=> g \in ToSet(q)
  BY DEF Contains, ToSet

LEMMA Enqueued ==
  ASSUME NEW q \in Seq(G), IsInjective(q), NEW g \in G, g \notin ToSet(q)
  PROVE  /\ Append(q, g) \in Seq(G) /\ IsInjective(Append(q, g))
         /\ ToSet(Append(q, g)) = ToSet(q) \cup {g}
<1> DEFINE r == Append(q, g)
<1>1. /\ r \in Seq(G) /\ Len(q) \in Nat /\ DOMAIN q = 1..Len(q) /\ DOMAIN r = 1..(Len(q) + 1)
      /\ \A i \in 1..Len(q) : r[i] = q[i]
      /\ r[Len(q) + 1] = g
  OBVIOUS
<1> HIDE DEF r
<1>2. \A i \in 1..Len(q) : q[i] \in ToSet(q)
  BY <1>1 DEF ToSet
<1>3. IsInjective(r)
  BY <1>1, <1>2 DEF IsInjective
<1>4. ToSet(r) = ToSet(q) \cup {g}
  <2>1. \A i \in 1..(Len(q) + 1) : i \in 1..Len(q) \/ i = Len(q) + 1
    BY <1>1
  <2>2. ToSet(r) \subseteq ToSet(q) \cup {g}
    BY <2>1, <1>1, <1>2 DEF ToSet
  <2>3. Len(q) + 1 \in DOMAIN r /\ \A i \in DOMAIN q : i \in DOMAIN r /\ r[i] = q[i]
    BY <1>1
  <2>4. g \in ToSet(r) /\ \A i \in DOMAIN q : q[i] \in ToSet(r)
    BY <2>3, <1>1 DEF ToSet
  <2> QED
    BY <2>2, <2>4 DEF ToSet
<1> QED
  BY <1>1, <1>3, <1>4 DEF r

LEMMA Unlinked ==
  ASSUME NEW q \in Seq(G), IsInjective(q), NEW k \in DOMAIN q
  PROVE  /\ RemoveAt(q, k) \in Seq(G) /\ IsInjective(RemoveAt(q, k))
         /\ ToSet(RemoveAt(q, k)) = ToSet(q) \ {q[k]}
         /\ q[k] \in G /\ q[k] \in ToSet(q)
<1> DEFINE a == SubSeq(q, 1, k - 1)
           b == SubSeq(q, k + 1, Len(q))
           r == a \o b
<1>0. Len(q) \in Nat /\ DOMAIN q = 1..Len(q) /\ k \in 1..Len(q) /\ k \in Nat /\ k <= Len(q) /\ 1 <= k
  OBVIOUS
<1>q. \A i \in 1..Len(q) : q[i] \in G
  OBVIOUS
<1>1. a \in Seq(G) /\ Len(a) = k - 1 /\ \A i \in 1..(k - 1) : a[i] = q[i]
  <2>1. 1 \in Int /\ k - 1 \in Int /\ \A i \in 1..(k - 1) : q[i] \in G
    BY <1>0, <1>q
  <2>2. /\ a \in Seq(G) /\ Len(a) = IF 1 <= k - 1 THEN (k - 1) - 1 + 1 ELSE 0
        /\ \A i \in 1..((k - 1) - 1 + 1) : a[i] = q[1 + i - 1]
    BY <2>1, SubSeqProperties
  <2> HIDE DEF a
  <2>3. Len(a) = k - 1 /\ \A i \in 1..(k - 1) : i \in 1..((k - 1) - 1 + 1) /\ 1 + i - 1 = i
    BY <2>2, <1>0
  <2> QED
    BY <2>2, <2>3
<1>2. b \in Seq(G) /\ Len(b) = Len(q) - k /\ \A i \in 1..(Len(q) - k) : b[i] = q[k + i]
  <2>1. k + 1 \in Int /\ Len(q) \in Int /\ \A i \in (k + 1)..Len(q) : q[i] \in G
    BY <1>0, <1>q
  <2>2. /\ b \in Seq(G) /\ Len(b) = IF k + 1 <= Len(q) THEN Len(q) - (k + 1) + 1 ELSE 0
        /\ \A i \in 1..(Len(q) - (k + 1) + 1) : b[i] = q[(k + 1) + i - 1]
    BY <2>1, SubSeqProperties
  <2> HIDE DEF b
  <2>3. Len(b) = Len(q) - k
        /\ \A i \in 1..(Len(q) - k) : i \in 1..(Len(q) - (k + 1) + 1) /\ (k + 1) + i - 1 = k + i
    BY <2>2, <1>0
  <2> QED
    BY <2>2, <2>3
<1>3. RemoveAt(q, k) = r
  BY DEF RemoveAt
<1> HIDE DEF a, b
<1>c. /\ r \in Seq(G) /\ Len(r) = Len(a) + Len(b)
      /\ \A i \in 1..(Len(a) + Len(b)) : r[i] = IF i <= Len(a) THEN a[i] ELSE b[i - Len(a)]
  BY <1>1, <1>2, ConcatProperties
<1> HIDE DEF r
<1>4. r \in Seq(G) /\ Len(r) = Len(q) - 1 /\ DOMAIN r = 1..(Len(q) - 1)
  <2>1. Len(r) = Len(q) - 1
    BY <1>0, <1>1, <1>2, <1>c
  <2> QED
    BY <2>1, <1>c
<1>5. ASSUME NEW i \in 1..(Len(q) - 1) PROVE r[i] = IF i < k THEN q[i] ELSE q[i + 1]
  <2>0. i \in 1..(Len(a) + Len(b))
    BY <1>0, <1>1, <1>2
  <2>1. CASE i < k
    <3>1. i \in 1..(k - 1) /\ i <= Len(a)
      BY <1>0, <1>1, <2>1
    <3> QED
      BY <2>0, <3>1, <2>1, <1>1, <1>c
  <2>2. CASE ~(i < k)
    <3>1. ~(i <= Len(a)) /\ i - Len(a) = i - (k - 1)
      BY <1>0, <1>1, <2>2
    <3>2. r[i] = b[i - (k - 1)]
      BY <2>0, <3>1, <1>c
    <3>3. i - (k - 1) \in 1..(Len(q) - k) /\ k + (i - (k - 1)) = i + 1
      BY <1>0, <2>2
    <3> QED
      BY <3>2, <3>3, <2>2, <1>2
  <2> QED
    BY <2>1, <2>2
<1> DEFINE f(i) == IF i < k THEN i ELSE i + 1
<1>6. \A i \in DOMAIN r : f(i) \in DOMAIN q /\ f(i) # k /\ r[i] = q[f(i)]
  BY <1>0, <1>4, <1>5
<1>7. \A i, j \in DOMAIN r : f(i) = f(j) => i = j
  BY <1>0, <1>4
<1>8. IsInjective(r)
  <2> HIDE DEF f
  <2> QED
    BY <1>6, <1>7 DEF IsInjective
<1>9. ToSet(r) = ToSet(q) \ {q[k]}
  <2>1. ASSUME NEW x \in ToSet(r) PROVE x \in ToSet(q) /\ x # q[k]
    <3>1. PICK i \in DOMAIN r : x = r[i]
      BY DEF ToSet
    <3>2. f(i) \in DOMAIN q /\ f(i) # k /\ x = q[f(i)]
      BY <3>1, <1>6
    <3> HIDE DEF f
    <3> QED
      BY <3>2 DEF ToSet, IsInjective
  <2>2. ASSUME NEW x \in ToSet(q), x # q[k] PROVE x \in ToSet(r)
    <3>1. PICK j \in DOMAIN q : x = q[j]
      BY DEF ToSet
    <3>2. j \in 1..Len(q) /\ j # k
      BY <3>1, <2>2, <1>0
    <3> DEFINE i == IF j < k THEN j ELSE j - 1
    <3>3. i \in DOMAIN r /\ f(i) = j
      BY <3>2, <1>0, <1>4
    <3> HIDE DEF i, f
    <3>4. r[i] = x
      BY <3>3, <3>1, <1>6
    <3> QED
      BY <3>3, <3>4 DEF ToSet
  <2> QED
    BY <2>1, <2>2
<1>10. q[k] \in G /\ q[k] \in ToSet(q)
  BY <1>0 DEF ToSet
<1> QED
  BY <1>3, <1>4, <1>8, <1>9, <1>10

(* The rest of a list, without its first.                                  *)
LEMMA Dropped ==
  ASSUME NEW q \in Seq(G), IsInjective(q), q # <<>>
  PROVE  /\ Tail(q) \in Seq(G) /\ IsInjective(Tail(q))
         /\ ToSet(Tail(q)) = ToSet(q) \ {Head(q)}
         /\ Head(q) \in ToSet(q) /\ Head(q) \in G
         /\ Len(q) \in Nat /\ (Tail(q) = <<>> <=> Len(q) = 1)
<1>0. Len(q) \in Nat \ {0} /\ DOMAIN q = 1..Len(q) /\ Head(q) = q[1]
  BY EmptySeq
<1> DEFINE r == Tail(q)
<1>1. /\ r \in Seq(G) /\ Len(r) = Len(q) - 1 /\ DOMAIN r = 1..(Len(q) - 1)
      /\ \A i \in 1..(Len(q) - 1) : r[i] = q[i + 1]
  BY <1>0, HeadTailProperties
<1>2. r = <<>> <=> Len(r) = 0
  BY <1>1, EmptySeq
<1> HIDE DEF r
<1>3. \A i \in DOMAIN r : i + 1 \in DOMAIN q /\ i + 1 # 1 /\ r[i] = q[i + 1]
  BY <1>0, <1>1
<1>4. IsInjective(r)
  <2>1. \A i, j \in DOMAIN r : i + 1 = j + 1 => i = j
    BY <1>0, <1>1
  <2> QED
    BY <2>1, <1>3 DEF IsInjective
<1>5. 1 \in DOMAIN q /\ q[1] \in ToSet(q) /\ q[1] \in G
  BY <1>0 DEF ToSet
<1>6. ToSet(r) = ToSet(q) \ {q[1]}
  <2>1. ASSUME NEW x \in ToSet(r) PROVE x \in ToSet(q) /\ x # q[1]
    <3>1. PICK i \in DOMAIN r : x = r[i]
      BY DEF ToSet
    <3> QED
      BY <3>1, <1>3, <1>5 DEF ToSet, IsInjective
  <2>2. ASSUME NEW x \in ToSet(q), x # q[1] PROVE x \in ToSet(r)
    <3>1. PICK j \in DOMAIN q : x = q[j]
      BY DEF ToSet
    <3>2. j - 1 \in DOMAIN r /\ (j - 1) + 1 = j
      BY <3>1, <2>2, <1>0, <1>1
    <3>3. r[j - 1] = x
      BY <3>1, <3>2, <1>3
    <3> QED
      BY <3>2, <3>3 DEF ToSet
  <2> QED
    BY <2>1, <2>2
<1> QED
  BY <1>0, <1>1, <1>2, <1>4, <1>5, <1>6 DEF r

----------------------------------------------------------------------------
(* NotifyList: the types.                                                  *)

Types ==
  /\ wait \in Ticket /\ notify \in Ticket
  /\ list \in Seq(G)
  /\ lock \in G \cup {None}
  /\ pc \in [G -> {"idle"} \cup WaitPC \cup NotifyPC]
  /\ ticket \in [G -> Ticket] /\ seen \in [G -> Ticket]
  /\ took \in [G -> Seq(G)]

ListStep(g) == NotifyListAdd(g) \/ CallNotify(g, "one") \/ CallNotify(g, "all") \/ Step(g)
State == Types /\ ListInv

LEMMA ZeroTicket == 0 \in Ticket
  BY HalfType DEF Ticket

LEMMA Steps ==
  ASSUME Types, NEW g \in G, NEW l, Goto(g, l)
  PROVE  \A h \in G : pc'[h] = IF h = g THEN l ELSE pc[h]
  BY DEF Types, Goto

LEMMA ReadyTypes ==
  ASSUME Types, Parking, NEW g \in G, Ready(g)
  PROVE  /\ took[g] \in Seq(G) /\ IsInjective(took[g]) /\ took[g] # <<>>
         /\ Head(took[g]) \in G /\ At(Head(took[g]), "parked") /\ Head(took[g]) # g
         /\ Head(took[g]) \in ToSet(took[g])
         /\ \A h \in G : took'[h] = IF h = g THEN Tail(took[g]) ELSE took[h]
         /\ \A h \in G : pc'[h] = IF h = Head(took[g]) THEN "woken"
                                   ELSE IF h = g THEN (IF Tail(took[g]) = <<>> THEN "idle" ELSE "ready")
                                   ELSE pc[h]
         /\ pc' \in [G -> {"idle"} \cup WaitPC \cup NotifyPC] /\ took' \in [G -> Seq(G)]
<1>1. took[g] \in Seq(G) /\ IsInjective(took[g]) /\ took[g] # <<>> /\ At(g, "ready")
  BY DEF Types, Parking, Ready
<1>2. /\ Tail(took[g]) \in Seq(G) /\ Head(took[g]) \in ToSet(took[g]) /\ Head(took[g]) \in G
      /\ Tail(took[g]) = <<>> <=> Len(took[g]) = 1
  BY <1>1, Dropped
<1>3. At(Head(took[g]), "parked")
  BY <1>2 DEF Parking
<1>4. Head(took[g]) # g
  BY <1>1, <1>3 DEF At
<1>5. /\ \A h \in G : took'[h] = IF h = g THEN Tail(took[g]) ELSE took[h]
      /\ took' \in [G -> Seq(G)]
  BY <1>2 DEF Ready, Types
<1>6. /\ \A h \in G : pc'[h] = IF h = Head(took[g]) THEN "woken"
                                ELSE IF h = g THEN (IF Tail(took[g]) = <<>> THEN "idle" ELSE "ready")
                                ELSE pc[h]
      /\ pc' \in [G -> {"idle"} \cup WaitPC \cup NotifyPC]
  <2> DEFINE x == Head(took[g])
             m == IF Len(took[g]) = 1 THEN "idle" ELSE "ready"
  <2>1. pc' = [pc EXCEPT ![g] = m, ![x] = "woken"]
    BY DEF Ready
  <2>2. x \in G /\ x # g /\ m \in {"idle", "ready"}
        /\ m = IF Tail(took[g]) = <<>> THEN "idle" ELSE "ready"
    BY <1>2, <1>4
  <2> HIDE DEF x, m
  <2>3. pc \in [G -> {"idle"} \cup WaitPC \cup NotifyPC]
    BY DEF Types
  <2>4. /\ \A h \in G : pc'[h] = IF h = x THEN "woken" ELSE IF h = g THEN m ELSE pc[h]
        /\ pc' \in [G -> {"idle"} \cup WaitPC \cup NotifyPC]
    BY <2>1, <2>2, <2>3 DEF WaitPC, NotifyPC
  <2> QED
    BY <2>2, <2>4 DEF x
<1> QED
  BY <1>1, <1>2, <1>3, <1>4, <1>5, <1>6

LEMMA TypesKept ==
  ASSUME Types, Parking, NEW g \in G, ListStep(g)
  PROVE  Types'
<1> USE DEF Types, WaitPC, NotifyPC, OnePC, AllPC, Goto, Forget
<1>1. CASE NotifyListAdd(g)
  BY <1>1, NextTicket DEF NotifyListAdd
<1>2. CASE CallNotify(g, "one") \/ CallNotify(g, "all")
  BY <1>2 DEF CallNotify
<1>3. CASE NotifyListWait(g)
  <2>1. Append(list, g) \in Seq(G)
    OBVIOUS
  <2> QED
    BY <1>3, <2>1, ZeroTicket DEF NotifyListWait
<1>4. CASE WaitReturn(g)
  BY <1>4, ZeroTicket DEF WaitReturn
<1>5. CASE LoadWait(g)
  BY <1>5 DEF LoadWait
<1>6. CASE LoadNotify(g)
  BY <1>6, ZeroTicket DEF LoadNotify
<1>7. CASE AllPull(g)
  BY <1>7, EmptyList DEF AllPull
<1>8. CASE AllStore(g)
  BY <1>8, ZeroTicket DEF AllStore
<1>9. CASE OneCheck(g)
  BY <1>9 DEF OneCheck
<1>10. CASE OneStore(g)
  <2>1. CASE Goto(g, "idle") /\ UNCHANGED <<list, took>>
    BY <1>10, <2>1, NextTicket DEF OneStore
  <2>2. ASSUME NEW k \in DOMAIN list, list' = RemoveAt(list, k),
               took' = [took EXCEPT ![g] = <<list[k]>>], Goto(g, "ready")
        PROVE  Types'
    <3>1. RemoveAt(list, k) \in Seq(G) /\ list[k] \in G
      BY Unlinked DEF Parking
    <3>2. <<list[k]>> \in Seq(G)
      BY <3>1
    <3>3. notify' \in Ticket /\ lock' = None
      BY <1>10, NextTicket DEF OneStore
    <3> QED
      BY <1>10, <2>2, <3>1, <3>2, <3>3 DEF OneStore
  <2> QED
    BY <1>10, <2>1, <2>2 DEF OneStore
<1>11. CASE Ready(g)
  BY <1>11, ReadyTypes DEF Ready
<1> QED
  BY <1>1, <1>2, <1>3, <1>4, <1>5, <1>6, <1>7, <1>8, <1>9, <1>10, <1>11 DEF ListStep, Step

----------------------------------------------------------------------------
(* NotifyList: whoever is parked is in one place.                          *)

LEMMA Quiet ==
  ASSUME Types, Parking, NEW g \in G, NEW l, Goto(g, l), UNCHANGED <<list, took>>,
         pc[g] \notin {"parked", "allstore", "ready"}, l \notin {"parked", "ready"}
  PROVE  Parking'
<1>1. \A h \in G : pc'[h] = IF h = g THEN l ELSE pc[h]
  BY Steps
<1> QED
  BY <1>1 DEF Parking, At

(* The lists after a step, put together.                                   *)
LEMMA Placed ==
  ASSUME IsInjective(list'), \A h \in G : IsInjective(took'[h]),
         \A x \in G : pc'[x] = "parked" <=> x \in ToSet(list') \/ \E h \in G : x \in ToSet(took'[h]),
         \A h \in G : ToSet(took'[h]) \cap ToSet(list') = {},
         \A h, k \in G : h # k => ToSet(took'[h]) \cap ToSet(took'[k]) = {},
         \A h \in G : took'[h] # <<>> => pc'[h] \in {"allstore", "ready"},
         \A h \in G : pc'[h] = "ready" => took'[h] # <<>>
  PROVE  Parking'
<1>1. \A h \in G : At(h, "parked")' <=> pc'[h] = "parked"
  BY DEF At
<1>2. \A h \in G : At(h, "ready")' <=> pc'[h] = "ready"
  BY DEF At
<1> QED
  BY <1>1, <1>2 DEF Parking

LEMMA ParkingKept ==
  ASSUME State, NEW g \in G, ListStep(g)
  PROVE  Parking'
<1>t. Types /\ Parking /\ Locking /\ list \in Seq(G) /\ took \in [G -> Seq(G)]
  BY DEF State, ListInv, Types
<1>1. CASE NotifyListAdd(g)
  BY <1>1, <1>t, Quiet DEF NotifyListAdd, At
<1>2. CASE CallNotify(g, "one") \/ CallNotify(g, "all")
  BY <1>2, <1>t, Quiet DEF CallNotify, At
<1>3. CASE NotifyListWait(g)
  <2>1. CASE Goto(g, "idle") /\ UNCHANGED list
    BY <1>3, <2>1, <1>t, Quiet DEF NotifyListWait, At
  <2>2. CASE Goto(g, "parked") /\ list' = Append(list, g)
    <3>1. \A h \in G : pc'[h] = IF h = g THEN "parked" ELSE pc[h]
      BY <2>2, <1>t, Steps
    <3>2. At(g, "added") /\ took' = took
      BY <1>3 DEF NotifyListWait
    <3>3. g \notin ToSet(list) /\ \A h \in G : g \notin ToSet(took[h])
      BY <3>2, <1>t DEF Parking, At
    <3>4. IsInjective(list') /\ ToSet(list') = ToSet(list) \cup {g}
      BY <2>2, <3>3, <1>t, Enqueued DEF Parking
    <3>5. \A x \in G : pc'[x] = "parked" <=> x \in ToSet(list') \/ \E h \in G : x \in ToSet(took'[h])
      BY <3>1, <3>2, <3>4, <1>t DEF Parking, At
    <3>6. \A h \in G : ToSet(took'[h]) \cap ToSet(list') = {}
      BY <3>2, <3>3, <3>4, <1>t DEF Parking
    <3>7. \A h \in G : (took'[h] # <<>> => pc'[h] \in {"allstore", "ready"})
                     /\ (pc'[h] = "ready" => took'[h] # <<>>)
      BY <3>1, <3>2, <1>t DEF Parking, At
    <3>8. \A h \in G : IsInjective(took'[h]) /\ \A k \in G : h # k => ToSet(took'[h]) \cap ToSet(took'[k]) = {}
      BY <3>2, <1>t DEF Parking
    <3> QED
      BY <3>4, <3>5, <3>6, <3>7, <3>8, Placed
  <2> QED
    BY <1>3, <2>1, <2>2 DEF NotifyListWait
<1>4. CASE WaitReturn(g)
  BY <1>4, <1>t, Quiet DEF WaitReturn, At
<1>5. CASE LoadWait(g)
  BY <1>5, <1>t, Quiet DEF LoadWait, At
<1>6. CASE LoadNotify(g)
  BY <1>6, <1>t, Quiet DEF LoadNotify, At
<1>7. CASE AllPull(g)
  <2>1. At(g, "alllock") /\ list' = <<>> /\ Goto(g, "allstore") /\ took' = [took EXCEPT ![g] = list]
    BY <1>7 DEF AllPull
  <2>2. \A h \in G : pc'[h] = IF h = g THEN "allstore" ELSE pc[h]
    BY <2>1, <1>t, Steps
  <2>3. \A h \in G : took'[h] = IF h = g THEN list ELSE took[h]
    BY <2>1, <1>t
  <2>4. took[g] = <<>> /\ ToSet(list') = {} /\ IsInjective(list') /\ ToSet(took[g]) = {}
    BY <2>1, <1>t, EmptyList DEF Parking, At
  <2>5. \A x \in G : x \in ToSet(list) \/ (\E h \in G : x \in ToSet(took[h]))
                   <=> \E h \in G : x \in ToSet(took'[h])
    BY <2>3, <2>4
  <2>6. \A x \in G : pc'[x] = "parked" <=> x \in ToSet(list') \/ \E h \in G : x \in ToSet(took'[h])
    BY <2>1, <2>2, <2>4, <2>5, <1>t DEF Parking, At
  <2>7. \A h \in G : ToSet(took'[h]) \cap ToSet(list') = {}
    BY <2>4
  <2>8. \A h \in G : IsInjective(took'[h]) /\ \A k \in G : h # k => ToSet(took'[h]) \cap ToSet(took'[k]) = {}
    BY <2>3, <1>t DEF Parking
  <2>9. \A h \in G : (took'[h] # <<>> => pc'[h] \in {"allstore", "ready"})
                   /\ (pc'[h] = "ready" => took'[h] # <<>>)
    BY <2>1, <2>2, <2>3, <1>t DEF Parking, At
  <2> QED
    BY <2>4, <2>6, <2>7, <2>8, <2>9, Placed
<1>8. CASE AllStore(g)
  <2>1. /\ At(g, "allstore") /\ UNCHANGED <<list, took>>
        /\ Goto(g, IF took[g] = <<>> THEN "idle" ELSE "ready")
    BY <1>8 DEF AllStore
  <2>2. \A h \in G : pc'[h] = IF h = g THEN (IF took[g] = <<>> THEN "idle" ELSE "ready") ELSE pc[h]
    BY <2>1, <1>t, Steps
  <2>3. \A x \in G : pc'[x] = "parked" <=> x \in ToSet(list') \/ \E h \in G : x \in ToSet(took'[h])
    BY <2>1, <2>2, <1>t DEF Parking, At
  <2>4. \A h \in G : (took'[h] # <<>> => pc'[h] \in {"allstore", "ready"})
                   /\ (pc'[h] = "ready" => took'[h] # <<>>)
    BY <2>1, <2>2, <1>t DEF Parking, At
  <2>5. /\ IsInjective(list')
        /\ \A h \in G : IsInjective(took'[h]) /\ ToSet(took'[h]) \cap ToSet(list') = {}
        /\ \A h, k \in G : h # k => ToSet(took'[h]) \cap ToSet(took'[k]) = {}
    BY <2>1, <1>t DEF Parking
  <2> QED
    BY <2>3, <2>4, <2>5, Placed
<1>9. CASE OneCheck(g)
  BY <1>9, <1>t, Quiet DEF OneCheck, At
<1>10. CASE OneStore(g)
  <2>1. CASE Goto(g, "idle") /\ UNCHANGED <<list, took>>
    BY <1>10, <2>1, <1>t, Quiet DEF OneStore, At
  <2>2. ASSUME NEW k \in DOMAIN list, list' = RemoveAt(list, k),
               took' = [took EXCEPT ![g] = <<list[k]>>], Goto(g, "ready")
        PROVE  Parking'
    <3> DEFINE x == list[k]
    <3>1. /\ IsInjective(list') /\ ToSet(list') = ToSet(list) \ {x}
          /\ x \in ToSet(list) /\ x \in G
      BY <2>2, <1>t, Unlinked DEF Parking
    <3>2. ToSet(<<x>>) = {x} /\ IsInjective(<<x>>) /\ <<x>> # <<>>
      BY <3>1, OneInList
    <3>3. \A h \in G : pc'[h] = IF h = g THEN "ready" ELSE pc[h]
      BY <2>2, <1>t, Steps
    <3>4. \A h \in G : took'[h] = IF h = g THEN <<x>> ELSE took[h]
      BY <2>2, <1>t
    <3>5. At(g, "onestore")
      BY <1>10 DEF OneStore
    <3> HIDE DEF x
    <3>6. took[g] = <<>> /\ ToSet(took[g]) = {}
      BY <3>5, <1>t, EmptyList DEF Parking, At
    <3>7. \A y \in G : y \in ToSet(list) \/ (\E h \in G : y \in ToSet(took[h]))
                     <=> y \in ToSet(list') \/ \E h \in G : y \in ToSet(took'[h])
      BY <3>1, <3>2, <3>4, <3>6
    <3>8. \A y \in G : pc'[y] = "parked" <=> y \in ToSet(list') \/ \E h \in G : y \in ToSet(took'[h])
      BY <3>3, <3>5, <3>7, <1>t DEF Parking, At
    <3>9. \A h \in G : ToSet(took'[h]) \cap ToSet(list') = {}
      BY <3>1, <3>2, <3>4, <1>t DEF Parking
    <3>x. \A h \in G : ToSet(took'[h]) = IF h = g THEN {x} ELSE ToSet(took[h])
      BY <3>2, <3>4
    <3>y. \A h \in G : x \notin ToSet(took[h])
      BY <3>1, <1>t DEF Parking
    <3>z. \A h \in G : IsInjective(took'[h])
      BY <3>2, <3>4, <1>t DEF Parking
    <3>10. ASSUME NEW h \in G, NEW m \in G, h # m PROVE ToSet(took'[h]) \cap ToSet(took'[m]) = {}
      <4>1. ToSet(took[h]) \cap ToSet(took[m]) = {}
        BY <3>10, <1>t DEF Parking
      <4>2. ToSet(took'[h]) \in {{x}, ToSet(took[h])} /\ ToSet(took'[m]) \in {{x}, ToSet(took[m])}
            /\ (h # g => ToSet(took'[h]) = ToSet(took[h])) /\ (m # g => ToSet(took'[m]) = ToSet(took[m]))
        BY <3>x
      <4>3. x \notin ToSet(took[h]) /\ x \notin ToSet(took[m])
        BY <3>y
      <4> QED
        BY <3>10, <4>1, <4>2, <4>3
    <3>11. \A h \in G : (took'[h] # <<>> => pc'[h] \in {"allstore", "ready"})
                      /\ (pc'[h] = "ready" => took'[h] # <<>>)
      BY <3>2, <3>3, <3>4, <1>t DEF Parking, At
    <3> QED
      BY <3>1, <3>8, <3>9, <3>z, <3>10, <3>11, Placed
  <2> QED
    BY <1>10, <2>1, <2>2 DEF OneStore
<1>11. CASE Ready(g)
  <2> DEFINE x == Head(took[g])
             q == Tail(took[g])
  <2>1. /\ took[g] \in Seq(G) /\ IsInjective(took[g]) /\ took[g] # <<>>
        /\ x \in G /\ At(x, "parked") /\ x # g /\ x \in ToSet(took[g])
        /\ \A h \in G : took'[h] = IF h = g THEN q ELSE took[h]
        /\ \A h \in G : pc'[h] = IF h = x THEN "woken"
                                  ELSE IF h = g THEN (IF q = <<>> THEN "idle" ELSE "ready")
                                  ELSE pc[h]
    BY <1>11, <1>t, ReadyTypes
  <2>2. IsInjective(q) /\ ToSet(q) = ToSet(took[g]) \ {x}
    BY <2>1, Dropped
  <2>3. At(g, "ready") /\ list' = list
    BY <1>11 DEF Ready
  <2> HIDE DEF x, q
  <2>4. x \notin ToSet(list) /\ \A h \in G : h # g => x \notin ToSet(took[h])
    BY <2>1, <1>t DEF Parking
  <2>5. \A y \in G : (\E h \in G : y \in ToSet(took'[h])) <=> y # x /\ \E h \in G : y \in ToSet(took[h])
    BY <2>1, <2>2, <2>4
  <2>6. \A y \in G : pc'[y] = "parked" <=> y # x /\ At(y, "parked")
    BY <2>1, <2>3 DEF At
  <2>7. \A y \in G : pc'[y] = "parked" <=> y \in ToSet(list') \/ \E h \in G : y \in ToSet(took'[h])
    BY <2>3, <2>4, <2>5, <2>6, <1>t DEF Parking
  <2>8. \A h \in G : (took'[h] # <<>> => pc'[h] \in {"allstore", "ready"})
                   /\ (pc'[h] = "ready" => took'[h] # <<>>)
    BY <2>1, <2>3, <1>t DEF Parking, At
  <2>9. /\ IsInjective(list')
        /\ \A h \in G : IsInjective(took'[h]) /\ ToSet(took'[h]) \cap ToSet(list') = {}
        /\ \A h, k \in G : h # k => ToSet(took'[h]) \cap ToSet(took'[k]) = {}
    BY <2>1, <2>2, <2>3, <2>4, <1>t DEF Parking
  <2> QED
    BY <2>7, <2>8, <2>9, Placed
<1> QED
  BY <1>1, <1>2, <1>3, <1>4, <1>5, <1>6, <1>7, <1>8, <1>9, <1>10, <1>11 DEF ListStep, Step

----------------------------------------------------------------------------
(* NotifyList: how many tickets are out.                                   *)

LEMMA AheadType ==
  ASSUME Types, NEW x \in Ticket
  PROVE  Ahead(x) \in Nat /\ Ahead(x) < 2 * Half /\ (Ahead(x) = 0 <=> x = notify)
<1>1. Ahead(x) \in Ticket /\ (Ahead(x) = 0 <=> x = notify)
  BY MinusIs, Moves DEF Ahead, Types
<1> QED
  BY <1>1, HalfType DEF Ticket

(* There is a waiter for each of them, so they are fewer than the          *)
(* goroutines, and the tickets never catch up with themselves.             *)
LEMMA LagBound ==
  ASSUME State
  PROVE  /\ Lag \in Nat /\ Lag <= Half
         /\ \A g \in G : g \notin Waiters => Lag < Half
<1>1. Types /\ Ticketing /\ Lag \in Nat
  BY AheadType DEF State, ListInv, Types, Lag
<1>2. ASSUME NEW S \in SUBSET G, Waiters \subseteq S
      PROVE  Lag <= Cardinality(S)
  <2> DEFINE K == 0..(Lag - 1)
             f == [k \in K |-> CHOOSE g \in Waiters : Ahead(ticket[g]) = k]
  <2>1. IsFiniteSet(S) /\ Cardinality(S) \in Nat
    BY NotifyListAssumption, FS_Subset, FS_CardinalityType
  <2>2. IsFiniteSet(K) /\ Cardinality(K) = Lag
    <3>1. IsFiniteSet(K) /\ Cardinality(K) = IF 0 > Lag - 1 THEN 0 ELSE Lag - 1 - 0 + 1
      BY <1>1, FS_Interval
    <3> QED
      BY <3>1, <1>1
  <2>3. \A k \in K : \E g \in Waiters : Ahead(ticket[g]) = k
    BY <1>1 DEF Ticketing
  <2>4. \A k \in K : f[k] \in Waiters /\ Ahead(ticket[f[k]]) = k
    BY <2>3
  <2>5. f \in [K -> S]
    BY <2>4, <1>2
  <2> HIDE DEF f, K
  <2>6. SUFFICES ASSUME Cardinality(S) < Cardinality(K) PROVE FALSE
    BY <2>1, <2>2, <1>1
  <2>7. \E x, y \in K : x # y /\ f[x] = f[y]
    BY <2>1, <2>2, <2>5, <2>6, FS_PigeonHole
  <2> QED
    BY <2>4, <2>7
<1>3. Cardinality(G) \in Nat
  BY NotifyListAssumption, FS_CardinalityType
<1>4. Lag <= Half
  <2>1. Lag <= Cardinality(G)
    BY <1>2 DEF Waiters
  <2> QED
    BY <2>1, <1>1, <1>3, NotifyListAssumption
<1>5. ASSUME NEW g \in G, g \notin Waiters PROVE Lag < Half
  <2>1. Lag <= Cardinality(G \ {g})
    BY <1>2, <1>5 DEF Waiters
  <2>2. Cardinality(G \ {g}) = Cardinality(G) - 1
    BY NotifyListAssumption, FS_RemoveElement
  <2> QED
    BY <2>1, <2>2, <1>1, <1>3, NotifyListAssumption
<1> QED
  BY <1>1, <1>4, <1>5

(* Who waits, by the tickets.                                              *)
LEMMA HandedIs ==
  ASSUME Types
  PROVE  \A g : Handed(g) <=> \E h \in G : pc[h] = "ready" /\ g \in ToSet(took[h])
BY ContainsIs DEF Handed, Types, At

LEMMA WaitingIs ==
  ASSUME Types, NEW g \in G
  PROVE  /\ Waiting(g) <=> pc[g] \in {"added", "parked"} /\ ~Handed(g) /\ Ahead(ticket[g]) < Half
         /\ g \in Waiters <=> Waiting(g)
<1>1. ticket[g] \in Ticket /\ Half \in Nat
  BY HalfType DEF Types
<1>2. Ahead(ticket[g]) \in Nat
  BY <1>1, AheadType
<1> QED
  BY <1>1, <1>2 DEF Waiting, Less, Waiters, Ahead

LEMMA NotHanded ==
  ASSUME Types, Parking, NEW g \in G, pc[g] # "parked"
  PROVE  ~Handed(g)
BY HandedIs DEF Parking, At

(* A goroutine that was notified before it came to wait sees it: no        *)
(* ticket has gone half of the way round since.                            *)
LEMMA LateComers ==
  ASSUME State, NEW g \in G, pc[g] = "added", ~Waiting(g)
  PROVE  Ahead(ticket[g]) >= Lag + Half /\ Lag < Half
<1>1. Types /\ Parking /\ Ticketing
  BY DEF State, ListInv
<1>2. Lag \in Nat /\ Lag < Half
  BY LagBound, WaitingIs, <1>1
<1>3. Minus(wait, ticket[g]) \in 1..MaxLag
  BY <1>1 DEF Ticketing, At
<1>4. ticket[g] \in Ticket /\ wait \in Ticket /\ notify \in Ticket
  BY <1>1 DEF Types
<1>5. Ahead(ticket[g]) >= Half /\ Ahead(ticket[g]) \in Nat
  BY <1>1, <1>4, NotHanded, WaitingIs, AheadType, HalfType
<1>6. Minus(wait, ticket[g]) = IF Lag >= Ahead(ticket[g]) THEN Lag - Ahead(ticket[g])
                                                          ELSE Lag - Ahead(ticket[g]) + 2 * Half
  BY <1>4, Moves DEF Lag, Ahead
<1> QED
  BY <1>2, <1>3, <1>5, <1>6, HalfType

----------------------------------------------------------------------------
(* NotifyList: the waiters after a step.                                   *)

LEMMA HandedNext ==
  ASSUME Types'
  PROVE  \A g : Handed(g)' <=> \E h \in G : pc'[h] = "ready" /\ g \in ToSet(took'[h])
BY ContainsIs DEF Handed, Types, At

LEMMA WaitingNext ==
  ASSUME Types', NEW g \in G
  PROVE  /\ Waiting(g)' <=> /\ pc'[g] \in {"added", "parked"} /\ ~Handed(g)'
                            /\ Minus(ticket'[g], notify') < Half
         /\ g \in Waiters' <=> Waiting(g)'
         /\ Minus(ticket'[g], notify') \in Nat
<1>1. ticket'[g] \in Ticket /\ notify' \in Ticket /\ Half \in Nat
  BY HalfType DEF Types
<1>2. Minus(ticket'[g], notify') \in Nat
  <2>1. Minus(ticket'[g], notify') \in Ticket
    BY <1>1, MinusIs
  <2> QED
    BY <2>1, HalfType DEF Ticket
<1> QED
  BY <1>1, <1>2 DEF Waiting, Less, Waiters

(* A step that neither issues a ticket nor notifies one.                   *)
Stayed ==
  /\ UNCHANGED <<wait, notify>>
  /\ \A h \in G : pc'[h] = "added" => pc[h] = "added" /\ ticket'[h] = ticket[h]
  /\ \A h \in G : pc'[h] = "parked" /\ ~Handed(h)' => Waiting(h)
  /\ \A h \in G : Waiting(h)' <=> Waiting(h)
  /\ \A h \in G : Waiting(h) => ticket'[h] = ticket[h]

LEMMA StayedKeeps ==
  ASSUME State, Stayed
  PROVE  /\ Ticketing' /\ Waiters' = Waiters
         /\ Lag' = Lag /\ \A x : Ahead(x)' = Ahead(x)
<1>1. Ticketing
  BY DEF State, ListInv
<1>2. /\ Lag' = Lag /\ \A x : Ahead(x)' = Ahead(x)
      /\ Waiters' = Waiters /\ \A g \in Waiters : g \in G /\ ticket'[g] = ticket[g]
      /\ wait' = wait
  BY DEF Stayed, Lag, Ahead, Waiters
<1>3. \A g \in G : At(g, "added")' => Minus(wait', ticket'[g]) \in 1..MaxLag
  BY <1>1, <1>2 DEF Stayed, Ticketing, At
<1>4. \A g \in G : At(g, "parked")' /\ ~Handed(g)' => Waiting(g)'
  BY DEF Stayed, At
<1>5. \A g \in Waiters' : Minus(ticket'[g], notify') < Lag'
  BY <1>1, <1>2 DEF Stayed, Ticketing, Ahead
<1>6. \A g, h \in Waiters' : ticket'[g] = ticket'[h] => g = h
  BY <1>1, <1>2 DEF Ticketing
<1>7. \A k \in 0..(Lag' - 1) : \E g \in Waiters' : Minus(ticket'[g], notify') = k
  BY <1>1, <1>2 DEF Stayed, Ticketing, Ahead
<1> QED
  BY <1>2, <1>3, <1>4, <1>5, <1>6, <1>7 DEF Ticketing, Ahead

(* The goroutine that moves is no waiter before or after.                  *)
LEMMA Elsewhere ==
  ASSUME State, Types', NEW g \in G, NEW l, Goto(g, l), UNCHANGED <<wait, notify>>,
         g \notin Waiters, l \notin {"added", "parked", "ready"}, pc[g] # "ready",
         \A h \in G : h # g => ticket'[h] = ticket[h] /\ took'[h] = took[h]
  PROVE  Stayed
<1>t. Types /\ Parking /\ Ticketing
  BY DEF State, ListInv
<1>1. \A h \in G : pc'[h] = IF h = g THEN l ELSE pc[h]
  BY <1>t, Steps
<1>2. \A h : Handed(h)' <=> Handed(h)
  BY <1>t, <1>1, HandedIs, HandedNext
<1>3. \A h \in G : Waiting(h)' <=> Waiting(h)
  <2>1. ~Waiting(g) /\ ~Waiting(g)'
    BY <1>t, <1>1, WaitingIs, WaitingNext
  <2>2. ASSUME NEW h \in G, h # g PROVE Waiting(h)' <=> Waiting(h)
    BY <2>2, <1>t, <1>1, <1>2, WaitingIs, WaitingNext DEF Ahead
  <2> QED
    BY <2>1, <2>2
<1>4. \A h \in G : Waiting(h) => ticket'[h] = ticket[h]
  BY <1>t, WaitingIs
<1>5. \A h \in G : pc'[h] = "parked" /\ ~Handed(h)' => Waiting(h)
  BY <1>1, <1>2, <1>t DEF Ticketing, At
<1>6. \A h \in G : pc'[h] = "added" => pc[h] = "added" /\ ticket'[h] = ticket[h]
  BY <1>1
<1> QED
  BY <1>3, <1>4, <1>5, <1>6 DEF Stayed

LEMMA WaitStays ==
  ASSUME State, Types', NEW g \in G, NotifyListWait(g)
  PROVE  Stayed
<1>t. Types /\ Parking /\ Ticketing
  BY DEF State, ListInv
<1>1. At(g, "added") /\ UNCHANGED <<wait, notify, took>>
  BY DEF NotifyListWait
<1>2. CASE Less(ticket[g], notify) /\ Goto(g, "idle") /\ ticket' = [ticket EXCEPT ![g] = 0]
  <2>1. g \notin Waiters
    BY <1>2 DEF Waiters, Waiting
  <2>2. \A h \in G : h # g => ticket'[h] = ticket[h]
    BY <1>2, <1>t DEF Types
  <2> QED
    BY <1>1, <1>2, <2>1, <2>2, Elsewhere DEF At
<1>3. CASE ~Less(ticket[g], notify) /\ Goto(g, "parked") /\ ticket' = ticket
  <2>1. \A h \in G : pc'[h] = IF h = g THEN "parked" ELSE pc[h]
    BY <1>3, <1>t, Steps
  <2>2. \A h : Handed(h)' <=> Handed(h)
    BY <1>t, <1>1, <2>1, HandedIs, HandedNext DEF At
  <2>3. Waiting(g)
    BY <1>1, <1>3, <1>t, NotHanded DEF Waiting, At
  <2>4. \A h \in G : Waiting(h)' <=> Waiting(h)
    BY <1>1, <1>3, <1>t, <2>1, <2>2, <2>3, WaitingIs, WaitingNext DEF Ahead
  <2>5. \A h \in G : pc'[h] = "parked" /\ ~Handed(h)' => Waiting(h)
    BY <2>1, <2>2, <2>3, <1>t DEF Ticketing, At
  <2> QED
    BY <1>1, <1>3, <2>1, <2>4, <2>5 DEF Stayed
<1> QED
  BY <1>2, <1>3 DEF NotifyListWait

LEMMA ReadyStays ==
  ASSUME State, Types', NEW g \in G, Ready(g)
  PROVE  Stayed /\ Handed(Head(took[g])) /\ ~Waiting(Head(took[g]))
<1>t. Types /\ Parking /\ Ticketing
  BY DEF State, ListInv
<1> DEFINE q == Tail(took[g])
<1>0. PICK x \in G : x = Head(took[g])
  BY <1>t, ReadyTypes
<1>1. /\ took[g] \in Seq(G) /\ IsInjective(took[g]) /\ took[g] # <<>>
      /\ x \in G /\ At(x, "parked") /\ x # g /\ x \in ToSet(took[g])
      /\ \A h \in G : took'[h] = IF h = g THEN q ELSE took[h]
      /\ \A h \in G : pc'[h] = IF h = x THEN "woken"
                                ELSE IF h = g THEN (IF q = <<>> THEN "idle" ELSE "ready")
                                ELSE pc[h]
  BY <1>0, <1>t, ReadyTypes
<1>2. ToSet(q) = ToSet(took[g]) \ {x}
  BY <1>0, <1>1, Dropped
<1>3. At(g, "ready") /\ UNCHANGED <<wait, notify, ticket>>
  BY DEF Ready
<1> HIDE DEF q
<1>4. Handed(x) /\ ~Waiting(x)
  BY <1>1, <1>3, <1>t, HandedIs, WaitingIs DEF At
<1>5. ASSUME NEW y \in G, y # x PROVE Handed(y)' <=> Handed(y)
  <2>1. q = <<>> => ToSet(q) = {}
    BY EmptyList
  <2>2. pc[x] # "ready"
    BY <1>1 DEF At
  <2>3. \A h \in G : (pc'[h] = "ready" /\ y \in ToSet(took'[h])) <=> (pc[h] = "ready" /\ y \in ToSet(took[h]))
    BY <2>1, <2>2, <1>1, <1>2, <1>3, <1>5 DEF At
  <2> QED
    BY <2>3, <1>t, HandedIs, HandedNext
<1>6. \A y \in G : Waiting(y)' <=> Waiting(y)
  <2>1. ~Waiting(x)'
    BY <1>1, WaitingNext
  <2>2. ~Waiting(g)' /\ ~Waiting(g)
    BY <1>1, <1>3, <1>t, WaitingIs, WaitingNext DEF At
  <2>3. ASSUME NEW y \in G, y # x, y # g PROVE Waiting(y)' <=> Waiting(y)
    BY <2>3, <1>1, <1>3, <1>5, <1>t, WaitingIs, WaitingNext DEF Ahead
  <2> QED
    BY <2>1, <2>2, <2>3, <1>4
<1>7. \A y \in G : pc'[y] = "parked" /\ ~Handed(y)' => Waiting(y)
  <2>1. \A y \in G : pc'[y] = "parked" => y # x /\ pc[y] = "parked"
    BY <1>1, <1>3
  <2> QED
    BY <2>1, <1>5, <1>t DEF Ticketing, At
<1>8. \A y \in G : pc'[y] = "added" => pc[y] = "added"
  BY <1>1
<1> QED
  BY <1>0, <1>3, <1>4, <1>6, <1>7, <1>8 DEF Stayed

(* A ticket more.                                                          *)
LEMMA Joins ==
  ASSUME State, Types', NEW g \in G, NotifyListAdd(g)
  PROVE  /\ Ticketing'
         /\ g \notin Waiters /\ Waiters' = Waiters \cup {g}
         /\ Lag' = Lag + 1 /\ notify' = notify /\ ticket'[g] = wait
         /\ \A h \in Waiters : ticket'[h] = ticket[h]
<1>t. Types /\ Parking /\ Ticketing /\ wait \in Ticket /\ notify \in Ticket
  BY DEF State, ListInv, Types
<1>1. /\ pc[g] = "idle" /\ UNCHANGED <<notify, took>>
      /\ \A h \in G : pc[h] = "added" => Minus(wait, ticket[h]) < MaxLag
      /\ \A h \in G : pc'[h] = IF h = g THEN "added" ELSE pc[h]
      /\ \A h \in G : ticket'[h] = IF h = g THEN wait ELSE ticket[h]
      /\ wait' = Plus(wait, 1)
  BY <1>t, Steps DEF NotifyListAdd, At, Types
<1>2. g \notin Waiters
  BY <1>1, <1>t, WaitingIs
<1>3. Lag \in Nat /\ Lag < Half
  BY <1>2, LagBound
<1>4. \A h : Handed(h)' <=> Handed(h)
  BY <1>1, <1>t, HandedIs, HandedNext
<1>5. ~Handed(g)
  BY <1>1, <1>t, NotHanded
<1>6. Waiting(g)' /\ Minus(ticket'[g], notify') = Lag
  BY <1>1, <1>3, <1>4, <1>5, WaitingNext DEF Lag, Ahead
<1>7. \A h \in G : h # g => (Waiting(h)' <=> Waiting(h))
  BY <1>1, <1>4, <1>t, WaitingIs, WaitingNext DEF Ahead
<1>8. Waiters' = Waiters \cup {g} /\ \A h \in Waiters : h \in G /\ h # g /\ ticket'[h] = ticket[h]
  BY <1>1, <1>2, <1>6, <1>7 DEF Waiters
<1>9. Lag' = Lag + 1
  <2>1. Lag < 2 * Half - 1
    BY <1>3, HalfType
  <2> QED
    BY <2>1, <1>1, <1>t, Moves DEF Lag, Ahead
<1>10. \A h \in G : At(h, "added")' => Minus(wait', ticket'[h]) \in 1..MaxLag
  <2>1. Minus(wait', ticket'[g]) = 1
    <3>1. Minus(wait, wait) = 0 /\ 0 < 2 * Half - 1
      BY <1>t, Moves, HalfType
    <3> QED
      BY <3>1, <1>1, <1>t, Moves
  <2>2. ASSUME NEW h \in G, h # g, pc[h] = "added" PROVE Minus(wait', ticket[h]) \in 1..MaxLag
    <3>1. Minus(wait, ticket[h]) \in 1..MaxLag /\ Minus(wait, ticket[h]) < MaxLag
      BY <2>2, <1>1, <1>t DEF Ticketing, At
    <3>2. ticket[h] \in Ticket /\ Minus(wait, ticket[h]) < 2 * Half - 1
      BY <3>1, <1>t, HalfType DEF Types
    <3>3. Minus(wait', ticket[h]) = Minus(wait, ticket[h]) + 1
      BY <3>2, <1>1, <1>t, Moves
    <3> QED
      BY <3>1, <3>3, HalfType
  <2>3. 1 \in 1..MaxLag
    BY HalfType
  <2> QED
    BY <2>1, <2>2, <2>3, <1>1 DEF At
<1>11. \A h \in G : At(h, "parked")' /\ ~Handed(h)' => Waiting(h)'
  BY <1>1, <1>4, <1>7, <1>t DEF Ticketing, At
<1>12. \A h \in Waiters' : Minus(ticket'[h], notify') < Lag'
  <2>1. \A h \in Waiters : Ahead(ticket[h]) < Lag /\ Ahead(ticket[h]) \in Nat
    BY <1>8, <1>t, AheadType DEF Ticketing, Types
  <2>2. \A h \in Waiters : Minus(ticket'[h], notify') = Ahead(ticket[h])
    BY <1>1, <1>8 DEF Ahead
  <2> QED
    BY <2>1, <2>2, <1>3, <1>6, <1>8, <1>9
<1>13. \A h, k \in Waiters' : ticket'[h] = ticket'[k] => h = k
  <2>1. \A h \in Waiters : ticket[h] # wait
    <3>1. \A h \in Waiters : Ahead(ticket[h]) < Lag
      BY <1>t DEF Ticketing
    <3> QED
      BY <3>1, <1>3 DEF Lag
  <2> QED
    BY <2>1, <1>1, <1>8, <1>t DEF Ticketing
<1>14. \A k \in 0..(Lag' - 1) : \E h \in Waiters' : Minus(ticket'[h], notify') = k
  <2>1. ASSUME NEW k \in 0..(Lag - 1) PROVE \E h \in Waiters' : Minus(ticket'[h], notify') = k
    <3>1. PICK h \in Waiters : Ahead(ticket[h]) = k
      BY <1>t DEF Ticketing
    <3> QED
      BY <3>1, <1>1, <1>8 DEF Ahead
  <2>2. \A k \in 0..(Lag' - 1) : k \in 0..(Lag - 1) \/ k = Lag
    BY <1>3, <1>9
  <2> QED
    BY <2>1, <2>2, <1>6, <1>8
<1>15. Ticketing'
  BY <1>10, <1>11, <1>12, <1>13, <1>14 DEF Ticketing, Ahead
<1> QED
  BY <1>1, <1>2, <1>8, <1>9, <1>15

(* A step that notifies the tickets before s.                              *)
Passed(s) ==
  /\ s \in Ticket /\ notify' = s /\ Ahead(s) <= Lag
  /\ UNCHANGED <<wait, ticket>>
  /\ \A h \in G : (pc'[h] = "added" <=> pc[h] = "added") /\ (pc'[h] = "parked" <=> pc[h] = "parked")
  /\ \A h \in G : Handed(h)' <=> Handed(h) \/ (pc[h] = "parked" /\ Ahead(ticket[h]) < Ahead(s))

LEMMA PassedKeeps ==
  ASSUME State, Types', NEW s, Passed(s)
  PROVE  /\ Ticketing'
         /\ Waiters' = {h \in Waiters : Ahead(ticket[h]) >= Ahead(s)}
         /\ Lag' = Lag - Ahead(s)
         /\ \A x \in Ticket : Ahead(x) >= Ahead(s) => Ahead(x)' = Ahead(x) - Ahead(s)
<1>t. /\ Types /\ Parking /\ Ticketing
      /\ wait \in Ticket /\ notify \in Ticket /\ \A h \in G : ticket[h] \in Ticket
  BY DEF State, ListInv, Types
<1>s. s \in Ticket /\ notify' = s /\ wait' = wait /\ ticket' = ticket
  BY DEF Passed
<1> DEFINE a == Ahead(s)
<1>1. a \in Nat /\ Lag \in Nat /\ a <= Lag /\ Lag <= Half
  BY <1>s, <1>t, AheadType, LagBound DEF Passed
<1>2. \A x \in Ticket : Ahead(x) \in Nat
  BY <1>t, AheadType
<1>3. \A x \in Ticket : Minus(x, s) = IF Ahead(x) >= a THEN Ahead(x) - a
                                                        ELSE Ahead(x) - a + 2 * Half
  BY <1>s, <1>t, Moves DEF Ahead
<1> HIDE DEF a
<1>4. Lag' = Lag - a
  BY <1>1, <1>3, <1>s, <1>t DEF Lag, Ahead
<1>5. ASSUME NEW h \in G, Waiting(h)
      PROVE  /\ Ahead(ticket[h]) < Lag
             /\ Waiting(h)' <=> Ahead(ticket[h]) >= a
  <2>1. pc[h] \in {"added", "parked"} /\ ~Handed(h) /\ Ahead(ticket[h]) < Half
    BY <1>5, <1>t, WaitingIs
  <2>2. Ahead(ticket[h]) < Lag /\ Ahead(ticket[h]) \in Nat
    BY <1>5, <1>t, <1>2 DEF Ticketing, Waiters
  <2>3. Ahead(ticket[h]) >= a => Minus(ticket[h], s) < Half
    BY <2>1, <2>2, <1>1, <1>3, <1>t, HalfType
  <2>4. ~(Ahead(ticket[h]) >= a) => ~(Minus(ticket[h], s) < Half)
    BY <2>1, <2>2, <1>1, <1>3, <1>t, HalfType
  <2>5. pc'[h] \in {"added", "parked"}
    BY <2>1 DEF Passed
  <2>6. Ahead(ticket[h]) >= a => ~Handed(h)'
    BY <2>1, <2>2, <1>1 DEF Passed, a
  <2> QED
    BY <2>2, <2>3, <2>4, <2>5, <2>6, <1>s, WaitingNext
<1>6. ASSUME NEW h \in G, ~Waiting(h) PROVE ~Waiting(h)'
  <2>1. CASE pc[h] = "added"
    <3>1. Ahead(ticket[h]) >= Lag + Half
      BY <2>1, <1>6, LateComers
    <3>2. ~(Minus(ticket[h], s) < Half)
      BY <3>1, <1>1, <1>2, <1>3, <1>t, HalfType
    <3> QED
      BY <3>2, <1>s, WaitingNext
  <2>2. CASE pc[h] = "parked"
    <3>1. Handed(h)
      BY <2>2, <1>6, <1>t DEF Ticketing, At
    <3> QED
      BY <3>1, WaitingNext DEF Passed
  <2>3. CASE pc[h] \notin {"added", "parked"}
    BY <2>3, WaitingNext DEF Passed
  <2> QED
    BY <2>1, <2>2, <2>3
<1>7. Waiters' = {h \in Waiters : Ahead(ticket[h]) >= a}
  BY <1>5, <1>6 DEF Waiters
<1>8. \A x \in Ticket : Ahead(x) >= a => Ahead(x)' = Ahead(x) - a
  BY <1>3, <1>s DEF Ahead
<1>9. \A h \in G : At(h, "added")' => Minus(wait', ticket'[h]) \in 1..MaxLag
  BY <1>s, <1>t DEF Passed, Ticketing, At
<1>10. \A h \in G : At(h, "parked")' /\ ~Handed(h)' => Waiting(h)'
  <2>1. ASSUME NEW h \in G, pc[h] = "parked", ~Handed(h)' PROVE Waiting(h)'
    <3>1. ~Handed(h) /\ ~(Ahead(ticket[h]) < a)
      BY <2>1 DEF Passed, a
    <3>2. Waiting(h)
      BY <3>1, <2>1, <1>t DEF Ticketing, At
    <3>3. Ahead(ticket[h]) \in Nat
      BY <1>2, <1>t
    <3> QED
      BY <3>1, <3>2, <3>3, <1>1, <1>5
  <2> QED
    BY <2>1 DEF Passed, At
<1>11. \A h \in Waiters' : h \in G /\ h \in Waiters /\ Ahead(ticket[h]) >= a
                          /\ Minus(ticket'[h], notify') = Ahead(ticket[h]) - a
                          /\ Ahead(ticket[h]) \in Nat /\ Ahead(ticket[h]) < Lag
  BY <1>2, <1>3, <1>7, <1>s, <1>t DEF Waiters, Ticketing
<1>12. \A h \in Waiters' : Minus(ticket'[h], notify') < Lag'
  BY <1>1, <1>4, <1>11
<1>13. \A h, k \in Waiters' : ticket'[h] = ticket'[k] => h = k
  BY <1>11, <1>s, <1>t DEF Ticketing
<1>14. ASSUME NEW k \in 0..(Lag' - 1)
       PROVE  \E h \in Waiters' : Minus(ticket'[h], notify') = k
  <2>1. k + a \in 0..(Lag - 1) /\ k \in Nat
    BY <1>1, <1>4
  <2>2. PICK h \in Waiters : Ahead(ticket[h]) = k + a
    BY <2>1, <1>t DEF Ticketing
  <2>3. h \in Waiters'
    BY <2>1, <2>2, <1>1, <1>7
  <2> QED
    BY <2>1, <2>2, <2>3, <1>1, <1>11
<1>15. Ticketing'
  BY <1>9, <1>10, <1>12, <1>13, <1>14 DEF Ticketing, Ahead
<1> QED
  BY <1>4, <1>7, <1>8, <1>15 DEF a

LEMMA AllStorePasses ==
  ASSUME State, Types', NEW g \in G, AllStore(g)
  PROVE  Passed(seen[g])
<1>t. Types /\ Parking /\ Ticketing /\ Locking /\ \A h \in G : seen[h] \in Ticket
  BY DEF State, ListInv, Types
<1>1. /\ pc[g] = "allstore" /\ notify' = seen[g] /\ UNCHANGED <<wait, ticket, took>>
      /\ \A h \in G : pc'[h] = IF h = g THEN (IF took[g] = <<>> THEN "idle" ELSE "ready") ELSE pc[h]
  BY <1>t, Steps DEF AllStore, At
<1>2. /\ list = <<>> /\ Ahead(seen[g]) <= Lag /\ lock = g
      /\ \A h \in ToSet(took[g]) : Ahead(ticket[h]) < Ahead(seen[g])
  BY <1>1, <1>t DEF Locking, At
<1>3. \A h \in G : h \in ToSet(took[g]) => pc[h] = "parked" /\ took[g] # <<>>
  BY <1>t, EmptyList DEF Parking, At
<1>4. ASSUME NEW h \in G PROVE Handed(h)' <=> Handed(h) \/ h \in ToSet(took[g])
  BY <1>1, <1>3, <1>t, HandedIs, HandedNext
<1>5. ASSUME NEW h \in G, pc[h] = "parked", ~Handed(h) PROVE h \in ToSet(took[g])
  <2>1. h \notin ToSet(list)
    BY <1>2, EmptyList
  <2>2. PICK k \in G : h \in ToSet(took[k])
    BY <1>5, <2>1, <1>t DEF Parking, At
  <2>3. took[k] # <<>> /\ pc[k] # "ready"
    BY <2>2, <1>5, <1>t, EmptyList, HandedIs
  <2>4. pc[k] = "allstore"
    BY <2>3, <1>t DEF Parking
  <2>5. k = g
    BY <2>4, <1>2, <1>t DEF Locking
  <2> QED
    BY <2>2, <2>5
<1>6. \A h \in G : Handed(h)' <=> Handed(h) \/ (pc[h] = "parked" /\ Ahead(ticket[h]) < Ahead(seen[g]))
  BY <1>2, <1>3, <1>4, <1>5
<1>7. \A h \in G : (pc'[h] = "added" <=> pc[h] = "added") /\ (pc'[h] = "parked" <=> pc[h] = "parked")
  BY <1>1
<1> QED
  BY <1>1, <1>2, <1>6, <1>7, <1>t DEF Passed

(* The ticket that notify one moves past is somebody's.                    *)
LEMMA NextWaiter ==
  ASSUME State, wait # notify
  PROVE  /\ Ahead(Plus(notify, 1)) = 1 /\ Plus(notify, 1) \in Ticket /\ Lag \in Nat \ {0}
         /\ \E n \in Waiters : /\ ticket[n] = notify /\ Ahead(ticket[n]) = 0
                               /\ \A h \in Waiters : ticket[h] = notify => h = n
<1>t. /\ Types /\ Ticketing /\ wait \in Ticket /\ notify \in Ticket
      /\ \A h \in G : ticket[h] \in Ticket
  BY DEF State, ListInv, Types
<1>1. Lag \in Nat \ {0}
  BY <1>t, AheadType DEF Lag
<1>2. Minus(notify, notify) = 0 /\ 0 < 2 * Half - 1
  BY <1>t, Moves, HalfType
<1>3. Ahead(Plus(notify, 1)) = 1 /\ Plus(notify, 1) \in Ticket
  BY <1>2, <1>t, Moves, NextTicket DEF Ahead
<1>4. PICK n \in Waiters : Ahead(ticket[n]) = 0
  <2>1. 0 \in 0..(Lag - 1)
    BY <1>1
  <2> QED
    BY <2>1, <1>t DEF Ticketing
<1>5. n \in G /\ ticket[n] = notify
  BY <1>4, <1>t, AheadType DEF Waiters
<1> QED
  BY <1>1, <1>3, <1>4, <1>5, <1>t DEF Ticketing

LEMMA OneStorePasses ==
  ASSUME State, Types', NEW g \in G, OneStore(g)
  PROVE  Passed(Plus(notify, 1)) /\ wait # notify
<1>t. /\ Types /\ Parking /\ Ticketing /\ Locking /\ wait \in Ticket /\ notify \in Ticket
      /\ \A h \in G : ticket[h] \in Ticket
  BY DEF State, ListInv, Types
<1>1. pc[g] = "onestore" /\ notify' = Plus(notify, 1) /\ UNCHANGED <<wait, ticket>>
  BY DEF OneStore, At
<1>2. wait # notify /\ lock = g
  BY <1>1, <1>t DEF Locking, At
<1>3. Ahead(Plus(notify, 1)) = 1 /\ Plus(notify, 1) \in Ticket /\ Lag \in Nat \ {0}
  BY <1>2, NextWaiter
<1>4. \A h \in G : Ahead(ticket[h]) < 1 <=> ticket[h] = notify
  BY <1>t, AheadType
<1>5. ASSUME NEW h \in G, pc[h] = "parked", ~Handed(h) PROVE h \in ToSet(list)
  <2>1. ASSUME NEW k \in G, h \in ToSet(took[k]) PROVE FALSE
    <3>1. took[k] # <<>> /\ pc[k] # "ready"
      BY <2>1, <1>5, <1>t, EmptyList, HandedIs
    <3>2. pc[k] = "allstore"
      BY <3>1, <1>t DEF Parking
    <3>3. k = g
      BY <3>2, <1>2, <1>t DEF Locking
    <3> QED
      BY <3>2, <3>3, <1>1
  <2> QED
    BY <2>1, <1>5, <1>t DEF Parking, At
<1>6. CASE /\ \A k \in DOMAIN list : ticket[list[k]] # notify
           /\ Goto(g, "idle") /\ UNCHANGED <<list, took>>
  <2>1. \A h \in G : pc'[h] = IF h = g THEN "idle" ELSE pc[h]
    BY <1>6, <1>t, Steps
  <2>2. \A h : Handed(h)' <=> Handed(h)
    BY <2>1, <1>1, <1>6, <1>t, HandedIs, HandedNext
  <2>3. \A h \in G : pc[h] = "parked" /\ ~Handed(h) => ticket[h] # notify
    BY <1>5, <1>6 DEF ToSet
  <2>4. \A h \in G : Handed(h)' <=> Handed(h) \/ (pc[h] = "parked" /\ Ahead(ticket[h]) < 1)
    BY <2>2, <2>3, <1>4
  <2>5. \A h \in G : (pc'[h] = "added" <=> pc[h] = "added") /\ (pc'[h] = "parked" <=> pc[h] = "parked")
    BY <2>1, <1>1
  <2>6. Ahead(Plus(notify, 1)) <= Lag
    BY <1>3
  <2> QED
    BY <2>4, <2>5, <2>6, <1>1, <1>2, <1>3 DEF Passed
<1>7. ASSUME NEW k \in DOMAIN list, ticket[list[k]] = notify,
             took' = [took EXCEPT ![g] = <<list[k]>>], Goto(g, "ready")
      PROVE  Passed(Plus(notify, 1))
  <2>0. PICK x \in G : x = list[k] /\ x \in ToSet(list)
    <3>1. list \in Seq(G) /\ IsInjective(list)
      BY <1>t DEF Types, Parking
    <3> QED
      BY <3>1, Unlinked
  <2>1. \A h \in G : pc'[h] = IF h = g THEN "ready" ELSE pc[h]
    BY <1>7, <1>t, Steps
  <2>2. \A h \in G : took'[h] = IF h = g THEN <<x>> ELSE took[h]
    BY <1>7, <2>0, <1>t DEF Types
  <2>3. \A h \in G : Handed(h)' <=> Handed(h) \/ h = x
    BY <2>0, <2>1, <2>2, <1>1, <1>t, HandedIs, HandedNext, OneInList
  <2>4. pc[x] = "parked" /\ ~Handed(x)
    BY <2>0, <1>t, HandedIs DEF Parking, At
  <2>5. \A h \in G : pc[h] = "parked" /\ ~Handed(h) => h \in Waiters
    BY <1>t, WaitingIs DEF Ticketing, At
  <2>6. \A h \in G : pc[h] = "parked" /\ ~Handed(h) /\ ticket[h] = notify => h = x
    BY <2>0, <2>4, <2>5, <1>7, <1>t DEF Ticketing
  <2>7. \A h \in G : Handed(h)' <=> Handed(h) \/ (pc[h] = "parked" /\ Ahead(ticket[h]) < 1)
    BY <2>0, <2>3, <2>4, <2>6, <1>4, <1>7
  <2>8. \A h \in G : (pc'[h] = "added" <=> pc[h] = "added") /\ (pc'[h] = "parked" <=> pc[h] = "parked")
    BY <2>1, <1>1
  <2>9. Ahead(Plus(notify, 1)) <= Lag
    BY <1>3
  <2> QED
    BY <2>7, <2>8, <2>9, <1>1, <1>3 DEF Passed
<1> QED
  BY <1>2, <1>6, <1>7 DEF OneStore

----------------------------------------------------------------------------
(* NotifyList: every step.                                                 *)

(* What a step of g does to the waiters.                                   *)
Joined(g) ==
  /\ g \notin Waiters /\ Waiters' = Waiters \cup {g}
  /\ Lag' = Lag + 1 /\ notify' = notify /\ ticket'[g] = wait
  /\ \A h \in Waiters : ticket'[h] = ticket[h]

LEMMA Effects ==
  ASSUME State, Types', NEW g \in G, ListStep(g)
  PROVE  \/ NotifyListAdd(g) /\ Joined(g)
         \/ ~NotifyListAdd(g) /\ ~AllStore(g) /\ ~OneStore(g) /\ Stayed
         \/ AllStore(g) /\ Passed(seen[g])
         \/ OneStore(g) /\ Passed(Plus(notify, 1)) /\ wait # notify
<1>t. Types
  BY DEF State
<1>1. CASE NotifyListAdd(g)
  BY <1>1, Joins DEF Joined
<1>2. CASE AllStore(g)
  BY <1>2, AllStorePasses
<1>3. CASE OneStore(g)
  BY <1>3, OneStorePasses
<1>4. CASE ~NotifyListAdd(g) /\ ~AllStore(g) /\ ~OneStore(g)
  <2>1. CASE NotifyListWait(g)
    BY <2>1, WaitStays, <1>4
  <2>2. CASE Ready(g)
    BY <2>2, ReadyStays, <1>4
  <2>3. pc[g] \notin {"added", "parked"} => g \notin Waiters
    BY <1>t, WaitingIs
  <2>4. CASE CallNotify(g, "one") \/ CallNotify(g, "all")
    BY <2>4, <2>3, <1>4, Elsewhere DEF CallNotify, At
  <2>5. CASE WaitReturn(g)
    <3>1. \A h \in G : h # g => ticket'[h] = ticket[h]
      BY <2>5, <1>t DEF WaitReturn, Types
    <3> QED
      BY <3>1, <2>5, <2>3, <1>4, Elsewhere DEF WaitReturn, At
  <2>6. CASE LoadWait(g)
    BY <2>6, <2>3, <1>4, Elsewhere DEF LoadWait, At
  <2>7. CASE LoadNotify(g)
    BY <2>7, <2>3, <1>4, Elsewhere DEF LoadNotify, At
  <2>8. CASE AllPull(g)
    <3>1. \A h \in G : h # g => took'[h] = took[h]
      BY <2>8, <1>t DEF AllPull, Types
    <3> QED
      BY <3>1, <2>8, <2>3, <1>4, Elsewhere DEF AllPull, At
  <2>9. CASE OneCheck(g)
    BY <2>9, <2>3, <1>4, Elsewhere DEF OneCheck, At
  <2> QED
    BY <2>1, <2>2, <2>4, <2>5, <2>6, <2>7, <2>8, <2>9, <1>4 DEF ListStep, Step
<1> QED
  BY <1>1, <1>2, <1>3, <1>4

----------------------------------------------------------------------------
(* NotifyList: what the holder of l.lock relies on.                        *)

LEMMA TookIsParked ==
  ASSUME Types, Parking, NEW h \in G, NEW x \in ToSet(took[h])
  PROVE  x \in G /\ pc[x] = "parked"
<1>1. took[h] \in Seq(G)
  BY DEF Types
<1>2. x \in G
  BY <1>1 DEF ToSet
<1> QED
  BY <1>2 DEF Parking, At

(* A step that leaves the lock and its holder alone.                       *)
LEMMA HolderKeeps ==
  ASSUME State, Types', UNCHANGED <<lock, notify>>, Lag' \in {Lag, Lag + 1},
         list' = list \/ lock = None,
         \A h \in G : pc[h] \in {"onestore", "allstore"} \/ pc'[h] \in {"onestore", "allstore"} =>
                        pc'[h] = pc[h] /\ took'[h] = took[h] /\ seen'[h] = seen[h],
         \A h \in G : pc[h] = "parked" => ticket'[h] = ticket[h]
  PROVE  Locking'
<1>t. /\ Types /\ Parking /\ Locking /\ wait \in Ticket /\ notify \in Ticket
      /\ \A h \in G : seen[h] \in Ticket
  BY DEF State, ListInv, Types
<1>l. Lag \in Nat /\ (Lag = 0 <=> wait = notify)
  BY <1>t, AheadType DEF Lag
<1>1. \A h \in G : lock' = h <=> pc'[h] \in {"onestore", "allstore"}
  BY <1>t DEF Locking
<1>2. ASSUME NEW h \in G, pc'[h] = "onestore" PROVE wait' # notify'
  <2>1. wait # notify
    BY <1>2, <1>t DEF Locking, At
  <2>2. Lag' # 0
    BY <2>1, <1>l
  <2>3. wait' \in Ticket /\ notify' \in Ticket
    BY DEF Types
  <2>4. Lag' = Minus(wait', notify')
    BY DEF Lag, Ahead
  <2>5. Minus(wait', notify') = 0 <=> wait' = notify'
    BY <2>3, Moves
  <2> QED
    BY <2>2, <2>4, <2>5
<1>3. ASSUME NEW h \in G, pc'[h] = "allstore"
      PROVE  /\ list' = <<>>
             /\ Minus(seen'[h], notify') <= Lag'
             /\ \A x \in ToSet(took'[h]) : Minus(ticket'[x], notify') < Minus(seen'[h], notify')
  <2>1. pc[h] = "allstore" /\ took'[h] = took[h] /\ seen'[h] = seen[h]
    BY <1>3
  <2>2. /\ list = <<>> /\ lock = h /\ Ahead(seen[h]) <= Lag
        /\ \A x \in ToSet(took[h]) : Ahead(ticket[x]) < Ahead(seen[h])
    BY <2>1, <1>t DEF Locking, At
  <2>3. list' = <<>>
    BY <2>2, NotifyListAssumption
  <2>4. Ahead(seen[h]) \in Nat
    BY <1>t, AheadType
  <2>5. Ahead(seen[h]) <= Lag'
    BY <2>2, <2>4, <1>l
  <2>6. \A x \in ToSet(took[h]) : ticket'[x] = ticket[x]
    BY <1>t, TookIsParked
  <2> QED
    BY <2>1, <2>2, <2>3, <2>5, <2>6 DEF Ahead
<1>4. \A h \in G : (At(h, "onestore")' <=> pc'[h] = "onestore") /\ (At(h, "allstore")' <=> pc'[h] = "allstore")
  BY DEF At
<1> QED
  BY <1>1, <1>2, <1>3, <1>4 DEF Locking, Ahead

LEMMA LockingKept ==
  ASSUME State, Types', NEW g \in G, ListStep(g)
  PROVE  Locking'
<1>t. /\ Types /\ Parking /\ Ticketing /\ Locking
      /\ wait \in Ticket /\ notify \in Ticket /\ \A h \in G : ticket[h] \in Ticket /\ seen[h] \in Ticket
  BY DEF State, ListInv, Types
<1>1. CASE NotifyListAdd(g)
  <2>1. Lag' \in {Lag, Lag + 1}
    BY <1>1, Joins
  <2>2. \A h \in G : pc'[h] = IF h = g THEN "added" ELSE pc[h]
    BY <1>1, <1>t, Steps DEF NotifyListAdd
  <2>3. \A h \in G : h # g => ticket'[h] = ticket[h]
    BY <1>1, <1>t DEF NotifyListAdd, Types
  <2> QED
    BY <1>1, <2>1, <2>2, <2>3, HolderKeeps DEF NotifyListAdd, At
<1>2. ASSUME ~NotifyListAdd(g), ~AllStore(g), ~OneStore(g), UNCHANGED lock, NEW l, Goto(g, l),
             list' = list \/ lock = None, l \notin {"onestore", "allstore"}, pc[g] \notin {"onestore", "allstore"},
             \A h \in G : h # g => took'[h] = took[h] /\ seen'[h] = seen[h],
             \A h \in G : pc[h] = "parked" => ticket'[h] = ticket[h]
      PROVE  Locking'
  <2>1. Stayed
    BY <1>2, Effects
  <2>2. Lag' \in {Lag, Lag + 1} /\ notify' = notify
    BY <2>1, StayedKeeps DEF Stayed
  <2>3. \A h \in G : pc'[h] = IF h = g THEN l ELSE pc[h]
    BY <1>2, <1>t, Steps
  <2> QED
    BY <1>2, <2>2, <2>3, HolderKeeps
<1>3. CASE CallNotify(g, "one") \/ CallNotify(g, "all")
  <2>1. PICK l \in {"one", "all"} : Goto(g, l)
    BY <1>3 DEF CallNotify
  <2>2. /\ pc[g] = "idle" /\ ~AllStore(g) /\ ~OneStore(g)
        /\ UNCHANGED <<lock, took, seen, list, ticket>>
    BY <1>3 DEF CallNotify, AllStore, OneStore, At
  <2>3. ~NotifyListAdd(g)
    BY <2>1, <2>2, <1>t, Steps DEF NotifyListAdd
  <2> QED
    BY <2>1, <2>2, <2>3, <1>2
<1>4. CASE NotifyListWait(g)
  <2>1. /\ pc[g] = "added" /\ ~NotifyListAdd(g) /\ ~AllStore(g) /\ ~OneStore(g)
        /\ UNCHANGED <<lock, took, seen>> /\ lock = None
    BY <1>4 DEF NotifyListWait, NotifyListAdd, AllStore, OneStore, At
  <2>2. \A h \in G : pc[h] = "parked" => ticket'[h] = ticket[h]
    BY <2>1, <1>4, <1>t DEF NotifyListWait, Types
  <2>3. \E l \in {"idle", "parked"} : Goto(g, l)
    BY <1>4 DEF NotifyListWait
  <2> QED
    BY <2>1, <2>2, <2>3, <1>2
<1>5. CASE WaitReturn(g)
  <2>1. /\ pc[g] = "woken" /\ ~NotifyListAdd(g) /\ ~AllStore(g) /\ ~OneStore(g)
        /\ UNCHANGED <<lock, took, seen, list>> /\ Goto(g, "idle")
    BY <1>5 DEF WaitReturn, NotifyListAdd, AllStore, OneStore, At
  <2>2. \A h \in G : pc[h] = "parked" => ticket'[h] = ticket[h]
    BY <2>1, <1>5, <1>t DEF WaitReturn, Types
  <2> QED
    BY <2>1, <2>2, <1>2
<1>6. CASE LoadWait(g)
  <2>1. /\ pc[g] \in {"one", "all"} /\ ~NotifyListAdd(g) /\ ~AllStore(g) /\ ~OneStore(g)
        /\ UNCHANGED <<lock, took, list, ticket>> /\ \E l \in {"one2", "all2"} : Goto(g, l)
    BY <1>6 DEF LoadWait, NotifyListAdd, AllStore, OneStore, At
  <2>2. \A h \in G : h # g => seen'[h] = seen[h]
    BY <1>6, <1>t DEF LoadWait, Types
  <2> QED
    BY <2>1, <2>2, <1>2
<1>7. CASE LoadNotify(g)
  <2>1. /\ pc[g] \in {"one2", "all2"} /\ ~NotifyListAdd(g) /\ ~AllStore(g) /\ ~OneStore(g)
        /\ UNCHANGED <<lock, took, list, ticket>> /\ \E l \in {"idle", "onelock", "alllock"} : Goto(g, l)
    BY <1>7 DEF LoadNotify, NotifyListAdd, AllStore, OneStore, At
  <2>2. \A h \in G : h # g => seen'[h] = seen[h]
    BY <1>7, <1>t DEF LoadNotify, Forget, Types
  <2> QED
    BY <2>1, <2>2, <1>2
<1>8. CASE Ready(g)
  <2>1. Stayed
    BY <1>8, ReadyStays
  <2>2. Lag' \in {Lag, Lag + 1} /\ notify' = notify
    BY <2>1, StayedKeeps DEF Stayed
  <2>3. pc[g] = "ready" /\ UNCHANGED <<lock, list, ticket, seen>>
    BY <1>8 DEF Ready, At
  <2>4. PICK x \in G : /\ pc[x] = "parked" /\ x # g
                       /\ \A h \in G : h \notin {g, x} => pc'[h] = pc[h]
                       /\ pc'[x] = "woken" /\ pc'[g] \in {"idle", "ready"}
    BY <1>8, <1>t, ReadyTypes DEF At
  <2>5. \A h \in G : h # g => took'[h] = took[h]
    BY <1>8, <1>t, ReadyTypes
  <2> QED
    BY <2>2, <2>3, <2>4, <2>5, HolderKeeps
<1>9. CASE AllPull(g)
  <2>1. Stayed /\ pc[g] = "alllock"
    BY <1>9, Effects DEF AllPull, NotifyListAdd, AllStore, OneStore, At
  <2>2. Lag' = Lag /\ notify' = notify /\ \A x : Ahead(x)' = Ahead(x)
    BY <2>1, StayedKeeps DEF Stayed
  <2>3. /\ \A h \in G : pc'[h] = IF h = g THEN "allstore" ELSE pc[h]
        /\ seen'[g] = wait /\ took'[g] = list /\ list' = <<>> /\ lock = None /\ lock' = g
        /\ ticket' = ticket /\ wait' = wait
    BY <1>9, <1>t, Steps DEF AllPull, Types
  <2>4. \A h \in G : pc[h] \notin {"onestore", "allstore"}
    BY <2>3, <1>t, NotifyListAssumption DEF Locking
  <2>5. ASSUME NEW x \in ToSet(list) PROVE Ahead(ticket[x]) < Lag
    <3>1. x \in G /\ pc[x] = "parked"
      BY <1>t DEF ToSet, Types, Parking, At
    <3>2. \A h \in G : x \notin ToSet(took[h])
      BY <1>t DEF Parking
    <3>3. x \in Waiters
      BY <3>1, <3>2, <1>t, HandedIs, WaitingIs DEF Ticketing, At
    <3> QED
      BY <3>3, <1>t DEF Ticketing
  <2>6. Ahead(wait) = Lag /\ Lag \in Nat
    BY <1>t, AheadType DEF Lag
  <2>7. \A h \in G : lock' = h <=> pc'[h] \in {"onestore", "allstore"}
    BY <2>3, <2>4
  <2>8. \A h \in G : At(h, "onestore")' => wait' # notify'
    BY <2>3, <2>4 DEF At
  <2>9. \A h \in G : At(h, "allstore")' => h = g
    BY <2>3, <2>4 DEF At
  <2>10. /\ list' = <<>> /\ Minus(seen'[g], notify') <= Lag'
         /\ \A x \in ToSet(took'[g]) : Minus(ticket'[x], notify') < Minus(seen'[g], notify')
    BY <2>2, <2>3, <2>5, <2>6 DEF Ahead
  <2> QED
    BY <2>7, <2>8, <2>9, <2>10 DEF Locking, Ahead
<1>10. CASE OneCheck(g)
  <2>1. /\ pc[g] = "onelock" /\ lock = None /\ ~NotifyListAdd(g) /\ ~AllStore(g) /\ ~OneStore(g)
        /\ UNCHANGED <<took, seen, list, ticket, wait, notify>>
    BY <1>10 DEF OneCheck, NotifyListAdd, AllStore, OneStore, At
  <2>2. CASE Goto(g, "idle") /\ UNCHANGED lock
    BY <2>1, <2>2, <1>2
  <2>3. CASE notify # wait /\ Goto(g, "onestore") /\ lock' = g
    <3>1. \A h \in G : pc'[h] = IF h = g THEN "onestore" ELSE pc[h]
      BY <2>3, <1>t, Steps
    <3>2. \A h \in G : pc[h] \notin {"onestore", "allstore"}
      BY <2>1, <1>t, NotifyListAssumption DEF Locking
    <3>3. \A h \in G : lock' = h <=> pc'[h] \in {"onestore", "allstore"}
      BY <2>3, <3>1, <3>2
    <3>4. wait' # notify' /\ \A h \in G : ~At(h, "allstore")'
      BY <2>1, <2>3, <3>1, <3>2 DEF At
    <3> QED
      BY <3>3, <3>4 DEF Locking
  <2> QED
    BY <1>10, <2>2, <2>3 DEF OneCheck
<1>11. CASE AllStore(g) \/ OneStore(g)
  <2>1. pc[g] \in {"onestore", "allstore"} /\ lock' = None
    BY <1>11 DEF AllStore, OneStore, At
  <2>2. \E l \in {"idle", "ready"} : Goto(g, l)
    BY <1>11 DEF AllStore, OneStore
  <2>3. \A h \in G : h # g => pc[h] \notin {"onestore", "allstore"}
    BY <2>1, <1>t DEF Locking
  <2>4. \A h \in G : pc'[h] \notin {"onestore", "allstore"}
    BY <2>2, <2>3, <1>t, Steps
  <2> QED
    BY <2>1, <2>4, NotifyListAssumption DEF Locking, At
<1> QED
  BY <1>1, <1>3, <1>4, <1>5, <1>6, <1>7, <1>8, <1>9, <1>10, <1>11 DEF ListStep, Step

----------------------------------------------------------------------------
(* NotifyList: the waiters in the order in which they came.                *)

LEMMA FirstGone ==
  ASSUME NEW q \in Seq(G), NEW a \in 0..Len(q), NEW S,
         \A i \in 1..Len(q) : q[i] \in S <=> i > a
  PROVE  /\ Remaining(q, S) \in Seq(G) /\ Len(Remaining(q, S)) = Len(q) - a
         /\ \A k \in 1..(Len(q) - a) : Remaining(q, S)[k] = q[k + a]
<1> DEFINE I == {i \in DOMAIN q : q[i] \in S}
           Nth(k) == CHOOSE i \in I : Cardinality({j \in I : j <= i}) = k
           r == [k \in 1..Cardinality(I) |-> q[Nth(k)]]
<1>0. /\ DOMAIN q = 1..Len(q) /\ Len(q) \in Nat /\ a \in Nat /\ a <= Len(q)
      /\ \A i \in 1..Len(q) : q[i] \in G
  OBVIOUS
<1>1. I = (a + 1)..Len(q)
  BY <1>0
<1>2. Remaining(q, S) = r
  BY DEF Remaining
<1>3. ASSUME NEW n \in Nat PROVE Cardinality((a + 1)..(a + n)) = n
  <2>1. Cardinality((a + 1)..(a + n)) = IF a + 1 > a + n THEN 0 ELSE (a + n) - (a + 1) + 1
    BY <1>0, FS_Interval
  <2> QED
    BY <2>1, <1>0
<1>4. Cardinality(I) = Len(q) - a
  <2>1. Len(q) - a \in Nat /\ a + (Len(q) - a) = Len(q)
    BY <1>0
  <2> QED
    BY <2>1, <1>1, <1>3
<1> HIDE DEF I
<1>5. ASSUME NEW i \in I PROVE Cardinality({j \in I : j <= i}) = i - a
  <2>1. {j \in I : j <= i} = (a + 1)..(a + (i - a)) /\ i - a \in Nat
    BY <1>0, <1>1
  <2> QED
    BY <2>1, <1>3
<1>6. ASSUME NEW k \in 1..(Len(q) - a) PROVE Nth(k) = k + a /\ r[k] = q[k + a]
  <2>1. k + a \in I
    BY <1>0, <1>1
  <2>2. Cardinality({j \in I : j <= k + a}) = k
    BY <2>1, <1>0, <1>5
  <2>3. Nth(k) \in I /\ Cardinality({j \in I : j <= Nth(k)}) = k
    BY <2>1, <2>2
  <2>4. Nth(k) - a = k
    BY <2>3, <1>5
  <2>5. Nth(k) \in Nat
    BY <2>3, <1>0, <1>1
  <2>6. Nth(k) = k + a
    <3> HIDE DEF Nth
    <3> QED
      BY <2>4, <2>5, <1>0
  <2> QED
    BY <2>6, <1>4
<1>7. r \in Seq(G) /\ Len(r) = Len(q) - a
  <2>1. \A k \in 1..(Len(q) - a) : q[k + a] \in G
    BY <1>0
  <2>2. r = [k \in 1..(Len(q) - a) |-> r[k]]
    BY <1>4
  <2>0. Len(q) - a \in Nat
    BY <1>0
  <2>3. PICK n \in Nat : n = Len(q) - a
    BY <2>0
  <2> HIDE DEF r
  <2>4. r \in [1..n -> G]
    BY <2>1, <2>2, <2>3, <1>6
  <2>5. r \in Seq(G) /\ Len(r) = n
    BY <2>4
  <2> QED
    BY <2>3, <2>5
<1> QED
  BY <1>2, <1>6, <1>7

LEMMA FirstGoneFrom ==
  \A q \in Seq(G) : \A a \in 0..Len(q) : \A S :
    (\A i \in 1..Len(q) : q[i] \in S <=> i > a) =>
      /\ Remaining(q, S) \in Seq(G) /\ Len(Remaining(q, S)) = Len(q) - a
      /\ \A k \in 1..(Len(q) - a) : Remaining(q, S)[k] = q[k + a]
BY FirstGone

LEMMA NewOnes ==
  /\ SetToSeq({}) = <<>>
  /\ \A g \in G : SetToSeq({g}) = <<g>>
<1>1. SetToSeq({}) = <<>>
  <2>1. Cardinality({}) = 0
    BY FS_EmptySet
  <2>2. <<>> \in [1..0 -> {}] /\ IsInjective(<<>>)
    BY EmptyList
  <2>3. \A f \in [1..0 -> {}] : f = <<>>
    OBVIOUS
  <2>4. SetToSeq({}) = CHOOSE f \in [1..0 -> {}] : IsInjective(f)
    BY <2>1 DEF SetToSeq
  <2>5. SetToSeq({}) \in [1..0 -> {}]
    <3> DEFINE F == [1..0 -> {}]
    <3>1. \E f \in F : IsInjective(f)
      BY <2>2
    <3>2. SetToSeq({}) = CHOOSE f \in F : IsInjective(f)
      BY <2>4
    <3> HIDE DEF F
    <3>3. SetToSeq({}) \in F
      BY <3>1, <3>2
    <3> QED
      BY <3>3 DEF F
  <2> QED
    BY <2>3, <2>5
<1>2. ASSUME NEW g \in G PROVE SetToSeq({g}) = <<g>>
  <2>1. Cardinality({g}) = 1
    BY FS_Singleton
  <2>2. <<g>> \in [1..1 -> {g}] /\ IsInjective(<<g>>)
    BY OneInList
  <2>3. \A f \in [1..1 -> {g}] : f = <<g>>
    OBVIOUS
  <2> QED
    BY <2>1, <2>2, <2>3 DEF SetToSeq
<1> QED
  BY <1>1, <1>2

LEMMA OrderIs ==
  ASSUME State, Queueing
  PROVE  /\ order \in Seq(G) /\ Len(order) = Lag /\ Lag \in Nat
         /\ \A k \in 1..Lag : order[k] \in G /\ order[k] \in Waiters /\ Ahead(ticket[order[k]]) = k - 1
         /\ \A h \in Waiters : \E k \in 1..Lag : order[k] = h
<1>t. /\ Types /\ Ticketing /\ Lag \in Nat /\ notify \in Ticket
      /\ \A h \in G : ticket[h] \in Ticket
  BY LagBound DEF State, ListInv, Types
<1>1. ASSUME NEW h \in Waiters PROVE \E k \in 1..Lag : order[k] = h
  <2>1. h \in G /\ ticket[h] \in Ticket /\ Ahead(ticket[h]) \in Nat /\ Ahead(ticket[h]) < Lag
    BY <1>t, AheadType DEF Waiters, Ticketing
  <2>2. PICK k \in 1..Lag : k - 1 = Ahead(ticket[h])
    <3>1. Ahead(ticket[h]) + 1 \in 1..Lag /\ (Ahead(ticket[h]) + 1) - 1 = Ahead(ticket[h])
      BY <2>1, <1>t
    <3> QED
      BY <3>1
  <2>3. order[k] \in Waiters /\ Ahead(ticket[order[k]]) = Ahead(ticket[h]) /\ ticket[order[k]] \in Ticket
    BY <2>2, <1>t DEF Queueing, Waiters
  <2>4. ticket[order[k]] = ticket[h]
    <3>1. Minus(ticket[order[k]], ticket[h]) = 0
      BY <2>1, <2>3, <1>t, Moves DEF Ahead
    <3> QED
      BY <3>1, <2>1, <2>3, Moves
  <2> QED
    BY <2>3, <2>4, <1>t DEF Ticketing
<1> QED
  BY <1>t, <1>1 DEF Queueing, Waiters

LEMMA QueueStays ==
  ASSUME State, Queueing, Stayed, Remember
  PROVE  order' = order /\ Queueing'
<1>1. Waiters' = Waiters /\ Lag' = Lag /\ notify' = notify
  BY StayedKeeps DEF Stayed
<1>2. order' = order
  BY <1>1 DEF Remember
<1>3. \A h \in Waiters : ticket'[h] = ticket[h]
  BY DEF Stayed, Waiters
<1> QED
  BY <1>1, <1>2, <1>3 DEF Queueing, Ahead

LEMMA QueueGrows ==
  ASSUME State, Queueing, NEW g \in G, Joined(g), Remember
  PROVE  order' = Append(order, g) /\ Queueing'
<1>0. /\ g \notin Waiters /\ Waiters' = Waiters \cup {g}
      /\ Lag' = Lag + 1 /\ notify' = notify /\ ticket'[g] = wait
      /\ \A h \in Waiters : ticket'[h] = ticket[h]
  BY DEF Joined
<1>1. /\ order \in Seq(G) /\ Len(order) = Lag /\ Lag \in Nat
      /\ \A k \in 1..Lag : order[k] \in Waiters /\ Ahead(ticket[order[k]]) = k - 1
  BY OrderIs
<1> DEFINE there == Waiters'
<1>2. order' = Remaining(order, there) \o SetToSeq(there \ Waiters)
  BY <1>0 DEF Remember
<1>3. there \ Waiters = {g} /\ \A i \in 1..Len(order) : order[i] \in there <=> i > 0
  BY <1>0, <1>1
<1> HIDE DEF there
<1>4. SetToSeq(there \ Waiters) = <<g>>
  BY <1>3, NewOnes
<1>5. /\ Remaining(order, there) \in Seq(G) /\ Len(Remaining(order, there)) = Len(order)
      /\ \A k \in 1..Len(order) : Remaining(order, there)[k] = order[k]
  <2>1. 0 \in 0..Len(order) /\ order \in Seq(G)
    BY <1>1
  <2>2. /\ Remaining(order, there) \in Seq(G) /\ Len(Remaining(order, there)) = Len(order) - 0
        /\ \A k \in 1..(Len(order) - 0) : Remaining(order, there)[k] = order[k + 0]
    BY <2>1, <1>3, FirstGoneFrom
  <2> QED
    BY <2>2, <1>1
<1>6. Remaining(order, there) = order
  BY <1>1, <1>5, SeqEqual
<1>7. order' = Append(order, g)
  BY <1>1, <1>2, <1>4, <1>6, AppendIsConcat
<1>8. /\ order' \in Seq(G) /\ Len(order') = Lag + 1
      /\ \A k \in 1..Lag : order'[k] = order[k]
      /\ order'[Lag + 1] = g
  BY <1>1, <1>7
<1>9. Minus(ticket'[g], notify') = Lag
  BY <1>0 DEF Lag, Ahead
<1>10. ASSUME NEW k \in 1..Lag' PROVE order'[k] \in Waiters' /\ Minus(ticket'[order'[k]], notify') = k - 1
  <2>1. CASE k \in 1..Lag
    BY <2>1, <1>0, <1>1, <1>8 DEF Ahead
  <2>2. CASE k = Lag + 1
    BY <2>2, <1>0, <1>1, <1>8, <1>9
  <2> QED
    BY <2>1, <2>2, <1>0, <1>1
<1> QED
  BY <1>0, <1>7, <1>8, <1>10 DEF Queueing, Ahead

LEMMA QueueShrinks ==
  ASSUME State, Types', Queueing, NEW s, Passed(s), Remember
  PROVE  /\ Ahead(s) \in 0..Len(order)
         /\ order' \in Seq(G) /\ Len(order') = Len(order) - Ahead(s)
         /\ \A k \in 1..Len(order') : order'[k] = order[k + Ahead(s)]
         /\ Queueing'
<1> DEFINE a == Ahead(s)
<1>t. Types /\ s \in Ticket /\ notify' = s /\ ticket' = ticket /\ \A h \in G : ticket[h] \in Ticket
  BY DEF State, Types, Passed
<1>0. /\ Waiters' = {h \in Waiters : Ahead(ticket[h]) >= a}
      /\ Lag' = Lag - a
      /\ \A x \in Ticket : Ahead(x) >= a => Ahead(x)' = Ahead(x) - a
      /\ a \in Nat /\ a <= Lag
  BY <1>t, PassedKeeps, AheadType DEF Passed
<1>1. /\ order \in Seq(G) /\ Len(order) = Lag /\ Lag \in Nat
      /\ \A k \in 1..Lag : order[k] \in G /\ order[k] \in Waiters /\ Ahead(ticket[order[k]]) = k - 1
  BY OrderIs
<1> DEFINE there == Waiters'
<1>2. order' = IF there = Waiters THEN order ELSE Remaining(order, there) \o SetToSeq(there \ Waiters)
  BY DEF Remember
<1>3. there \subseteq Waiters /\ there \ Waiters = {} /\ \A i \in 1..Len(order) : order[i] \in there <=> i > a
  BY <1>0, <1>1
<1> HIDE DEF there
<1>4. order' \in Seq(G) /\ Len(order') = Len(order) - a /\ \A k \in 1..(Len(order) - a) : order'[k] = order[k + a]
  <2>1. CASE there = Waiters
    <3>1. a = 0
      <4>1. ASSUME a # 0 PROVE FALSE
        <5>1. 1 \in 1..Len(order) /\ ~(1 > a)
          BY <4>1, <1>0, <1>1
        <5> QED
          BY <5>1, <2>1, <1>1, <1>3
      <4> QED
        BY <4>1
    <3> QED
      BY <3>1, <2>1, <1>1, <1>2
  <2>2. CASE there # Waiters
    <3>1. a \in 0..Len(order) /\ order \in Seq(G)
      BY <1>0, <1>1
    <3>2. /\ Remaining(order, there) \in Seq(G) /\ Len(Remaining(order, there)) = Len(order) - a
          /\ \A k \in 1..(Len(order) - a) : Remaining(order, there)[k] = order[k + a]
      BY <3>1, <1>3, FirstGoneFrom
    <3>3. order' = Remaining(order, there)
      BY <2>2, <3>2, <1>2, <1>3, NewOnes, ConcatEmptySeq
    <3> QED
      BY <3>2, <3>3
  <2> QED
    BY <2>1, <2>2
<1>5. ASSUME NEW k \in 1..Lag' PROVE order'[k] \in Waiters' /\ Minus(ticket'[order'[k]], notify') = k - 1
  <2>1. k \in 1..(Len(order) - a) /\ k + a \in 1..Len(order) /\ k + a > a /\ order'[k] = order[k + a]
    BY <1>0, <1>1, <1>4
  <2>2. order[k + a] \in there /\ order[k + a] \in G /\ Ahead(ticket[order[k + a]]) = (k + a) - 1
    BY <2>1, <1>1, <1>3
  <2>3. Ahead(ticket[order[k + a]]) >= a
    BY <2>1, <2>2, <1>0
  <2>4. Minus(ticket[order[k + a]], notify') = Ahead(ticket[order[k + a]]) - a
    BY <2>2, <2>3, <1>0, <1>t DEF Ahead
  <2> QED
    BY <2>1, <2>2, <2>4, <1>0, <1>t DEF there
<1>6. Queueing'
  BY <1>0, <1>1, <1>4, <1>5 DEF Queueing, Ahead
<1>7. a \in 0..Len(order)
  BY <1>0, <1>1
<1> QED
  BY <1>4, <1>6, <1>7

----------------------------------------------------------------------------
(* NotifyList: what a notify call knows of the waiters of its time.        *)

Knows == {"one2", "all2", "allstore"}

LEMMA Remembered ==
  ASSUME Remember, before \in [G -> SUBSET G]
  PROVE  /\ before' \in [G -> SUBSET G]
         /\ \A x \in G : before'[x] \subseteq Waiters'
         /\ \A x \in G : pc[x] # "idle" => before'[x] \subseteq before[x]
<1> DEFINE here == Waiters
           there == Waiters'
           b == [x \in G |-> IF pc'[x] \notin NotifyPC THEN {}
                             ELSE (IF At(x, "idle") THEN here ELSE before[x]) \cap there]
<1>1. before' = b
  BY DEF Remember
<1>2. here \subseteq G /\ there \subseteq G
  BY DEF Waiters
<1> HIDE DEF here, there
<1>3. \A x \in G : b[x] \subseteq there /\ b[x] \subseteq G /\ (pc[x] # "idle" => b[x] \subseteq before[x])
  BY <1>2 DEF At
<1>4. b \in [G -> SUBSET G]
  BY <1>3
<1> HIDE DEF b
<1> QED
  BY <1>1, <1>3, <1>4 DEF there

LEMMA SeeingKept ==
  ASSUME State, Types', Ticketing', Seeing, before \in [G -> SUBSET G], Remember,
         Stayed \/ (\E g \in G : Joined(g)) \/ (\E s : Passed(s)),
         \A x \in G : pc'[x] \in Knows => \/ pc[x] \in Knows /\ seen'[x] = seen[x]
                                          \/ seen'[x] = wait /\ Stayed
  PROVE  Seeing'
<1>t. /\ Types /\ wait \in Ticket /\ notify \in Ticket
      /\ \A x \in G : ticket[x] \in Ticket /\ seen[x] \in Ticket
  BY DEF State, Types
<1>1. \A x \in G : before'[x] \subseteq Waiters'
  BY Remembered
<1>2. ASSUME NEW x \in G, pc'[x] \in Knows, NEW h \in before'[x]
      PROVE  Minus(ticket'[h], notify') < Minus(seen'[x], notify') /\ Minus(seen'[x], notify') <= Lag'
  <2>1. h \in Waiters' /\ h \in G
    BY <1>1 DEF Waiters
  <2>2. Minus(ticket'[h], notify') < Lag'
    BY <2>1 DEF Ticketing, Ahead
  <2>3. CASE seen'[x] = wait /\ Stayed
    <3>1. Minus(seen'[x], notify') = Lag'
      BY <2>3 DEF Stayed, Lag, Ahead
    <3>2. Lag' \in Nat
      BY <2>3, StayedKeeps, LagBound
    <3> QED
      BY <2>2, <3>1, <3>2
  <2>4. CASE pc[x] \in Knows /\ seen'[x] = seen[x]
    <3>1. h \in before[x] /\ h \in Waiters
      BY <2>4, Remembered DEF Knows, Seeing
    <3>2. Ahead(ticket[h]) < Ahead(seen[x]) /\ Ahead(seen[x]) <= Lag
      BY <2>4, <3>1 DEF Knows, Seeing
    <3>3. Lag \in Nat /\ Ahead(ticket[h]) \in Nat /\ Ahead(seen[x]) \in Nat
      BY <1>t, <2>1, LagBound, AheadType
    <3>4. CASE Stayed
      <4>1. notify' = notify /\ ticket'[h] = ticket[h] /\ Lag' = Lag
        BY <3>1, <3>4, StayedKeeps DEF Stayed, Waiters
      <4> QED
        BY <4>1, <3>2, <2>4 DEF Ahead
    <3>5. CASE \E g \in G : Joined(g)
      <4>1. notify' = notify /\ ticket'[h] = ticket[h] /\ Lag' = Lag + 1
        BY <3>1, <3>5 DEF Joined
      <4> QED
        BY <4>1, <3>2, <3>3, <2>4 DEF Ahead
    <3>6. ASSUME NEW s, Passed(s)
          PROVE  Minus(ticket'[h], notify') < Minus(seen'[x], notify') /\ Minus(seen'[x], notify') <= Lag'
      <4>1. /\ ticket' = ticket /\ notify' = s /\ Ahead(s) \in Nat
        BY <3>6, <1>t, AheadType DEF Passed
      <4>2. Ahead(ticket[h]) >= Ahead(s) /\ Lag' = Lag - Ahead(s)
        BY <2>1, <3>6, PassedKeeps
      <4>3. Ahead(seen[x]) >= Ahead(s)
        BY <4>1, <4>2, <3>2, <3>3
      <4>4. /\ Minus(ticket[h], notify') = Ahead(ticket[h]) - Ahead(s)
            /\ Minus(seen[x], notify') = Ahead(seen[x]) - Ahead(s)
        <5>1. \A y \in Ticket : Ahead(y) >= Ahead(s) => Ahead(y)' = Ahead(y) - Ahead(s)
          BY <3>6, PassedKeeps
        <5> QED
          BY <5>1, <4>2, <4>3, <1>t, <2>1 DEF Ahead
      <4> QED
        BY <4>1, <4>2, <4>4, <3>2, <3>3, <2>4
    <3> QED
      BY <3>4, <3>5, <3>6
  <2> QED
    BY <2>3, <2>4, <1>2
<1> QED
  BY <1>1, <1>2 DEF Seeing, Knows, Ahead

(* Only LoadWait and AllPull make a call know something.                   *)
LEMMA Learns ==
  ASSUME State, Types', NEW g \in G, ListStep(g), NEW x \in G, pc'[x] \in Knows
  PROVE  \/ pc[x] \in Knows /\ seen'[x] = seen[x]
         \/ seen'[x] = wait /\ Stayed /\ x = g /\ (LoadWait(g) \/ AllPull(g))
<1>t. Types /\ Parking /\ Locking
  BY DEF State, ListInv
<1>1. ASSUME NEW l, Goto(g, l), l \notin Knows, \A h \in G : h # g => seen'[h] = seen[h]
      PROVE  pc[x] \in Knows /\ seen'[x] = seen[x]
  BY <1>1, <1>t, Steps
<1>2. CASE NotifyListAdd(g)
  BY <1>2, <1>1 DEF NotifyListAdd, Knows
<1>3. CASE CallNotify(g, "one") \/ CallNotify(g, "all")
  BY <1>3, <1>1 DEF CallNotify, Knows
<1>4. CASE NotifyListWait(g)
  BY <1>4, <1>1 DEF NotifyListWait, Knows
<1>5. CASE WaitReturn(g)
  BY <1>5, <1>1 DEF WaitReturn, Knows
<1>6. CASE LoadWait(g)
  <2>1. Stayed
    BY <1>6, Effects DEF LoadWait, NotifyListAdd, AllStore, OneStore, At
  <2>2. PICK l \in {"one2", "all2"} : Goto(g, l)
    BY <1>6 DEF LoadWait
  <2>3. seen' = [seen EXCEPT ![g] = wait]
    BY <1>6 DEF LoadWait
  <2>4. \A h \in G : (h # g => pc'[h] = pc[h] /\ seen'[h] = seen[h]) /\ seen'[g] = wait
    BY <2>2, <2>3, <1>t, Steps DEF Types
  <2> QED
    BY <2>1, <2>4, <1>6
<1>7. CASE LoadNotify(g)
  <2>1. \E l \in {"idle", "onelock", "alllock"} : Goto(g, l)
    BY <1>7 DEF LoadNotify
  <2>2. \A h \in G : h # g => seen'[h] = seen[h]
    BY <1>7, <1>t DEF LoadNotify, Forget, Types
  <2> QED
    BY <2>1, <2>2, <1>1 DEF Knows
<1>8. CASE AllPull(g)
  <2>1. Stayed
    BY <1>8, Effects DEF AllPull, NotifyListAdd, AllStore, OneStore, At
  <2>2. Goto(g, "allstore") /\ seen' = [seen EXCEPT ![g] = wait]
    BY <1>8 DEF AllPull
  <2>4. \A h \in G : (h # g => pc'[h] = pc[h] /\ seen'[h] = seen[h]) /\ seen'[g] = wait
    BY <2>2, <1>t, Steps DEF Types
  <2> QED
    BY <2>1, <2>4, <1>8
<1>9. CASE AllStore(g)
  <2>1. \E l \in {"idle", "ready"} : Goto(g, l)
    BY <1>9 DEF AllStore
  <2>2. \A h \in G : h # g => seen'[h] = seen[h]
    BY <1>9, <1>t DEF AllStore, Forget, Types
  <2> QED
    BY <2>1, <2>2, <1>1 DEF Knows
<1>10. CASE OneCheck(g)
  <2>1. /\ \E l \in {"idle", "onestore"} : Goto(g, l)
        /\ seen' = seen
    BY <1>10 DEF OneCheck
  <2> QED
    BY <2>1, <1>1 DEF Knows
<1>11. CASE OneStore(g)
  <2>1. \E l \in {"idle", "ready"} : Goto(g, l)
    BY <1>11 DEF OneStore
  <2>2. seen' = seen
    BY <1>11 DEF OneStore
  <2> QED
    BY <2>1, <2>2, <1>1 DEF Knows
<1>12. CASE Ready(g)
  <2>1. seen' = seen
    BY <1>12 DEF Ready
  <2> QED
    BY <2>1, <1>12, <1>t, ReadyTypes DEF Knows
<1> QED
  BY <1>2, <1>3, <1>4, <1>5, <1>6, <1>7, <1>8, <1>9, <1>10, <1>11, <1>12 DEF ListStep, Step

(* A step of a client outside the list.                                    *)
LEMMA ClientStays ==
  ASSUME State, UNCHANGED listVars
  PROVE  Stayed /\ State'
<1>1. Stayed
  <2>1. \A h \in G : Waiting(h)' <=> Waiting(h)
    BY DEF listVars, Waiting, Handed, Less, Minus, At
  <2>2. \A h \in G : pc[h] = "parked" /\ ~Handed(h) => Waiting(h)
    BY DEF State, ListInv, Ticketing, At
  <2>3. \A h \in G : Handed(h)' <=> Handed(h)
    BY DEF listVars, Handed, At
  <2> QED
    BY <2>1, <2>2, <2>3 DEF Stayed, listVars
<1>2. State'
  BY DEF State, Types, ListInv, Parking, Ticketing, Locking, listVars, Waiters, Waiting, Handed, Ahead, Lag, At
<1> QED
  BY <1>1, <1>2

ListNext == (\E g \in G : ListStep(g)) \/ UNCHANGED listVars

LEMMA IInvKept ==
  ASSUME IInv, ListNext, Remember
  PROVE  IInv'
<1>0. State /\ Seeing /\ Queueing /\ before \in [G -> SUBSET G]
  BY DEF IInv, TypeOK, Types, State
<1>1. before' \in [G -> SUBSET G]
  BY <1>0, Remembered
<1>2. CASE UNCHANGED listVars
  <2>1. Stayed /\ State'
    BY <1>0, <1>2, ClientStays
  <2>2. Seeing'
    BY <1>0, <1>2, <2>1, SeeingKept DEF State, ListInv, listVars
  <2>3. Queueing'
    BY <1>0, <2>1, QueueStays
  <2> QED
    BY <1>1, <2>1, <2>2, <2>3 DEF IInv, TypeOK, State, Types
<1>3. ASSUME NEW g \in G, ListStep(g) PROVE IInv'
  <2>1. Types'
    BY <1>0, <1>3, TypesKept DEF State, ListInv
  <2>2. Parking' /\ Locking'
    BY <1>0, <1>3, <2>1, ParkingKept, LockingKept
  <2>3. Stayed \/ Joined(g) \/ (\E s : Passed(s))
    BY <1>0, <1>3, <2>1, Effects
  <2>4. Ticketing'
    <3>1. CASE Stayed
      BY <3>1, <1>0, StayedKeeps
    <3>2. CASE \E s : Passed(s)
      BY <3>2, <1>0, <2>1, PassedKeeps
    <3>3. CASE NotifyListAdd(g)
      BY <3>3, <1>0, <2>1, Joins
    <3> QED
      BY <3>1, <3>2, <3>3, <1>0, <1>3, <2>1, Effects
  <2>5. Seeing'
    BY <1>0, <1>3, <2>1, <2>3, <2>4, Learns, SeeingKept
  <2>6. Queueing'
    BY <1>0, <2>1, <2>3, QueueStays, QueueGrows, QueueShrinks
  <2> QED
    BY <1>1, <2>1, <2>2, <2>4, <2>5, <2>6 DEF IInv, TypeOK, ListInv, Types
<1> QED
  BY <1>2, <1>3 DEF ListNext

LEMMA InitIInv == Init => IInv
<1> SUFFICES ASSUME Init PROVE IInv
  OBVIOUS
<1>1. TypeOK
  BY ZeroTicket, EmptyList DEF Init, TypeOK
<1>2. Types
  BY <1>1 DEF TypeOK, Types
<1>3. Lag = 0
  BY <1>2, ZeroTicket, Moves DEF Lag, Ahead, Init
<1>4. \A g \in G : pc[g] = "idle" /\ took[g] = <<>> /\ before[g] = {}
  BY DEF Init
<1>5. Waiters = {}
  BY <1>2, <1>4, WaitingIs DEF Waiters
<1>6. Parking
  BY <1>4, EmptyList DEF Parking, Init, At
<1>7. Ticketing
  BY <1>3, <1>4, <1>5 DEF Ticketing, At
<1>8. Locking
  BY <1>4, NotifyListAssumption DEF Locking, Init, At
<1>9. Seeing
  BY <1>4 DEF Seeing
<1>10. Queueing
  BY <1>3, EmptyList DEF Init, Queueing
<1> QED
  BY <1>1, <1>6, <1>7, <1>8, <1>9, <1>10 DEF IInv, ListInv

----------------------------------------------------------------------------
(* NotifyList: what follows from the invariant.                            *)

LEMMA Places ==
  ASSUME IInv
  PROVE  ParkedOnce
<1>t. Types /\ Parking
  BY DEF IInv, ListInv, TypeOK, Types
<1>1. ASSUME NEW g \in G
      PROVE  Cardinality({k \in DOMAIN list : list[k] = g})
             + Cardinality({h \in G : Contains(took[h], g)}) = IF At(g, "parked") THEN 1 ELSE 0
  <2> DEFINE A == {k \in DOMAIN list : list[k] = g}
             B == {h \in G : Contains(took[h], g)}
  <2>1. \A h \in G : h \in B <=> g \in ToSet(took[h])
    BY <1>t, ContainsIs DEF Types
  <2>2. A # {} <=> g \in ToSet(list)
    BY DEF ToSet
  <2>3. \A j, k \in A : j = k
    BY <1>t DEF Parking, IsInjective
  <2>4. \A h, k \in B : h \in G /\ k \in G /\ h = k
    BY <2>1, <1>t DEF Parking
  <2>5. At(g, "parked") <=> A # {} \/ B # {}
    BY <2>1, <2>2, <1>t DEF Parking
  <2>6. A = {} \/ B = {}
    BY <2>1, <2>2, <1>t DEF Parking
  <2> HIDE DEF A, B
  <2>7. Cardinality({}) = 0
    BY FS_EmptySet
  <2>8. ASSUME A # {} PROVE Cardinality(A) = 1
    <3>1. PICK k : A = {k}
      BY <2>3, <2>8
    <3> QED
      BY <3>1, FS_Singleton
  <2>9. ASSUME B # {} PROVE Cardinality(B) = 1
    <3>1. PICK k : B = {k}
      BY <2>4, <2>9
    <3> QED
      BY <3>1, FS_Singleton
  <2>10. Cardinality(A) + Cardinality(B) = IF At(g, "parked") THEN 1 ELSE 0
    BY <2>5, <2>6, <2>7, <2>8, <2>9
  <2> QED
    BY <2>10 DEF A, B
<1> QED
  BY <1>1 DEF ParkedOnce, IInv

(* A call that ends leaves nobody of its time waiting.                     *)
LEMMA Served ==
  ASSUME IInv, ListNext, Remember, NEW x \in G,
         \/ pc[x] \in {"one2", "all2", "onelock"} /\ pc'[x] = "idle"
         \/ At(x, "allstore") /\ pc'[x] # "allstore"
  PROVE  before[x] \cap Waiters' = {}
<1>0. State /\ Seeing /\ before[x] \subseteq Waiters
  BY DEF IInv, TypeOK, Types, State, Seeing
<1>t. /\ Types /\ Parking /\ Ticketing /\ wait \in Ticket /\ notify \in Ticket
      /\ \A h \in G : ticket[h] \in Ticket /\ seen[h] \in Ticket
  BY <1>0 DEF State, ListInv, Types
<1>1. PICK g \in G : ListStep(g)
  BY DEF ListNext, listVars, At
<1>2. Types'
  BY <1>0, <1>1, TypesKept DEF State, ListInv
<1>w. Waiters \subseteq G
  BY DEF Waiters
<1>3. ASSUME NEW l, Goto(g, l) PROVE x = g
  BY <1>3, <1>t, Steps DEF At
<1>4. CASE LoadNotify(g)
  <2>1. x = g /\ seen[g] = notify /\ pc[g] \in {"one2", "all2"}
    <3>1. \E l : Goto(g, l)
      BY <1>4 DEF LoadNotify
    <3>2. x = g
      BY <3>1, <1>3
    <3>3. CASE seen[g] # notify
      <4>1. \E l \in {"onelock", "alllock"} : Goto(g, l)
        BY <1>4, <3>3 DEF LoadNotify
      <4> QED
        BY <4>1, <3>2, <1>t, <1>4, Steps DEF LoadNotify, At
    <3> QED
      BY <3>2, <3>3, <1>4 DEF LoadNotify
  <2>2. Ahead(seen[g]) = 0
    BY <2>1, <1>t, AheadType
  <2>3. \A h \in before[x] : h \in G /\ Ahead(ticket[h]) < 0
    BY <2>1, <2>2, <1>0, <1>w DEF Seeing
  <2>4. \A h \in G : Ahead(ticket[h]) \in Nat
    BY <1>t, AheadType
  <2> QED
    BY <2>3, <2>4
<1>5. CASE OneCheck(g)
  <2>1. notify = wait
    <3>1. CASE notify # wait
      <4>1. Goto(g, "onestore")
        BY <1>5, <3>1 DEF OneCheck
      <4> QED
        BY <4>1, <1>3, <1>5, <1>t, Steps DEF OneCheck, At
    <3> QED
      BY <3>1
  <2>2. Lag = 0
    BY <2>1, <1>t, AheadType DEF Lag
  <2>3. \A h \in Waiters : h \in G /\ Ahead(ticket[h]) < 0
    BY <2>2, <1>t, <1>w DEF Ticketing
  <2>4. \A h \in G : Ahead(ticket[h]) \in Nat
    BY <1>t, AheadType
  <2> QED
    BY <2>3, <2>4, <1>0
<1>6. CASE AllStore(g)
  <2>1. x = g /\ pc[g] = "allstore"
    BY <1>6, <1>3 DEF AllStore, At
  <2>2. Passed(seen[g])
    BY <1>0, <1>2, <1>6, AllStorePasses
  <2>3. \A h \in Waiters' : Ahead(ticket[h]) >= Ahead(seen[g]) /\ h \in Waiters
    BY <2>2, <1>0, <1>2, PassedKeeps
  <2>4. \A h \in before[x] : h \in G /\ Ahead(ticket[h]) < Ahead(seen[g])
    BY <2>1, <1>0, <1>w DEF Seeing
  <2>5. \A h \in G : Ahead(ticket[h]) \in Nat /\ Ahead(seen[h]) \in Nat
    BY <1>t, AheadType
  <2> QED
    BY <2>3, <2>4, <2>5
<1>7. CASE Ready(g)
  <2>1. g # x /\ pc'[x] # pc[x] /\ pc[x] # "parked"
    BY <1>7 DEF Ready, At
  <2> QED
    BY <2>1, <1>7, <1>t, ReadyTypes DEF At
<1>8. ASSUME NEW l, Goto(g, l), pc[g] \notin {"one2", "all2", "onelock", "allstore"} PROVE FALSE
  BY <1>8, <1>3 DEF At
<1>9. CASE NotifyListAdd(g)
  BY <1>9, <1>8 DEF NotifyListAdd, At
<1>10. CASE CallNotify(g, "one") \/ CallNotify(g, "all")
  BY <1>10, <1>8 DEF CallNotify, At
<1>11. CASE NotifyListWait(g)
  BY <1>11, <1>8 DEF NotifyListWait, At
<1>12. CASE WaitReturn(g)
  BY <1>12, <1>8 DEF WaitReturn, At
<1>13. CASE LoadWait(g)
  BY <1>13, <1>8 DEF LoadWait
<1>14. CASE AllPull(g)
  BY <1>14, <1>8 DEF AllPull, At
<1>15. CASE OneStore(g)
  BY <1>15, <1>8 DEF OneStore, At
<1> QED
  BY <1>1, <1>4, <1>5, <1>6, <1>7, <1>9, <1>10, <1>11, <1>12, <1>13, <1>14, <1>15 DEF ListStep, Step

(* A ticket is notified once and for all.                                  *)
LEMMA Kept ==
  ASSUME IInv, ListNext, NEW x \in G, At(x, "added"), ~Waiting(x)
  PROVE  ~Waiting(x)'
<1>0. State
  BY DEF IInv, TypeOK, Types, State
<1>1. CASE UNCHANGED listVars
  BY <1>0, <1>1, ClientStays DEF Stayed
<1>2. ASSUME NEW g \in G, ListStep(g) PROVE ~Waiting(x)'
  <2>1. Types'
    BY <1>0, <1>2, TypesKept DEF State, ListInv
  <2>2. x \notin Waiters /\ (Waiting(x)' => x \in Waiters')
    BY DEF Waiters
  <2>3. CASE Stayed
    BY <2>3 DEF Stayed
  <2>4. CASE NotifyListAdd(g) /\ Joined(g)
    <3>1. x # g
      BY <2>4 DEF NotifyListAdd, At
    <3> QED
      BY <3>1, <2>2, <2>4 DEF Joined
  <2>5. CASE \E s : Passed(s)
    BY <2>2, <2>5, <2>1, <1>0, PassedKeeps
  <2> QED
    BY <2>1, <2>3, <2>4, <2>5, <1>0, <1>2, Effects
<1> QED
  BY <1>1, <1>2 DEF ListNext

LEMMA ListMoves ==
  ASSUME [Next]_vars
  PROVE  ListNext /\ (Remember \/ UNCHANGED vars)
BY DEF Next, ListNext, ListStep, vars, listVars

LEMMA ListStutters ==
  ASSUME IInv, UNCHANGED vars
  PROVE  IInv'
BY DEF IInv, TypeOK, ListInv, Seeing, Queueing, Parking, Ticketing, Locking, vars, listVars, Waiters, Waiting,
       Handed, Ahead, Lag, At

(* The tickets between notify and wait are those of the goroutines that    *)
(* wait, whatever happens between the reads of the fast path, the two      *)
(* critical sections and the calls of Wait (sema.go:443-601).              *)
THEOREM ListInvariance == Spec => []IInv
<1>1. IInv /\ [Next]_vars => IInv'
  BY ListMoves, IInvKept, ListStutters
<1> QED
  BY InitIInv, <1>1, PTL DEF Spec

(* A goroutine that parks is on the list or in the hands of one notifier,  *)
(* once (sema.go:528-546, 583-598).                                        *)
THEOREM NobodyIsLost == Spec => []ParkedOnce
<1>1. IInv => ParkedOnce
  BY Places
<1> QED
  BY ListInvariance, <1>1, PTL

(* A notification that was sent for a ticket stays sent, though both       *)
(* counters wrap around (sema.go:453-457).                                 *)
THEOREM SentStaysSent == Spec => NotificationIsKept
<1>1. IInv /\ [Next]_vars => [\A g \in G : At(g, "added") /\ ~Waiting(g) => ~Waiting(g)']_vars
  BY ListMoves, Kept
<1> QED
  BY ListInvariance, <1>1, PTL DEF Spec, NotificationIsKept

(* The unlocked reads of the fast path miss nobody that waited when the    *)
(* call was made (sema.go:519-524, 552-556).                               *)
THEOREM FastPathMissesNobody == Spec => CallersAreServed
<1>1. IInv /\ [Next]_vars =>
        [\A g \in G :
           \/ pc[g] \in {"one2", "all2", "onelock"} /\ pc'[g] = "idle"
           \/ At(g, "allstore") /\ pc'[g] # "allstore"
           => before[g] \cap Waiters' = {}]_vars
  BY ListMoves, Served
<1> QED
  BY ListInvariance, <1>1, PTL DEF Spec, CallersAreServed

----------------------------------------------------------------------------
(* Cond: the clients.                                                      *)

LEMMA CondMoves ==
  ASSUME CondNext
  PROVE  ListNext /\ Remember
BY DEF CondNext, ListNext, ListStep, Step, Consume, TakeItem, WaitAdd, WaitUnlock, WaitNotified, WaitRelock,
       Produce, Nudge, Notifying

(* A step in which g moves to cpc m and to pc l, and nobody else moves.    *)
LEMMA ClientMoves ==
  ASSUME Types, CondTypeOK, Clients, NEW g \in G, NEW l, NEW m \in ClientPC,
         cpc' = [cpc EXCEPT ![g] = m], Goto(g, l),
         L' \in G \cup {None},
         \A h \in G : h # g => (L' = h <=> L = h),
         m \in {"idle", "test", "relock"} => l = "idle",
         m = "unlock" => l = "added",
         m = "wait" => l \in WaitPC,
         m = "signal" => l \in NotifyPC,
         m \in {"test", "unlock"} => L' = g,
         L' = g => m \in {"test", "unlock", "signal"}
  PROVE  Clients' /\ cpc' \in [G -> ClientPC] /\ L' \in G \cup {None}
<1>1. \A h \in G : pc'[h] = IF h = g THEN l ELSE pc[h]
  BY Steps
<1>2. \A h \in G : cpc'[h] = IF h = g THEN m ELSE cpc[h]
  BY DEF CondTypeOK
<1>3. cpc' \in [G -> ClientPC]
  BY DEF CondTypeOK
<1>4. ASSUME NEW h \in G
      PROVE  /\ cpc'[h] \in {"idle", "test", "relock"} => pc'[h] = "idle"
             /\ cpc'[h] = "unlock" => pc'[h] = "added"
             /\ cpc'[h] = "wait" => pc'[h] \in WaitPC
             /\ cpc'[h] = "signal" => pc'[h] \in NotifyPC
             /\ cpc'[h] \in {"test", "unlock"} => L' = h
             /\ L' = h => cpc'[h] \in {"test", "unlock", "signal"}
  BY <1>1, <1>2 DEF Clients, In, At
<1> QED
  BY <1>3, <1>4 DEF Clients, In, At

(* The same, when the list does not change.                                *)
LEMMA ClientAlone ==
  ASSUME Types, CondTypeOK, Clients, NEW g \in G, NEW m \in ClientPC,
         cpc' = [cpc EXCEPT ![g] = m], UNCHANGED listVars,
         L' \in G \cup {None},
         \A h \in G : h # g => (L' = h <=> L = h),
         m \in {"idle", "test", "relock"} => pc[g] = "idle",
         m = "unlock" => pc[g] = "added",
         m = "wait" => pc[g] \in WaitPC,
         m = "signal" => pc[g] \in NotifyPC,
         m \in {"test", "unlock"} => L' = g,
         L' = g => m \in {"test", "unlock", "signal"}
  PROVE  Clients' /\ cpc' \in [G -> ClientPC] /\ L' \in G \cup {None}
<1>1. Goto(g, pc[g])
  BY DEF Goto, listVars, Types
<1> QED
  BY <1>1, ClientMoves

LEMMA Whereabouts ==
  ASSUME Types, CondTypeOK, Clients, NEW g \in G
  PROVE  /\ cpc[g] \in ClientPC
         /\ pc[g] \in WaitPC <=> cpc[g] \in {"unlock", "wait"}
         /\ pc[g] \in NotifyPC <=> cpc[g] = "signal"
         /\ pc[g] = "idle" <=> cpc[g] \in {"idle", "test", "relock"}
BY DEF Types, CondTypeOK, Clients, ClientPC, WaitPC, NotifyPC, OnePC, AllPC, In, At

(* A notify call never puts a client on the list.                          *)
LEMMA Notifies ==
  ASSUME State, NEW g \in G, pc[g] \in NotifyPC, NEW l,
         LoadWait(g) \/ LoadNotify(g) \/ AllPull(g) \/ AllStore(g) \/ OneCheck(g) \/ OneStore(g),
         l = pc'[g]
  PROVE  Goto(g, l) /\ l \in NotifyPC \cup {"idle"}
<1>t. Types
  BY DEF State
<1>1. PICK k \in NotifyPC \cup {"idle"} : Goto(g, k)
  BY DEF LoadWait, LoadNotify, AllPull, AllStore, OneCheck, OneStore, NotifyPC, OnePC, AllPC
<1>2. k = l
  BY <1>1, <1>t, Steps
<1> QED
  BY <1>1, <1>2

LEMMA ClientsKept ==
  ASSUME CondIInv, CondNext
  PROVE  Clients' /\ CondTypeOK'
<1>t. /\ State /\ Types /\ Parking /\ CondTypeOK /\ Clients
      /\ L \in G \cup {None} /\ items \in 0..MaxItems /\ MaxItems \in Nat
      /\ None \notin G
  BY CondAssumption, NotifyListAssumption DEF CondIInv, IInv, ListInv, TypeOK, Types, State, CondTypeOK
<1>g. PICK g \in G :
       \/ Consume(g) \/ TakeItem(g)
       \/ WaitAdd(g) \/ WaitUnlock(g) \/ WaitNotified(g) \/ WaitRelock(g)
       \/ \E first \in {"one", "all"}, held \in BOOLEAN : Produce(g, first, held)
       \/ \E first \in {"one", "all"} : Nudge(g, first)
       \/ Notifying(g)
  BY DEF CondNext
<1>w. /\ cpc[g] \in ClientPC
      /\ pc[g] \in WaitPC <=> cpc[g] \in {"unlock", "wait"}
      /\ pc[g] \in NotifyPC <=> cpc[g] = "signal"
      /\ pc[g] = "idle" <=> cpc[g] \in {"idle", "test", "relock"}
      /\ cpc[g] = "unlock" => pc[g] = "added"
      /\ L = g <=> (cpc[g] \in {"test", "unlock"} \/ (cpc[g] = "signal" /\ L = g))
  BY <1>t, Whereabouts DEF Clients, In, At
<1>q. ASSUME Clients', cpc' \in [G -> ClientPC], L' \in G \cup {None}, items' \in 0..MaxItems
      PROVE  Clients' /\ CondTypeOK'
  BY <1>q DEF CondTypeOK
<1> USE DEF In, To, LLock, LUnlock, ClientPC
<1>1. CASE Consume(g)
  BY <1>1, <1>t, <1>w, <1>q, ClientAlone DEF Consume
<1>2. CASE TakeItem(g)
  <2>1. /\ cpc[g] = "test" /\ cpc' = [cpc EXCEPT ![g] = "idle"] /\ L = g /\ L' = None
        /\ UNCHANGED listVars /\ items > 0 /\ items' = items - 1
    BY <1>2 DEF TakeItem
  <2>2. items' \in 0..MaxItems
    BY <2>1, <1>t
  <2>3. Clients' /\ cpc' \in [G -> ClientPC] /\ L' \in G \cup {None}
    BY <2>1, <1>t, <1>w, ClientAlone
  <2> QED
    BY <2>2, <2>3, <1>q
<1>3. CASE WaitAdd(g)
  <2>1. Goto(g, "added") /\ cpc[g] = "test" /\ cpc' = [cpc EXCEPT ![g] = "unlock"] /\ UNCHANGED <<L, items>>
    BY <1>3 DEF WaitAdd, NotifyListAdd
  <2> QED
    BY <2>1, <1>t, <1>w, <1>q, ClientMoves
<1>4. CASE WaitUnlock(g)
  BY <1>4, <1>t, <1>w, <1>q, ClientAlone DEF WaitUnlock, WaitPC
<1>5. CASE WaitNotified(g)
  <2>1. cpc[g] = "wait" /\ UNCHANGED <<L, items>> /\ L # g
    BY <1>5, <1>w DEF WaitNotified
  <2>2. \E l \in {"idle", "parked"} : Goto(g, l)
    BY <1>5 DEF WaitNotified, NotifyListWait, WaitReturn
  <2>3. CASE Goto(g, "idle")
    <3>1. pc'[g] = "idle"
      BY <2>3, <1>t, Steps
    <3>2. cpc' = [cpc EXCEPT ![g] = "relock"]
      BY <3>1, <1>5 DEF WaitNotified
    <3> QED
      BY <2>1, <2>3, <3>2, <1>t, <1>q, ClientMoves
  <2>4. CASE Goto(g, "parked")
    <3>1. pc'[g] = "parked"
      BY <2>4, <1>t, Steps
    <3>2. cpc' = cpc
      BY <3>1, <1>5 DEF WaitNotified
    <3>3. cpc' = [cpc EXCEPT ![g] = "wait"]
      BY <2>1, <3>2, <1>t DEF CondTypeOK
    <3> QED
      BY <2>1, <2>4, <3>3, <1>t, <1>q, ClientMoves DEF WaitPC
  <2> QED
    BY <2>2, <2>3, <2>4
<1>6. CASE WaitRelock(g)
  BY <1>6, <1>t, <1>w, <1>q, ClientAlone DEF WaitRelock
<1>7. ASSUME NEW first \in {"one", "all"}, NEW held \in BOOLEAN, Produce(g, first, held)
      PROVE  Clients' /\ CondTypeOK'
  <2>1. /\ L = None /\ L' = (IF held THEN g ELSE None) /\ items' = items + 1 /\ items < MaxItems
        /\ Goto(g, first) /\ cpc' = [cpc EXCEPT ![g] = "signal"]
    BY <1>7 DEF Produce, CallNotify
  <2>2. items' \in 0..MaxItems
    BY <2>1, <1>t
  <2>3. L' \in G \cup {None} /\ \A h \in G : h # g => (L' = h <=> L = h)
    BY <2>1, <1>t
  <2>4. first \in NotifyPC
    BY DEF NotifyPC, OnePC, AllPC
  <2> QED
    BY <2>1, <2>2, <2>3, <2>4, <1>t, <1>q, ClientMoves
<1>8. ASSUME NEW first \in {"one", "all"}, Nudge(g, first)
      PROVE  Clients' /\ CondTypeOK'
  <2>1. /\ UNCHANGED <<L, items>> /\ cpc[g] = "idle"
        /\ Goto(g, first) /\ cpc' = [cpc EXCEPT ![g] = "signal"]
    BY <1>8 DEF Nudge, CallNotify
  <2>2. first \in NotifyPC
    BY DEF NotifyPC, OnePC, AllPC
  <2> QED
    BY <2>1, <2>2, <1>t, <1>w, <1>q, ClientMoves
<1>9. CASE Notifying(g)
  <2>1. /\ cpc[g] = "signal" /\ items' = items /\ pc[g] \in NotifyPC
        /\ IF pc'[g] = "idle" THEN cpc' = [cpc EXCEPT ![g] = "idle"] /\ L' = (IF L = g THEN None ELSE L)
                              ELSE UNCHANGED <<cpc, L>>
    BY <1>9, <1>w DEF Notifying
  <2>2. PICK m \in {"idle", "signal"} : /\ m = (IF pc'[g] = "idle" THEN "idle" ELSE "signal")
                                        /\ cpc' = [cpc EXCEPT ![g] = m]
                                        /\ L' \in G \cup {None} /\ \A h \in G : h # g => (L' = h <=> L = h)
                                        /\ m = "idle" => L' # g
    <3>1. CASE pc'[g] = "idle"
      BY <3>1, <2>1, <1>t
    <3>2. CASE pc'[g] # "idle"
      <4>1. cpc' = [cpc EXCEPT ![g] = "signal"] /\ L' = L
        BY <3>2, <2>1, <1>t DEF CondTypeOK
      <4> QED
        BY <4>1, <3>2, <1>t
    <3> QED
      BY <3>1, <3>2
  <2>3. CASE LoadWait(g) \/ LoadNotify(g) \/ AllPull(g) \/ AllStore(g) \/ OneCheck(g) \/ OneStore(g)
    <3>1. PICK l \in NotifyPC \cup {"idle"} : l = pc'[g] /\ Goto(g, l)
      BY <2>1, <2>3, <1>t, Notifies
    <3> QED
      BY <2>1, <2>2, <3>1, <1>t, <1>q, ClientMoves
  <2>4. CASE Ready(g)
    <3>1. PICK x \in G : /\ pc[x] = "parked" /\ x # g /\ pc'[x] = "woken"
                         /\ \A h \in G : h \notin {g, x} => pc'[h] = pc[h]
                         /\ pc'[g] \in {"idle", "ready"}
      BY <2>4, <1>t, ReadyTypes DEF At
    <3>2. cpc[x] = "wait" /\ pc'[x] \in WaitPC
      <4>1. cpc[x] \in {"unlock", "wait"}
        BY <3>1, <1>t, Whereabouts DEF WaitPC
      <4> QED
        BY <3>1, <4>1, <1>t DEF Clients, At, WaitPC
    <3>3. \A h \in G : cpc'[h] = IF h = g THEN m ELSE cpc[h]
      BY <2>2, <1>t DEF CondTypeOK
    <3>4. ASSUME NEW h \in G
          PROVE  /\ cpc'[h] \in {"idle", "test", "relock"} => pc'[h] = "idle"
                 /\ cpc'[h] = "unlock" => pc'[h] = "added"
                 /\ cpc'[h] = "wait" => pc'[h] \in WaitPC
                 /\ cpc'[h] = "signal" => pc'[h] \in NotifyPC
                 /\ cpc'[h] \in {"test", "unlock"} => L' = h
                 /\ L' = h => cpc'[h] \in {"test", "unlock", "signal"}
      <4>1. CASE h = g
        BY <4>1, <2>2, <3>1, <3>3 DEF NotifyPC
      <4>2. CASE h = x
        BY <4>2, <2>2, <3>1, <3>2, <3>3, <1>t DEF Clients
      <4>3. CASE h \notin {g, x}
        BY <4>3, <2>2, <3>1, <3>3, <1>t DEF Clients, At
      <4> QED
        BY <4>1, <4>2, <4>3
    <3>5. Clients'
      BY <3>4 DEF Clients, At
    <3>6. cpc' \in [G -> ClientPC]
      BY <2>2, <1>t DEF CondTypeOK
    <3> QED
      BY <3>5, <3>6, <2>1, <2>2, <1>t, <1>q
  <2> QED
    BY <1>9, <2>3, <2>4 DEF Notifying
<1> QED
  BY <1>g, <1>1, <1>2, <1>3, <1>4, <1>5, <1>6, <1>7, <1>8, <1>9

----------------------------------------------------------------------------
(* Cond: nobody sleeps beside an item unminded.                            *)

Minding == {g \in G : Minds(g)}

LEMMA Counts ==
  ASSUME NEW S \in SUBSET G
  PROVE  /\ IsFiniteSet(S) /\ Cardinality(S) \in Nat
         /\ \A T \in SUBSET G : S \subseteq T => Cardinality(S) <= Cardinality(T)
         /\ \A x \in G \ S : Cardinality(S \cup {x}) = Cardinality(S) + 1
         /\ \A x \in S : Cardinality(S \ {x}) = Cardinality(S) - 1
<1>1. \A T \in SUBSET G : IsFiniteSet(T)
  BY NotifyListAssumption, FS_Subset
<1> QED
  BY <1>1, FS_CardinalityType, FS_Subset, FS_AddElement, FS_RemoveElement

(* Those that mind still mind, and there are no items more.                *)
LEMMA StillMinded ==
  ASSUME ItemsMinded, items' = items, items \in Nat,
         wait' # notify' => wait # notify /\ Minding \subseteq Minding'
  PROVE  ItemsMinded'
<1> DEFINE M == Minding
           N == Minding'
<1>1. M \in SUBSET G /\ N \in SUBSET G
  BY DEF Minding
<1>2. ItemsMinded <=> (wait # notify => items <= Cardinality(M))
  BY DEF ItemsMinded, Minding
<1>3. ItemsMinded' <=> (wait' # notify' => items' <= Cardinality(N))
  BY DEF ItemsMinded, Minding
<1>6. wait' # notify' => wait # notify /\ M \subseteq N
  OBVIOUS
<1> HIDE DEF M, N
<1>4. M \subseteq N => Cardinality(M) <= Cardinality(N)
  BY <1>1, Counts
<1>5. Cardinality(M) \in Nat /\ Cardinality(N) \in Nat
  BY <1>1, Counts
<1> QED
  BY <1>2, <1>3, <1>4, <1>5, <1>6

(* A goroutine that does not move, and whom the step can at most notify.   *)
LEMMA Bystander ==
  ASSUME NEW h \in G, pc'[h] = pc[h], cpc'[h] = cpc[h], seen'[h] = seen[h], wait' = wait,
         Waiting(h)' => Waiting(h), Minds(h)
  PROVE  Minds(h)'
BY DEF Minds

LEMMA MindsNext ==
  ASSUME NEW h \in G, \/ cpc'[h] \in {"relock", "test"}
                      \/ pc'[h] \in WaitPC /\ ~Waiting(h)'
                      \/ pc'[h] \in {"one", "all", "onelock", "onestore", "alllock"}
                      \/ pc'[h] \in {"one2", "all2", "allstore"} /\ seen'[h] = wait'
  PROVE  h \in Minding'
BY DEF Minds, Minding

LEMMA ItemsKept ==
  ASSUME CondIInv, CondNext
  PROVE  ItemsMinded'
<1>t. /\ State /\ Types /\ Parking /\ Locking /\ Ticketing /\ CondTypeOK /\ Clients /\ ItemsMinded
      /\ items \in Nat
      /\ wait \in Ticket /\ notify \in Ticket /\ \A h \in G : seen[h] \in Ticket
  BY CondAssumption DEF CondIInv, IInv, ListInv, TypeOK, Types, State, CondTypeOK
<1>g. PICK g \in G :
       \/ Consume(g) \/ TakeItem(g)
       \/ WaitAdd(g) \/ WaitUnlock(g) \/ WaitNotified(g) \/ WaitRelock(g)
       \/ \E first \in {"one", "all"}, held \in BOOLEAN : Produce(g, first, held)
       \/ \E first \in {"one", "all"} : Nudge(g, first)
       \/ Notifying(g)
  BY DEF CondNext
<1>y. Types'
  <2>1. IInv'
    BY CondMoves, IInvKept DEF CondIInv
  <2> QED
    BY <2>1 DEF IInv, TypeOK, Types
<1>w. /\ cpc[g] \in ClientPC
      /\ pc[g] \in WaitPC <=> cpc[g] \in {"unlock", "wait"}
      /\ pc[g] \in NotifyPC <=> cpc[g] = "signal"
      /\ pc[g] = "idle" <=> cpc[g] \in {"idle", "test", "relock"}
  BY <1>t, Whereabouts
<1>m. \A h : h \in Minding <=> h \in G /\ Minds(h)
  BY DEF Minding
<1>s. ASSUME items' = items, wait' = wait, notify' = notify, \A h \in G : Minds(h) => h \in Minding'
      PROVE  ItemsMinded'
  BY <1>s, <1>m, <1>t, StillMinded
<1>c. ASSUME NEW m, cpc' = [cpc EXCEPT ![g] = m]
      PROVE  \A h \in G : cpc'[h] = IF h = g THEN m ELSE cpc[h]
  BY <1>c, <1>t DEF CondTypeOK
<1>b. ASSUME NEW h \in G, pc'[h] = pc[h], cpc'[h] = cpc[h], seen'[h] = seen[h], wait' = wait,
             Waiting(h)' => Waiting(h), Minds(h)
      PROVE  h \in Minding'
  BY <1>b, Bystander DEF Minding
<1> USE DEF In, To, LLock, LUnlock
(* c.L and the condition: the list does not change.                        *)
<1>l. ASSUME UNCHANGED listVars
      PROVE  /\ wait' = wait /\ notify' = notify
             /\ \A h \in G : pc'[h] = pc[h] /\ seen'[h] = seen[h] /\ (Waiting(h)' <=> Waiting(h))
  BY <1>l, <1>t, ClientStays DEF Stayed, listVars
<1>1. CASE Consume(g)
  <2>1. UNCHANGED listVars /\ items' = items /\ cpc' = [cpc EXCEPT ![g] = "test"]
    BY <1>1 DEF Consume
  <2>2. g \in Minding'
    BY <2>1, <1>c, MindsNext
  <2>3. \A h \in G : h # g /\ Minds(h) => h \in Minding'
    BY <2>1, <1>c, <1>b, <1>l
  <2> QED
    BY <2>1, <2>2, <2>3, <1>s, <1>l
<1>2. CASE TakeItem(g)
  <2>1. UNCHANGED listVars /\ items > 0 /\ items' = items - 1 /\ cpc' = [cpc EXCEPT ![g] = "idle"]
        /\ cpc[g] = "test"
    BY <1>2 DEF TakeItem
  <2>2. Minding \ {g} \subseteq Minding'
    BY <2>1, <1>c, <1>b, <1>l, <1>m
  <2> DEFINE M == Minding
             N == Minding'
  <2>3. M \in SUBSET G /\ N \in SUBSET G /\ g \in M /\ M \ {g} \subseteq N
    BY <2>1, <2>2 DEF Minding, Minds
  <2>4. wait # notify => items <= Cardinality(M)
    BY <1>t DEF ItemsMinded, Minding
  <2>5. (wait' # notify' => items' <= Cardinality(N)) => ItemsMinded'
    BY DEF ItemsMinded, Minding
  <2> HIDE DEF M, N
  <2>6. /\ Cardinality(M \ {g}) = Cardinality(M) - 1 /\ Cardinality(M) \in Nat
        /\ Cardinality(M \ {g}) <= Cardinality(N) /\ Cardinality(N) \in Nat
    <3>1. M \ {g} \in SUBSET G
      BY <2>3
    <3> QED
      BY <3>1, <2>3, Counts
  <2> QED
    BY <2>1, <2>4, <2>5, <2>6, <1>t, <1>l
<1>3. CASE WaitAdd(g)
  <2>1. items' = 0
    BY <1>3 DEF WaitAdd
  <2> DEFINE N == Minding'
  <2>2. N \in SUBSET G
    BY DEF Minding
  <2>3. (wait' # notify' => items' <= Cardinality(N)) => ItemsMinded'
    BY DEF ItemsMinded, Minding
  <2> HIDE DEF N
  <2>4. Cardinality(N) \in Nat
    BY <2>2, Counts
  <2> QED
    BY <2>1, <2>3, <2>4
<1>4. CASE WaitUnlock(g)
  <2>1. UNCHANGED listVars /\ items' = items /\ cpc' = [cpc EXCEPT ![g] = "wait"] /\ cpc[g] = "unlock"
    BY <1>4 DEF WaitUnlock
  <2>2. Minds(g) => g \in Minding'
    <3>1. pc[g] \in WaitPC
      BY <2>1, <1>w
    <3> QED
      BY <3>1, <2>1, <1>l, MindsNext DEF Minds, WaitPC
  <2>3. \A h \in G : h # g /\ Minds(h) => h \in Minding'
    BY <2>1, <1>c, <1>b, <1>l
  <2> QED
    BY <2>1, <2>2, <2>3, <1>s, <1>l
<1>5. CASE WaitNotified(g)
  <2>1. cpc[g] = "wait" /\ items' = items /\ seen' = seen /\ wait' = wait /\ notify' = notify
    BY <1>5 DEF WaitNotified, NotifyListWait, WaitReturn
  <2>2. Stayed
    <3>1. ListStep(g) /\ ~NotifyListAdd(g) /\ ~AllStore(g) /\ ~OneStore(g)
      BY <1>5 DEF WaitNotified, NotifyListWait, WaitReturn, ListStep, Step, NotifyListAdd, AllStore, OneStore, At
    <3> QED
      BY <3>1, <1>t, <1>y, Effects
  <2>3. PICK l \in {"idle", "parked"} : /\ Goto(g, l)
                                        /\ l = "parked" => pc[g] = "added" /\ ~Less(ticket[g], notify)
    BY <1>5 DEF WaitNotified, NotifyListWait, WaitReturn, At
  <2>4. \A h \in G : pc'[h] = IF h = g THEN l ELSE pc[h]
    BY <2>3, <1>t, Steps
  <2>5. \A h \in G : h # g => cpc'[h] = cpc[h]
    BY <2>4, <1>5, <1>c DEF WaitNotified
  <2>6. Minds(g) => g \in Minding'
    <3>1. CASE l = "idle"
      <4>1. cpc' = [cpc EXCEPT ![g] = "relock"]
        BY <3>1, <2>4, <1>5 DEF WaitNotified
      <4> QED
        BY <4>1, <1>c, MindsNext
    <3>2. CASE l = "parked"
      <4>1. Waiting(g)
        BY <3>2, <2>3, <1>t, NotHanded DEF Waiting
      <4>2. ~Minds(g)
        BY <4>1, <2>1, <2>3, <3>2 DEF Minds
      <4> QED
        BY <4>2
    <3> QED
      BY <3>1, <3>2
  <2>7. \A h \in G : h # g /\ Minds(h) => h \in Minding'
    BY <2>1, <2>2, <2>4, <2>5, <1>b DEF Stayed
  <2> QED
    BY <2>1, <2>6, <2>7, <1>s
<1>6. CASE WaitRelock(g)
  <2>1. UNCHANGED listVars /\ items' = items /\ cpc' = [cpc EXCEPT ![g] = "test"]
    BY <1>6 DEF WaitRelock
  <2>2. g \in Minding'
    BY <2>1, <1>c, MindsNext
  <2>3. \A h \in G : h # g /\ Minds(h) => h \in Minding'
    BY <2>1, <1>c, <1>b, <1>l
  <2> QED
    BY <2>1, <2>2, <2>3, <1>s, <1>l
(* A call of Signal or Broadcast: the caller is one more.                  *)
<1>n. ASSUME NEW first \in {"one", "all"}, CallNotify(g, first), cpc' = [cpc EXCEPT ![g] = "signal"],
             cpc[g] = "idle"
      PROVE  /\ wait' = wait /\ notify' = notify /\ g \notin Minding /\ g \in Minding'
             /\ \A h \in G : h # g /\ Minds(h) => h \in Minding'
  <2>1. ListStep(g) /\ pc[g] = "idle" /\ Goto(g, first) /\ UNCHANGED <<wait, notify, seen>>
    BY <1>n DEF ListStep, CallNotify, At
  <2>2. \A h \in G : pc'[h] = IF h = g THEN first ELSE pc[h]
    BY <2>1, <1>t, Steps
  <2>3. ~NotifyListAdd(g) /\ ~AllStore(g) /\ ~OneStore(g)
    <3>1. ~NotifyListAdd(g)
      BY <2>2, <1>t, Steps DEF NotifyListAdd
    <3> QED
      BY <3>1, <2>1 DEF AllStore, OneStore, At
  <2>4. Stayed
    BY <2>1, <2>3, <1>t, <1>y, Effects
  <2>5. g \notin Minding
    BY <2>1, <1>n, <1>m DEF Minds, WaitPC
  <2>6. g \in Minding'
    BY <2>2, MindsNext
  <2>7. \A h \in G : h # g /\ Minds(h) => h \in Minding'
    BY <2>1, <2>2, <2>4, <1>n, <1>c, <1>b DEF Stayed
  <2> QED
    BY <2>1, <2>5, <2>6, <2>7
<1>7. ASSUME NEW first \in {"one", "all"}, NEW held \in BOOLEAN, Produce(g, first, held)
      PROVE  ItemsMinded'
  <2>1. items' = items + 1 /\ cpc[g] = "idle" /\ CallNotify(g, first) /\ cpc' = [cpc EXCEPT ![g] = "signal"]
    BY <1>7 DEF Produce
  <2> DEFINE M == Minding
             N == Minding'
  <2>2. /\ M \in SUBSET G /\ N \in SUBSET G /\ g \notin M /\ M \cup {g} \subseteq N
        /\ wait' = wait /\ notify' = notify
    BY <2>1, <1>n, <1>m DEF Minding
  <2>4. wait # notify => items <= Cardinality(M)
    BY <1>t DEF ItemsMinded, Minding
  <2>5. (wait' # notify' => items' <= Cardinality(N)) => ItemsMinded'
    BY DEF ItemsMinded, Minding
  <2> HIDE DEF M, N
  <2>6. /\ Cardinality(M \cup {g}) = Cardinality(M) + 1 /\ Cardinality(M) \in Nat
        /\ Cardinality(M \cup {g}) <= Cardinality(N) /\ Cardinality(N) \in Nat
    <3>1. M \cup {g} \in SUBSET G
      BY <2>2
    <3> QED
      BY <3>1, <2>2, Counts
  <2> QED
    BY <2>1, <2>2, <2>4, <2>5, <2>6, <1>t
<1>8. ASSUME NEW first \in {"one", "all"}, Nudge(g, first)
      PROVE  ItemsMinded'
  <2>1. items' = items /\ cpc[g] = "idle" /\ CallNotify(g, first) /\ cpc' = [cpc EXCEPT ![g] = "signal"]
    BY <1>8 DEF Nudge
  <2> QED
    BY <2>1, <1>n, <1>s
(* A step of a call.                                                       *)
<1>v. ASSUME Notifying(g)
      PROVE  /\ cpc[g] = "signal" /\ pc[g] \in NotifyPC /\ items' = items
             /\ \A h \in G : h # g => cpc'[h] = cpc[h]
             /\ cpc[g] \notin {"relock", "test"} /\ pc[g] \notin WaitPC
  <2>1. cpc[g] = "signal" /\ items' = items /\ (cpc' = [cpc EXCEPT ![g] = "idle"] \/ cpc' = cpc)
    BY <1>v DEF Notifying
  <2> QED
    BY <2>1, <1>w, <1>c
<1>9. ASSUME Notifying(g), ListStep(g), ~NotifyListAdd(g), ~AllStore(g), ~OneStore(g),
             \A h \in G : h # g => pc'[h] = pc[h] /\ seen'[h] = seen[h],
             wait # notify /\ Minds(g) => g \in Minding'
      PROVE  ItemsMinded'
  <2>1. Stayed
    BY <1>9, <1>t, <1>y, Effects
  <2>2. \A h \in G : h # g /\ Minds(h) => h \in Minding'
    BY <2>1, <1>9, <1>v, <1>b DEF Stayed
  <2>3. wait' = wait /\ notify' = notify
    BY <2>1 DEF Stayed
  <2>4. wait' # notify' => Minding \subseteq Minding'
    BY <2>2, <2>3, <1>9, <1>m
  <2> QED
    BY <2>3, <2>4, <1>9, <1>v, <1>t, StillMinded
<1>10. CASE Notifying(g) /\ LoadWait(g)
  <2>1. pc[g] \in {"one", "all"} /\ UNCHANGED wait /\ seen' = [seen EXCEPT ![g] = wait]
    BY <1>10 DEF LoadWait
  <2>2. PICK l \in {"one2", "all2"} : Goto(g, l)
    BY <1>10 DEF LoadWait
  <2>3. \A h \in G : pc'[h] = IF h = g THEN l ELSE pc[h]
    BY <2>2, <1>t, Steps
  <2>4. \A h \in G : seen'[h] = IF h = g THEN wait ELSE seen[h]
    BY <2>1, <1>t DEF Types
  <2>5. g \in Minding'
    BY <2>1, <2>3, <2>4, MindsNext
  <2>6. ListStep(g) /\ ~NotifyListAdd(g) /\ ~AllStore(g) /\ ~OneStore(g)
    BY <2>1, <1>10 DEF ListStep, Step, NotifyListAdd, AllStore, OneStore, At
  <2> QED
    BY <2>3, <2>4, <2>5, <2>6, <1>9, <1>10
<1>11. CASE Notifying(g) /\ LoadNotify(g)
  <2>1. pc[g] \in {"one2", "all2"} /\ seen' = [seen EXCEPT ![g] = 0]
    BY <1>11 DEF LoadNotify, Forget
  <2>2. PICK l \in {"idle", "onelock", "alllock"} : Goto(g, l) /\ (l = "idle" => seen[g] = notify)
    BY <1>11 DEF LoadNotify
  <2>3. \A h \in G : pc'[h] = IF h = g THEN l ELSE pc[h]
    BY <2>2, <1>t, Steps
  <2>4. \A h \in G : seen'[h] = IF h = g THEN 0 ELSE seen[h]
    BY <2>1, <1>t DEF Types
  <2>5. ASSUME wait # notify, Minds(g) PROVE g \in Minding'
    <3>1. seen[g] = wait
      BY <2>1, <2>5, <1>11, <1>v DEF Minds
    <3>2. l \in {"onelock", "alllock"}
      BY <3>1, <2>2, <2>5
    <3> QED
      BY <3>2, <2>3, MindsNext
  <2>6. ListStep(g) /\ ~NotifyListAdd(g) /\ ~AllStore(g) /\ ~OneStore(g)
    BY <2>1, <1>11 DEF ListStep, Step, NotifyListAdd, AllStore, OneStore, At
  <2> QED
    BY <2>3, <2>4, <2>5, <2>6, <1>9, <1>11
<1>12. CASE Notifying(g) /\ AllPull(g)
  <2>1. pc[g] = "alllock" /\ UNCHANGED wait /\ seen' = [seen EXCEPT ![g] = wait] /\ Goto(g, "allstore")
    BY <1>12 DEF AllPull, At
  <2>3. \A h \in G : pc'[h] = IF h = g THEN "allstore" ELSE pc[h]
    BY <2>1, <1>t, Steps
  <2>4. \A h \in G : seen'[h] = IF h = g THEN wait ELSE seen[h]
    BY <2>1, <1>t DEF Types
  <2>5. g \in Minding'
    BY <2>1, <2>3, <2>4, MindsNext
  <2>6. ListStep(g) /\ ~NotifyListAdd(g) /\ ~AllStore(g) /\ ~OneStore(g)
    BY <2>1, <1>12 DEF ListStep, Step, NotifyListAdd, AllStore, OneStore, At
  <2> QED
    BY <2>3, <2>4, <2>5, <2>6, <1>9, <1>12
<1>13. CASE Notifying(g) /\ AllStore(g)
  <2>1. /\ pc[g] = "allstore" /\ seen' = [seen EXCEPT ![g] = 0]
        /\ \E l \in {"idle", "ready"} : Goto(g, l)
    BY <1>13 DEF AllStore, Forget, At
  <2>2. \A h \in G : h # g => pc'[h] = pc[h] /\ seen'[h] = seen[h]
    BY <2>1, <1>t, Steps DEF Types
  <2>3. Passed(seen[g])
    BY <1>13, <1>t, <1>y, AllStorePasses
  <2>4. \A h \in G : Waiting(h)' => Waiting(h)
    BY <2>3, <1>t, <1>y, PassedKeeps DEF Waiters
  <2>5. wait' = wait /\ notify' = seen[g] /\ Ahead(seen[g]) <= Lag
    BY <2>3 DEF Passed
  <2>6. wait = notify => seen[g] = wait
    <3>1. wait = notify => Lag = 0
      BY <1>t, AheadType DEF Lag
    <3>2. Ahead(seen[g]) \in Nat /\ (Ahead(seen[g]) = 0 <=> seen[g] = notify)
      BY <1>t, AheadType
    <3> QED
      BY <3>1, <3>2, <2>5
  <2>7. Minds(g) => seen[g] = wait
    BY <2>1, <1>13, <1>v DEF Minds
  <2>8. \A h \in G : h # g /\ Minds(h) => h \in Minding'
    BY <2>2, <2>4, <2>5, <1>13, <1>v, <1>b
  <2>9. wait' # notify' => wait # notify /\ Minding \subseteq Minding'
    BY <2>5, <2>6, <2>7, <2>8, <1>m
  <2> QED
    BY <2>9, <1>13, <1>v, <1>t, StillMinded
<1>14. CASE Notifying(g) /\ OneCheck(g)
  <2>1. pc[g] = "onelock" /\ seen' = seen
    BY <1>14 DEF OneCheck, At
  <2>2. PICK l \in {"idle", "onestore"} : Goto(g, l) /\ (l = "idle" => notify = wait)
    BY <1>14 DEF OneCheck
  <2>3. \A h \in G : pc'[h] = IF h = g THEN l ELSE pc[h]
    BY <2>2, <1>t, Steps
  <2>5. wait # notify => g \in Minding'
    BY <2>2, <2>3, MindsNext
  <2>6. ListStep(g) /\ ~NotifyListAdd(g) /\ ~AllStore(g) /\ ~OneStore(g)
    BY <2>1, <1>14 DEF ListStep, Step, NotifyListAdd, AllStore, OneStore, At
  <2> QED
    BY <2>1, <2>3, <2>5, <2>6, <1>9, <1>14
(* The notifier is done, but the waiter it notified is on its way.         *)
<1>15. CASE Notifying(g) /\ OneStore(g)
  <2>1. /\ pc[g] = "onestore" /\ seen' = seen
        /\ \E l \in {"idle", "ready"} : Goto(g, l)
    BY <1>15 DEF OneStore, At
  <2>2. \A h \in G : h # g => pc'[h] = pc[h] /\ seen'[h] = seen[h]
    BY <2>1, <1>t, Steps
  <2>3. Passed(Plus(notify, 1)) /\ wait # notify
    BY <1>15, <1>t, <1>y, OneStorePasses
  <2>4. Waiters' = {h \in Waiters : Ahead(ticket[h]) >= Ahead(Plus(notify, 1))} /\ wait' = wait
    BY <2>3, <1>t, <1>y, PassedKeeps DEF Passed
  <2>5. \A h \in G : Waiting(h)' => Waiting(h)
    BY <2>4 DEF Waiters
  <2>6. PICK n \in Waiters : Ahead(ticket[n]) = 0 /\ Ahead(Plus(notify, 1)) = 1
    BY <2>3, <1>t, NextWaiter
  <2>7. n \notin Waiters' /\ n \in G /\ Waiting(n)
    BY <2>4, <2>6 DEF Waiters
  <2>8. pc[n] \in {"added", "parked"} /\ ~Waiting(n)'
    BY <2>7, <1>t, <1>y, WaitingIs, WaitingNext
  <2>9. n # g /\ n \notin Minding /\ n \in Minding'
    <3>1. n # g
      BY <2>1, <2>8
    <3>2. cpc[n] \in {"unlock", "wait"}
      BY <2>7, <2>8, <1>t, Whereabouts DEF WaitPC
    <3>3. ~Minds(n)
      BY <3>2, <2>7, <2>8 DEF Minds
    <3>4. pc'[n] \in WaitPC /\ ~Waiting(n)'
      BY <3>1, <2>2, <2>7, <2>8 DEF WaitPC
    <3> QED
      BY <3>1, <3>3, <3>4, <2>7, <1>m, MindsNext
  <2>10. \A h \in G : h # g /\ Minds(h) => h \in Minding'
    BY <2>2, <2>4, <2>5, <1>15, <1>v, <1>b
  <2> DEFINE M == Minding
             N == Minding'
  <2>11. /\ M \in SUBSET G /\ N \in SUBSET G /\ g \in M /\ n \notin M /\ n \in G
         /\ (M \ {g}) \cup {n} \subseteq N
    BY <2>1, <2>7, <2>9, <2>10, <1>m DEF Minding, Minds
  <2>12. items <= Cardinality(M) /\ items' = items
    BY <2>3, <1>15, <1>v, <1>t DEF ItemsMinded, Minding
  <2>13. items' <= Cardinality(N) => ItemsMinded'
    BY DEF ItemsMinded, Minding
  <2> HIDE DEF M, N
  <2>14. /\ Cardinality(M \ {g}) = Cardinality(M) - 1 /\ Cardinality(M) \in Nat
         /\ Cardinality((M \ {g}) \cup {n}) = Cardinality(M \ {g}) + 1
         /\ Cardinality((M \ {g}) \cup {n}) <= Cardinality(N) /\ Cardinality(N) \in Nat
    <3>1. M \ {g} \in SUBSET G /\ (M \ {g}) \cup {n} \in SUBSET G /\ n \in G \ (M \ {g})
      BY <2>11
    <3> QED
      BY <3>1, <2>11, Counts
  <2> QED
    BY <2>12, <2>13, <2>14, <1>t
<1>16. CASE Notifying(g) /\ Ready(g)
  <2>1. PICK x \in G : /\ x = Head(took[g]) /\ x # g /\ pc'[x] = "woken"
                       /\ \A h \in G : h \notin {g, x} => pc'[h] = pc[h]
    BY <1>16, <1>t, ReadyTypes
  <2>2. Stayed /\ ~Waiting(x) /\ pc[g] = "ready" /\ seen' = seen
    BY <2>1, <1>16, <1>t, <1>y, ReadyStays DEF Ready, At
  <2>3. wait' = wait /\ notify' = notify /\ \A h \in G : Waiting(h)' <=> Waiting(h)
    BY <2>2 DEF Stayed
  <2>4. x \in Minding'
    BY <2>1, <2>2, <2>3, MindsNext DEF WaitPC
  <2>5. ~Minds(g)
    BY <2>2, <1>16, <1>v DEF Minds
  <2>6. \A h \in G : h \notin {g, x} /\ Minds(h) => h \in Minding'
    BY <2>1, <2>2, <2>3, <1>16, <1>v, <1>b
  <2> QED
    BY <2>3, <2>4, <2>5, <2>6, <1>16, <1>v, <1>s
<1> QED
  BY <1>g, <1>1, <1>2, <1>3, <1>4, <1>5, <1>6, <1>7, <1>8, <1>10, <1>11, <1>12, <1>13, <1>14, <1>15, <1>16
     DEF Notifying

----------------------------------------------------------------------------
(* Cond: the theorems.                                                     *)

LEMMA InitCond == CondInit => CondIInv
<1> SUFFICES ASSUME CondInit PROVE CondIInv
  OBVIOUS
<1>1. IInv /\ wait = notify
  BY InitIInv DEF CondInit, Init
<1>2. CondTypeOK
  BY CondAssumption DEF CondInit, CondTypeOK, ClientPC
<1>3. Clients
  BY NotifyListAssumption DEF CondInit, Init, Clients, In, At
<1>4. ItemsMinded
  BY <1>1 DEF ItemsMinded
<1> QED
  BY <1>1, <1>2, <1>3, <1>4 DEF CondIInv

LEMMA CondKept ==
  ASSUME CondIInv, [CondNext]_condVars
  PROVE  CondIInv'
<1>1. CASE CondNext
  <2>1. IInv'
    BY <1>1, CondMoves, IInvKept DEF CondIInv
  <2> QED
    BY <1>1, <2>1, ClientsKept, ItemsKept DEF CondIInv
<1>2. CASE UNCHANGED condVars
  <2>1. UNCHANGED vars /\ UNCHANGED <<L, items, cpc>>
    BY <1>2 DEF condVars
  <2>2. IInv'
    BY <2>1, ListStutters DEF CondIInv
  <2>3. CondTypeOK' /\ Clients'
    BY <2>1 DEF CondIInv, CondTypeOK, Clients, vars, listVars, In, At
  <2>4. ItemsMinded'
    BY <2>1 DEF CondIInv, ItemsMinded, Minds, Waiting, Handed, vars, listVars, At
  <2> QED
    BY <2>2, <2>3, <2>4 DEF CondIInv
<1> QED
  BY <1>1, <1>2

(* As long as the next ticket is somebody's, there is for every item a     *)
(* goroutine that is going to test the condition, or that is in a notify   *)
(* call which has a ticket to notify (cond.go:36-76).                      *)
THEOREM CondInvariance == CondSpec => []CondIInv
<1>1. CondIInv /\ [CondNext]_condVars => CondIInv'
  BY CondKept
<1> QED
  BY InitCond, <1>1, PTL DEF CondSpec

(* No wakeup is lost between Wait's Unlock and its sleep, nor on the fast  *)
(* paths (cond.go:52-76): no consumer sleeps beside an item with nobody on *)
(* the way.                                                                *)
THEOREM NobodyStranded == CondSpec => []NoStrandedConsumer
<1>1. CondIInv => NoStrandedConsumer
  <2> SUFFICES ASSUME CondIInv, items > 0, NEW g \in G, Sleeping(g)
               PROVE  \E h \in G : ~In(h, "idle") /\ ~Sleeping(h)
    BY DEF NoStrandedConsumer, CondIInv
  <2>t. /\ Types /\ Parking /\ Ticketing /\ CondTypeOK /\ Clients /\ ItemsMinded
        /\ items \in Nat /\ wait \in Ticket /\ notify \in Ticket
    BY CondAssumption DEF CondIInv, IInv, ListInv, TypeOK, Types, CondTypeOK
  <2>1. ASSUME NEW h \in G, pc[h] # "idle", pc[h] # "parked"
        PROVE  ~In(h, "idle") /\ ~Sleeping(h)
    BY <2>1, <2>t DEF Clients, In, At, Sleeping
  <2>2. ASSUME NEW h \in G, Handed(h) PROVE \E k \in G : ~In(k, "idle") /\ ~Sleeping(k)
    <3>1. PICK k \in G : pc[k] = "ready"
      BY <2>2, <2>t, HandedIs
    <3> QED
      BY <3>1, <2>1
  <2>3. CASE ~Handed(g)
    <3>1. g \in Waiters
      BY <2>3, <2>t DEF Ticketing, Waiters, Sleeping, At
    <3>2. Ahead(ticket[g]) < Lag /\ ticket[g] \in Ticket
      BY <3>1, <2>t DEF Ticketing, Types
    <3>3. wait # notify
      BY <3>2, <2>t, AheadType DEF Lag
    <3>4. Minding # {}
      <4> DEFINE M == Minding
      <4>1. items <= Cardinality(M)
        BY <3>3, <2>t DEF ItemsMinded, Minding
      <4> HIDE DEF M
      <4>2. M # {}
        BY <4>1, <2>t, FS_EmptySet
      <4> QED
        BY <4>2 DEF M
    <3>5. PICK h \in G : Minds(h)
      BY <3>4 DEF Minding
    <3>6. CASE cpc[h] \in {"relock", "test"}
      BY <3>6, <2>t DEF Clients, Sleeping, In
    <3>7. CASE pc[h] = "parked" /\ ~Waiting(h)
      <4>1. Handed(h)
        BY <3>7, <2>t DEF Ticketing, At
      <4> QED
        BY <4>1, <2>2
    <3>8. CASE pc[h] # "parked" /\ cpc[h] \notin {"relock", "test"}
      <4>1. pc[h] # "idle"
        BY <3>5, <3>8 DEF Minds, WaitPC
      <4> QED
        BY <4>1, <3>8, <2>1
    <3> QED
      BY <3>5, <3>6, <3>7, <3>8 DEF Minds
  <2> QED
    BY <2>2, <2>3
<1> QED
  BY CondInvariance, <1>1, PTL

(* In a Cond too, whoever parks in Wait is on the list or in the hands of  *)
(* one Signal or Broadcast, once (cond.go:52-58).                          *)
THEOREM NobodyIsLostInCond == CondSpec => []ParkedOnce
<1>1. CondIInv => ParkedOnce
  BY Places DEF CondIInv
<1> QED
  BY CondInvariance, <1>1, PTL

(* In a Cond too, a notification that was sent for the ticket of a Wait    *)
(* which is still on its way to the list stays sent (cond.go:54-56).       *)
THEOREM SentStaysSentInCond == CondSpec => NotificationIsKept
<1>1. CondIInv /\ [CondNext]_condVars =>
        [\A g \in G : At(g, "added") /\ ~Waiting(g) => ~Waiting(g)']_vars
  <2>1. ASSUME CondIInv, CondNext PROVE \A g \in G : At(g, "added") /\ ~Waiting(g) => ~Waiting(g)'
    BY <2>1, CondMoves, Kept DEF CondIInv
  <2>2. UNCHANGED condVars => UNCHANGED vars
    BY DEF condVars
  <2> QED
    BY <2>1, <2>2
<1> QED
  BY CondInvariance, <1>1, PTL DEF CondSpec, NotificationIsKept

(* A call of Signal that notifies nobody, or of Broadcast, leaves none of  *)
(* those waiting that waited when it was called (cond.go:60-76).           *)
THEOREM FastPathMissesNobodyInCond == CondSpec => CallersAreServed
<1>1. CondIInv /\ [CondNext]_condVars =>
        [\A g \in G :
           \/ pc[g] \in {"one2", "all2", "onelock"} /\ pc'[g] = "idle"
           \/ At(g, "allstore") /\ pc'[g] # "allstore"
           => before[g] \cap Waiters' = {}]_vars
  <2>1. ASSUME CondIInv, CondNext, NEW g \in G,
               \/ pc[g] \in {"one2", "all2", "onelock"} /\ pc'[g] = "idle"
               \/ At(g, "allstore") /\ pc'[g] # "allstore"
        PROVE  before[g] \cap Waiters' = {}
    BY <2>1, CondMoves, Served DEF CondIInv
  <2>2. UNCHANGED condVars => UNCHANGED vars
    BY DEF condVars
  <2> QED
    BY <2>1, <2>2
<1> QED
  BY CondInvariance, <1>1, PTL DEF CondSpec, CallersAreServed

----------------------------------------------------------------------------
(* NotifyList implements Notifications.                                    *)

Inside == {h \in G : pc[h] \in WaitPC}

Ordered == Range(order) = Waiters

LEMMA OrderedAre ==
  ASSUME IInv
  PROVE  Ordered
<1>1. State /\ Queueing
  BY DEF IInv, TypeOK, Types, State
<1>2. /\ DOMAIN order = 1..Lag
      /\ \A k \in 1..Lag : order[k] \in Waiters
      /\ \A h \in Waiters : \E k \in 1..Lag : order[k] = h
  BY <1>1, OrderIs
<1> QED
  BY <1>2 DEF Range, Ordered

(* Who is between add and the return of wait.                              *)
LEMMA Insiders ==
  ASSUME State, NEW g \in G, ListStep(g), ~NotifyListAdd(g)
  PROVE  \/ \A h \in G : pc'[h] \in WaitPC <=> pc[h] \in WaitPC
         \/ /\ pc[g] \in WaitPC /\ pc'[g] = "idle"
            /\ \A h \in G : h # g => pc'[h] = pc[h]
<1>t. Types /\ Parking
  BY DEF State, ListInv
<1>1. ASSUME NEW l, Goto(g, l), l \in WaitPC <=> pc[g] \in WaitPC
      PROVE  \A h \in G : pc'[h] \in WaitPC <=> pc[h] \in WaitPC
  BY <1>1, <1>t, Steps
<1>2. ASSUME Goto(g, "idle"), pc[g] \in WaitPC
      PROVE  pc[g] \in WaitPC /\ pc'[g] = "idle" /\ \A h \in G : h # g => pc'[h] = pc[h]
  BY <1>2, <1>t, Steps
<1>3. CASE CallNotify(g, "one") \/ CallNotify(g, "all")
  <2>1. pc[g] = "idle" /\ \E l \in {"one", "all"} : Goto(g, l)
    BY <1>3 DEF CallNotify, At
  <2> QED
    BY <2>1, <1>1 DEF WaitPC
<1>4. CASE NotifyListWait(g)
  <2>1. pc[g] = "added" /\ (Goto(g, "idle") \/ Goto(g, "parked"))
    BY <1>4 DEF NotifyListWait, At
  <2> QED
    BY <2>1, <1>1, <1>2 DEF WaitPC
<1>5. CASE WaitReturn(g)
  BY <1>5, <1>2 DEF WaitReturn, WaitPC, At
<1>6. CASE LoadWait(g)
  <2>1. pc[g] \in {"one", "all"} /\ \E l \in {"one2", "all2"} : Goto(g, l)
    BY <1>6 DEF LoadWait
  <2> QED
    BY <2>1, <1>1 DEF WaitPC
<1>7. CASE LoadNotify(g)
  <2>1. pc[g] \in {"one2", "all2"} /\ \E l \in {"idle", "onelock", "alllock"} : Goto(g, l)
    BY <1>7 DEF LoadNotify
  <2> QED
    BY <2>1, <1>1 DEF WaitPC
<1>8. CASE AllPull(g)
  BY <1>8, <1>1 DEF AllPull, WaitPC, At
<1>9. CASE AllStore(g)
  <2>1. pc[g] = "allstore" /\ \E l \in {"idle", "ready"} : Goto(g, l)
    BY <1>9 DEF AllStore, At
  <2> QED
    BY <2>1, <1>1 DEF WaitPC
<1>10. CASE OneCheck(g)
  <2>1. pc[g] = "onelock" /\ \E l \in {"idle", "onestore"} : Goto(g, l)
    BY <1>10 DEF OneCheck, At
  <2> QED
    BY <2>1, <1>1 DEF WaitPC
<1>11. CASE OneStore(g)
  <2>1. pc[g] = "onestore" /\ \E l \in {"idle", "ready"} : Goto(g, l)
    BY <1>11 DEF OneStore, At
  <2> QED
    BY <2>1, <1>1 DEF WaitPC
<1>12. CASE Ready(g)
  <2>1. PICK x \in G : /\ pc[x] = "parked" /\ x # g /\ pc'[x] = "woken"
                       /\ \A h \in G : h \notin {g, x} => pc'[h] = pc[h]
                       /\ pc'[g] \in {"idle", "ready"} /\ pc[g] = "ready"
    BY <1>12, <1>t, ReadyTypes DEF Ready, At
  <2> QED
    BY <2>1 DEF WaitPC
<1> QED
  BY <1>3, <1>4, <1>5, <1>6, <1>7, <1>8, <1>9, <1>10, <1>11, <1>12 DEF ListStep, Step

LEMMA NextPromise ==
  ASSUME IInv, IInv', Ordered, Ordered', ListNext, Remember
  PROVE  [Promise!Next]_(Promise!promiseVars)
<1>t. State /\ Queueing /\ Types /\ Range(order) = Waiters /\ Range(order') = Waiters'
  BY DEF IInv, TypeOK, Types, State, Ordered
<1> DEFINE in == Inside
           in2 == Inside'
           ws == Waiters
           ws2 == Waiters'
<1>s. ASSUME order' = order, in2 \ ws2 = in \ ws PROVE UNCHANGED Promise!promiseVars
  BY <1>s, <1>t DEF Promise!promiseVars, Inside
<1>r. ASSUME NEW g \in G, order' = order, g \in in \ ws, in2 \ ws2 = (in \ ws) \ {g} PROVE Promise!Next
  <2>0. /\ in \ ws = {h \in G : pc[h] \in WaitPC} \ Range(order)
        /\ in2 \ ws2 = {h \in G : pc'[h] \in WaitPC} \ Range(order')
    BY <1>t DEF Inside
  <2> HIDE DEF in, in2, ws, ws2
  <2>1. Promise!Return(g)
    BY <1>r, <2>0 DEF Promise!Return
  <2> QED
    BY <2>1 DEF Promise!Next
<1>1. CASE UNCHANGED listVars
  <2>1. Stayed
    BY <1>t, <1>1, ClientStays
  <2>2. order' = order /\ ws2 = ws
    BY <2>1, <1>t, StayedKeeps, QueueStays
  <2>3. in2 = in
    BY <1>1 DEF Inside, listVars
  <2> QED
    BY <2>2, <2>3, <1>s
<1>2. ASSUME NEW g \in G, ListStep(g) PROVE [Promise!Next]_(Promise!promiseVars)
  <2>y. Types'
    BY DEF IInv, TypeOK, Types
  <2>1. CASE Stayed /\ ~NotifyListAdd(g)
    <3>1. order' = order /\ ws2 = ws
      BY <2>1, <1>t, StayedKeeps, QueueStays
    <3>2. CASE \A h \in G : pc'[h] \in WaitPC <=> pc[h] \in WaitPC
      <4>1. in2 = in
        BY <3>2 DEF Inside
      <4> QED
        BY <3>1, <4>1, <1>s
    <3>3. CASE pc[g] \in WaitPC /\ pc'[g] = "idle" /\ \A h \in G : h # g => pc'[h] = pc[h]
      <4>1. g \in in /\ in2 = in \ {g}
        BY <3>3 DEF Inside, WaitPC
      <4>2. g \notin ws2
        BY <3>3, <2>y, WaitingNext
      <4> HIDE DEF in, in2, ws, ws2
      <4>3. g \in in \ ws /\ in2 \ ws2 = (in \ ws) \ {g}
        BY <4>1, <4>2, <3>1
      <4> QED
        BY <3>1, <4>3, <1>r
    <3> QED
      BY <2>1, <3>2, <3>3, <1>2, <1>t, Insiders
  <2>2. CASE NotifyListAdd(g) /\ Joined(g)
    <3>1. order' = Append(order, g)
      BY <2>2, <1>t, QueueGrows
    <3>2. g \notin ws /\ ws2 = ws \cup {g}
      BY <2>2 DEF Joined
    <3>3. pc[g] = "idle" /\ \A h \in G : pc'[h] = IF h = g THEN "added" ELSE pc[h]
      BY <2>2, <1>t, Steps DEF NotifyListAdd, At
    <3>4. g \notin in /\ in2 = in \cup {g}
      BY <3>3 DEF Inside, WaitPC
    <3>5. in2 \ ws2 = in \ ws
      <4> HIDE DEF in, in2, ws, ws2
      <4> QED
        BY <3>2, <3>4
    <3>6. \A i \in DOMAIN order : order[i] # g
      BY <3>2, <1>t DEF Range
    <3>7. Promise!Wait(g)
      BY <3>1, <3>4, <3>5, <3>6, <1>t DEF Promise!Wait, Inside
    <3> QED
      BY <3>7 DEF Promise!Next
  <2>3. ASSUME NEW s, Passed(s), ~NotifyListAdd(g), pc[g] \in {"allstore", "onestore"}
        PROVE  [Promise!Next]_(Promise!promiseVars)
    <3>0. PICK n \in 0..Len(order) : n = Ahead(s)
      BY <2>3, <2>y, <1>t, QueueShrinks
    <3>1. /\ order' \in Seq(G) /\ Len(order') = Len(order) - n
          /\ \A k \in 1..Len(order') : order'[k] = order[k + n]
      BY <3>0, <2>3, <2>y, <1>t, QueueShrinks
    <3>2. /\ order \in Seq(G) /\ Len(order) = Lag
          /\ \A k \in 1..Lag : order[k] \in G /\ order[k] \in ws /\ Ahead(ticket[order[k]]) = k - 1
          /\ \A h \in ws : \E k \in 1..Lag : order[k] = h
      BY <1>t, OrderIs
    <3>3. ws2 = {h \in ws : Ahead(ticket[h]) >= n} /\ ws \subseteq in
      <4>1. ws2 = {h \in ws : Ahead(ticket[h]) >= n}
        BY <3>0, <2>3, <2>y, <1>t, PassedKeeps
      <4>2. \A h \in ws : h \in G /\ pc[h] \in {"added", "parked"}
        BY <1>t, WaitingIs DEF Waiters
      <4> QED
        BY <4>1, <4>2 DEF Inside, WaitPC
    <3>4. in2 = in
      <4>1. \A h \in G : pc'[h] \in WaitPC <=> pc[h] \in WaitPC
        <5>1. pc[g] \notin WaitPC
          BY <2>3 DEF WaitPC
        <5> QED
          BY <5>1, <2>3, <1>2, <1>t, Insiders
      <4> QED
        BY <4>1 DEF Inside
    <3>5. \A h \in ws : h \notin ws2 <=> \E i \in 1..n : order[i] = h
      <4>1. ASSUME NEW h \in ws PROVE h \notin ws2 <=> \E i \in 1..n : order[i] = h
        <5>1. PICK k \in 1..Lag : order[k] = h
          BY <3>2
        <5>2. Ahead(ticket[h]) = k - 1
          BY <5>1, <3>2
        <5>3. h \notin ws2 <=> k <= n
          BY <5>2, <3>0, <3>3
        <5>4. \A i \in 1..n : order[i] = h => i = k
          BY <3>0, <3>2, <5>2
        <5> QED
          BY <5>1, <5>3, <5>4, <3>0
      <4> QED
        BY <4>1
    <3>6. {order[i] : i \in 1..n} \subseteq ws
      BY <3>0, <3>2
    <3>7. in2 \ ws2 = (in \ ws) \cup {order[i] : i \in 1..n}
      <4>1. ws2 \subseteq ws
        BY <3>3
      <4> HIDE DEF in, in2, ws, ws2
      <4> QED
        BY <4>1, <3>3, <3>4, <3>5, <3>6
    <3>8. CASE n = 0
      <4>1. order' = order
        BY <3>1, <3>2, <3>8, SeqEqual
      <4>2. {order[i] : i \in 1..n} = {}
        BY <3>8
      <4> HIDE DEF in, in2, ws, ws2
      <4> QED
        BY <4>1, <4>2, <3>7, <1>s
    <3>9. CASE n # 0
      <4>1. n \in 1..Len(order) /\ n \in Int /\ Len(order) \in Nat
        BY <3>0, <3>2, <3>9
      <4>2. order' = SubSeq(order, n + 1, Len(order))
        <5>1. \A i \in (n + 1)..Len(order) : order[i] \in G
          BY <3>2, <4>1
        <5>2. /\ SubSeq(order, n + 1, Len(order)) \in Seq(G)
              /\ Len(SubSeq(order, n + 1, Len(order))) = IF n + 1 <= Len(order) THEN Len(order) - (n + 1) + 1 ELSE 0
              /\ \A i \in 1..(Len(order) - (n + 1) + 1) :
                   SubSeq(order, n + 1, Len(order))[i] = order[(n + 1) + i - 1]
          <6>1. n + 1 \in Int /\ Len(order) \in Int
            BY <4>1
          <6> QED
            BY <5>1, <6>1, SubSeqProperties
        <5> DEFINE q == SubSeq(order, n + 1, Len(order))
        <5>3. Len(q) = Len(order')
          BY <5>2, <4>1, <3>1
        <5>4. \A i \in 1..Len(order') : order'[i] = q[i]
          <6>1. \A i \in 1..Len(order') : /\ i \in 1..(Len(order) - (n + 1) + 1) /\ (n + 1) + i - 1 = i + n
            BY <4>1, <3>1
          <6> HIDE DEF q
          <6>2. \A i \in 1..(Len(order) - (n + 1) + 1) : q[i] = order[(n + 1) + i - 1]
            BY <5>2 DEF q
          <6> QED
            BY <6>1, <6>2, <3>1
        <5>5. q \in Seq(G)
          BY <5>2
        <5> HIDE DEF q
        <5>6. order' = q
          BY <5>3, <5>4, <5>5, <3>1, SeqEqual
        <5> QED
          BY <5>6 DEF q
      <4>3. Promise!Notify(n)
        BY <4>2, <3>7, <1>t DEF Promise!Notify, Inside
      <4> QED
        BY <4>1, <4>3 DEF Promise!Next
    <3> QED
      BY <3>8, <3>9
  <2>4. CASE AllStore(g)
    BY <2>3, <2>4, <2>y, <1>t, AllStorePasses DEF NotifyListAdd, AllStore, At
  <2>5. CASE OneStore(g)
    BY <2>3, <2>5, <2>y, <1>t, OneStorePasses DEF NotifyListAdd, OneStore, At
  <2> QED
    BY <2>y, <2>1, <2>2, <2>4, <2>5, <1>2, <1>t, Effects
<1> QED
  BY <1>1, <1>2 DEF ListNext

LEMMA InitPromise == Init => Promise!Init
<1> SUFFICES ASSUME Init PROVE Promise!Init
  OBVIOUS
<1>1. \A g \in G : pc[g] \notin WaitPC
  BY DEF Init, WaitPC
<1> QED
  BY <1>1 DEF Init, Promise!Init

LEMMA VarsPromise == UNCHANGED vars => UNCHANGED Promise!promiseVars
  BY DEF vars, listVars, Promise!promiseVars

(* The list keeps its promise (sync/runtime.go:27-44): waiters are         *)
(* notified in the order in which they came, each of them once, and a wait *)
(* ends only with a notification.                                          *)
THEOREM KeepsPromise == Spec => ImplementsNotifications
<1>1. IInv /\ IInv' /\ Ordered /\ Ordered' /\ [Next]_vars => [Promise!Next]_(Promise!promiseVars)
  BY ListMoves, NextPromise, VarsPromise
<1>2. IInv => Ordered
  BY OrderedAre
<1> QED
  BY InitPromise, ListInvariance, <1>1, <1>2, PTL DEF Spec, ImplementsNotifications, Promise!Spec

(* It keeps it to sync.Cond (cond.go:36-76).                               *)
THEOREM KeepsPromiseToCond == CondSpec => ImplementsNotifications
<1>1. CondIInv /\ CondIInv' /\ Ordered /\ Ordered' /\ [CondNext]_condVars => [Promise!Next]_(Promise!promiseVars)
  <2>1. CondIInv /\ CondIInv' /\ Ordered /\ Ordered' /\ CondNext => [Promise!Next]_(Promise!promiseVars)
    BY CondMoves, NextPromise DEF CondIInv
  <2>2. UNCHANGED condVars => UNCHANGED vars
    BY DEF condVars
  <2> QED
    BY <2>1, <2>2, VarsPromise
<1>2. CondInit => Promise!Init
  BY InitPromise DEF CondInit
<1>3. CondIInv => Ordered
  BY OrderedAre DEF CondIInv
<1> QED
  BY <1>1, <1>2, <1>3, CondInvariance, PTL DEF CondSpec, ImplementsNotifications, Promise!Spec
=============================================================================
