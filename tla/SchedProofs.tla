----------------------------- MODULE SchedProofs -----------------------------
(***************************************************************************)
(* Proofs about module Sched, for any threads, Ps and numbers of goroutines*)
(* and of network waits.  Each action is first described by what it does to*)
(* the threads' fields (the lemmas in ...Does); the parts of the invariant *)
(* are then proved one after the other: types and shapes, one owner for    *)
(* every P, the count of spinning threads, and the Ps that have no work;   *)
(* then what must hold when all rest, that no goroutine is lost, and that  *)
(* somebody is responsible for work beside an idle P.                      *)
(***************************************************************************)
EXTENDS Sched, FiniteSetTheorems, FunctionTheorems, TLAPS

(***************************************************************************)
(* Where a thread can be and what it has there.                            *)
(***************************************************************************)
WithP == {"run", "readied", "wakep", "resetspinning", "schedule", "findrunnable", "netpoll", "spin",
          "steal", "stop", "respin"}
NoP == {"exit0", "stopm", "stopped", "fresh", "unspin", "recheck", "rechecked", "netblock", "polling",
        "polled", "pollPidle", "repark"}
Starting == {"startm", "undo", "newm"}
Handing == {"handoffp", "handoffCas", "handoffLocked"}
Injecting == {"inject", "injected"}
Monitoring == {"sysmon", "asleep", "incidlelocked", "retakeCas", "uncount"}
PC == WithP \cup NoP \cup Starting \cup Handing \cup Injecting \cup Monitoring \cup {"syscall"}

Thread == [pc : PC, p : P \cup {None}, spin : BOOLEAN, todo : SUBSET P, hp : P \cup {None}, sp : BOOLEAN,
           ret : {"", "run", "syscall", "uncount", "injected", "schedule", "findrunnable", "respin"},
           n : Nat, fin : {"", "got", "run", "repark", "uncount"}]

(* The type invariant. *)
TypeOK ==
  /\ st \in [T -> Thread] /\ loc \in [P -> Nat] /\ glob \in Nat
  /\ idle \subseteq P /\ insys \subseteq P /\ P # {}
  /\ nmspinning \in Int /\ parked \in Nat /\ netwait \in Nat /\ idlelocked \in Int
  /\ lastpoll \in BOOLEAN /\ waiters \in BOOLEAN /\ sysmonwait \in BOOLEAN
  /\ dead \in BOOLEAN /\ lapse \in BOOLEAN

(* On its way through injectglist, *)
Injector(s) == s.pc \in Injecting \/ s.ret = "injected"
(* and where a thread may spin. *)
Spinner(s) == \/ s.pc \in {"schedule", "findrunnable", "netpoll", "spin", "steal", "stop", "unspin",
                           "resetspinning"}
              \/ Injector(s) /\ s.fin = "got"

(* What a thread has at each place. *)
Shape(s) ==
  /\ s.pc \in WithP => s.p \in P
  /\ s.pc \in NoP \cup Handing \cup Monitoring => s.p = None
  /\ s.pc \in Handing \cup {"newm"} => s.hp \in P
  /\ s.hp # None => s.pc \in Handing \cup {"startm", "newm"}
  /\ s.ret = "injected" => s.pc \in {"startm", "newm"}
  /\ s.pc \in Starting => s.ret \in {"run", "syscall", "uncount", "injected"}
  /\ s.pc \in Starting /\ s.ret = "run" => s.p \in P
  /\ s.pc \in Starting /\ s.ret \in {"syscall", "uncount"} => s.p = None
  /\ s.pc \in Handing => s.ret \in {"syscall", "uncount"}
  /\ s.pc = "startm" /\ s.ret = "run" => s.sp /\ s.hp = None
  /\ s.pc = "startm" /\ s.ret = "injected" => s.hp = None
  /\ s.pc = "startm" /\ s.ret \in {"syscall", "uncount"} => s.hp \in P
  /\ s.pc = "undo" => s.sp /\ s.ret = "run"
  /\ s.sp => s.pc \in Starting /\ ~s.spin /\ s.ret # "injected"
  /\ s.spin => Spinner(s)
  /\ s.pc \in {"unspin", "resetspinning", "steal"} => s.spin
  /\ Injector(s) => /\ s.fin \in {"got", "run", "repark", "uncount"}
                    /\ s.fin \in {"got", "run"} => s.p \in P
                    /\ s.fin \in {"repark", "uncount"} => s.p = None
  /\ s.pc \in {"polled", "pollPidle", "incidlelocked", "inject"} => s.n > 0
  /\ s.pc = "incidlelocked" => s.fin = "uncount"
  /\ s.pc \in {"stopm", "stopped"} => s.ret \in {"schedule", "findrunnable"}
  /\ s.pc \in {"netblock", "polling", "polled", "pollPidle"} => s.ret = "findrunnable"
  /\ s.pc \in {"recheck", "rechecked"} => s.ret \in {"respin", "findrunnable"}
  /\ s.pc = "unspin" => s.ret = "respin" /\ s.todo = P
  /\ s.pc = "retakeCas" => \E p \in P : s.todo = {p}

(* What sysmon does and what it calls. *)
ForSysmon == Monitoring \cup Handing \cup Injecting \cup {"startm", "newm"}
(* The shape, and the places of sysmon and of the others. *)
Fits(t, s) ==
  /\ Shape(s)
  /\ IF t = Sysmon
     THEN /\ s.pc \in ForSysmon
          /\ Injector(s) => s.fin = "uncount"
          /\ s.pc \in Starting \cup Handing => s.ret \in {"uncount", "injected"}
     ELSE /\ s.pc \notin Monitoring
          /\ Injector(s) => s.fin # "uncount"
          /\ s.pc \in Starting \cup Handing => s.ret # "uncount"

Shapes == \A t \in T : Fits(t, st[t])
----------------------------------------------------------------------------
(***************************************************************************)
(* What a step does to the threads.                                        *)
(***************************************************************************)
Rest(t) == st' \in [T -> Thread] /\ \A u \in T \ {t} : st'[u] = st[u]
(* The fields but pc. *)
Same(s, r) == /\ s.p = r.p /\ s.spin = r.spin /\ s.todo = r.todo /\ s.hp = r.hp /\ s.sp = r.sp
              /\ s.ret = r.ret /\ s.n = r.n /\ s.fin = r.fin

(* A thread that has nothing but a P. *)
IsLocal(s, a, p) == /\ s.pc = a /\ s.p = p /\ ~s.spin /\ s.todo = {} /\ s.hp = None /\ ~s.sp
                    /\ s.ret = "" /\ s.n = 0 /\ s.fin = ""

(* A thread that returned from startm or handoffp. *)
Back(s, r) == /\ s.pc = r.ret /\ s.p = r.p /\ s.spin = r.spin /\ s.todo = r.todo /\ s.hp = None /\ ~s.sp
              /\ s.ret = "" /\ s.n = r.n /\ s.fin = r.fin
To(s, r, l) == s.pc = l /\ Same(s, r)
Goes(t, l) == Rest(t) /\ To(st'[t], st[t], l)

(* Goto changes the pc and nothing else of the thread. *)
LEMMA Going ==
  ASSUME TypeOK, NEW t \in T, NEW l \in PC, Goto(t, l)
  PROVE  Goes(t, l)
<1> HIDE DEF PC
<1> QED
  BY ZenonT(60) DEF TypeOK, Thread, Goto, Same, Rest, To, Goes

(* A thread that starts afresh is a thread with that pc and P, and with nothing else. *)
LEMMA Locals ==
  ASSUME NEW a \in PC, NEW p \in P \cup {None}
  PROVE  Local(a, p) \in Thread /\ IsLocal(Local(a, p), a, p)
<1> HIDE DEF PC
<1> QED
  BY DEF Local, Thread, IsLocal

(* What startm or handoffp returns to, with the caller's own state back. *)
LEMMA Returns ==
  ASSUME TypeOK, Shapes, NEW t \in T, st[t].pc \in Starting \cup Handing
  PROVE  Returned(st[t]) \in Thread /\ Back(Returned(st[t]), st[t])
<1>1. st[t] \in Thread /\ st[t].ret \in PC
  BY DEF TypeOK, PC, Shapes, Shape, Fits, Starting, Handing, WithP, Injecting, Monitoring
<1> HIDE DEF PC
<1> QED
  BY <1>1 DEF Thread, Returned, Back

(* An update of two threads leaves the others alone. *)
LEMMA Rest2 ==
  ASSUME TypeOK, NEW t \in T, NEW u \in T, t # u, NEW a \in Thread, NEW b \in Thread,
         st' = [st EXCEPT ![t] = a, ![u] = b]
  PROVE  st' \in [T -> Thread] /\ st'[t] = a /\ st'[u] = b /\ \A v \in T \ {t, u} : st'[v] = st[v]
<1> HIDE DEF Thread
<1> QED
  BY DEF TypeOK

(* An update of one thread leaves the others alone. *)
LEMMA Rest1 ==
  ASSUME TypeOK, NEW t \in T, NEW a \in Thread, st' = [st EXCEPT ![t] = a]
  PROVE  Rest(t) /\ st'[t] = a
<1> HIDE DEF Thread
<1> QED
  BY DEF TypeOK, Rest

(* A thread that was just started. *)
Starts(s, l, p, b) == /\ s.pc = l /\ s.p = p /\ s.spin = b /\ s.todo = {} /\ s.hp = None /\ ~s.sp
                      /\ s.ret = "" /\ s.n = 0 /\ s.fin = ""

(* A thread that is woken or created by startm has the P and the spinning bit it was given. *)
LEMMA Started ==
  ASSUME NEW a \in PC, NEW p \in P \cup {None}, NEW b \in BOOLEAN
  PROVE  [Local(a, p) EXCEPT !.spin = b] \in Thread /\ Starts([Local(a, p) EXCEPT !.spin = b], a, p, b)
<1>1. Local(a, p) \in Thread /\ IsLocal(Local(a, p), a, p)
  BY Locals
<1> HIDE DEF PC, Local
<1> QED
  BY <1>1 DEF Thread, IsLocal, Starts

(* The outcomes of startm. *)
StartmDoes(t) ==
  \/ st[t].hp = None /\ idle = {} /\ idle' = idle /\ st[t].sp /\ Goes(t, "undo")
  \/ st[t].hp = None /\ idle = {} /\ idle' = idle /\ ~st[t].sp /\ Rest(t) /\ Back(st'[t], st[t])
  \/ \E p \in IF st[t].hp = None THEN idle ELSE {st[t].hp} :
       /\ p \in P /\ idle' = idle \ {p}
       /\ \/ /\ Rest(t) /\ st'[t].pc = "newm" /\ st'[t].hp = p /\ st'[t].p = st[t].p /\ st'[t].spin = st[t].spin
             /\ st'[t].todo = st[t].todo /\ st'[t].sp = st[t].sp /\ st'[t].ret = st[t].ret
             /\ st'[t].n = st[t].n /\ st'[t].fin = st[t].fin
          \/ \E m \in M \ {t} : /\ st[m].pc = "stopped" /\ st' \in [T -> Thread] /\ \A u \in T \ {t, m} : st'[u] = st[u]
                                /\ Back(st'[t], st[t]) /\ Starts(st'[m], st[m].ret, p, st[t].sp)

(* startm (proc.go:1913): no idle P, or one of them or the caller's goes   *)
(* to a stopped or a new thread.                                           *)
LEMMA startmDoes ==
  ASSUME TypeOK, Shapes, NEW t \in T, startm(t)
  PROVE  StartmDoes(t) /\ st[t].pc = "startm" /\ UNCHANGED <<loc, glob, insys, nmspinning, net, parked, mon>>
<1>0. st[t].pc = "startm" /\ UNCHANGED <<loc, glob, insys, nmspinning, net, parked, mon>>
  BY DEF startm, At
<1>1. Returned(st[t]) \in Thread /\ Back(Returned(st[t]), st[t]) /\ st[t] \in Thread
  BY <1>0, Returns DEF Starting, TypeOK
<1>2. "undo" \in PC /\ "newm" \in PC
  BY DEF PC, Starting
<1>3. CASE st[t].hp = None /\ idle = {} /\ idle' = idle /\ st' = IF st[t].sp THEN [st EXCEPT ![t].pc = "undo"] ELSE [st EXCEPT ![t] = Returned(st[t])]
  <2>1. CASE st[t].sp
    <3>1. Goto(t, "undo")
      BY <1>3, <2>1 DEF Goto
    <3> QED
      BY <3>1, <1>2, Going, <1>3, <1>0, <2>1 DEF StartmDoes
  <2>2. CASE ~st[t].sp
    <3>1. st' = [st EXCEPT ![t] = Returned(st[t])]
      BY <1>3, <2>2
    <3>2. Rest(t) /\ Back(st'[t], st[t])
      BY <3>1, <1>1, Rest1
    <3> QED
      BY <3>2, <1>3, <1>0, <2>2 DEF StartmDoes
  <2> QED
    BY <2>1, <2>2
<1>4. ASSUME NEW p \in IF st[t].hp = None THEN idle ELSE {st[t].hp}, idle' = idle \ {p},
             st' = [st EXCEPT ![t].pc = "newm", ![t].hp = p]
      PROVE  StartmDoes(t)
  <2>1. p \in P
    BY <1>1 DEF Thread, TypeOK
  <2>2. /\ Rest(t) /\ st'[t].pc = "newm" /\ st'[t].hp = p /\ st'[t].p = st[t].p /\ st'[t].spin = st[t].spin
        /\ st'[t].todo = st[t].todo /\ st'[t].sp = st[t].sp /\ st'[t].ret = st[t].ret
        /\ st'[t].n = st[t].n /\ st'[t].fin = st[t].fin
    <3> HIDE DEF PC
    <3> QED
      BY ZenonT(60), <1>4, <1>2, <2>1 DEF Rest, TypeOK, Thread
  <2> QED
    BY <2>1, <2>2, <1>4 DEF StartmDoes
<1>5. ASSUME NEW p \in IF st[t].hp = None THEN idle ELSE {st[t].hp}, idle' = idle \ {p}, NEW m \in Stopped(st),
             st' = [st EXCEPT ![t] = Returned(st[t]), ![m] = [Local(st[m].ret, p) EXCEPT !.spin = st[t].sp]]
      PROVE  StartmDoes(t)
  <2>1. p \in P /\ st[t].sp \in BOOLEAN
    BY <1>1 DEF Thread, TypeOK
  <2>2. m \in M \ {t} /\ st[m].pc = "stopped" /\ m \in T
    BY <1>0 DEF Stopped, T
  <2>3. st[m].ret \in PC
    BY <2>2 DEF Shapes, Fits, Shape, PC, WithP
  <2>4. /\ [Local(st[m].ret, p) EXCEPT !.spin = st[t].sp] \in Thread
        /\ Starts([Local(st[m].ret, p) EXCEPT !.spin = st[t].sp], st[m].ret, p, st[t].sp)
    BY <2>1, <2>3, Started
  <2> DEFINE b == [Local(st[m].ret, p) EXCEPT !.spin = st[t].sp]
             a == Returned(st[t])
  <2>5. a \in Thread /\ b \in Thread /\ st' = [st EXCEPT ![t] = a, ![m] = b]
    BY <1>1, <2>4, <1>5
  <2>6. Back(a, st[t]) /\ Starts(b, st[m].ret, p, st[t].sp)
    BY <1>1, <2>4
  <2> HIDE DEF a, b
  <2>7. st' \in [T -> Thread] /\ st'[t] = a /\ st'[m] = b /\ \A v \in T \ {t, m} : st'[v] = st[v]
    BY <2>2, <2>5, Rest2
  <2> QED
    BY <2>1, <2>2, <2>6, <2>7, <1>5 DEF StartmDoes
<1> QED
  BY <1>0, <1>3, <1>4, <1>5 DEF startm

(* It is enough to look at the threads that changed. *)
LEMMA ShapesBy ==
  ASSUME Shapes, \A u \in T : st'[u] = st[u] \/ Fits(u, st'[u])
  PROVE  Shapes'
BY DEF Shapes

(* startm found no idle P for a spinning thread: it only returns. *)
LEMMA startmUndoDoes ==
  ASSUME TypeOK, Shapes, NEW t \in T, startmUndo(t)
  PROVE  Rest(t) /\ Back(st'[t], st[t])
<1>1. Returned(st[t]) \in Thread /\ Back(Returned(st[t]), st[t])
  BY Returns DEF startmUndo, At, Starting
<1> QED
  BY <1>1, Rest1 DEF startmUndo

(* The outcome of newm. *)
NewmDoes(t, m) ==
  /\ m \in M \ {t} /\ st[m].pc = "fresh" /\ st[t].pc = "newm"
  /\ st' \in [T -> Thread] /\ \A u \in T \ {t, m} : st'[u] = st[u]
  /\ Back(st'[t], st[t]) /\ Starts(st'[m], "schedule", st[t].hp, st[t].sp)

(* newm: the new thread has the P and starts in schedule. *)
LEMMA newmDoes ==
  ASSUME TypeOK, Shapes, NEW t \in T, newm(t)
  PROVE  \E m \in M \ {t} : NewmDoes(t, m)
<1>1. st[t].pc = "newm" /\ st[t].hp \in P /\ st[t].sp \in BOOLEAN /\ "schedule" \in PC
  BY DEF newm, At, Shapes, Fits, Shape, TypeOK, Thread, PC, WithP
<1>2. Returned(st[t]) \in Thread /\ Back(Returned(st[t]), st[t])
  BY <1>1, Returns DEF Starting
<1>3. PICK m \in M : /\ st[m].pc = "fresh"
                     /\ st' = [st EXCEPT ![t] = Returned(st[t]),
                                 ![m] = [Local("schedule", st[t].hp) EXCEPT !.spin = st[t].sp]]
  BY DEF newm
<1> DEFINE a == Returned(st[t])
           b == [Local("schedule", st[t].hp) EXCEPT !.spin = st[t].sp]
<1>4. a \in Thread /\ b \in Thread /\ Back(a, st[t]) /\ Starts(b, "schedule", st[t].hp, st[t].sp)
  BY <1>1, <1>2, Started
<1>5. m # t /\ m \in T /\ st' = [st EXCEPT ![t] = a, ![m] = b]
  BY <1>1, <1>3 DEF T
<1> HIDE DEF a, b
<1>6. st' \in [T -> Thread] /\ st'[t] = a /\ st'[m] = b /\ \A v \in T \ {t, m} : st'[v] = st[v]
  BY <1>4, <1>5, Rest2
<1> QED
  BY <1>1, <1>3, <1>4, <1>5, <1>6 DEF NewmDoes

(* A call of startm. *)
Calls(t, p, sp, ret) ==
  /\ Rest(t)
  /\ LET s == st'[t]  r == st[t]
     IN  /\ s.pc = "startm" /\ s.hp = p /\ s.sp = sp /\ s.ret = ret
         /\ s.p = r.p /\ s.spin = r.spin /\ s.todo = r.todo /\ s.n = r.n /\ s.fin = r.fin

(* A call of startm keeps the caller's own state. *)
LEMMA Calling ==
  ASSUME TypeOK, NEW t \in T, NEW p \in P \cup {None}, NEW b \in BOOLEAN, NEW r \in {"run", "injected"},
         CallStartm(t, p, b, r)
  PROVE  Calls(t, p, b, r)
<1> DEFINE x == [st[t] EXCEPT !.pc = "startm", !.hp = p, !.sp = b, !.ret = r]
<1>1. "startm" \in PC
  BY DEF PC, Starting
<1> HIDE DEF PC
<1>2. x \in Thread
  BY ZenonT(60), <1>1 DEF TypeOK, Thread
<1>3. /\ x.pc = "startm" /\ x.hp = p /\ x.sp = b /\ x.ret = r /\ x.p = st[t].p
      /\ x.spin = st[t].spin /\ x.todo = st[t].todo /\ x.n = st[t].n /\ x.fin = st[t].fin
  BY ZenonT(60) DEF TypeOK, Thread
<1>4. st' = [st EXCEPT ![t] = x]
  BY DEF TypeOK, CallStartm
<1> HIDE DEF x
<1>5. Rest(t) /\ st'[t] = x
  BY <1>2, <1>4, Rest1
<1> QED
  BY <1>3, <1>5 DEF Calls

(* wakep (proc.go:2150) calls startm for a spinning thread only if it was  *)
(* the first to count it.                                                  *)
LEMMA wakepDoes ==
  ASSUME TypeOK, NEW t \in T, wakep(t)
  PROVE  \/ nmspinning = 0 /\ nmspinning' = 1 /\ Calls(t, None, TRUE, "run")
         \/ nmspinning # 0 /\ nmspinning' = nmspinning /\ Goes(t, "run")
<1>1. "startm" \in PC /\ "run" \in PC
  BY DEF PC, Starting, WithP
<1>2. CASE nmspinning = 0
  <2>1. CallStartm(t, None, TRUE, "run") /\ nmspinning' = 1
    BY <1>2 DEF wakep
  <2> QED
    BY <1>2, <2>1, Calling
<1>3. CASE nmspinning # 0
  BY <1>1, <1>3, Going DEF wakep
<1> QED
  BY <1>2, <1>3

(* handoffp, its tests without the lock: none of them changes whose the P is. *)
LEMMA handoffpDoes ==
  ASSUME TypeOK, NEW t \in T, handoffp(t)
  PROVE  \/ Goes(t, "startm")
         \/ Goes(t, "handoffCas") /\ loc[st[t].hp] = 0
         \/ Goes(t, "handoffLocked") /\ loc[st[t].hp] = 0
<1>1. {"startm", "handoffCas", "handoffLocked"} \subseteq PC
  BY DEF PC, Starting, Handing
<1>2. \/ Goto(t, "startm")
      \/ Goto(t, "handoffCas") /\ loc[st[t].hp] = 0
      \/ Goto(t, "handoffLocked") /\ loc[st[t].hp] = 0
  <2>1. CASE loc[st[t].hp] # 0 \/ glob # 0
    <3>1. Goto(t, "startm")
      BY <2>1, Zenon DEF handoffp, Goto
    <3> QED
      BY <3>1
  <2>2. CASE ~(loc[st[t].hp] # 0 \/ glob # 0)
    <3>1. loc[st[t].hp] = 0
      BY <2>2
    <3>2. CASE nmspinning + Cardinality(idle) = 0
      <4>1. Goto(t, "handoffCas")
        BY <2>2, <3>2, Zenon DEF handoffp, Goto
      <4> QED
        BY <3>1, <4>1
    <3>3. CASE nmspinning + Cardinality(idle) # 0
      <4>1. Goto(t, "handoffLocked")
        BY <2>2, <3>3, Zenon DEF handoffp, Goto
      <4> QED
        BY <3>1, <4>1
    <3> QED
      BY <3>2, <3>3
  <2> QED
    BY <2>1, <2>2
<1> QED
  BY <1>1, <1>2, Going

(* handoffp counts a spinning thread before it starts one. *)
LEMMA handoffCasDoes ==
  ASSUME TypeOK, NEW t \in T, handoffCas(t)
  PROVE  \/ nmspinning = 0 /\ nmspinning' = 1 /\ Calls(t, st[t].hp, TRUE, st[t].ret)
         \/ nmspinning' = nmspinning /\ Goes(t, "handoffLocked")
<1>1. "startm" \in PC /\ "handoffLocked" \in PC
  BY DEF PC, Starting, Handing
<1>2. CASE nmspinning = 0
  <2> DEFINE x == [st[t] EXCEPT !.pc = "startm", !.sp = TRUE]
  <2> HIDE DEF PC
  <2>1. x \in Thread
    BY ZenonT(60), <1>1 DEF TypeOK, Thread
  <2>2. /\ x.pc = "startm" /\ x.hp = st[t].hp /\ x.sp = TRUE /\ x.ret = st[t].ret /\ x.p = st[t].p
        /\ x.spin = st[t].spin /\ x.todo = st[t].todo /\ x.n = st[t].n /\ x.fin = st[t].fin
    BY DEF TypeOK, Thread
  <2>3. nmspinning' = 1 /\ st' = [st EXCEPT ![t] = x]
    BY <1>2 DEF TypeOK, handoffCas
  <2> HIDE DEF x
  <2>4. Rest(t) /\ st'[t] = x
    BY <2>1, <2>3, Rest1
  <2>5. Calls(t, st[t].hp, TRUE, st[t].ret)
    BY <2>2, <2>4 DEF Calls
  <2> QED
    BY <1>2, <2>3, <2>5
<1>3. CASE nmspinning # 0
  BY <1>1, <1>3, Going DEF handoffCas
<1> QED
  BY <1>2, <1>3

(* handoffp, with the lock: the P goes to a new thread or to the idle list. *)
LEMMA handoffLockedDoes ==
  ASSUME TypeOK, Shapes, NEW t \in T, handoffLocked(t)
  PROVE  \/ Goes(t, "startm") /\ UNCHANGED <<idle, lapse>>
         \/ /\ glob = 0 /\ ~LastToPoll /\ Rest(t) /\ Back(st'[t], st[t])
            /\ idle' = idle \cup {st[t].hp} /\ lapse' = (lapse \/ \E p \in P : loc[p] # 0)
<1>1. "startm" \in PC
  BY DEF PC, Starting
<1>2. Returned(st[t]) \in Thread /\ Back(Returned(st[t]), st[t])
  BY Returns DEF handoffLocked, At, Handing
<1> QED
  BY <1>1, <1>2, Going, Rest1 DEF handoffLocked

(* The outcomes of injectglist's loop. *)
InjectedDoes(t) ==
  LET s == st'[t]  r == st[t]
  IN  /\ Rest(t)
      /\ s.p = r.p /\ s.spin = r.spin /\ s.todo = r.todo /\ s.hp = r.hp /\ s.sp = r.sp
      /\ \/ /\ r.n # 0 /\ idle # {} /\ s.n = r.n - 1 /\ s.pc = "startm" /\ s.ret = "injected"
            /\ s.fin = r.fin
         \/ /\ r.n = 0 \/ idle = {}
            /\ s.n = 0 /\ s.fin = "" /\ s.pc = AfterInject(r) /\ s.ret = r.ret

(* injectglist (proc.go:2511) starts one thread for each goroutine while   *)
(* a P is idle, and then goes where it was called from.                    *)
LEMMA injectedDoes ==
  ASSUME TypeOK, Shapes, NEW t \in T, injected(t)
  PROVE  InjectedDoes(t)
<1>1. "startm" \in PC /\ AfterInject(st[t]) \in PC
  BY DEF PC, Starting, Monitoring, WithP, NoP, AfterInject, HasOne, injected, At, Shapes, Fits, Shape, Injector, Injecting
<1> HIDE DEF PC, AfterInject
<1>2. CASE st[t].n # 0 /\ idle # {}
  <2> DEFINE x == [st[t] EXCEPT !.n = st[t].n - 1, !.pc = "startm", !.ret = "injected"]
  <2>0. st[t] \in Thread /\ st[t].n - 1 \in Nat
    <3>1. st[t] \in Thread /\ st[t].n \in Nat
      BY DEF TypeOK, Thread
    <3> QED
      BY <1>2, <3>1
  <2>1. x \in Thread
    BY <1>1, <2>0 DEF Thread
  <2>2. /\ x.pc = "startm" /\ x.hp = st[t].hp /\ x.sp = st[t].sp /\ x.ret = "injected" /\ x.p = st[t].p
        /\ x.spin = st[t].spin /\ x.todo = st[t].todo /\ x.n = st[t].n - 1 /\ x.fin = st[t].fin
    BY DEF TypeOK, Thread
  <2>3. st' = [st EXCEPT ![t].n = st[t].n - 1, ![t].pc = "startm", ![t].ret = "injected"]
    BY <1>2 DEF injected
  <2>4. st' = [st EXCEPT ![t] = x]
    BY <2>3 DEF TypeOK
  <2> HIDE DEF x
  <2>5. Rest(t) /\ st'[t] = x
    BY <2>1, <2>4, Rest1
  <2> QED
    BY <1>2, <2>2, <2>5 DEF InjectedDoes
<1>3. CASE ~(st[t].n # 0 /\ idle # {})
  <2> DEFINE x == [st[t] EXCEPT !.n = 0, !.fin = "", !.pc = AfterInject(st[t])]
  <2>1. x \in Thread
    BY <1>1, ZenonT(60) DEF TypeOK, Thread
  <2>2. /\ x.pc = AfterInject(st[t]) /\ x.hp = st[t].hp /\ x.sp = st[t].sp /\ x.ret = st[t].ret
        /\ x.p = st[t].p /\ x.spin = st[t].spin /\ x.todo = st[t].todo /\ x.n = 0 /\ x.fin = ""
    BY DEF TypeOK, Thread
  <2>3. st' = [st EXCEPT ![t].n = 0, ![t].fin = "", ![t].pc = AfterInject(st[t])]
    BY <1>3 DEF injected
  <2>4. st' = [st EXCEPT ![t] = x]
    BY <2>3 DEF TypeOK
  <2> HIDE DEF x
  <2>5. Rest(t) /\ st'[t] = x
    BY <2>1, <2>4, Rest1
  <2> QED
    BY <1>3, <2>2, <2>5 DEF InjectedDoes
<1> QED
  BY <1>2, <1>3

(* A thread that got a goroutine goes to resetspinning or runs it, as its spinning bit says. *)
LEMMA GotOneDoes ==
  ASSUME TypeOK, NEW m \in T, GotOne(m)
  PROVE  Goes(m, HasOne(st[m]))
BY Going DEF GotOne, HasOne, PC, WithP

(* The outcome of entersyscall. *)
EnterDoes(m) ==
  /\ st' \in [T -> Thread] /\ \A u \in T \ {m, Sysmon} : st'[u] = st[u]
  /\ To(st'[m], st[m], "syscall")
  /\ To(st'[Sysmon], st[Sysmon], IF sysmonwait THEN "sysmon" ELSE st[Sysmon].pc)

(* entersyscall keeps the P with the thread and wakes sysmon. *)
LEMMA entersyscallDoes ==
  ASSUME TypeOK, Shapes, NEW m \in M, entersyscall(m)
  PROVE  EnterDoes(m)
<1> DEFINE a == [st[m] EXCEPT !.pc = "syscall"]
           l == IF sysmonwait THEN "sysmon" ELSE st[Sysmon].pc
           b == [st[Sysmon] EXCEPT !.pc = l]
<1>1. m \in T /\ Sysmon \in T /\ m # Sysmon
  BY SchedAssumption DEF T
<1>2. "syscall" \in PC /\ "sysmon" \in PC
  BY DEF PC, Monitoring
<1> HIDE DEF PC
<1>3. l \in PC
  BY <1>1, <1>2 DEF TypeOK, Thread
<1>4. st' = [st EXCEPT ![m] = a, ![Sysmon] = b]
  BY <1>1 DEF entersyscall, TypeOK
<1> HIDE DEF l
<1>5. a \in Thread /\ b \in Thread /\ To(a, st[m], "syscall") /\ To(b, st[Sysmon], l)
  BY ZenonT(60), <1>1, <1>2, <1>3 DEF To, Same, TypeOK, Thread
<1> HIDE DEF a, b
<1>6. /\ st' \in [T -> Thread] /\ st'[m] = a /\ st'[Sysmon] = b
      /\ \A v \in T \ {m, Sysmon} : st'[v] = st[v]
  BY <1>1, <1>4, <1>5, Rest2
<1> QED
  BY <1>5, <1>6 DEF EnterDoes, l

(* The outcome of entersyscallblock. *)
BlockDoes(m) ==
  LET s == st'[m]
  IN  /\ Rest(m)
      /\ s.pc = "handoffp" /\ s.hp = st[m].p /\ s.ret = "syscall" /\ s.p = None
      /\ ~s.spin /\ s.todo = {} /\ ~s.sp /\ s.n = 0 /\ s.fin = ""

(* entersyscallblock hands the P off at once. *)
LEMMA entersyscallblockDoes ==
  ASSUME TypeOK, Shapes, NEW m \in M, entersyscallblock(m)
  PROVE  BlockDoes(m)
<1> DEFINE x == [Local("handoffp", None) EXCEPT !.hp = st[m].p, !.ret = "syscall"]
<1>1. "handoffp" \in PC /\ m \in T /\ st[m] \in Thread
  BY DEF PC, Handing, T, TypeOK
<1>2. Local("handoffp", None) \in Thread /\ IsLocal(Local("handoffp", None), "handoffp", None)
  BY <1>1, Locals
<1> HIDE DEF PC, Local
<1>3. /\ x \in Thread /\ x.pc = "handoffp" /\ x.hp = st[m].p /\ x.ret = "syscall" /\ x.p = None
      /\ ~x.spin /\ x.todo = {} /\ ~x.sp /\ x.n = 0 /\ x.fin = ""
  BY <1>1, <1>2 DEF Thread, IsLocal
<1>4. st' = [st EXCEPT ![m] = x]
  BY DEF entersyscallblock
<1> HIDE DEF x
<1>5. Rest(m) /\ st'[m] = x
  BY <1>1, <1>3, <1>4, Rest1
<1> QED
  BY <1>3, <1>5 DEF BlockDoes

(* exitsyscall: the old P again, or none. *)
LEMMA exitsyscallDoes ==
  ASSUME TypeOK, Shapes, NEW m \in M, exitsyscall(m)
  PROVE  \/ st[m].p \in insys /\ insys' = insys \ {st[m].p} /\ Goes(m, "run")
         \/ st[m].p \notin insys /\ insys' = insys /\ Rest(m) /\ IsLocal(st'[m], "exit0", None)
<1>1. "run" \in PC /\ "exit0" \in PC /\ m \in T
  BY DEF PC, WithP, NoP, T
<1>2. Local("exit0", None) \in Thread /\ IsLocal(Local("exit0", None), "exit0", None)
  BY <1>1, Locals
<1> QED
  BY <1>1, <1>2, Rest1, Going DEF exitsyscall

Exit0Does(m) ==
  \/ \E p \in idle : /\ idle' = idle \ {p} /\ ~sysmonwait' /\ glob' = glob
                     /\ st' \in [T -> Thread] /\ \A u \in T \ {m, Sysmon} : st'[u] = st[u]
                     /\ IsLocal(st'[m], "run", p)
                     /\ To(st'[Sysmon], st[Sysmon], IF sysmonwait THEN "sysmon" ELSE st[Sysmon].pc)
  \/ /\ idle = {} /\ idle' = idle /\ sysmonwait' = sysmonwait /\ glob' = glob + 1
     /\ Rest(m) /\ st'[m].pc = "stopm" /\ st'[m].ret = "schedule"
     /\ LET s == st'[m]  r == st[m]
        IN  /\ s.p = r.p /\ s.spin = r.spin /\ s.todo = r.todo /\ s.hp = r.hp /\ s.sp = r.sp
            /\ s.n = r.n /\ s.fin = r.fin

(* exitsyscall0: an idle P and sysmon awake, or the goroutine is left in the global queue. *)
LEMMA exitsyscall0Does ==
  ASSUME TypeOK, Shapes, NEW m \in M, exitsyscall0(m)
  PROVE  Exit0Does(m)
<1>1. m \in T /\ Sysmon \in T /\ m # Sysmon
  BY SchedAssumption DEF T
<1>2. {"run", "sysmon", "stopm"} \subseteq PC
  BY DEF PC, Monitoring, WithP, NoP
<1>3. ASSUME NEW p \in idle, idle' = idle \ {p}, sysmonwait' = FALSE, glob' = glob,
             st' = [st EXCEPT ![m] = Local("run", p),
                              ![Sysmon].pc = IF sysmonwait THEN "sysmon" ELSE st[Sysmon].pc]
      PROVE  Exit0Does(m)
  <2> DEFINE a == Local("run", p)
             l == IF sysmonwait THEN "sysmon" ELSE st[Sysmon].pc
             b == [st[Sysmon] EXCEPT !.pc = l]
  <2>1. a \in Thread /\ IsLocal(a, "run", p)
    BY <1>2, Locals DEF TypeOK
  <2> HIDE DEF PC, a
  <2>2. l \in PC
    BY <1>1, <1>2 DEF TypeOK, Thread
  <2>3. st' = [st EXCEPT ![m] = a, ![Sysmon] = b]
    BY <1>1, <1>3 DEF TypeOK, a
  <2> HIDE DEF l
  <2>4. b \in Thread /\ To(b, st[Sysmon], l)
    BY <1>1, <2>2 DEF To, Same, TypeOK, Thread
  <2> HIDE DEF b
  <2>5. /\ st' \in [T -> Thread] /\ st'[m] = a /\ st'[Sysmon] = b
        /\ \A v \in T \ {m, Sysmon} : st'[v] = st[v]
    BY <1>1, <2>1, <2>3, <2>4, Rest2
  <2> QED
    BY <1>3, <2>1, <2>4, <2>5 DEF Exit0Does, l
<1>4. ASSUME idle = {}, idle' = idle, sysmonwait' = sysmonwait, glob' = glob + 1,
             st' = [st EXCEPT ![m].pc = "stopm", ![m].ret = "schedule"]
      PROVE  Exit0Does(m)
  <2> DEFINE x == [st[m] EXCEPT !.pc = "stopm", !.ret = "schedule"]
  <2> HIDE DEF PC
  <2>1. x \in Thread
    BY ZenonT(60), <1>1, <1>2 DEF TypeOK, Thread
  <2>2. /\ x.pc = "stopm" /\ x.hp = st[m].hp /\ x.sp = st[m].sp /\ x.ret = "schedule" /\ x.p = st[m].p
        /\ x.spin = st[m].spin /\ x.todo = st[m].todo /\ x.n = st[m].n /\ x.fin = st[m].fin
    BY <1>1, ZenonT(60) DEF TypeOK, Thread
  <2>3. st' = [st EXCEPT ![m] = x]
    BY <1>1, <1>4 DEF TypeOK
  <2> HIDE DEF x
  <2>4. Rest(m) /\ st'[m] = x
    BY <1>1, <2>1, <2>3, Rest1
  <2> QED
    BY <1>4, <2>2, <2>4 DEF Exit0Does
<1> QED
  BY <1>3, <1>4, Zenon DEF exitsyscall0

(* A thread of which some fields change and the others do not.             *)
Holds(s, r) == s.p = r.p /\ s.spin = r.spin /\ s.todo = r.todo /\ s.hp = r.hp /\ s.sp = r.sp

(* The outcomes of netpoll(false). *)
NetpollDoes(m) ==
  \E n \in 0 .. netwait :
    /\ netwait' = netwait - n
    /\ \/ n = 0 /\ Goes(m, "spin")
       \/ n = 1 /\ Goes(m, HasOne(st[m]))
       \/ /\ n > 1 /\ Rest(m) /\ st'[m].pc = "inject" /\ st'[m].n = n - 1 /\ st'[m].fin = "got"
          /\ Holds(st'[m], st[m]) /\ st'[m].ret = st[m].ret

(* netpoll(false): none, one or several goroutines became ready. *)
LEMMA netpollDoes ==
  ASSUME TypeOK, Shapes, NEW m \in M, netpoll(m)
  PROVE  NetpollDoes(m)
<1>1. m \in T /\ st[m] \in Thread
  BY DEF T, TypeOK
<1>2. "spin" \in PC /\ "inject" \in PC /\ HasOne(st[m]) \in PC
  BY DEF PC, Injecting, WithP, HasOne
<1>3. PICK n \in 0 .. netwait :
        /\ netwait' = netwait - n
        /\ st' = CASE n = 0 -> [st EXCEPT ![m].pc = "spin"]
                   [] n = 1 -> [st EXCEPT ![m].pc = HasOne(st[m])]
                   [] OTHER -> [st EXCEPT ![m].n = n - 1, ![m].pc = "inject", ![m].fin = "got"]
  BY DEF netpoll
<1>4. n \in Nat
  BY <1>3 DEF TypeOK
<1> HIDE DEF HasOne, PC
<1>5. CASE n = 0
  <2>1. Goto(m, "spin")
    BY <1>3, <1>5 DEF Goto
  <2>2. Goes(m, "spin")
    BY <1>1, <1>2, <2>1, Going
  <2> QED
    BY <1>3, <1>5, <2>2 DEF NetpollDoes
<1>6. CASE n = 1
  <2>1. Goto(m, HasOne(st[m]))
    BY <1>3, <1>6 DEF Goto
  <2>2. Goes(m, HasOne(st[m]))
    BY <1>1, <1>2, <2>1, Going
  <2> QED
    BY <1>3, <1>6, <2>2 DEF NetpollDoes
<1>7. CASE n # 0 /\ n # 1
  <2> DEFINE x == [st[m] EXCEPT !.n = n - 1, !.pc = "inject", !.fin = "got"]
  <2>1. n - 1 \in Nat /\ n > 1
    BY <1>4, <1>7
  <2>2. x \in Thread
    BY <1>1, <1>2, <2>1 DEF Thread
  <2>3. x.pc = "inject" /\ x.n = n - 1 /\ x.fin = "got" /\ Holds(x, st[m]) /\ x.ret = st[m].ret
    BY <1>1 DEF Thread, Holds
  <2>4. st' = [st EXCEPT ![m].n = n - 1, ![m].pc = "inject", ![m].fin = "got"]
    BY <1>3, <1>7
  <2>5. st' = [st EXCEPT ![m] = x]
    BY <1>1, <2>4 DEF TypeOK
  <2> HIDE DEF x
  <2>6. Rest(m) /\ st'[m] = x
    BY <1>1, <2>2, <2>5, Rest1
  <2> QED
    BY <1>3, <2>1, <2>3, <2>6 DEF NetpollDoes
<1> QED
  BY <1>5, <1>6, <1>7

(* pc, spin and todo may change. *)
Looks(m, l, b, d) ==
  /\ Rest(m) /\ st'[m].pc = l /\ st'[m].spin = b /\ st'[m].todo = d
  /\ st'[m].p = st[m].p /\ st'[m].hp = st[m].hp /\ st'[m].sp = st[m].sp
  /\ st'[m].ret = st[m].ret /\ st'[m].n = st[m].n /\ st'[m].fin = st[m].fin

(* A step that changes pc, spin and todo leaves the rest of the thread. *)
LEMMA Looking ==
  ASSUME TypeOK, NEW m \in T, NEW l \in PC, NEW b \in BOOLEAN, NEW d \in SUBSET P,
         st' = [st EXCEPT ![m] = [st[m] EXCEPT !.pc = l, !.spin = b, !.todo = d]]
  PROVE  Looks(m, l, b, d)
<1> DEFINE x == [st[m] EXCEPT !.pc = l, !.spin = b, !.todo = d]
<1> HIDE DEF PC
<1>1. x \in Thread
  BY ZenonT(60) DEF TypeOK, Thread
<1>2. /\ x.pc = l /\ x.spin = b /\ x.todo = d /\ x.p = st[m].p /\ x.hp = st[m].hp /\ x.sp = st[m].sp
      /\ x.ret = st[m].ret /\ x.n = st[m].n /\ x.fin = st[m].fin
  BY DEF TypeOK, Thread
<1>3. st' = [st EXCEPT ![m] = x]
  OBVIOUS
<1> HIDE DEF x
<1>4. Rest(m) /\ st'[m] = x
  BY <1>1, <1>3, Rest1
<1> QED
  BY <1>2, <1>4 DEF Looks

(* The thread gives up, or it spins from now on and is counted once. *)
LEMMA spinDoes ==
  ASSUME TypeOK, NEW m \in M, spin(m)
  PROVE  \/ /\ nmspinning' = nmspinning /\ Goes(m, "stop")
            /\ \/ Cardinality(idle) = Cardinality(P) - 1
               \/ ~st[m].spin /\ 2 * nmspinning >= Cardinality(P) - Cardinality(idle)
         \/ /\ nmspinning' = (IF st[m].spin THEN nmspinning ELSE nmspinning + 1)
            /\ Looks(m, "steal", TRUE, st[m].todo)
<1>1. "stop" \in PC /\ "steal" \in PC /\ m \in T /\ st[m] \in Thread /\ st[m].todo \in SUBSET P
  BY DEF PC, WithP, T, TypeOK, Thread
<1> DEFINE alone == Cardinality(idle) = Cardinality(P) - 1
           enough == ~st[m].spin /\ 2 * nmspinning >= Cardinality(P) - Cardinality(idle)
<1>2. CASE alone \/ enough
  <2>1. Goto(m, "stop") /\ UNCHANGED nmspinning
    BY <1>2 DEF spin
  <2> QED
    BY <1>1, <1>2, <2>1, Going
<1>3. CASE ~(alone \/ enough)
  <2>1. /\ st' = [st EXCEPT ![m].pc = "steal", ![m].spin = TRUE]
        /\ nmspinning' = IF st[m].spin THEN nmspinning ELSE nmspinning + 1
    BY <1>3 DEF spin
  <2>2. st' = [st EXCEPT ![m] = [st[m] EXCEPT !.pc = "steal", !.spin = TRUE, !.todo = st[m].todo]]
    BY <1>1, <2>1 DEF TypeOK, Thread
  <2>3. Looks(m, "steal", TRUE, st[m].todo)
    BY <1>1, <2>2, Looking
  <2> QED
    BY <2>1, <2>3
<1> QED
  BY <1>2, <1>3

(* A thread that gave its P up. *)
StopsDoes(m) ==
  LET s == st'[m]  r == st[m]
  IN  /\ Rest(m)
      /\ s.pc = (IF r.spin THEN "unspin" ELSE "recheck") /\ s.spin = r.spin /\ s.todo = P
      /\ s.ret = (IF r.spin THEN "respin" ELSE "findrunnable")
      /\ s.p = None /\ s.hp = None /\ ~s.sp /\ s.n = 0 /\ s.fin = ""

(* The thread gives its P up (proc.go:2347-2364), or takes a share of the global queue. *)
LEMMA stopDoes ==
  ASSUME TypeOK, NEW m \in M, stop(m)
  PROVE  \/ TakeShare(m) /\ idle' = idle
         \/ glob = 0 /\ idle' = idle \cup {st[m].p} /\ StopsDoes(m) /\ UNCHANGED <<loc, glob>>
<1> DEFINE l == IF st[m].spin THEN "unspin" ELSE "recheck"
           r == IF st[m].spin THEN "respin" ELSE "findrunnable"
           x == [Local(l, None) EXCEPT !.spin = st[m].spin, !.todo = P, !.ret = r]
<1>1. CASE TakeShare(m) /\ idle' = idle
  BY <1>1
<1>2. CASE glob = 0 /\ idle' = idle \cup {st[m].p} /\ st' = [st EXCEPT ![m] = x] /\ UNCHANGED <<loc, glob>>
  <2>1. l \in PC /\ m \in T /\ st[m] \in Thread /\ r \in {"respin", "findrunnable"}
    BY DEF PC, NoP, T, TypeOK
  <2>2. Local(l, None) \in Thread /\ IsLocal(Local(l, None), l, None)
    BY <2>1, Locals
  <2>3. glob = 0 /\ idle' = idle \cup {st[m].p} /\ st' = [st EXCEPT ![m] = x] /\ UNCHANGED <<loc, glob>>
    BY <1>2
  <2> HIDE DEF PC, Local, l, r
  <2>4. /\ x \in Thread /\ x.pc = l /\ x.spin = st[m].spin /\ x.todo = P /\ x.ret = r
        /\ x.p = None /\ x.hp = None /\ ~x.sp /\ x.n = 0 /\ x.fin = ""
    BY <2>1, <2>2 DEF Thread, IsLocal
  <2> HIDE DEF x
  <2>5. Rest(m) /\ st'[m] = x
    BY <2>1, <2>3, <2>4, Rest1
  <2>6. StopsDoes(m)
    BY <2>4, <2>5 DEF StopsDoes, l, r
  <2> QED
    BY <2>3, <2>6
<1> QED
  BY <1>1, <1>2, Zenon DEF stop

(* A thread that is about to poll or to stop. *)
ParksDoes(m) ==
  LET s == st'[m]
  IN  /\ Rest(m)
      /\ s.pc = (IF waiters THEN "netblock" ELSE "stopm") /\ s.ret = "findrunnable"
      /\ s.p = None /\ ~s.spin /\ s.todo = {} /\ s.hp = None /\ ~s.sp /\ s.n = 0 /\ s.fin = ""

(* A thread that finds nothing goes to poll the network, or stops. *)
LEMMA Parking ==
  ASSUME TypeOK, NEW m \in M, st' = [st EXCEPT ![m] = Park(m)]
  PROVE  ParksDoes(m)
<1> DEFINE l == IF waiters THEN "netblock" ELSE "stopm"
           x == [Local(l, None) EXCEPT !.ret = "findrunnable"]
<1>1. l \in PC /\ m \in T
  BY DEF PC, NoP, T
<1>2. Local(l, None) \in Thread /\ IsLocal(Local(l, None), l, None)
  BY <1>1, Locals
<1>3. st' = [st EXCEPT ![m] = x]
  BY DEF Park
<1> HIDE DEF PC, Local, l
<1>4. /\ x \in Thread /\ x.pc = l /\ ~x.spin /\ x.todo = {} /\ x.ret = "findrunnable"
      /\ x.p = None /\ x.hp = None /\ ~x.sp /\ x.n = 0 /\ x.fin = ""
  BY <1>2 DEF Thread, IsLocal
<1> HIDE DEF x
<1>5. Rest(m) /\ st'[m] = x
  BY <1>1, <1>3, <1>4, Rest1
<1> QED
  BY <1>4, <1>5 DEF ParksDoes, l

(* The thread stops spinning before it looks at the queues again. *)
LEMMA unspinDoes ==
  ASSUME TypeOK, NEW m \in M, unspin(m)
  PROVE  Looks(m, "recheck", FALSE, st[m].todo) /\ nmspinning' = nmspinning - 1
<1>1. "recheck" \in PC /\ m \in T /\ st[m] \in Thread /\ st[m].todo \in SUBSET P
  BY DEF PC, NoP, T, TypeOK, Thread
<1>2. st' = [st EXCEPT ![m] = [st[m] EXCEPT !.pc = "recheck", !.spin = FALSE, !.todo = st[m].todo]]
  BY <1>1 DEF TypeOK, Thread, unspin
<1> QED
  BY <1>1, <1>2, Looking DEF unspin

(* With a P in its hand again the thread spins again. *)
LEMMA respinDoes ==
  ASSUME TypeOK, NEW m \in M, respin(m)
  PROVE  Looks(m, "findrunnable", TRUE, st[m].todo) /\ nmspinning' = nmspinning + 1
<1>1. "findrunnable" \in PC /\ m \in T /\ st[m] \in Thread /\ st[m].todo \in SUBSET P
  BY DEF PC, WithP, T, TypeOK, Thread
<1>2. st' = [st EXCEPT ![m] = [st[m] EXCEPT !.pc = "findrunnable", !.spin = TRUE, !.todo = st[m].todo]]
  BY <1>1 DEF TypeOK, Thread, respin
<1> QED
  BY <1>1, <1>2, Looking DEF respin

(* resetspinning (proc.go:2475): out of the count, and on to wakep if it was the last. *)
LEMMA resetspinningDoes ==
  ASSUME TypeOK, NEW m \in M, resetspinning(m)
  PROVE  /\ Looks(m, IF nmspinning = 1 THEN "readied" ELSE "run", FALSE, st[m].todo)
         /\ nmspinning' = nmspinning - 1
<1> DEFINE l == IF nmspinning = 1 THEN "readied" ELSE "run"
<1>1. l \in PC /\ m \in T /\ st[m] \in Thread /\ st[m].todo \in SUBSET P
  BY DEF PC, WithP, T, TypeOK, Thread
<1>2. st' = [st EXCEPT ![m].spin = FALSE, ![m].pc = l] /\ nmspinning' = nmspinning - 1
  BY DEF resetspinning
<1> HIDE DEF l
<1>3. st' = [st EXCEPT ![m] = [st[m] EXCEPT !.pc = l, !.spin = FALSE, !.todo = st[m].todo]]
  BY <1>1, <1>2 DEF TypeOK, Thread
<1>4. Looks(m, l, FALSE, st[m].todo)
  BY <1>1, <1>3, Looking
<1> QED
  BY <1>2, <1>4 DEF l

(* The last look at the queues ends with a queue that has work, or with none. *)
LEMMA recheckDoes ==
  ASSUME TypeOK, NEW m \in M, recheck(m)
  PROVE  \/ \E p \in st[m].todo :
              /\ p \in P
              /\ Looks(m, IF loc[p] # 0 THEN "rechecked" ELSE "recheck", st[m].spin, st[m].todo \ {p})
         \/ st[m].todo = {} /\ ParksDoes(m)
<1>1. /\ "recheck" \in PC /\ "rechecked" \in PC /\ m \in T /\ st[m] \in Thread /\ st[m].todo \in SUBSET P
      /\ st[m].spin \in BOOLEAN /\ st[m].pc = "recheck"
  BY DEF PC, NoP, T, TypeOK, Thread, recheck, At
<1>2. CASE st[m].todo = {} /\ st' = [st EXCEPT ![m] = Park(m)]
  BY <1>2, Parking
<1>3. ASSUME NEW p \in st[m].todo,
             st' = [st EXCEPT ![m].todo = st[m].todo \ {p}, ![m].pc = IF loc[p] # 0 THEN "rechecked" ELSE st[m].pc]
      PROVE  p \in P /\ Looks(m, IF loc[p] # 0 THEN "rechecked" ELSE "recheck", st[m].spin, st[m].todo \ {p})
  <2> DEFINE l == IF loc[p] # 0 THEN "rechecked" ELSE "recheck"
             d == st[m].todo \ {p}
  <2>1. p \in P /\ l \in PC /\ d \in SUBSET P
    BY <1>1
  <2>2. st' = [st EXCEPT ![m].todo = d, ![m].pc = l]
    BY <1>1, <1>3
  <2> HIDE DEF l, d
  <2>3. st' = [st EXCEPT ![m] = [st[m] EXCEPT !.pc = l, !.spin = st[m].spin, !.todo = d]]
    BY <1>1, <2>2 DEF TypeOK, Thread
  <2>4. Looks(m, l, st[m].spin, d)
    BY <1>1, <2>1, <2>3, Looking
  <2> QED
    BY <2>1, <2>4 DEF l, d
<1> QED
  BY <1>1, <1>2, <1>3 DEF recheck, TypeOK, Thread

(* After work was seen: an idle P, or the thread parks. *)
LEMMA recheckedDoes ==
  ASSUME TypeOK, Shapes, NEW m \in M, rechecked(m)
  PROVE  \/ \E p \in idle : idle' = idle \ {p} /\ Rest(m) /\ IsLocal(st'[m], st[m].ret, p)
         \/ idle = {} /\ idle' = idle /\ ParksDoes(m)
<1>1. m \in T /\ st[m].pc = "rechecked"
  BY DEF T, rechecked, At
<1>2. st[m].ret \in PC
  BY <1>1 DEF Shapes, Fits, Shape, PC, WithP
<1>3. ASSUME NEW p \in idle, st' = [st EXCEPT ![m] = Local(st[m].ret, p)]
      PROVE  Rest(m) /\ IsLocal(st'[m], st[m].ret, p)
  <2> DEFINE x == Local(st[m].ret, p)
  <2>1. x \in Thread /\ IsLocal(x, st[m].ret, p) /\ st' = [st EXCEPT ![m] = x]
    BY <1>2, <1>3, Locals DEF TypeOK
  <2> HIDE DEF x
  <2> QED
    BY <1>1, <2>1, Rest1
<1> QED
  BY <1>3, Parking DEF rechecked

(* The outcome of netpoll(true). *)
PollDoes(m) ==
  \E n \in 1 .. netwait :
    /\ netwait' = netwait - n
    /\ Rest(m) /\ st'[m].n = n /\ st'[m].pc = "polled"
    /\ Holds(st'[m], st[m]) /\ st'[m].ret = st[m].ret /\ st'[m].fin = st[m].fin

(* netpoll(true) returns with at least one goroutine. *)
LEMMA pollingDoes ==
  ASSUME TypeOK, NEW m \in M, polling(m)
  PROVE  PollDoes(m)
<1>1. m \in T /\ st[m] \in Thread /\ "polled" \in PC
  BY DEF T, TypeOK, PC, NoP
<1>2. PICK n \in 1 .. netwait :
        netwait' = netwait - n /\ st' = [st EXCEPT ![m].n = n, ![m].pc = "polled"]
  BY DEF polling
<1> DEFINE x == [st[m] EXCEPT !.n = n, !.pc = "polled"]
<1> HIDE DEF PC
<1>3. n \in Nat
  BY <1>2 DEF TypeOK
<1>4. x \in Thread
  BY <1>1, <1>3 DEF Thread
<1>5. x.n = n /\ x.pc = "polled" /\ Holds(x, st[m]) /\ x.ret = st[m].ret /\ x.fin = st[m].fin
  BY <1>1 DEF Thread, Holds
<1>6. st' = [st EXCEPT ![m] = x]
  BY <1>1, <1>2 DEF TypeOK
<1> HIDE DEF x
<1>7. Rest(m) /\ st'[m] = x
  BY <1>1, <1>4, <1>6, Rest1
<1> QED
  BY <1>2, <1>5, <1>7 DEF PollDoes

(* A local state with goroutines in hand. *)
Bears(s, l, p, n, fin) ==
  /\ s.pc = l /\ s.p = p /\ s.n = n /\ s.fin = fin
  /\ ~s.spin /\ s.todo = {} /\ s.hp = None /\ ~s.sp /\ s.ret = ""

(* A thread with goroutines in its hand is a thread. *)
LEMMA Bearing ==
  ASSUME NEW l \in PC, NEW p \in P \cup {None}, NEW n \in Nat, NEW fin \in {"run", "uncount"}
  PROVE  /\ [Local(l, p) EXCEPT !.n = n, !.fin = fin] \in Thread
         /\ Bears([Local(l, p) EXCEPT !.n = n, !.fin = fin], l, p, n, fin)
<1>1. Local(l, p) \in Thread /\ IsLocal(Local(l, p), l, p)
  BY Locals
<1> HIDE DEF PC, Local
<1> QED
  BY <1>1 DEF Thread, IsLocal, Bears

(* The outcomes after it. *)
PidleDoes(m) ==
  \/ \E p \in idle : /\ idle' = idle \ {p} /\ Rest(m)
                     /\ \/ st[m].n = 1 /\ IsLocal(st'[m], "run", p)
                        \/ st[m].n > 1 /\ Bears(st'[m], "inject", p, st[m].n - 1, "run")
  \/ /\ idle = {} /\ idle' = idle /\ Rest(m)
     /\ st'[m].pc = "inject" /\ st'[m].fin = "repark" /\ st'[m].ret = "" /\ st'[m].n = st[m].n
     /\ Holds(st'[m], st[m])

(* After the poll: a P and the first goroutine, or all of them go to the queue. *)
LEMMA pollPidleDoes ==
  ASSUME TypeOK, Shapes, NEW m \in M, pollPidle(m)
  PROVE  PidleDoes(m)
<1>1. m \in T /\ st[m] \in Thread /\ st[m].n \in Nat /\ st[m].n > 0
  BY Zenon DEF T, TypeOK, Thread, pollPidle, At, Shapes, Fits, Shape
<1>2. "inject" \in PC /\ "run" \in PC
  BY DEF PC, Injecting, WithP
<1>3. ASSUME NEW p \in idle, idle' = idle \ {p},
             st' = [st EXCEPT ![m] = IF st[m].n = 1 THEN Local("run", p)
                                     ELSE [Local("inject", p) EXCEPT !.n = st[m].n - 1, !.fin = "run"]]
      PROVE  PidleDoes(m)
  <2>0. p \in P
    BY DEF TypeOK
  <2>1. CASE st[m].n = 1
    <3> DEFINE x == Local("run", p)
    <3>1. x \in Thread /\ IsLocal(x, "run", p) /\ st' = [st EXCEPT ![m] = x]
      BY <1>2, <1>3, <2>0, <2>1, Locals
    <3> HIDE DEF x
    <3>2. Rest(m) /\ st'[m] = x
      BY <1>1, <3>1, Rest1
    <3> QED
      BY <1>3, <2>1, <3>1, <3>2 DEF PidleDoes
  <2>2. CASE st[m].n # 1
    <3> DEFINE k == st[m].n - 1
               x == [Local("inject", p) EXCEPT !.n = k, !.fin = "run"]
    <3>1. st' = [st EXCEPT ![m] = x]
      BY <1>3, <2>2
    <3>2. k \in Nat /\ st[m].n > 1
      BY <1>1, <2>2
    <3> HIDE DEF k
    <3>3. x \in Thread /\ Bears(x, "inject", p, k, "run")
      BY Zenon, <1>2, <2>0, <3>2, Bearing
    <3> HIDE DEF x
    <3>4. Rest(m) /\ st'[m] = x
      BY <1>1, <3>1, <3>3, Rest1
    <3> QED
      BY <1>3, <3>2, <3>3, <3>4 DEF PidleDoes, k
  <2> QED
    BY <2>1, <2>2
<1>4. ASSUME idle = {}, idle' = idle,
             st' = [st EXCEPT ![m].pc = "inject", ![m].fin = "repark", ![m].ret = ""]
      PROVE  PidleDoes(m)
  <2> DEFINE x == [st[m] EXCEPT !.pc = "inject", !.fin = "repark", !.ret = ""]
  <2> HIDE DEF PC
  <2>1. x \in Thread
    BY <1>1, <1>2 DEF Thread
  <2>2. x.pc = "inject" /\ x.fin = "repark" /\ x.ret = "" /\ x.n = st[m].n /\ Holds(x, st[m])
    BY <1>1 DEF Thread, Holds
  <2>3. st' = [st EXCEPT ![m] = x]
    BY <1>1, <1>4 DEF TypeOK
  <2> HIDE DEF x
  <2>4. Rest(m) /\ st'[m] = x
    BY <1>1, <2>1, <2>3, Rest1
  <2> QED
    BY <1>4, <2>2, <2>4 DEF PidleDoes
<1> QED
  BY <1>3, <1>4, Zenon DEF pollPidle

(* A thread that stopped. *)
StopmDoes(m) ==
  LET s == st'[m]
  IN  /\ Rest(m) /\ s.pc = "stopped"
      /\ s.ret = (IF st[m].pc = "stopm" THEN st[m].ret ELSE "findrunnable")
      /\ s.p = None /\ ~s.spin /\ s.todo = {} /\ s.hp = None /\ ~s.sp /\ s.n = 0 /\ s.fin = ""

(* stopm (proc.go:1888) parks the thread and remembers where it was called. *)
LEMMA stopmDoes ==
  ASSUME TypeOK, Shapes, NEW m \in M, stopm(m)
  PROVE  StopmDoes(m) /\ st[m].pc \in {"stopm", "repark"}
<1>1. m \in T /\ st[m] \in Thread /\ "stopped" \in PC /\ st[m].pc \in {"stopm", "repark"}
  BY DEF T, TypeOK, PC, NoP, stopm, At
<1> DEFINE r == IF st[m].pc = "stopm" THEN st[m].ret ELSE "findrunnable"
           x == [Local("stopped", None) EXCEPT !.ret = r]
<1>2. st' = [st EXCEPT ![m] = x]
  BY DEF stopm
<1>3. r \in {"schedule", "findrunnable"}
  BY <1>1 DEF Shapes, Fits, Shape
<1>4. Local("stopped", None) \in Thread /\ IsLocal(Local("stopped", None), "stopped", None)
  BY <1>1, Locals
<1> HIDE DEF PC, Local, r
<1>5. /\ x \in Thread /\ x.pc = "stopped" /\ ~x.spin /\ x.todo = {} /\ x.ret = r
      /\ x.p = None /\ x.hp = None /\ ~x.sp /\ x.n = 0 /\ x.fin = ""
  BY <1>3, <1>4 DEF Thread, IsLocal
<1> HIDE DEF x
<1>6. Rest(m) /\ st'[m] = x
  BY <1>1, <1>2, <1>5, Rest1
<1> QED
  BY <1>1, <1>5, <1>6 DEF StopmDoes, r

(* sysmon's poll leaves it with the goroutines that became ready. *)
LEMMA sysmonPollsDoes ==
  ASSUME TypeOK, Shapes, sysmonPolls
  PROVE  \E n \in 1 .. netwait : /\ netwait' = netwait - n /\ Rest(Sysmon)
                                 /\ Bears(st'[Sysmon], "incidlelocked", None, n, "uncount")
<1>1. Sysmon \in T /\ "incidlelocked" \in PC
  BY DEF T, PC, Monitoring
<1>2. PICK n \in 1 .. netwait :
        /\ netwait' = netwait - n
        /\ st' = [st EXCEPT ![Sysmon] = [Local("incidlelocked", None) EXCEPT !.n = n, !.fin = "uncount"]]
  BY DEF sysmonPolls
<1>3. n \in Nat
  BY SMTT(30), <1>2 DEF TypeOK
<1> DEFINE x == [Local("incidlelocked", None) EXCEPT !.n = n, !.fin = "uncount"]
<1>4. x \in Thread /\ Bears(x, "incidlelocked", None, n, "uncount") /\ st' = [st EXCEPT ![Sysmon] = x]
  BY Zenon, <1>1, <1>2, <1>3, Bearing
<1> HIDE DEF x
<1>5. Rest(Sysmon) /\ st'[Sysmon] = x
  BY <1>1, <1>4, Rest1
<1> QED
  BY <1>2, <1>4, <1>5

(* sysmon chose P p, *)
RetakeDoes(p) ==
  LET s == st'[Sysmon]
  IN  /\ Rest(Sysmon) /\ s.pc = "retakeCas" /\ s.todo = {p}
      /\ s.p = None /\ ~s.spin /\ s.hp = None /\ ~s.sp /\ s.ret = "" /\ s.n = 0 /\ s.fin = ""

(* retake chooses one P that is in a system call. *)
LEMMA retakeDoes ==
  ASSUME TypeOK, Shapes, retake
  PROVE  \E p \in insys : RetakeDoes(p)
<1>1. Sysmon \in T /\ "retakeCas" \in PC
  BY DEF T, PC, Monitoring
<1>2. PICK p \in insys : st' = [st EXCEPT ![Sysmon] = [Local("retakeCas", None) EXCEPT !.todo = {p}]]
  BY DEF retake
<1>3. Local("retakeCas", None) \in Thread /\ IsLocal(Local("retakeCas", None), "retakeCas", None)
  BY <1>1, Locals
<1>4. {p} \in SUBSET P
  BY <1>2 DEF TypeOK
<1> DEFINE x == [Local("retakeCas", None) EXCEPT !.todo = {p}]
<1> HIDE DEF PC, Local
<1>5. /\ x \in Thread /\ x.pc = "retakeCas" /\ ~x.spin /\ x.todo = {p} /\ x.ret = ""
      /\ x.p = None /\ x.hp = None /\ ~x.sp /\ x.n = 0 /\ x.fin = ""
  BY <1>3, <1>4 DEF Thread, IsLocal
<1>6. st' = [st EXCEPT ![Sysmon] = x]
  BY <1>2
<1> HIDE DEF x
<1>7. Rest(Sysmon) /\ st'[Sysmon] = x
  BY <1>1, <1>5, <1>6, Rest1
<1> QED
  BY <1>2, <1>5, <1>7 DEF RetakeDoes

(* and has it. *)
RetakenDoes(p) ==
  LET s == st'[Sysmon]
  IN  /\ Rest(Sysmon) /\ s.pc = "handoffp" /\ s.hp = p /\ s.ret = "uncount"
      /\ s.p = None /\ ~s.spin /\ s.todo = {} /\ ~s.sp /\ s.n = 0 /\ s.fin = ""

(* retake's compare and swap: sysmon has the P now, or its thread came back first. *)
LEMMA retakeCasDoes ==
  ASSUME TypeOK, Shapes, retakeCas
  PROVE  \E p \in P : \/ p \in insys /\ insys' = insys \ {p} /\ RetakenDoes(p)
                      \/ insys' = insys /\ Rest(Sysmon) /\ IsLocal(st'[Sysmon], "uncount", None)
<1>1. Sysmon \in T /\ "uncount" \in PC /\ "handoffp" \in PC
  BY DEF T, PC, Monitoring, Handing
<1> DEFINE p == CHOOSE q \in P : q \in st[Sysmon].todo
<1>2. p \in P
  BY <1>1 DEF retakeCas, At, Shapes, Fits, Shape
<1>3. /\ insys' = insys \ {p}
      /\ st' = [st EXCEPT ![Sysmon] = IF p \in insys
                                      THEN [Local("handoffp", None) EXCEPT !.hp = p, !.ret = "uncount"]
                                      ELSE Local("uncount", None)]
  BY DEF retakeCas
<1> HIDE DEF p
<1>4. CASE p \in insys
  <2> DEFINE x == [Local("handoffp", None) EXCEPT !.hp = p, !.ret = "uncount"]
  <2>1. Local("handoffp", None) \in Thread /\ IsLocal(Local("handoffp", None), "handoffp", None)
    BY <1>1, Locals
  <2>2. st' = [st EXCEPT ![Sysmon] = x]
    BY <1>3, <1>4
  <2> HIDE DEF PC, Local
  <2>3. /\ x \in Thread /\ x.pc = "handoffp" /\ x.hp = p /\ x.ret = "uncount" /\ ~x.spin /\ x.todo = {}
        /\ x.p = None /\ ~x.sp /\ x.n = 0 /\ x.fin = ""
    BY <1>2, <2>1 DEF Thread, IsLocal
  <2> HIDE DEF x
  <2>4. Rest(Sysmon) /\ st'[Sysmon] = x
    BY <1>1, <2>2, <2>3, Rest1
  <2>5. RetakenDoes(p)
    BY <2>3, <2>4 DEF RetakenDoes
  <2> QED
    BY <1>2, <1>3, <1>4, <2>5
<1>5. CASE p \notin insys
  <2> DEFINE x == Local("uncount", None)
  <2>1. x \in Thread /\ IsLocal(x, "uncount", None) /\ st' = [st EXCEPT ![Sysmon] = x]
    BY <1>1, <1>3, <1>5, Locals
  <2> HIDE DEF x
  <2>2. Rest(Sysmon) /\ st'[Sysmon] = x
    BY <1>1, <2>1, Rest1
  <2>3. insys' = insys
    BY <1>3, <1>5
  <2> QED
    BY <1>2, <2>1, <2>2, <2>3
<1> QED
  BY <1>4, <1>5

(* incidlelocked(1) ends sysmon's hand-off. *)
LEMMA uncountDoes ==
  ASSUME TypeOK, uncount
  PROVE  Rest(Sysmon) /\ IsLocal(st'[Sysmon], "sysmon", None) /\ st[Sysmon].pc = "uncount"
<1>1. Sysmon \in T /\ "sysmon" \in PC
  BY DEF T, PC, Monitoring
<1> DEFINE x == Local("sysmon", None)
<1>2. x \in Thread /\ IsLocal(x, "sysmon", None) /\ st' = [st EXCEPT ![Sysmon] = x]
  BY <1>1, Locals DEF uncount
<1> HIDE DEF x
<1>3. Rest(Sysmon) /\ st'[Sysmon] = x
  BY <1>1, <1>2, Rest1
<1> QED
  BY <1>2, <1>3 DEF uncount, At

(* A share of the global queue of k goroutines. *)
ShareDoes(m) ==
  \E k \in 1 .. glob : /\ k >= 2 => glob >= Cardinality(P)
                       /\ glob' = glob - k
                       /\ loc' = [loc EXCEPT ![st[m].p] = loc[st[m].p] + k - 1]
                       /\ Goes(m, HasOne(st[m]))

(* There are finitely many Ps. *)
LEMMA PsAreFinite == P # {} => Cardinality(P) \in Nat \ {0}
BY SchedAssumption, FS_EmptySet, FS_CardinalityType

(* A share of the global queue is a natural number, and not more than the queue. *)
LEMMA Quotients ==
  ASSUME NEW a \in Nat, NEW b \in Nat \ {0}
  PROVE  a \div b \in Nat /\ (a \div b >= 1 => a >= b)
OBVIOUS

(* globrunqget (proc.go:4560) moves some goroutines to the P, at least     *)
(* the one that is taken to run.                                           *)
LEMMA TakeShareDoes ==
  ASSUME TypeOK, Shapes, NEW m \in M, TakeShare(m), st[m].p \in P
  PROVE  ShareDoes(m)
<1> DEFINE n == glob \div Cardinality(P) + 1
           share == IF n > glob THEN glob ELSE n
<1>1. /\ glob > 0 /\ glob' = glob - share /\ loc' = [loc EXCEPT ![st[m].p] = loc[st[m].p] + share - 1]
      /\ GotOne(m)
  BY DEF TakeShare, TypeOK
<1>2. glob \in Nat /\ n \in Nat \ {0} /\ (n >= 2 => glob >= Cardinality(P))
  <2>1. glob \in Nat /\ Cardinality(P) \in Nat \ {0}
    BY PsAreFinite DEF TypeOK
  <2> DEFINE q == glob \div Cardinality(P)
  <2>2. q \in Nat /\ (q >= 1 => glob >= Cardinality(P))
    BY <2>1, Quotients
  <2> HIDE DEF q
  <2>3. q + 1 \in Nat \ {0} /\ (q + 1 >= 2 => glob >= Cardinality(P))
    BY <2>2
  <2> QED
    BY <2>1, <2>3 DEF q
<1> HIDE DEF n
<1>3. share \in 1 .. glob /\ (share >= 2 => glob >= Cardinality(P))
  BY <1>1, <1>2
<1> HIDE DEF share
<1>4. Goes(m, HasOne(st[m]))
  BY <1>1, GotOneDoes DEF T
<1> QED
  BY <1>1, <1>3, <1>4 DEF ShareDoes
----------------------------------------------------------------------------
(* Types and shapes, one step per action.                                  *)
Good == TypeOK /\ Shapes

(* What the type needs beside the threads. *)
LEMMA Goodness ==
  ASSUME Good, st' \in [T -> Thread], \A u \in T : st'[u] = st[u] \/ Fits(u, st'[u]),
         loc' \in [P -> Nat], glob' \in Nat, idle' \subseteq P, insys' \subseteq P,
         nmspinning' \in Int, parked' \in Nat, netwait' \in Nat, idlelocked' \in Int,
         lastpoll' \in BOOLEAN, waiters' \in BOOLEAN, sysmonwait' \in BOOLEAN,
         dead' \in BOOLEAN, lapse' \in BOOLEAN
  PROVE  Good'
BY ShapesBy DEF Good, TypeOK

(* startm and newm keep types and shapes. *)
LEMMA StartingGood ==
  ASSUME Good, NEW t \in T, startm(t) \/ startmUndo(t) \/ newm(t)
  PROVE  Good'
<1>0. Fits(t, st[t]) /\ SchedAssumption
  BY SchedAssumption DEF Good, Shapes
<1>1. ASSUME Back(st'[t], st[t]), st[t].pc \in {"startm", "undo", "newm"} PROVE Fits(t, st'[t])
  BY ZenonT(60), <1>0, <1>1 DEF SchedAssumption, Back, Shapes, Fits, Shape, Injector, Spinner, WithP, NoP, Handing, Starting, Injecting, Monitoring, ForSysmon
<1>2. ASSUME NEW m \in M, NEW l \in {"schedule", "findrunnable"}, NEW p \in P, NEW b \in BOOLEAN,
             Starts(st'[m], l, p, b) PROVE Fits(m, st'[m])
  BY <1>0, <1>2 DEF SchedAssumption, Starts, Shapes, Fits, Shape, Injector, Spinner, WithP, NoP, Handing, Starting, Injecting, Monitoring, ForSysmon
<1> USE DEF Good
<1>3. CASE startm(t)
  <2>1. /\ StartmDoes(t) /\ st[t].pc = "startm"
        /\ UNCHANGED <<loc, glob, insys, nmspinning, net, parked, mon>>
    BY <1>3, startmDoes
  <2>2. ASSUME Goes(t, "undo"), st[t].hp = None, st[t].sp PROVE Fits(t, st'[t])
    BY <1>0, <2>1, <2>2 DEF SchedAssumption, Goes, To, Same, Shapes, Fits, Shape, Injector, Spinner, WithP, NoP, Handing, Starting, Injecting, Monitoring, ForSysmon
  <2>3. ASSUME NEW p \in P, st'[t].pc = "newm", st'[t].hp = p, st'[t].p = st[t].p, st'[t].spin = st[t].spin,
               st'[t].todo = st[t].todo, st'[t].sp = st[t].sp, st'[t].ret = st[t].ret,
               st'[t].n = st[t].n, st'[t].fin = st[t].fin
        PROVE  Fits(t, st'[t])
    BY <1>0, <2>1, <2>3 DEF SchedAssumption, Shapes, Fits, Shape, Injector, Spinner, WithP, NoP, Handing, Starting, Injecting, Monitoring, ForSysmon
  <2>4. ASSUME NEW m \in M, st[m].pc = "stopped" PROVE st[m].ret \in {"schedule", "findrunnable"}
    BY <2>4 DEF Shapes, Fits, Shape, T
  <2>5. st[t].sp \in BOOLEAN
    BY DEF TypeOK, Thread
  <2>6. st' \in [T -> Thread] /\ \A u \in T : st'[u] = st[u] \/ Fits(u, st'[u])
    BY <1>1, <1>2, <2>1, <2>2, <2>3, <2>4, <2>5 DEF StartmDoes, Goes, Rest
  <2>7. idle' \subseteq P
    BY <2>1 DEF StartmDoes, TypeOK
  <2> QED
    BY <2>1, <2>6, <2>7, Goodness DEF TypeOK, net, mon
<1>4. CASE startmUndo(t)
  <2>1. st[t].pc = "undo" /\ Rest(t) /\ Back(st'[t], st[t])
    BY <1>4, startmUndoDoes DEF startmUndo, At
  <2>2. Fits(t, st'[t])
    BY <1>1, <2>1
  <2> QED
    BY <1>4, <2>1, <2>2, Goodness DEF TypeOK, Rest, startmUndo, net
<1>5. CASE newm(t)
  <2>1. PICK m \in M \ {t} : NewmDoes(t, m)
    BY <1>5, newmDoes
  <2>2. st[t].hp \in P /\ st[t].sp \in BOOLEAN
    BY <1>0, <2>1 DEF NewmDoes, Fits, Shape, TypeOK, Thread
  <2>3. Fits(t, st'[t]) /\ Fits(m, st'[m])
    BY <1>1, <1>2, <2>1, <2>2 DEF NewmDoes
  <2> QED
    BY <1>5, <2>1, <2>3, Goodness DEF TypeOK, NewmDoes, newm, net, mon
<1> QED
  BY <1>3, <1>4, <1>5

(* handoffp and injectglist keep types and shapes. *)
LEMMA HandingGood ==
  ASSUME Good, NEW t \in T,
         handoffp(t) \/ handoffCas(t) \/ handoffLocked(t) \/ injectglist(t) \/ injected(t)
  PROVE  Good'
<1>0. Fits(t, st[t]) /\ SchedAssumption
  BY SchedAssumption DEF Good, Shapes
<1> USE DEF Good
<1>1. ASSUME st[t].pc \in Handing, NEW l \in {"startm", "handoffCas", "handoffLocked"}, Goes(t, l)
      PROVE  Fits(t, st'[t])
  BY <1>0, <1>1 DEF SchedAssumption, Goes, To, Same, Shapes, Fits, Shape, Injector, Spinner, WithP, NoP, Handing, Starting, Injecting, Monitoring, ForSysmon
<1>2. CASE handoffp(t)
  <2>1. Rest(t) /\ Fits(t, st'[t])
    BY <1>1, <1>2, handoffpDoes DEF handoffp, At, Handing, Goes
  <2> QED
    BY <1>2, <2>1, Goodness DEF TypeOK, Rest, handoffp, net, mon
<1>3. CASE handoffCas(t)
  <2>1. ASSUME Calls(t, st[t].hp, TRUE, st[t].ret) PROVE Fits(t, st'[t])
    <3>1. st[t].pc = "handoffCas"
      BY <1>3 DEF handoffCas, At
    <3> QED
      BY <1>0, <2>1, <3>1 DEF SchedAssumption, Calls, Shapes, Fits, Shape, Injector, Spinner, WithP, NoP, Handing, Starting, Injecting, Monitoring, ForSysmon
  <2>2. /\ st[t].pc \in Handing
        /\ \/ nmspinning' = 1 /\ Calls(t, st[t].hp, TRUE, st[t].ret)
           \/ nmspinning' = nmspinning /\ Goes(t, "handoffLocked")
    BY <1>3, handoffCasDoes DEF handoffCas, At, Handing
  <2>3. Rest(t) /\ Fits(t, st'[t])
    BY <1>1, <2>1, <2>2 DEF Goes, Calls
  <2>4. nmspinning' \in Int
    <3>1. nmspinning' = 1 \/ nmspinning' = nmspinning
      BY <2>2
    <3> QED
      BY <3>1 DEF TypeOK
  <2> QED
    BY <1>3, <2>3, <2>4, Goodness DEF TypeOK, Rest, handoffCas, net, mon
<1>4. CASE handoffLocked(t)
  <2>1. st[t].pc = "handoffLocked" /\ st[t].hp \in P
    BY <1>0, <1>4 DEF handoffLocked, At, Fits, Shape, Handing
  <2>2. ASSUME Back(st'[t], st[t]) PROVE Fits(t, st'[t])
    BY ZenonT(60), <1>0, <2>1, <2>2 DEF SchedAssumption, Back, Shapes, Fits, Shape, Injector, Spinner, WithP, NoP, Handing, Starting, Injecting, Monitoring, ForSysmon
  <2>3. Rest(t) /\ Fits(t, st'[t]) /\ idle' \subseteq P /\ lapse' \in BOOLEAN
    BY <1>1, <1>4, <2>1, <2>2, handoffLockedDoes DEF Handing, Goes, TypeOK
  <2> QED
    BY <1>4, <2>3, Goodness DEF TypeOK, Rest, handoffLocked, net
<1>5. CASE injectglist(t)
  <2>1. Goes(t, "injected") /\ st[t].pc = "inject" /\ st[t].n \in Nat
    BY <1>5, Going DEF injectglist, PC, Injecting, At, TypeOK, Thread
  <2>2. Fits(t, st'[t])
    BY <1>0, <2>1 DEF SchedAssumption, Goes, To, Same, Shapes, Fits, Shape, Injector, Spinner, WithP, NoP, Handing, Starting, Injecting, Monitoring, ForSysmon
  <2> QED
    BY <1>5, <2>1, <2>2, Goodness DEF TypeOK, Goes, Rest, injectglist, net, mon
<1>6. CASE injected(t)
  <2>1. InjectedDoes(t) /\ st[t].pc = "injected"
    BY Zenon, <1>6, injectedDoes DEF injected, At
  <2>2. st[t].fin \in {"got", "run", "repark", "uncount"}
    BY <1>0, <2>1 DEF Fits, Shape, Injector, Injecting
  <2>3. ASSUME st'[t].pc = "startm", st'[t].ret = "injected", st'[t].fin = st[t].fin
        PROVE  Fits(t, st'[t])
    <3>1. /\ st'[t].p = st[t].p /\ st'[t].spin = st[t].spin /\ st'[t].hp = None /\ ~st'[t].sp
      BY <1>0, <2>1 DEF InjectedDoes, Fits, Shape, Starting, Handing
    <3> QED
      BY <1>0, <2>1, <2>3, <3>1 DEF SchedAssumption, Shapes, Fits, Shape, Injector, Spinner, WithP, NoP, Handing, Starting, Injecting, Monitoring, ForSysmon
  <2>4. ASSUME NEW f \in {"got", "run", "repark", "uncount"}, st[t].fin = f,
               st'[t].ret = st[t].ret, st'[t].n = 0, st'[t].fin = "",
               st'[t].pc = (IF f = "got" THEN HasOne(st[t]) ELSE f)
        PROVE  Fits(t, st'[t])
    BY ZenonT(60), <1>0, <2>1, <2>4 DEF SchedAssumption, InjectedDoes, HasOne, Shapes, Fits, Shape, Injector, Spinner, WithP, NoP, Handing, Starting, Injecting, Monitoring, ForSysmon
  <2>5. Fits(t, st'[t])
    <3>1. CASE st'[t].pc = "startm" /\ st'[t].ret = "injected" /\ st'[t].fin = st[t].fin
      BY <2>3, <3>1
    <3>2. CASE /\ st'[t].n = 0 /\ st'[t].fin = "" /\ st'[t].pc = AfterInject(st[t])
               /\ st'[t].ret = st[t].ret
      BY <2>2, <2>4, <3>2 DEF AfterInject
    <3> QED
      BY <2>1, <3>1, <3>2 DEF InjectedDoes
  <2> QED
    BY <1>6, <2>1, <2>5, Goodness DEF TypeOK, InjectedDoes, Rest, injected, net, mon
<1> QED
  BY <1>2, <1>3, <1>4, <1>5, <1>6

(* A thread with a P goes on with it. *)
LEMMA Running0 ==
  ASSUME Good, NEW m \in M, NEW l \in WithP \ {"steal"}, st[m].pc \in WithP, Goes(m, l),
         l = "resetspinning" => st[m].spin, l \in {"run", "readied", "wakep", "respin"} => ~st[m].spin
  PROVE  Rest(m) /\ Fits(m, st'[m])
<1>1. Fits(m, st[m]) /\ SchedAssumption
  BY SchedAssumption DEF Good, Shapes, T
<1> QED
  BY <1>1 DEF SchedAssumption, Goes, To, Same, Shapes, Fits, Shape, Injector, Spinner, WithP, NoP, Handing, Starting, Injecting, Monitoring, ForSysmon

(* What a running goroutine does keeps types and shapes. *)
LEMMA RunGood ==
  ASSUME Good, NEW m \in M, ready(m) \/ readied(m) \/ wakep(m) \/ park(m) \/ parkOnNet(m) \/ gosched(m)
  PROVE  Good'
<1>0. Fits(m, st[m]) /\ SchedAssumption /\ m \in T
  BY SchedAssumption DEF Good, Shapes, T
<1> USE DEF Good
<1>1. st[m].pc \in {"run", "readied", "wakep"}
  BY DEF ready, readied, wakep, park, parkOnNet, gosched, At
<1>2. ~st[m].spin /\ st[m].pc \in WithP /\ st[m].p \in P /\ {"run", "readied", "wakep", "schedule"} \subseteq PC
  BY <1>0, <1>1 DEF PC, Shapes, Fits, Shape, Injector, Spinner, WithP, NoP, Handing, Starting, Injecting, Monitoring, ForSysmon
<1>3. ASSUME NEW l \in {"run", "readied", "wakep", "schedule"}, Goto(m, l) PROVE Rest(m) /\ Fits(m, st'[m])
  <2>1. Goes(m, l)
    BY <1>0, <1>2, <1>3, Going
  <2> QED
    BY <1>2, <1>3, <2>1, Running0 DEF WithP
<1>4. CASE ready(m)
  <2>1. Rest(m) /\ Fits(m, st'[m])
    BY <1>3, <1>4 DEF ready
  <2>2. loc' \in [P -> Nat] /\ parked' \in Nat
    BY <1>2, <1>4 DEF ready, TypeOK
  <2> QED
    BY <1>4, <2>1, <2>2, Goodness DEF TypeOK, Rest, ready, net, mon
<1>5. CASE readied(m)
  <2>1. Rest(m) /\ Fits(m, st'[m])
    BY <1>3, <1>5 DEF readied
  <2> QED
    BY <1>5, <2>1, Goodness DEF TypeOK, Rest, readied, net, mon
<1>6. CASE wakep(m)
  <2>1. st[m].pc = "wakep"
    BY <1>6 DEF wakep, At
  <2>2. ASSUME Calls(m, None, TRUE, "run") PROVE Fits(m, st'[m])
    BY <1>0, <1>2, <2>1, <2>2 DEF SchedAssumption, Calls, Shapes, Fits, Shape, Injector, Spinner, WithP, NoP, Handing, Starting, Injecting, Monitoring, ForSysmon
  <2>3. Rest(m) /\ Fits(m, st'[m]) /\ nmspinning' \in Int
    <3>1. CASE nmspinning' = 1 /\ Calls(m, None, TRUE, "run")
      <4>1. Rest(m)
        BY <3>1 DEF Calls
      <4>2. Fits(m, st'[m])
        BY <2>2, <3>1
      <4>3. nmspinning' \in Int
        BY <3>1
      <4> QED
        BY <4>1, <4>2, <4>3
    <3>2. CASE nmspinning' = nmspinning /\ Goes(m, "run")
      BY <1>2, <3>2, Running0 DEF TypeOK, WithP
    <3> QED
      BY <1>0, <1>6, <3>1, <3>2, wakepDoes
  <2> QED
    BY <1>6, <2>3, Goodness DEF TypeOK, Rest, wakep, net, mon
<1>7. CASE park(m)
  <2>1. Rest(m) /\ Fits(m, st'[m])
    BY <1>3, <1>7 DEF park
  <2> QED
    BY <1>7, <2>1, Goodness DEF TypeOK, Rest, park, net, mon
<1>8. CASE parkOnNet(m)
  <2>1. Rest(m) /\ Fits(m, st'[m])
    BY <1>3, <1>8 DEF parkOnNet
  <2> QED
    BY <1>8, <2>1, Goodness DEF TypeOK, Rest, parkOnNet, net, mon
<1>9. CASE gosched(m)
  <2>1. Rest(m) /\ Fits(m, st'[m])
    BY <1>3, <1>9 DEF gosched
  <2> QED
    BY <1>9, <2>1, Goodness DEF TypeOK, Rest, gosched, net
<1> QED
  BY <1>4, <1>5, <1>6, <1>7, <1>8, <1>9

(* Nobody but sysmon can be told to wake up. *)
Asleep == sysmonwait <=> st[Sysmon].pc = "asleep"

(* System calls keep types and shapes. *)
LEMMA SyscallGood ==
  ASSUME Good, Asleep, NEW m \in M, entersyscall(m) \/ entersyscallblock(m) \/ exitsyscall(m) \/ exitsyscall0(m)
  PROVE  Good'
<1>0. Fits(m, st[m]) /\ Fits(Sysmon, st[Sysmon]) /\ SchedAssumption /\ m \in T /\ Sysmon \in T /\ m # Sysmon
  BY SchedAssumption DEF Good, Shapes, T
<1>a. st[m] \in Thread /\ st[Sysmon] \in Thread
  BY <1>0 DEF Good, TypeOK
<1> USE DEF Good
<1>1. ASSUME To(st'[Sysmon], st[Sysmon], IF sysmonwait THEN "sysmon" ELSE st[Sysmon].pc)
      PROVE  Fits(Sysmon, st'[Sysmon])
  <2>1. CASE sysmonwait
    BY SMTT(30), <1>0, <1>1, <2>1 DEF SchedAssumption, Asleep, To, Same, Shapes, Fits, Shape, Injector, Spinner, WithP, NoP, Handing, Starting, Injecting, Monitoring, ForSysmon
  <2>2. CASE ~sysmonwait
    BY <1>0, <1>1, <2>2 DEF SchedAssumption, To, Same, Shapes, Fits, Shape, Injector, Spinner, WithP, NoP, Handing, Starting, Injecting, Monitoring, ForSysmon
  <2> QED
    BY <2>1, <2>2
<1>2. ASSUME NEW p \in P, IsLocal(st'[m], "run", p) PROVE Fits(m, st'[m])
  BY Zenon, <1>0, <1>2 DEF SchedAssumption, IsLocal, Shapes, Fits, Shape, Injector, Spinner, WithP, NoP, Handing, Starting, Injecting, Monitoring, ForSysmon
<1>3. CASE entersyscall(m)
  <2>1. EnterDoes(m) /\ st[m].pc = "run"
    BY <1>3, entersyscallDoes DEF entersyscall, At
  <2>2. Fits(m, st'[m])
    BY <1>0, <2>1 DEF SchedAssumption, EnterDoes, To, Same, Shapes, Fits, Shape, Injector, Spinner, WithP, NoP, Handing, Starting, Injecting, Monitoring, ForSysmon
  <2>3. Fits(Sysmon, st'[Sysmon]) /\ st' \in [T -> Thread] /\ \A u \in T : st'[u] = st[u] \/ Fits(u, st'[u])
    BY <1>1, <2>1, <2>2 DEF EnterDoes
  <2>4. insys' \subseteq P
    BY <1>0, <1>3, <2>1 DEF entersyscall, TypeOK, Fits, Shape, WithP
  <2> QED
    BY <1>3, <2>3, <2>4, Goodness DEF TypeOK, entersyscall, net
<1>4. CASE entersyscallblock(m)
  <2>1. BlockDoes(m) /\ st[m].pc = "run"
    BY <1>4, entersyscallblockDoes DEF entersyscallblock, At
  <2>2. Rest(m) /\ Fits(m, st'[m])
    BY Zenon, <1>0, <2>1 DEF SchedAssumption, BlockDoes, Shapes, Fits, Shape, Injector, Spinner, WithP, NoP, Handing, Starting, Injecting, Monitoring, ForSysmon
  <2> QED
    BY <1>4, <2>2, Goodness DEF TypeOK, Rest, entersyscallblock, net, mon
<1>5. CASE exitsyscall(m)
  <2>1. st[m].pc = "syscall"
    BY <1>5 DEF exitsyscall, At
  <2>2. CASE st[m].p \in insys /\ insys' = insys \ {st[m].p} /\ Goes(m, "run")
    <3>1. st[m].p \in P
      BY <2>2 DEF TypeOK
    <3>2. Rest(m) /\ Fits(m, st'[m])
      BY <1>0, <2>1, <2>2, <3>1 DEF SchedAssumption, Goes, To, Same, Shapes, Fits, Shape, Injector, Spinner, WithP, NoP, Handing, Starting, Injecting, Monitoring, ForSysmon
    <3> QED
      BY <1>5, <2>2, <3>2, Goodness DEF TypeOK, Rest, exitsyscall, net, mon
  <2>3. CASE insys' = insys /\ Rest(m) /\ IsLocal(st'[m], "exit0", None)
    <3>1. Fits(m, st'[m])
      BY Zenon, <1>0, <2>3 DEF SchedAssumption, IsLocal, Shapes, Fits, Shape, Injector, Spinner, WithP, NoP, Handing, Starting, Injecting, Monitoring, ForSysmon
    <3> QED
      BY <1>5, <2>3, <3>1, Goodness DEF TypeOK, Rest, exitsyscall, net, mon
  <2> QED
    BY <1>5, <2>2, <2>3, exitsyscallDoes
<1>6. CASE exitsyscall0(m)
  <2>1. Exit0Does(m) /\ st[m].pc = "exit0" /\ UNCHANGED <<loc, insys, nmspinning, net, parked, idlelocked, dead, lapse>>
    BY <1>6, exitsyscall0Does DEF exitsyscall0, At
  <2>2. CASE st'[m].pc = "stopm"
    <3>1. /\ Rest(m) /\ st'[m].ret = "schedule" /\ glob' = glob + 1 /\ idle' = idle /\ sysmonwait' = sysmonwait
          /\ LET s == st'[m]  r == st[m]
             IN  /\ s.p = r.p /\ s.spin = r.spin /\ s.todo = r.todo /\ s.hp = r.hp /\ s.sp = r.sp
                 /\ s.n = r.n /\ s.fin = r.fin
      BY <2>1, <2>2 DEF Exit0Does, IsLocal
    <3>2. Fits(m, st'[m])
      BY <1>0, <2>1, <2>2, <3>1 DEF SchedAssumption, Shapes, Fits, Shape, Injector, Spinner, WithP, NoP, Handing, Starting, Injecting, Monitoring, ForSysmon
    <3> QED
      BY <2>1, <3>1, <3>2, Goodness DEF TypeOK, Rest, net
  <2>3. CASE st'[m].pc # "stopm"
    <3>1. PICK p \in idle :
            /\ idle' = idle \ {p} /\ ~sysmonwait' /\ glob' = glob
            /\ st' \in [T -> Thread] /\ \A u \in T \ {m, Sysmon} : st'[u] = st[u]
            /\ IsLocal(st'[m], "run", p)
            /\ To(st'[Sysmon], st[Sysmon], IF sysmonwait THEN "sysmon" ELSE st[Sysmon].pc)
      BY <2>1, <2>3 DEF Exit0Does
    <3>2. p \in P
      BY DEF TypeOK
    <3>3. Fits(m, st'[m]) /\ Fits(Sysmon, st'[Sysmon])
      <4>1. Fits(m, st'[m])
        BY <1>2, <3>1, <3>2
      <4>2. Fits(Sysmon, st'[Sysmon])
        BY <1>1, <3>1
      <4> QED
        BY <4>1, <4>2
    <3>5. \A u \in T : st'[u] = st[u] \/ Fits(u, st'[u])
      BY <3>1, <3>3
    <3>4. idle' \subseteq P /\ sysmonwait' \in BOOLEAN
      BY <1>6, <3>1 DEF TypeOK, exitsyscall0
    <3> QED
      BY <2>1, <3>1, <3>4, <3>5, Goodness DEF TypeOK, net
  <2> QED
    BY <2>2, <2>3
<1> QED
  BY <1>3, <1>4, <1>5, <1>6

(* A thread that looks for work with its P keeps types and shapes. *)
LEMMA LookGood ==
  ASSUME Good, NEW m \in M,
         schedule(m) \/ findrunnable(m) \/ netpoll(m) \/ spin(m) \/ steal(m) \/ stop(m)
  PROVE  Good'
<1>0. Fits(m, st[m]) /\ SchedAssumption /\ m \in T
  BY SchedAssumption DEF Good, Shapes, T
<1> USE DEF Good
<1>1. st[m].pc \in {"schedule", "findrunnable", "netpoll", "spin", "steal", "stop"}
  BY Zenon DEF schedule, findrunnable, netpoll, spin, steal, stop, At
<1>2. st[m].pc \in WithP /\ st[m].p \in P /\ {"findrunnable", "netpoll", "spin", "stop"} \subseteq PC
  BY <1>0, <1>1 DEF PC, Fits, Shape, WithP
<1>3. ASSUME NEW l \in {"findrunnable", "netpoll", "spin", "stop"}, Goto(m, l) PROVE Rest(m) /\ Fits(m, st'[m])
  <2>1. Goes(m, l)
    BY <1>0, <1>2, <1>3, Going
  <2> QED
    BY <1>2, <1>3, <2>1, Running0 DEF WithP
<1>4. ASSUME Goes(m, HasOne(st[m])) PROVE Rest(m) /\ Fits(m, st'[m])
  BY <1>2, <1>4, Running0 DEF HasOne, WithP
<1>5. ASSUME GotOne(m) PROVE Rest(m) /\ Fits(m, st'[m])
  BY <1>0, <1>4, <1>5, GotOneDoes
<1>6. ASSUME TakeShare(m) PROVE Rest(m) /\ Fits(m, st'[m]) /\ glob' \in Nat /\ loc' \in [P -> Nat]
  <2>1. PICK k \in 1 .. glob : /\ glob' = glob - k
                       /\ loc' = [loc EXCEPT ![st[m].p] = loc[st[m].p] + k - 1]
                       /\ Goes(m, HasOne(st[m]))
    BY <1>2, <1>6, TakeShareDoes DEF ShareDoes
  <2>2. k \in Nat /\ k >= 1 /\ k <= glob /\ glob \in Nat /\ loc[st[m].p] \in Nat
    BY <1>2, <2>1 DEF TypeOK
  <2>3. glob' \in Nat /\ loc[st[m].p] + k - 1 \in Nat
    BY <2>1, <2>2
  <2> QED
    BY <1>2, <1>4, <2>1, <2>3 DEF TypeOK
<1>7. ASSUME loc[st[m].p] > 0, loc' = [loc EXCEPT ![st[m].p] = @ - 1] PROVE loc' \in [P -> Nat]
  BY <1>2, <1>7 DEF TypeOK
<1>8. CASE schedule(m)
  <2>1. Rest(m) /\ Fits(m, st'[m])
    BY <1>3, <1>5, <1>8 DEF schedule
  <2>2. glob' \in Nat /\ loc' \in [P -> Nat] /\ lapse' \in BOOLEAN
    BY <1>7, <1>8 DEF schedule, TypeOK, Settle
  <2> QED
    BY <1>8, <2>1, <2>2, Goodness DEF TypeOK, Rest, schedule, net
<1>9. CASE findrunnable(m)
  <2>1. Rest(m) /\ Fits(m, st'[m])
    BY <1>3, <1>5, <1>6, <1>9 DEF findrunnable
  <2>2. glob' \in Nat /\ loc' \in [P -> Nat] /\ lapse' \in BOOLEAN
    BY <1>6, <1>7, <1>9 DEF findrunnable, TypeOK, Settle
  <2> QED
    BY <1>9, <2>1, <2>2, Goodness DEF TypeOK, Rest, findrunnable, net
<1>10. CASE netpoll(m)
  <2>1. NetpollDoes(m) /\ st[m].pc = "netpoll"
    BY Zenon, <1>10, netpollDoes DEF netpoll, At
  <2>2. PICK n \in 0 .. netwait :
    /\ netwait' = netwait - n
    /\ \/ n = 0 /\ Goes(m, "spin")
       \/ n = 1 /\ Goes(m, HasOne(st[m]))
       \/ /\ n > 1 /\ Rest(m) /\ st'[m].pc = "inject" /\ st'[m].n = n - 1 /\ st'[m].fin = "got"
          /\ Holds(st'[m], st[m]) /\ st'[m].ret = st[m].ret
    BY <2>1 DEF NetpollDoes
  <2>3. netwait' \in Nat /\ n \in Nat
    BY <2>2 DEF TypeOK
  <2>4. ASSUME Goes(m, "spin") PROVE Rest(m) /\ Fits(m, st'[m])
    BY <1>2, <2>4, Running0 DEF WithP
  <2>5. ASSUME n > 1, Rest(m), st'[m].pc = "inject", st'[m].n = n - 1, st'[m].fin = "got",
               Holds(st'[m], st[m]), st'[m].ret = st[m].ret
        PROVE  Rest(m) /\ Fits(m, st'[m])
    BY <1>0, <2>1, <2>3, <2>5 DEF SchedAssumption, Holds, Shapes, Fits, Shape, Injector, Spinner, WithP, NoP, Handing, Starting, Injecting, Monitoring, ForSysmon
  <2>6. Rest(m) /\ Fits(m, st'[m])
    BY <1>4, <2>2, <2>4, <2>5
  <2> QED
    BY Zenon, <1>10, <2>3, <2>6, Goodness DEF TypeOK, Rest, netpoll, mon
<1>11. CASE spin(m)
  <2>1. st[m].pc = "spin" /\ ~st[m].sp
    BY <1>0, <1>11 DEF spin, At, Fits, Shape, Starting
  <2>2. ASSUME Looks(m, "steal", TRUE, st[m].todo) PROVE Fits(m, st'[m])
    BY <1>0, <2>1, <2>2 DEF SchedAssumption, Looks, Shapes, Fits, Shape, Injector, Spinner, WithP, NoP, Handing, Starting, Injecting, Monitoring, ForSysmon
  <2>3. ASSUME Goes(m, "stop") PROVE Fits(m, st'[m])
    BY <1>2, <2>3, Running0 DEF WithP
  <2>4. nmspinning' \in Int
    <3>1. nmspinning' = nmspinning \/ nmspinning' = nmspinning + 1
      BY <1>11 DEF spin
    <3> QED
      BY <3>1 DEF TypeOK
  <2>5. Rest(m) /\ Fits(m, st'[m])
    <3>1. CASE Goes(m, "stop")
      BY <2>3, <3>1 DEF Goes
    <3>2. CASE Looks(m, "steal", TRUE, st[m].todo)
      <4>1. Rest(m)
        BY <3>2 DEF Looks
      <4> QED
        BY <2>2, <3>2, <4>1
    <3> QED
      BY <1>11, <3>1, <3>2, spinDoes
  <2> QED
    BY <1>11, <2>4, <2>5, Goodness DEF TypeOK, Rest, spin, net, mon
<1>12. CASE steal(m)
  <2>1. Rest(m) /\ Fits(m, st'[m])
    BY <1>3, <1>5, <1>12 DEF steal
  <2>2. loc' \in [P -> Nat]
    <3>1. CASE loc' = loc
      BY <3>1 DEF TypeOK
    <3>2. ASSUME NEW p \in P \ {st[m].p}, NEW k \in 1 .. (loc[p] + 1) \div 2,
                 loc' = [loc EXCEPT ![p] = @ - k, ![st[m].p] = @ + k - 1]
          PROVE  loc' \in [P -> Nat]
      <4>1. loc[p] \in Nat /\ loc[st[m].p] \in Nat
        BY <1>2 DEF TypeOK
      <4>2. loc[p] - k \in Nat /\ loc[st[m].p] + k - 1 \in Nat
        BY <4>1
      <4> QED
        BY <1>2, <3>2, <4>2 DEF TypeOK
    <3> QED
      BY <1>12, <3>1, <3>2 DEF steal
  <2> QED
    BY <1>12, <2>1, <2>2, Goodness DEF TypeOK, Rest, steal, net, Settle
<1>13. CASE stop(m)
  <2>1. ASSUME StopsDoes(m) PROVE Fits(m, st'[m])
    <3>1. CASE st[m].spin
      BY Zenon, <1>0, <2>1, <3>1 DEF SchedAssumption, StopsDoes, Shapes, Fits, Shape, Injector, Spinner, WithP, NoP, Handing, Starting, Injecting, Monitoring, ForSysmon
    <3>2. CASE ~st[m].spin
      BY Zenon, <1>0, <2>1, <3>2 DEF SchedAssumption, StopsDoes, Shapes, Fits, Shape, Injector, Spinner, WithP, NoP, Handing, Starting, Injecting, Monitoring, ForSysmon
    <3> QED
      BY <3>1, <3>2
  <2>2. Rest(m) /\ Fits(m, st'[m]) /\ glob' \in Nat /\ loc' \in [P -> Nat] /\ idle' \subseteq P
    <3>1. CASE TakeShare(m) /\ idle' = idle
      BY <1>6, <3>1 DEF TypeOK
    <3>2. CASE idle' = idle \cup {st[m].p} /\ StopsDoes(m) /\ UNCHANGED <<loc, glob>>
      BY <1>2, <2>1, <3>2 DEF TypeOK, StopsDoes
    <3> QED
      BY <1>13, <3>1, <3>2, stopDoes
  <2> QED
    BY <1>13, <2>2, Goodness DEF TypeOK, Rest, stop, net, Settle
<1> QED
  BY <1>8, <1>9, <1>10, <1>11, <1>12, <1>13

(* A thread that gives its P up and looks again keeps types and shapes. *)
LEMMA StopGood ==
  ASSUME Good, NEW m \in M,
         unspin(m) \/ recheck(m) \/ rechecked(m) \/ respin(m) \/ resetspinning(m) \/ stopm(m)
  PROVE  Good'
<1>0. Fits(m, st[m]) /\ SchedAssumption /\ m \in T
  BY SchedAssumption DEF Good, Shapes, T
<1> USE DEF Good
<1>1. ASSUME ParksDoes(m) PROVE Rest(m) /\ Fits(m, st'[m])
  <2>1. CASE waiters
    BY <1>0, <1>1, <2>1 DEF ParksDoes, SchedAssumption, Fits, Shape, Injector, Spinner, WithP, NoP, Handing, Starting, Injecting, Monitoring, ForSysmon
  <2>2. CASE ~waiters
    BY <1>0, <1>1, <2>2 DEF ParksDoes, SchedAssumption, Fits, Shape, Injector, Spinner, WithP, NoP, Handing, Starting, Injecting, Monitoring, ForSysmon
  <2> QED
    BY <2>1, <2>2
<1>2. CASE unspin(m)
  <2>1. /\ st[m].pc = "unspin" /\ Looks(m, "recheck", FALSE, st[m].todo) /\ nmspinning' = nmspinning - 1
    BY <1>2, unspinDoes DEF unspin, At
  <2>2. Rest(m) /\ Fits(m, st'[m])
    BY <1>0, <2>1 DEF Looks, SchedAssumption, Fits, Shape, Injector, Spinner, WithP, NoP, Handing, Starting, Injecting, Monitoring, ForSysmon
  <2> QED
    BY <1>2, <2>1, <2>2, Goodness DEF TypeOK, Rest, unspin, net, mon
<1>3. CASE recheck(m)
  <2>1. st[m].pc = "recheck"
    BY <1>3 DEF recheck, At
  <2>2. ASSUME NEW l \in {"recheck", "rechecked"}, NEW d, Looks(m, l, st[m].spin, d)
        PROVE  Rest(m) /\ Fits(m, st'[m])
    BY <1>0, <2>1, <2>2 DEF Looks, SchedAssumption, Fits, Shape, Injector, Spinner, WithP, NoP, Handing, Starting, Injecting, Monitoring, ForSysmon
  <2>3. Rest(m) /\ Fits(m, st'[m])
    <3>1. CASE ParksDoes(m)
      BY <1>1, <3>1
    <3>2. ASSUME NEW p \in P,
                 Looks(m, IF loc[p] # 0 THEN "rechecked" ELSE "recheck", st[m].spin, st[m].todo \ {p})
          PROVE  Rest(m) /\ Fits(m, st'[m])
      BY <2>2, <3>2
    <3> QED
      BY <1>3, <3>1, <3>2, recheckDoes
  <2> QED
    BY <1>3, <2>3, Goodness DEF TypeOK, Rest, recheck, net, mon
<1>4. CASE rechecked(m)
  <2>1. st[m].pc = "rechecked" /\ st[m].ret \in {"respin", "findrunnable"}
    BY <1>0, <1>4 DEF rechecked, At, Fits, Shape
  <2>2. ASSUME NEW p \in P, NEW l \in {"respin", "findrunnable"}, Rest(m), IsLocal(st'[m], l, p)
        PROVE  Fits(m, st'[m])
    BY <1>0, <2>2 DEF IsLocal, SchedAssumption, Fits, Shape, Injector, Spinner, WithP, NoP, Handing, Starting, Injecting, Monitoring, ForSysmon
  <2>3. Rest(m) /\ Fits(m, st'[m]) /\ idle' \subseteq P
    <3>1. CASE idle' = idle /\ ParksDoes(m)
      BY <1>1, <3>1 DEF TypeOK
    <3>2. ASSUME NEW p \in idle, idle' = idle \ {p}, Rest(m), IsLocal(st'[m], st[m].ret, p)
          PROVE  Rest(m) /\ Fits(m, st'[m]) /\ idle' \subseteq P
      <4>1. p \in P /\ idle' \subseteq P
        BY <3>2 DEF TypeOK
      <4> QED
        BY <2>1, <2>2, <3>2, <4>1
    <3> QED
      BY <1>4, <3>1, <3>2, recheckedDoes
  <2> QED
    BY <1>4, <2>3, Goodness DEF TypeOK, Rest, rechecked, net, mon
<1>5. CASE respin(m)
  <2>1. st[m].pc = "respin" /\ Looks(m, "findrunnable", TRUE, st[m].todo) /\ nmspinning' = nmspinning + 1
    BY <1>5, respinDoes DEF respin, At
  <2>2. Rest(m) /\ Fits(m, st'[m])
    BY <1>0, <2>1 DEF Looks, SchedAssumption, Fits, Shape, Injector, Spinner, WithP, NoP, Handing, Starting, Injecting, Monitoring, ForSysmon
  <2> QED
    BY <1>5, <2>1, <2>2, Goodness DEF TypeOK, Rest, respin, net, mon
<1>6. CASE resetspinning(m)
  <2>1. st[m].pc = "resetspinning"
    BY <1>6 DEF resetspinning, At
  <2>2. ASSUME NEW l \in {"readied", "run"}, Looks(m, l, FALSE, st[m].todo)
        PROVE  Rest(m) /\ Fits(m, st'[m])
    BY <1>0, <2>1, <2>2 DEF Looks, SchedAssumption, Fits, Shape, Injector, Spinner, WithP, NoP, Handing, Starting, Injecting, Monitoring, ForSysmon
  <2>3. Rest(m) /\ Fits(m, st'[m]) /\ nmspinning' = nmspinning - 1
    BY <1>6, <2>2, resetspinningDoes
  <2> QED
    BY <1>6, <2>3, Goodness DEF TypeOK, Rest, resetspinning, net, mon
<1>7. CASE stopm(m)
  <2>1. StopmDoes(m) /\ st[m].pc \in {"stopm", "repark"}
    BY <1>7, stopmDoes
  <2>2. st'[m].ret \in {"schedule", "findrunnable"}
    BY <1>0, <2>1 DEF StopmDoes, Fits, Shape
  <2>3. Rest(m) /\ Fits(m, st'[m])
    BY <1>0, <2>1, <2>2 DEF StopmDoes, SchedAssumption, Fits, Shape, Injector, Spinner, WithP, NoP, Handing, Starting, Injecting, Monitoring, ForSysmon
  <2>4. dead' \in BOOLEAN
    BY <1>7 DEF stopm, checkdead
  <2> QED
    BY <1>7, <2>3, <2>4, Goodness DEF TypeOK, Rest, stopm, net
<1> QED
  BY <1>2, <1>3, <1>4, <1>5, <1>6, <1>7

(* A thread without a P keeps types and shapes, when it polls and when it stops. *)
LEMMA PollGood ==
  ASSUME Good, NEW m \in M, netblock(m) \/ polling(m) \/ polled(m) \/ pollPidle(m)
  PROVE  Good'
<1>0. Fits(m, st[m]) /\ SchedAssumption /\ m \in T
  BY SchedAssumption DEF Good, Shapes, T
<1> USE DEF Good
<1>1. CASE netblock(m)
  <2>1. st[m].pc = "netblock"
    BY <1>1 DEF netblock, At
  <2>2. ASSUME NEW l \in {"polling", "stopm"}, Goto(m, l) PROVE Rest(m) /\ Fits(m, st'[m])
    <3>1. l \in PC
      BY DEF PC, NoP
    <3>2. Goes(m, l)
      BY <1>0, <2>2, <3>1, Going
    <3> QED
      BY <1>0, <2>1, <3>2 DEF Goes, To, Same, SchedAssumption, Fits, Shape, Injector, Spinner, WithP, NoP, Handing, Starting, Injecting, Monitoring, ForSysmon
  <2>3. Rest(m) /\ Fits(m, st'[m])
    BY <1>1, <2>2 DEF netblock
  <2> QED
    BY <1>1, <2>3, Goodness DEF TypeOK, Rest, netblock, mon
<1>2. CASE polling(m)
  <2>1. PollDoes(m) /\ st[m].pc = "polling"
    BY <1>2, pollingDoes DEF polling, At
  <2>2. PICK n \in 1 .. netwait :
          /\ netwait' = netwait - n
          /\ Rest(m) /\ st'[m].n = n /\ st'[m].pc = "polled"
          /\ Holds(st'[m], st[m]) /\ st'[m].ret = st[m].ret /\ st'[m].fin = st[m].fin
    BY <2>1 DEF PollDoes
  <2>3. netwait' \in Nat /\ n > 0
    BY <2>2 DEF TypeOK
  <2>4. Fits(m, st'[m])
    BY <1>0, <2>1, <2>2, <2>3 DEF Holds, SchedAssumption, Fits, Shape, Injector, Spinner, WithP, NoP, Handing, Starting, Injecting, Monitoring, ForSysmon
  <2> QED
    BY <1>2, <2>2, <2>3, <2>4, Goodness DEF TypeOK, Rest, polling, mon
<1>3. CASE polled(m)
  <2>1. st[m].pc = "polled" /\ "pollPidle" \in PC
    BY <1>3 DEF polled, At, PC, NoP
  <2>2. Goes(m, "pollPidle")
    BY <1>0, <1>3, <2>1, Going DEF polled
  <2>3. Rest(m) /\ Fits(m, st'[m])
    BY SMTT(30), <1>0, <2>1, <2>2 DEF Goes, To, Same, SchedAssumption, Fits, Shape, Injector, Spinner, WithP, NoP, Handing, Starting, Injecting, Monitoring, ForSysmon
  <2> QED
    BY <1>3, <2>3, Goodness DEF TypeOK, Rest, polled, mon
<1>4. CASE pollPidle(m)
  <2>1. PidleDoes(m) /\ st[m].pc = "pollPidle" /\ st[m].n \in Nat
    BY Zenon, <1>0, <1>4, pollPidleDoes DEF pollPidle, At, TypeOK, Thread
  <2>2. ASSUME NEW p \in P, IsLocal(st'[m], "run", p) PROVE Fits(m, st'[m])
    BY <1>0, <2>2 DEF IsLocal, SchedAssumption, Fits, Shape, Injector, Spinner, WithP, NoP, Handing, Starting, Injecting, Monitoring, ForSysmon
  <2>3. ASSUME NEW p \in P, st[m].n > 1, Bears(st'[m], "inject", p, st[m].n - 1, "run") PROVE Fits(m, st'[m])
    <3>1. /\ st'[m].pc = "inject" /\ st'[m].p = p /\ st'[m].fin = "run" /\ st'[m].ret = ""
          /\ ~st'[m].spin /\ st'[m].hp = None /\ ~st'[m].sp
      BY <2>3 DEF Bears
    <3>2. st'[m].n > 0
      <4>1. st'[m].n = st[m].n - 1
        BY <2>3 DEF Bears
      <4> QED
        BY <2>1, <2>3, <4>1
    <3> QED
      BY <1>0, <3>1, <3>2 DEF SchedAssumption, Fits, Shape, Injector, Spinner, WithP, NoP, Handing, Starting, Injecting, Monitoring, ForSysmon
  <2>4. ASSUME st'[m].pc = "inject", st'[m].fin = "repark", st'[m].ret = "", st'[m].n = st[m].n,
               Holds(st'[m], st[m])
        PROVE  Fits(m, st'[m])
    BY <1>0, <2>1, <2>4 DEF Holds, SchedAssumption, Fits, Shape, Injector, Spinner, WithP, NoP, Handing, Starting, Injecting, Monitoring, ForSysmon
  <2>5. Rest(m) /\ Fits(m, st'[m]) /\ idle' \subseteq P
    <3>1. ASSUME NEW p \in idle PROVE p \in P
      BY DEF TypeOK
    <3> QED
      BY <2>1, <2>2, <2>3, <2>4, <3>1 DEF PidleDoes, TypeOK
  <2> QED
    BY ZenonT(60), <1>4, <2>5, Goodness DEF TypeOK, Rest, pollPidle, net, mon
<1> QED
  BY <1>1, <1>2, <1>3, <1>4

(* What sysmon does on its own. *)
SysmonNext == sysmonSleeps \/ sysmonTimeout \/ sysmonPolls \/ incidlelocked \/ retake \/ retakeCas \/ uncount

(* sysmon keeps types and shapes. *)
LEMMA SysmonGood ==
  ASSUME Good, SysmonNext
  PROVE  Good'
<1>0. Fits(Sysmon, st[Sysmon]) /\ SchedAssumption /\ Sysmon \in T /\ {"asleep", "sysmon", "inject"} \subseteq PC
  BY SchedAssumption DEF Good, Shapes, T, PC, Monitoring, Injecting
<1> USE DEF Good
<1>1. ASSUME NEW l \in {"asleep", "sysmon", "inject"}, Goto(Sysmon, l), l = "inject" => st[Sysmon].pc = "incidlelocked",
             st[Sysmon].pc \in {"sysmon", "asleep", "incidlelocked"}
      PROVE  Rest(Sysmon) /\ Fits(Sysmon, st'[Sysmon])
  <2>1. Goes(Sysmon, l)
    BY <1>0, <1>1, Going
  <2> QED
    BY <1>0, <1>1, <2>1 DEF Goes, To, Same, SchedAssumption, Fits, Shape, Injector, Spinner, WithP, NoP, Handing, Starting, Injecting, Monitoring, ForSysmon
<1>2. CASE sysmonSleeps
  <2>1. Rest(Sysmon) /\ Fits(Sysmon, st'[Sysmon])
    BY <1>1, <1>2 DEF sysmonSleeps, At
  <2> QED
    BY <1>2, <2>1, Goodness DEF TypeOK, Rest, sysmonSleeps, net
<1>3. CASE sysmonTimeout
  <2>1. Rest(Sysmon) /\ Fits(Sysmon, st'[Sysmon])
    BY <1>1, <1>3 DEF sysmonTimeout, At
  <2> QED
    BY <1>3, <2>1, Goodness DEF TypeOK, Rest, sysmonTimeout, net
<1>4. CASE sysmonPolls
  <2>1. PICK n \in 1 .. netwait : /\ netwait' = netwait - n /\ Rest(Sysmon)
                                  /\ Bears(st'[Sysmon], "incidlelocked", None, n, "uncount")
    BY <1>4, sysmonPollsDoes
  <2>2. netwait' \in Nat /\ n > 0
    BY <2>1 DEF TypeOK
  <2>3. Fits(Sysmon, st'[Sysmon])
    BY <1>0, <2>1, <2>2 DEF Bears, SchedAssumption, Fits, Shape, Injector, Spinner, WithP, NoP, Handing, Starting, Injecting, Monitoring, ForSysmon
  <2> QED
    BY <1>4, <2>1, <2>2, <2>3, Goodness DEF TypeOK, Rest, sysmonPolls, mon
<1>5. CASE incidlelocked
  <2>1. Rest(Sysmon) /\ Fits(Sysmon, st'[Sysmon])
    BY <1>1, <1>5 DEF incidlelocked, At
  <2> QED
    BY <1>5, <2>1, Goodness DEF TypeOK, Rest, incidlelocked, net
<1>6. CASE retake
  <2>1. PICK p \in insys : RetakeDoes(p)
    BY <1>6, retakeDoes
  <2>2. p \in P
    BY DEF TypeOK
  <2>3. Rest(Sysmon) /\ Fits(Sysmon, st'[Sysmon])
    BY <1>0, <2>1, <2>2 DEF RetakeDoes, SchedAssumption, Fits, Shape, Injector, Spinner, WithP, NoP, Handing, Starting, Injecting, Monitoring, ForSysmon
  <2>4. /\ idlelocked' = idlelocked - 1
        /\ UNCHANGED <<loc, glob, idle, insys, nmspinning, net, parked, sysmonwait, dead, lapse>>
    BY <1>6 DEF retake
  <2> QED
    BY <2>3, <2>4, Goodness DEF TypeOK, Rest, net
<1>7. CASE retakeCas
  <2>1. PICK p \in P : \/ p \in insys /\ insys' = insys \ {p} /\ RetakenDoes(p)
                       \/ insys' = insys /\ Rest(Sysmon) /\ IsLocal(st'[Sysmon], "uncount", None)
    BY <1>7, retakeCasDoes
  <2>2. ASSUME RetakenDoes(p) PROVE Rest(Sysmon) /\ Fits(Sysmon, st'[Sysmon])
    BY <1>0, <2>2 DEF RetakenDoes, SchedAssumption, Fits, Shape, Injector, Spinner, WithP, NoP, Handing, Starting, Injecting, Monitoring, ForSysmon
  <2>3. ASSUME IsLocal(st'[Sysmon], "uncount", None) PROVE Fits(Sysmon, st'[Sysmon])
    BY <1>0, <2>3 DEF IsLocal, SchedAssumption, Fits, Shape, Injector, Spinner, WithP, NoP, Handing, Starting, Injecting, Monitoring, ForSysmon
  <2>4. Rest(Sysmon) /\ Fits(Sysmon, st'[Sysmon]) /\ insys' \subseteq P
    BY <2>1, <2>2, <2>3 DEF TypeOK
  <2> QED
    BY Zenon, <1>7, <2>4, Goodness DEF TypeOK, Rest, retakeCas, net, mon
<1>8. CASE uncount
  <2>1. Rest(Sysmon) /\ IsLocal(st'[Sysmon], "sysmon", None)
    BY <1>8, uncountDoes
  <2>2. Fits(Sysmon, st'[Sysmon])
    BY <1>0, <2>1 DEF IsLocal, SchedAssumption, Fits, Shape, Injector, Spinner, WithP, NoP, Handing, Starting, Injecting, Monitoring, ForSysmon
  <2>3. dead' \in BOOLEAN
    BY <1>8 DEF uncount, checkdead
  <2> QED
    BY <1>8, <2>1, <2>2, <2>3, Goodness DEF TypeOK, Rest, uncount, net
<1> QED
  BY <1>2, <1>3, <1>4, <1>5, <1>6, <1>7, <1>8 DEF SysmonNext

----------------------------------------------------------------------------
(* Who has a P. *)
Has(s, p) == (s.p = p /\ s.pc # "syscall") \/ s.hp = p
(* Idle, in a system call, or with one thread. *)
OwnedAt(p) ==
  \/ p \in idle /\ p \notin insys /\ \A t \in T : ~Has(st[t], p)
  \/ p \notin idle /\ p \in insys /\ \A t \in T : ~Has(st[t], p)
  \/ p \notin idle /\ p \notin insys /\ \E t \in T : \A u \in T : Has(st[u], p) <=> u = t
Owned == /\ \A p \in P : OwnedAt(p)
         /\ \A t \in T : st[t].hp = None \/ st[t].hp # st[t].p

(* A thread that spins or is about to start one that will. *)
Counted(s) == s.spin \/ s.sp
Spinning == {t \in T : Counted(st[t])}

(* A P that its thread must not leave with work. *)
Bare(s, p) == \/ s.p = p /\ s.pc \in {"netpoll", "spin", "steal", "stop"}
              \/ s.p = p /\ s.pc = "schedule" /\ s.spin
              \/ s.hp = p /\ s.pc \in {"handoffCas", "handoffLocked"}
              \/ s.hp = p /\ s.sp
Empty == \A p \in P : (p \in idle \/ \E t \in T : Bare(st[t], p)) => loc[p] = 0

(* A thread that keeps its P and its count. *)
Alike(s, r) == /\ s.p = r.p /\ s.hp = r.hp /\ s.spin = r.spin /\ s.sp = r.sp
               /\ s.pc = "syscall" <=> r.pc = "syscall"
Steady(t) == Rest(t) /\ Alike(st'[t], st[t]) /\ UNCHANGED <<idle, insys, nmspinning>>

(* A step that moves no P and changes no count keeps ownership and count. *)
LEMMA SteadyKeeps ==
  ASSUME Owned, SpinningIsCounted, NEW t \in T, Steady(t)
  PROVE  Owned' /\ SpinningIsCounted'
<1>1. \A u \in T : Alike(st'[u], st[u])
  BY DEF Steady, Rest, Alike
<1>2. \A u \in T, p \in P : Has(st'[u], p) <=> Has(st[u], p)
  BY <1>1 DEF Alike, Has
<1>3. \A p \in P : OwnedAt(p)'
  <2> TAKE p \in P
  <2>1. OwnedAt(p)
    BY DEF Owned
  <2> QED
    BY <1>2, <2>1 DEF OwnedAt, Steady
<1>4. {u \in T : st'[u].spin \/ st'[u].sp} = {u \in T : st[u].spin \/ st[u].sp}
  BY <1>1 DEF Alike
<1>5. \A u \in T : st'[u].hp = None \/ st'[u].hp # st'[u].p
  BY <1>1 DEF Alike, Owned
<1> QED
  BY <1>3, <1>4, <1>5 DEF Owned, SpinningIsCounted, Steady

(* The actions that move no P and count nobody. *)
LEMMA SteadyShared ==
  ASSUME Good, NEW t \in T, handoffp(t) \/ injectglist(t) \/ injected(t)
  PROVE  Steady(t)
<1> USE DEF Good
<1>0. Fits(t, st[t])
  BY DEF Shapes
<1>1. CASE handoffp(t)
  <2>1. st[t].pc = "handoffp"
    BY <1>1 DEF handoffp, At
  <2>2. ASSUME NEW l \in {"startm", "handoffCas", "handoffLocked"}, Goes(t, l) PROVE Rest(t) /\ Alike(st'[t], st[t])
    BY <2>1, <2>2 DEF Goes, To, Same, Alike
  <2>3. Rest(t) /\ Alike(st'[t], st[t])
    BY <1>1, <2>2, handoffpDoes
  <2> QED
    BY <1>1, <2>3 DEF handoffp, Steady
<1>2. CASE injectglist(t)
  <2>1. Goes(t, "injected") /\ st[t].pc = "inject"
    BY <1>2, Going DEF injectglist, PC, Injecting, At
  <2> QED
    BY <1>2, <2>1 DEF injectglist, Steady, Goes, To, Same, Alike
<1>3. CASE injected(t)
  <2>1. InjectedDoes(t) /\ st[t].pc = "injected"
    BY Zenon, <1>3, injectedDoes DEF injected, At
  <2>2. AfterInject(st[t]) # "syscall"
    BY <1>0, <2>1 DEF AfterInject, HasOne, Fits, Shape, Injector, Injecting
  <2>3. Rest(t) /\ Alike(st'[t], st[t])
    BY <2>1, <2>2 DEF InjectedDoes, Alike
  <2> QED
    BY ZenonT(60), <1>3, <2>3 DEF injected, Steady
<1> QED
  BY <1>1, <1>2, <1>3

(* The same of a running goroutine and of one on its way to a queue, *)
LEMMA SteadyRun ==
  ASSUME Good, NEW m \in M,
         \/ ready(m) \/ readied(m) \/ park(m) \/ parkOnNet(m) \/ gosched(m) \/ (wakep(m) /\ nmspinning # 0)
         \/ schedule(m) \/ findrunnable(m) \/ netpoll(m) \/ steal(m)
         \/ (spin(m) /\ st'[m].pc # "steal") \/ (stop(m) /\ TakeShare(m) /\ idle' = idle)
  PROVE  Steady(m)
<1> USE DEF Good
<1>0. Fits(m, st[m]) /\ m \in T
  BY DEF Shapes, T
<1>1. ASSUME NEW l \in PC, Goes(m, l), l # "syscall", st[m].pc # "syscall" PROVE Rest(m) /\ Alike(st'[m], st[m])
  BY <1>1 DEF Goes, To, Same, Alike
<1>2. ASSUME NEW l \in {"run", "readied", "wakep", "schedule", "findrunnable", "netpoll", "spin", "stop"}, Goto(m, l), st[m].pc # "syscall"
      PROVE  Rest(m) /\ Alike(st'[m], st[m])
  <2>1. l \in PC /\ l # "syscall"
    BY DEF PC, WithP
  <2> QED
    BY <1>0, <1>1, <1>2, <2>1, Going
<1>3. ASSUME Goes(m, HasOne(st[m])), st[m].pc # "syscall" PROVE Rest(m) /\ Alike(st'[m], st[m])
  <2>1. HasOne(st[m]) \in PC /\ HasOne(st[m]) # "syscall"
    BY DEF HasOne, PC, WithP
  <2> QED
    BY <1>1, <1>3, <2>1
<1>4. ASSUME GotOne(m), st[m].pc # "syscall" PROVE Rest(m) /\ Alike(st'[m], st[m])
  BY <1>0, <1>3, <1>4, GotOneDoes
<1>5. ASSUME TakeShare(m), st[m].pc # "syscall" PROVE Rest(m) /\ Alike(st'[m], st[m])
  BY <1>4, <1>5 DEF TakeShare
<1>6. CASE ready(m) \/ readied(m) \/ park(m) \/ parkOnNet(m) \/ gosched(m) \/ (wakep(m) /\ nmspinning # 0)
  <2>1. /\ \E l \in {"run", "readied", "wakep", "schedule"} : Goto(m, l)
        /\ st[m].pc # "syscall" /\ UNCHANGED <<idle, insys, nmspinning>>
    BY <1>6 DEF ready, readied, park, parkOnNet, gosched, wakep, At
  <2> QED
    BY <1>2, <2>1 DEF Steady
<1>7. CASE schedule(m)
  <2>1. st[m].pc # "syscall" /\ UNCHANGED <<idle, insys, nmspinning>>
    BY <1>7 DEF schedule, At
  <2>2. GotOne(m) \/ Goto(m, "findrunnable")
    BY <1>7 DEF schedule
  <2> QED
    BY <1>2, <1>4, <2>1, <2>2 DEF Steady
<1>8. CASE findrunnable(m)
  <2>1. st[m].pc # "syscall" /\ UNCHANGED <<idle, insys, nmspinning>>
    BY <1>8 DEF findrunnable, At
  <2>2. GotOne(m) \/ TakeShare(m) \/ Goto(m, "netpoll") \/ Goto(m, "spin")
    BY <1>8 DEF findrunnable
  <2> QED
    BY <1>2, <1>4, <1>5, <2>1, <2>2 DEF Steady
<1>9. CASE netpoll(m)
  <2>1. st[m].pc = "netpoll" /\ UNCHANGED <<idle, insys, nmspinning>>
    BY <1>9 DEF netpoll, At
  <2>2. NetpollDoes(m) /\ "spin" \in PC
    BY <1>9, netpollDoes DEF PC, WithP
  <2>3. ASSUME NEW n \in 0 .. netwait, Rest(m), st'[m].pc = "inject", Holds(st'[m], st[m])
        PROVE  Rest(m) /\ Alike(st'[m], st[m])
    BY <2>1, <2>3 DEF Holds, Alike
  <2>4. Rest(m) /\ Alike(st'[m], st[m])
    BY <1>1, <1>3, <2>1, <2>2, <2>3 DEF NetpollDoes
  <2> QED
    BY <2>1, <2>4 DEF Steady
<1>10. CASE steal(m)
  <2>1. st[m].pc # "syscall" /\ UNCHANGED <<idle, insys, nmspinning>>
    BY <1>10 DEF steal, At
  <2>2. GotOne(m) \/ Goto(m, "stop")
    BY <1>10 DEF steal
  <2> QED
    BY <1>2, <1>4, <2>1, <2>2 DEF Steady
<1>11. CASE spin(m) /\ st'[m].pc # "steal"
  <2>1. st[m].pc # "syscall" /\ UNCHANGED <<idle, insys>> /\ "stop" \in PC
    BY <1>11 DEF spin, At, PC, WithP
  <2>2. Goes(m, "stop") /\ nmspinning' = nmspinning
    BY <1>11, spinDoes DEF Looks
  <2> QED
    BY <1>1, <2>1, <2>2 DEF Steady
<1>12. CASE stop(m) /\ TakeShare(m) /\ idle' = idle
  <2>1. st[m].pc # "syscall" /\ UNCHANGED <<idle, insys, nmspinning>>
    BY <1>12 DEF stop, At
  <2> QED
    BY <1>5, <1>12, <2>1 DEF Steady
<1> QED
  BY <1>6, <1>7, <1>8, <1>9, <1>10, <1>11, <1>12

(* of a thread that looks once more and stops, *)
LEMMA SteadyStop ==
  ASSUME Good, NEW m \in M,
         \/ recheck(m) \/ netblock(m) \/ polling(m) \/ polled(m) \/ stopm(m)
         \/ ((rechecked(m) \/ pollPidle(m)) /\ idle = {})
  PROVE  Steady(m)
<1> USE DEF Good
<1>0. Fits(m, st[m]) /\ m \in T /\ SchedAssumption
  BY SchedAssumption DEF Shapes, T
<1>1. ASSUME NEW l \in {"polling", "stopm", "pollPidle"}, Goto(m, l), st[m].pc # "syscall"
      PROVE  Rest(m) /\ Alike(st'[m], st[m])
  <2>1. l \in PC /\ l # "syscall"
    BY DEF PC, NoP
  <2> QED
    BY <1>0, <1>1, <2>1, Going DEF Goes, To, Same, Alike
<1>2. ASSUME st[m].pc \in {"recheck", "rechecked", "netblock", "polling", "polled", "pollPidle", "stopm"}
      PROVE  st[m].p = None /\ st[m].hp = None /\ ~st[m].spin /\ ~st[m].sp
  BY <1>0, <1>2 DEF SchedAssumption, Fits, Shape, Injector, Spinner, WithP, NoP, Handing, Starting, Injecting, Monitoring, ForSysmon
<1>3. ASSUME ParksDoes(m), st[m].pc \in {"recheck", "rechecked"} PROVE Rest(m) /\ Alike(st'[m], st[m])
  <2>1. st[m].p = None /\ st[m].hp = None /\ st[m].spin = FALSE /\ st[m].sp = FALSE
    BY <1>0, <1>2, <1>3 DEF TypeOK, Thread
  <2>2. st'[m].p = None /\ st'[m].hp = None /\ st'[m].spin = FALSE /\ st'[m].sp = FALSE
    BY <1>0, <1>3 DEF TypeOK, Thread, ParksDoes, Rest
  <2>3. Rest(m) /\ st'[m].pc # "syscall"
    BY <1>3 DEF ParksDoes
  <2> QED
    BY <1>3, <2>1, <2>2, <2>3 DEF Alike
<1>4. CASE recheck(m)
  <2>1. st[m].pc = "recheck" /\ UNCHANGED <<idle, insys, nmspinning>>
    BY <1>4 DEF recheck, At
  <2>2. ASSUME NEW l \in {"recheck", "rechecked"}, NEW d, Looks(m, l, st[m].spin, d)
        PROVE  Rest(m) /\ Alike(st'[m], st[m])
    BY <2>1, <2>2 DEF Looks, Alike
  <2>3. ASSUME NEW p \in P,
               Looks(m, IF loc[p] # 0 THEN "rechecked" ELSE "recheck", st[m].spin, st[m].todo \ {p})
        PROVE  Rest(m) /\ Alike(st'[m], st[m])
    BY <2>2, <2>3
  <2>4. Rest(m) /\ Alike(st'[m], st[m])
    BY <1>3, <1>4, <2>1, <2>3, recheckDoes
  <2> QED
    BY <2>1, <2>4 DEF Steady
<1>5. CASE netblock(m) \/ polled(m)
  <2>1. st[m].pc # "syscall" /\ UNCHANGED <<idle, insys, nmspinning>>
    BY <1>5 DEF netblock, polled, At
  <2>2. Goto(m, "polling") \/ Goto(m, "stopm") \/ Goto(m, "pollPidle")
    BY <1>5 DEF netblock, polled
  <2> QED
    BY <1>1, <2>1, <2>2 DEF Steady
<1>6. CASE polling(m)
  <2>1. PollDoes(m) /\ st[m].pc = "polling" /\ UNCHANGED <<idle, insys, nmspinning>>
    BY <1>6, pollingDoes DEF polling, At
  <2> QED
    BY <2>1 DEF PollDoes, Holds, Alike, Steady
<1>7. CASE stopm(m)
  <2>1. StopmDoes(m) /\ st[m].pc \in {"stopm", "repark"} /\ UNCHANGED <<idle, insys, nmspinning>>
    BY <1>7, stopmDoes DEF stopm
  <2>2. st[m].p = None /\ st[m].hp = None /\ st[m].spin = FALSE /\ st[m].sp = FALSE
    <3>1. st[m].p = None /\ st[m].hp = None /\ ~st[m].spin /\ ~st[m].sp
      BY <1>0, <2>1 DEF SchedAssumption, Fits, Shape, Injector, Spinner, WithP, NoP, Handing, Starting, Injecting, Monitoring, ForSysmon
    <3> QED
      BY <1>0, <3>1 DEF TypeOK, Thread
  <2>3. /\ Rest(m) /\ st'[m].pc # "syscall" /\ st[m].pc # "syscall"
        /\ st'[m].p = None /\ st'[m].hp = None /\ st'[m].spin = FALSE /\ st'[m].sp = FALSE
    BY <1>0, <2>1 DEF TypeOK, Thread, StopmDoes, Rest
  <2> QED
    BY <2>1, <2>2, <2>3 DEF Alike, Steady
<1>8. CASE rechecked(m) /\ idle = {}
  <2>1. st[m].pc = "rechecked" /\ UNCHANGED <<insys, nmspinning>>
    BY <1>8 DEF rechecked, At
  <2>2. ParksDoes(m) /\ idle' = idle
    BY <1>8, recheckedDoes
  <2> QED
    BY <1>3, <2>1, <2>2 DEF Steady
<1>9. CASE pollPidle(m) /\ idle = {}
  <2>1. st[m].pc = "pollPidle" /\ UNCHANGED <<insys, nmspinning>>
    BY <1>9 DEF pollPidle, At
  <2>2. idle' = idle /\ Rest(m) /\ st'[m].pc = "inject" /\ Holds(st'[m], st[m])
    BY <1>9, pollPidleDoes DEF PidleDoes
  <2> QED
    BY <2>1, <2>2 DEF Steady, Holds, Alike
<1> QED
  BY <1>4, <1>5, <1>6, <1>7, <1>8, <1>9

(* and of sysmon, except where it retakes a P. *)
LEMMA SteadySysmon ==
  ASSUME Good, SysmonNext, ~retakeCas \/ insys' = insys
  PROVE  Steady(Sysmon)
<1> USE DEF Good
<1>0. Fits(Sysmon, st[Sysmon]) /\ Sysmon \in T /\ SchedAssumption
  BY SchedAssumption DEF Shapes, T
<1>1. /\ st[Sysmon].pc \in {"sysmon", "asleep", "incidlelocked", "retakeCas", "uncount"}
      /\ UNCHANGED <<idle, nmspinning>>
  BY Zenon DEF SysmonNext, sysmonSleeps, sysmonTimeout, sysmonPolls, incidlelocked, retake, retakeCas, uncount, At
<1>2. st[Sysmon].p = None /\ st[Sysmon].hp = None /\ st[Sysmon].spin = FALSE /\ st[Sysmon].sp = FALSE
  <2>1. st[Sysmon].p = None /\ st[Sysmon].hp = None /\ ~st[Sysmon].spin /\ ~st[Sysmon].sp
    BY <1>0, <1>1 DEF SchedAssumption, Fits, Shape, Injector, Spinner, WithP, NoP, Handing, Starting, Injecting, Monitoring, ForSysmon
  <2> QED
    BY <1>0, <2>1 DEF TypeOK, Thread
<1>3. ASSUME Rest(Sysmon), st'[Sysmon].p = None, st'[Sysmon].hp = None, ~st'[Sysmon].spin, ~st'[Sysmon].sp,
             st'[Sysmon].pc # "syscall", insys' = insys
      PROVE  Steady(Sysmon)
  <2>1. st'[Sysmon].spin = FALSE /\ st'[Sysmon].sp = FALSE
    BY <1>0, <1>3 DEF Rest, Thread
  <2> QED
    BY <1>1, <1>2, <1>3, <2>1 DEF Alike, Steady
<1>4. ASSUME NEW l \in {"asleep", "sysmon", "inject"}, Goto(Sysmon, l), insys' = insys PROVE Steady(Sysmon)
  <2>1. l \in PC /\ l # "syscall"
    BY DEF PC, Monitoring, Injecting
  <2> QED
    BY <1>0, <1>1, <1>4, <2>1, Going DEF Goes, To, Same, Alike, Steady
<1>5. CASE sysmonSleeps \/ sysmonTimeout \/ incidlelocked
  BY <1>4, <1>5 DEF sysmonSleeps, sysmonTimeout, incidlelocked
<1>6. CASE sysmonPolls
  <2>1. insys' = insys
    BY <1>6 DEF sysmonPolls
  <2> QED
    BY <1>3, <1>6, <2>1, sysmonPollsDoes DEF Bears
<1>7. CASE retake
  <2>1. insys' = insys
    BY <1>7 DEF retake
  <2> QED
    BY <1>3, <1>7, <2>1, retakeDoes DEF RetakeDoes
<1>8. CASE retakeCas /\ insys' = insys
  <2>1. PICK p \in P : \/ p \in insys /\ insys' = insys \ {p} /\ RetakenDoes(p)
                       \/ insys' = insys /\ Rest(Sysmon) /\ IsLocal(st'[Sysmon], "uncount", None)
    BY <1>8, retakeCasDoes
  <2>2. Rest(Sysmon) /\ IsLocal(st'[Sysmon], "uncount", None)
    BY <1>8, <2>1
  <2> QED
    BY <1>3, <1>8, <2>2 DEF IsLocal
<1>9. CASE uncount
  <2>1. insys' = insys
    BY <1>9 DEF uncount
  <2> QED
    BY <1>3, <1>9, <2>1, uncountDoes DEF IsLocal
<1> QED
  BY <1>5, <1>6, <1>7, <1>8, <1>9 DEF SysmonNext

----------------------------------------------------------------------------
(* One P changes hands, or none. *)
LEMMA MovesOne ==
  ASSUME Owned, NEW p \in P,
         \A q \in P \ {p} : /\ q \in idle' <=> q \in idle
                            /\ q \in insys' <=> q \in insys
                            /\ \A u \in T : Has(st'[u], q) <=> Has(st[u], q),
         OwnedAt(p)', \A u \in T : st'[u].hp = None \/ st'[u].hp # st'[u].p
  PROVE  Owned'
<1>1. ASSUME NEW q \in P \ {p} PROVE OwnedAt(q)'
  <2>1. OwnedAt(q)
    BY DEF Owned
  <2> QED
    BY <2>1 DEF OwnedAt
<1> QED
  BY <1>1 DEF Owned

(* or none: a P is where it was if every thread has what it had. *)
LEMMA MovesNone ==
  ASSUME Owned, UNCHANGED <<idle, insys>>, NEW t \in T, Rest(t), \A q \in P : Has(st'[t], q) <=> Has(st[t], q),
         st'[t].hp = None \/ st'[t].hp # st'[t].p
  PROVE  Owned'
<1>1. \A u \in T, q \in P : Has(st'[u], q) <=> Has(st[u], q)
  BY DEF Rest
<1>2. ASSUME NEW q \in P PROVE OwnedAt(q)'
  <2>1. OwnedAt(q)
    BY DEF Owned
  <2> QED
    BY <1>1, <2>1 DEF OwnedAt
<1>3. \A u \in T : st'[u].hp = None \/ st'[u].hp # st'[u].p
  BY DEF Rest, Owned
<1> QED
  BY <1>2, <1>3 DEF Owned

(* Looked at from one side. *)
LEMMA OwnerOf ==
  ASSUME Owned, NEW t \in T, NEW p \in P
  PROVE  /\ p \in idle => p \notin insys /\ \A u \in T : ~Has(st[u], p)
         /\ p \in insys => p \notin idle /\ \A u \in T : ~Has(st[u], p)
         /\ Has(st[t], p) => p \notin idle /\ p \notin insys /\ \A u \in T : Has(st[u], p) <=> u = t
<1>1. OwnedAt(p)
  BY DEF Owned
<1> QED
  BY <1>1 DEF OwnedAt

(* startm and newm: the P goes from the idle list or the caller's hand to one thread. *)
LEMMA StartingOwned ==
  ASSUME Good, Owned, NEW t \in T, startm(t) \/ startmUndo(t) \/ newm(t)
  PROVE  Owned'
<1> USE DEF Good
<1>0. Fits(t, st[t]) /\ SchedAssumption /\ None \notin P
  BY SchedAssumption DEF Shapes, SchedAssumption
<1>1. ASSUME NEW m \in M, st[m].pc \in {"stopped", "fresh"}, NEW q \in P PROVE ~Has(st[m], q)
  <2>1. st[m].p = None /\ st[m].hp = None
    BY <1>1 DEF T, Shapes, SchedAssumption, Fits, Shape, Injector, Spinner, WithP, NoP, Handing, Starting, Injecting, Monitoring, ForSysmon
  <2> QED
    BY <1>0, <2>1 DEF Has
(* The P that t gives to m was idle or in t's hand. *)
<1>2. ASSUME NEW m \in M \ {t}, st[m].pc \in {"stopped", "fresh"}, NEW p \in P,
             p \in idle \/ st[t].hp = p, st[t].hp \in {None, p}, st[t].pc \in {"startm", "newm"},
             idle' = idle \ {p}, insys' = insys,
             \A u \in T \ {t, m} : st'[u] = st[u], Back(st'[t], st[t]), NEW l \in {"schedule", "findrunnable"},
             NEW b, Starts(st'[m], l, p, b)
      PROVE  Owned'
  <2>1. st[t].ret = "syscall" => st[t].p = None
    BY <1>0, <1>2 DEF Fits, Shape, Starting
  <2>2. \A q \in P : q # p => (Has(st'[t], q) <=> Has(st[t], q))
    BY <1>0, <1>2, <2>1 DEF Back, Has
  <2>3. ~Has(st'[t], p) /\ p \notin insys /\ \A u \in T \ {t} : ~Has(st[u], p)
    <3>1. CASE p \in idle
      <4>1. ~Has(st[t], p) /\ p \notin insys /\ \A u \in T : ~Has(st[u], p)
        BY <3>1, OwnerOf
      <4> QED
        BY <1>0, <1>2, <2>1, <4>1 DEF Back, Has
    <3>2. CASE st[t].hp = p
      <4>1. Has(st[t], p) /\ st[t].p # p
        BY <1>0, <3>2 DEF Has, Owned
      <4>2. p \notin insys /\ \A u \in T \ {t} : ~Has(st[u], p)
        BY <4>1, OwnerOf
      <4>3. ~Has(st'[t], p)
        BY <1>0, <1>2, <4>1 DEF Back, Has
      <4> QED
        BY <4>2, <4>3
    <3> QED
      BY <1>2, <3>1, <3>2
  <2>4. \A q \in P : Has(st'[m], q) <=> q = p
    BY <1>0, <1>2 DEF Starts, Has
  <2>5. \A q \in P \ {p}, u \in T : Has(st'[u], q) <=> Has(st[u], q)
    BY <1>1, <1>2, <2>2, <2>4 DEF T
  <2>6. m \in T /\ \A u \in T : Has(st'[u], p) <=> u = m
    BY <1>2, <2>3, <2>4 DEF T
  <2>7. OwnedAt(p)'
    BY <1>2, <2>3, <2>6 DEF OwnedAt
  <2>8. \A u \in T : st'[u].hp = None \/ st'[u].hp # st'[u].p
    BY <1>2, ZenonT(60) DEF Back, Starts, Owned
  <2> QED
    BY <1>2, <2>5, <2>7, <2>8, MovesOne
<1>3. CASE startm(t)
  <2>1. StartmDoes(t) /\ st[t].pc = "startm" /\ insys' = insys
    BY <1>3, startmDoes
  <2>2. ASSUME Goes(t, "undo"), st[t].hp = None, idle' = idle PROVE Owned'
    BY <1>0, <2>1, <2>2, MovesNone DEF Goes, To, Same, Has
  <2>3. ASSUME Rest(t), Back(st'[t], st[t]), st[t].hp = None, idle' = idle PROVE Owned'
    <3>1. st[t].ret # "syscall"
      BY <1>0, <2>1, <2>3 DEF SchedAssumption, Fits, Shape
    <3>2. \A q \in P : Has(st'[t], q) <=> Has(st[t], q)
      BY <1>0, <2>1, <2>3, <3>1 DEF Back, Has
    <3>3. st'[t].hp = None
      BY <2>3 DEF Back
    <3> QED
      BY <2>1, <2>3, <3>2, <3>3, MovesNone
  <2>4. ASSUME NEW p \in IF st[t].hp = None THEN idle ELSE {st[t].hp}, p \in P, idle' = idle \ {p},
               Rest(t), st'[t].pc = "newm", st'[t].hp = p, st'[t].p = st[t].p
        PROVE  Owned'
    <3>1. \A q \in P \ {p} : Has(st'[t], q) <=> Has(st[t], q)
      BY <1>0, <2>1, <2>4 DEF Has
    <3>2. p \notin insys /\ st[t].p # p /\ \A u \in T \ {t} : ~Has(st[u], p)
      <4>1. CASE p \in idle
        BY <2>1, <2>4, <4>1, OwnerOf DEF Has
      <4>2. CASE st[t].hp = p
        BY <1>0, <2>4, <4>2, OwnerOf DEF Has, Owned
      <4> QED
        BY <2>4, <4>1, <4>2
    <3>3. OwnedAt(p)'
      <4>1. \A u \in T : Has(st'[u], p) <=> u = t
        BY <2>4, <3>2 DEF Has, Rest
      <4>2. p \notin idle' /\ p \notin insys'
        BY <2>1, <2>4, <3>2
      <4> QED
        BY <4>1, <4>2 DEF OwnedAt
    <3>4. \A q \in P \ {p}, u \in T : Has(st'[u], q) <=> Has(st[u], q)
      BY <2>4, <3>1 DEF Rest
    <3>5. \A u \in T : st'[u].hp = None \/ st'[u].hp # st'[u].p
      BY <2>4, <3>2 DEF Rest, Owned
    <3> QED
      BY <2>1, <2>4, <3>3, <3>4, <3>5, MovesOne
  <2>5. ASSUME NEW p \in IF st[t].hp = None THEN idle ELSE {st[t].hp}, p \in P, idle' = idle \ {p},
               NEW m \in M \ {t}, st[m].pc = "stopped", \A u \in T \ {t, m} : st'[u] = st[u],
               Back(st'[t], st[t]), Starts(st'[m], st[m].ret, p, st[t].sp)
        PROVE  Owned'
    <3>1. st[m].ret \in {"schedule", "findrunnable"}
      BY <2>5 DEF T, Shapes, Fits, Shape
    <3>2. (p \in idle \/ st[t].hp = p) /\ st[t].hp \in {None, p}
      BY <2>5
    <3> QED
      BY <1>2, <2>1, <2>5, <3>1, <3>2
  <2> QED
    BY <2>1, <2>2, <2>3, <2>4, <2>5 DEF StartmDoes
<1>4. CASE startmUndo(t)
  <2>1. st[t].pc = "undo" /\ Rest(t) /\ Back(st'[t], st[t]) /\ UNCHANGED <<idle, insys>>
    BY <1>4, startmUndoDoes DEF startmUndo, At
  <2>2. st[t].hp = None /\ st[t].ret = "run"
    BY <1>0, <2>1 DEF SchedAssumption, Fits, Shape, Injector, Spinner, WithP, NoP, Handing, Starting, Injecting, Monitoring, ForSysmon
  <2>3. \A q \in P : Has(st'[t], q) <=> Has(st[t], q)
    BY <1>0, <2>1, <2>2 DEF Back, Has
  <2> QED
    BY <2>1, <2>3, MovesNone DEF Back
<1>5. CASE newm(t)
  <2>1. PICK m \in M \ {t} : NewmDoes(t, m)
    BY <1>5, newmDoes
  <2>2. st[t].hp \in P /\ st[t].pc = "newm"
    BY <1>0, <2>1 DEF NewmDoes, Fits, Shape
  <2>3. st[t].hp \notin idle
    BY <2>2, OwnerOf DEF Has
  <2>4. idle' = idle \ {st[t].hp} /\ insys' = insys
    BY <1>5, <2>3 DEF newm
  <2> QED
    BY <1>2, <2>1, <2>2, <2>4 DEF NewmDoes
<1> QED
  BY <1>3, <1>4, <1>5

(* handoffp and injectglist leave every P with one owner. *)
LEMMA HandingOwned ==
  ASSUME Good, Owned, NEW t \in T, handoffCas(t) \/ handoffLocked(t)
  PROVE  Owned'
<1> USE DEF Good
<1>0. Fits(t, st[t]) /\ SchedAssumption /\ None \notin P
  BY SchedAssumption DEF Shapes, SchedAssumption
<1>1. CASE handoffCas(t)
  <2>1. /\ st[t].pc = "handoffCas" /\ UNCHANGED <<idle, insys>>
        /\ Calls(t, st[t].hp, TRUE, st[t].ret) \/ Goes(t, "handoffLocked")
    BY <1>1, handoffCasDoes DEF handoffCas, At
  <2>2. Rest(t) /\ st'[t].p = st[t].p /\ st'[t].hp = st[t].hp /\ st'[t].pc # "syscall"
    BY <2>1 DEF Goes, Calls, To, Same
  <2>3. (\A q \in P : Has(st'[t], q) <=> Has(st[t], q)) /\ (st'[t].hp = None \/ st'[t].hp # st'[t].p)
    BY <2>1, <2>2 DEF Has, Owned
  <2> QED
    BY <2>1, <2>2, <2>3, MovesNone
<1>2. CASE handoffLocked(t)
  <2>1. st[t].pc = "handoffLocked" /\ st[t].hp \in P /\ st[t].p = None /\ insys' = insys
    BY <1>0, <1>2 DEF handoffLocked, At, Fits, Shape, Handing
  <2>2. CASE Goes(t, "startm") /\ idle' = idle
    <3>1. (\A q \in P : Has(st'[t], q) <=> Has(st[t], q)) /\ (st'[t].hp = None \/ st'[t].hp # st'[t].p)
      BY <2>1, <2>2 DEF Goes, To, Same, Has, Owned
    <3> QED
      BY <2>1, <2>2, <3>1, MovesNone DEF Goes
  <2>3. CASE Rest(t) /\ Back(st'[t], st[t]) /\ idle' = idle \cup {st[t].hp}
    <3>0. PICK p \in P : p = st[t].hp
      BY <2>1
    <3>1. \A q \in P : ~Has(st'[t], q)
      BY <1>0, <2>1, <2>3 DEF Back, Has
    <3>2. Has(st[t], p) /\ p \in P /\ \A q \in P \ {p} : ~Has(st[t], q)
      BY <1>0, <2>1, <3>0 DEF Has
    <3>3. p \notin insys /\ \A u \in T \ {t} : ~Has(st[u], p)
      BY <3>2, OwnerOf
    <3>4. OwnedAt(p)'
      <4>1. p \in idle' /\ p \notin insys' /\ \A u \in T : ~Has(st'[u], p)
        BY <2>1, <2>3, <3>0, <3>1, <3>3 DEF Rest
      <4> QED
        BY <4>1 DEF OwnedAt
    <3>5. \A q \in P \ {p}, u \in T : Has(st'[u], q) <=> Has(st[u], q)
      BY <2>3, <3>1, <3>2 DEF Rest
    <3>6. \A u \in T : st'[u].hp = None \/ st'[u].hp # st'[u].p
      BY <2>3 DEF Back, Rest, Owned
    <3>7. \A q \in P \ {p} : (q \in idle' <=> q \in idle) /\ (q \in insys' <=> q \in insys)
      BY <2>1, <2>3, <3>0
    <3> QED
      BY <3>2, <3>4, <3>5, <3>6, <3>7, MovesOne
  <2> QED
    BY <1>2, <2>2, <2>3, handoffLockedDoes
<1> QED
  BY <1>1, <1>2

(* A thread without a P takes an idle one. *)
LEMMA TakesIdle ==
  ASSUME Good, Owned, NEW m \in T, NEW p \in idle, idle' = idle \ {p}, insys' = insys,
         \A u \in T \ {m} : \A q \in P : Has(st'[u], q) <=> Has(st[u], q),
         \A u \in T \ {m} : st'[u].hp = st[u].hp /\ st'[u].p = st[u].p,
         \A q \in P : ~Has(st[m], q), st'[m].p = p, st'[m].hp = None, st'[m].pc # "syscall"
  PROVE  Owned'
<1>1. p \in P /\ None \notin P
  BY SchedAssumption DEF Good, TypeOK, SchedAssumption
<1>2. p \notin insys /\ \A u \in T : ~Has(st[u], p)
  BY <1>1, OwnerOf
<1>3. \A q \in P : Has(st'[m], q) <=> q = p
  BY <1>1 DEF Has
<1>4. OwnedAt(p)'
  <2>1. \A u \in T : Has(st'[u], p) <=> u = m
    BY <1>1, <1>2, <1>3
  <2>2. p \notin idle' /\ p \notin insys'
    BY <1>2
  <2> QED
    BY <2>1, <2>2 DEF OwnedAt
<1>5. \A q \in P \ {p}, u \in T : Has(st'[u], q) <=> Has(st[u], q)
  BY <1>3
<1>6. \A u \in T : st'[u].hp = None \/ st'[u].hp # st'[u].p
  BY DEF Owned
<1> QED
  BY <1>1, <1>4, <1>5, <1>6, MovesOne

(* A thread that only looks keeps its P. *)
LEMMA LooksOwned ==
  ASSUME Owned, NEW m \in T, NEW l, NEW b, NEW d, Looks(m, l, b, d), l # "syscall", st[m].pc # "syscall",
         UNCHANGED <<idle, insys>>
  PROVE  Owned'
<1>1. Rest(m) /\ \A q \in P : Has(st'[m], q) <=> Has(st[m], q)
  BY DEF Looks, Has
<1>2. st'[m].hp = None \/ st'[m].hp # st'[m].p
  BY DEF Looks, Owned
<1> QED
  BY <1>1, <1>2, MovesNone

(* System calls: the P stays, comes back, is taken from the idle list or handed off. *)
LEMMA RunOwned ==
  ASSUME Good, Owned, NEW m \in M, wakep(m) \/ entersyscall(m) \/ entersyscallblock(m) \/ exitsyscall(m)
  PROVE  Owned'
<1> USE DEF Good
<1>0. Fits(m, st[m]) /\ Fits(Sysmon, st[Sysmon]) /\ m \in T /\ Sysmon \in T /\ m # Sysmon /\ None \notin P
  BY SchedAssumption DEF Shapes, T, SchedAssumption
<1>1. CASE wakep(m)
  <2>1. /\ st[m].pc = "wakep" /\ UNCHANGED <<idle, insys>> /\ st[m].hp = None
        /\ Calls(m, None, TRUE, "run") \/ Goes(m, "run")
    BY <1>0, <1>1, wakepDoes DEF wakep, At, Fits, Shape, Handing
  <2>2. Rest(m) /\ st'[m].p = st[m].p /\ st'[m].hp = None /\ st'[m].pc # "syscall"
    BY <2>1 DEF Goes, Calls, To, Same
  <2>3. \A q \in P : Has(st'[m], q) <=> Has(st[m], q)
    BY <1>0, <2>1, <2>2 DEF Has
  <2> QED
    BY <1>0, <2>1, <2>2, <2>3, MovesNone
<1>2. CASE entersyscall(m)
  <2>1. EnterDoes(m) /\ st[m].pc = "run" /\ insys' = insys \cup {st[m].p} /\ idle' = idle
    BY <1>2, entersyscallDoes DEF entersyscall, At
  <2>2. PICK p \in P : p = st[m].p
    BY <1>0, <2>1 DEF Fits, Shape, WithP
  <2>3. st[m].hp = None
    BY <1>0, <2>1 DEF Fits, Shape, Handing
  <2>4. (\A q \in P : Has(st[m], q) <=> q = p) /\ \A q \in P : ~Has(st'[m], q)
    BY <1>0, <2>1, <2>2, <2>3 DEF Has, EnterDoes, To, Same
  <2>5. p \notin idle /\ p \notin insys /\ \A u \in T : Has(st[u], p) <=> u = m
    BY <1>0, <2>4, OwnerOf
  <2>6. \A q \in P : Has(st'[Sysmon], q) <=> Has(st[Sysmon], q)
    <3>1. st[Sysmon].pc # "syscall"
      BY <1>0 DEF Fits, ForSysmon, Monitoring, Handing, Injecting
    <3>2. st'[Sysmon].pc # "syscall" /\ Same(st'[Sysmon], st[Sysmon])
      BY <2>1, <3>1 DEF EnterDoes, To
    <3> QED
      BY <3>1, <3>2 DEF Has, Same
  <2>7. \A u \in T \ {m}, q \in P : Has(st'[u], q) <=> Has(st[u], q)
    BY <2>1, <2>6 DEF EnterDoes
  <2>8. OwnedAt(p)'
    <3>1. p \notin idle' /\ p \in insys' /\ \A u \in T : ~Has(st'[u], p)
      BY <2>1, <2>2, <2>4, <2>5, <2>7
    <3> QED
      BY <3>1 DEF OwnedAt
  <2>9. \A u \in T : st'[u].hp = None \/ st'[u].hp # st'[u].p
    BY <2>1 DEF EnterDoes, To, Same, Owned
  <2>10. \A q \in P \ {p}, u \in T : Has(st'[u], q) <=> Has(st[u], q)
    BY <2>4, <2>7
  <2>11. \A q \in P \ {p} : (q \in idle' <=> q \in idle) /\ (q \in insys' <=> q \in insys)
    BY <2>1, <2>2
  <2> QED
    BY <2>8, <2>9, <2>10, <2>11, MovesOne
<1>3. CASE entersyscallblock(m)
  <2>1. BlockDoes(m) /\ st[m].pc = "run" /\ UNCHANGED <<idle, insys>>
    BY <1>3, entersyscallblockDoes DEF entersyscallblock, At
  <2>2. st[m].hp = None /\ st[m].p # None
    BY <1>0, <2>1 DEF Fits, Shape, Handing, WithP
  <2>3. \A q \in P : Has(st'[m], q) <=> Has(st[m], q)
    BY <1>0, <2>1, <2>2 DEF BlockDoes, Has
  <2> QED
    BY <1>0, <2>1, <2>2, <2>3, MovesNone DEF BlockDoes
<1>4. CASE exitsyscall(m)
  <2>1. st[m].pc = "syscall" /\ idle' = idle
    BY <1>4 DEF exitsyscall, At
  <2>2. st[m].hp = None /\ \A q \in P : ~Has(st[m], q)
    BY <1>0, <2>1 DEF Fits, Shape, Handing, Has
  <2>3. CASE st[m].p \in insys /\ insys' = insys \ {st[m].p} /\ Goes(m, "run")
    <3>1. PICK p \in P : p = st[m].p
      BY <2>3 DEF TypeOK
    <3>2. \A q \in P : Has(st'[m], q) <=> q = p
      BY <1>0, <2>2, <2>3, <3>1 DEF Goes, To, Same, Has
    <3>3. p \in insys /\ p \notin idle /\ \A u \in T : ~Has(st[u], p)
      BY <1>0, <2>3, <3>1, OwnerOf
    <3>4. OwnedAt(p)'
      <4>1. p \notin idle' /\ p \notin insys' /\ \A u \in T : Has(st'[u], p) <=> u = m
        BY <2>1, <2>3, <3>1, <3>2, <3>3 DEF Goes, Rest
      <4> QED
        BY <1>0, <4>1 DEF OwnedAt
    <3>5. \A q \in P \ {p}, u \in T : Has(st'[u], q) <=> Has(st[u], q)
      BY <2>2, <2>3, <3>2 DEF Goes, Rest
    <3>6. \A u \in T : st'[u].hp = None \/ st'[u].hp # st'[u].p
      BY <2>2, <2>3 DEF Goes, To, Same, Rest, Owned
    <3>7. \A q \in P \ {p} : (q \in idle' <=> q \in idle) /\ (q \in insys' <=> q \in insys)
      BY <2>1, <2>3, <3>1
    <3> QED
      BY <3>4, <3>5, <3>6, <3>7, MovesOne
  <2>4. CASE insys' = insys /\ Rest(m) /\ IsLocal(st'[m], "exit0", None)
    <3>1. \A q \in P : Has(st'[m], q) <=> Has(st[m], q)
      BY <1>0, <2>2, <2>4 DEF IsLocal, Has
    <3> QED
      BY <1>0, <2>1, <2>4, <3>1, MovesNone DEF IsLocal
  <2> QED
    BY <1>4, <2>3, <2>4, exitsyscallDoes
<1> QED
  BY <1>1, <1>2, <1>3, <1>4

(* A thread without a P takes one, or stops. *)
LEMMA TakingOwned ==
  ASSUME Good, Owned, NEW m \in M, exitsyscall0(m) \/ rechecked(m) \/ pollPidle(m), Good'
  PROVE  Owned'
<1> USE DEF Good
<1>0. Fits(m, st[m]) /\ Fits(Sysmon, st[Sysmon]) /\ m \in T /\ Sysmon \in T /\ m # Sysmon /\ SchedAssumption
  BY SchedAssumption DEF Shapes, T, SchedAssumption
<1>a. None \notin P
  BY SMTT(30), <1>0 DEF SchedAssumption
<1>1. /\ st[m].pc \in {"exit0", "rechecked", "pollPidle"} /\ insys' = insys
  BY Zenon DEF exitsyscall0, rechecked, pollPidle, At
<1>2. st[m].p = None /\ st[m].hp = None /\ \A q \in P : ~Has(st[m], q)
  <2>1. st[m].p = None /\ st[m].hp = None
    BY <1>0, <1>1 DEF SchedAssumption, Fits, Shape, Injector, Spinner, WithP, NoP, Handing, Starting, Injecting, Monitoring, ForSysmon
  <2> QED
    BY <1>a, <2>1 DEF Has
<1>3. ASSUME NEW p \in idle, idle' = idle \ {p}, Rest(m), st'[m].p = p, st'[m].hp = None, st'[m].pc # "syscall"
      PROVE  Owned'
  <2>1. \A u \in T \ {m} : st'[u] = st[u]
    BY <1>3 DEF Rest
  <2> QED
    BY <1>0, <1>1, <1>2, <1>3, <2>1, TakesIdle
<1>4. CASE exitsyscall0(m)
  <2>1. Exit0Does(m)
    BY <1>4, exitsyscall0Does
  <2>2. CASE st'[m].pc = "stopm"
    <3>1. Rest(m) /\ idle' = idle /\ st'[m].p = st[m].p /\ st'[m].hp = st[m].hp
      BY <2>1, <2>2 DEF Exit0Does, IsLocal
    <3>2. \A q \in P : Has(st'[m], q) <=> Has(st[m], q)
      BY <1>2, <1>a, <3>1 DEF Has
    <3> QED
      BY <1>0, <1>1, <1>2, <3>1, <3>2, MovesNone
  <2>3. CASE st'[m].pc # "stopm"
    <3>1. PICK p \in idle :
            /\ idle' = idle \ {p}
            /\ st' \in [T -> Thread] /\ \A u \in T \ {m, Sysmon} : st'[u] = st[u]
            /\ IsLocal(st'[m], "run", p)
            /\ To(st'[Sysmon], st[Sysmon], IF sysmonwait THEN "sysmon" ELSE st[Sysmon].pc)
      BY <2>1, <2>3 DEF Exit0Does
    <3>2. \A q \in P : Has(st'[Sysmon], q) <=> Has(st[Sysmon], q)
      <4>1. st[Sysmon].pc # "syscall"
        BY <1>0 DEF Fits, ForSysmon, Monitoring, Handing, Injecting
      <4>2. st'[Sysmon].pc # "syscall" /\ Same(st'[Sysmon], st[Sysmon])
        BY <3>1, <4>1 DEF To
      <4> QED
        BY <4>1, <4>2 DEF Has, Same
    <3>3. \A u \in T \ {m} : \A q \in P : Has(st'[u], q) <=> Has(st[u], q)
      BY <3>1, <3>2
    <3>4. \A u \in T \ {m} : st'[u].hp = st[u].hp /\ st'[u].p = st[u].p
      BY <3>1 DEF To, Same
    <3>5. st'[m].p = p /\ st'[m].hp = None /\ st'[m].pc # "syscall"
      BY <3>1 DEF IsLocal
    <3> QED
      BY <1>0, <1>1, <1>2, <3>1, <3>3, <3>4, <3>5, TakesIdle
  <2> QED
    BY <2>2, <2>3
<1>5. ASSUME Steady(m) PROVE Owned'
  <2>1. \A q \in P : Has(st'[m], q) <=> Has(st[m], q)
    BY <1>5 DEF Steady, Alike, Has
  <2>2. Rest(m) /\ UNCHANGED <<idle, insys>> /\ (st'[m].hp = None \/ st'[m].hp # st'[m].p)
    BY <1>2, <1>5 DEF Steady, Alike
  <2> QED
    BY <1>0, <2>1, <2>2, MovesNone
<1>6. CASE idle = {} /\ (rechecked(m) \/ pollPidle(m))
  BY <1>5, <1>6, SteadyStop
<1>7. CASE idle # {} /\ rechecked(m)
  <2>1. PICK p \in idle : idle' = idle \ {p} /\ Rest(m) /\ IsLocal(st'[m], st[m].ret, p)
    BY <1>7, recheckedDoes
  <2>2. st[m].ret # "syscall"
    BY <1>0, <1>7 DEF rechecked, At, Fits, Shape
  <2> QED
    BY <1>3, <2>1, <2>2 DEF IsLocal
<1>8. CASE idle # {} /\ pollPidle(m)
  <2>1. PICK p \in idle : /\ idle' = idle \ {p} /\ Rest(m)
                          /\ \/ IsLocal(st'[m], "run", p)
                             \/ Bears(st'[m], "inject", p, st[m].n - 1, "run")
    BY <1>8, pollPidleDoes DEF PidleDoes
  <2>2. st'[m].p = p /\ st'[m].hp = None /\ st'[m].pc # "syscall"
    BY <2>1 DEF IsLocal, Bears
  <2> QED
    BY <1>3, <2>1, <2>2
<1> QED
  BY <1>4, <1>6, <1>7, <1>8

(* A thread with a P keeps it or puts it on the idle list. *)
LEMMA LookingOwned ==
  ASSUME Good, Owned, NEW m \in M,
         spin(m) \/ stop(m) \/ unspin(m) \/ respin(m) \/ resetspinning(m)
  PROVE  Owned'
<1> USE DEF Good
<1>0. Fits(m, st[m]) /\ m \in T /\ None \notin P
  BY SchedAssumption DEF Shapes, T, SchedAssumption
<1>1. ASSUME Rest(m), Alike(st'[m], st[m]), UNCHANGED <<idle, insys>> PROVE Owned'
  <2>1. \A q \in P : Has(st'[m], q) <=> Has(st[m], q)
    BY <1>1 DEF Alike, Has
  <2>2. st'[m].hp = None \/ st'[m].hp # st'[m].p
    BY <1>0, <1>1 DEF Alike, Owned
  <2> QED
    BY <1>0, <1>1, <2>1, <2>2, MovesNone
<1>2. CASE spin(m)
  <2>1. st[m].pc = "spin" /\ UNCHANGED <<idle, insys>>
    BY <1>2 DEF spin, At
  <2>2. CASE Goes(m, "stop")
    BY <1>1, <2>1, <2>2 DEF Goes, To, Same, Alike
  <2>3. ASSUME Looks(m, "steal", TRUE, st[m].todo) PROVE Owned'
    BY <1>0, <2>1, <2>3, LooksOwned
  <2> QED
    BY <1>2, <2>2, <2>3, spinDoes
<1>3. CASE unspin(m)
  <2>1. st[m].pc = "unspin" /\ UNCHANGED <<idle, insys>> /\ Looks(m, "recheck", FALSE, st[m].todo)
    BY <1>3, unspinDoes DEF unspin, At
  <2> QED
    BY <1>0, <2>1, LooksOwned
<1>4. CASE respin(m)
  <2>1. st[m].pc = "respin" /\ UNCHANGED <<idle, insys>> /\ Looks(m, "findrunnable", TRUE, st[m].todo)
    BY <1>4, respinDoes DEF respin, At
  <2> QED
    BY <1>0, <2>1, LooksOwned
<1>5. CASE resetspinning(m)
  <2>1. /\ st[m].pc = "resetspinning" /\ UNCHANGED <<idle, insys>>
        /\ Looks(m, IF nmspinning = 1 THEN "readied" ELSE "run", FALSE, st[m].todo)
    BY <1>5, resetspinningDoes DEF resetspinning, At
  <2> DEFINE l == IF nmspinning = 1 THEN "readied" ELSE "run"
  <2>2. Looks(m, l, FALSE, st[m].todo) /\ l # "syscall"
    BY <2>1
  <2> HIDE DEF l
  <2> QED
    BY <1>0, <2>1, <2>2, LooksOwned
<1>6. CASE stop(m)
  <2>1. st[m].pc = "stop" /\ insys' = insys
    BY <1>6 DEF stop, At
  <2>2. CASE TakeShare(m) /\ idle' = idle
    <3>1. Steady(m)
      BY <1>6, <2>2, SteadyRun
    <3> QED
      BY <1>1, <3>1 DEF Steady
  <2>3. CASE idle' = idle \cup {st[m].p} /\ StopsDoes(m)
    <3>1. PICK p \in P : p = st[m].p
      BY <1>0, <2>1 DEF Fits, Shape, WithP
    <3>2. st[m].hp = None
      BY <1>0, <2>1 DEF Fits, Shape, Handing
    <3>3. Rest(m) /\ st'[m].p = None /\ st'[m].hp = None
      BY <2>3 DEF StopsDoes
    <3>4. (\A q \in P : Has(st[m], q) <=> q = p) /\ \A q \in P : ~Has(st'[m], q)
      BY <1>0, <2>1, <3>1, <3>2, <3>3 DEF Has
    <3>5. p \notin insys /\ \A u \in T \ {m} : ~Has(st[u], p)
      BY <1>0, <3>4, OwnerOf
    <3>6. OwnedAt(p)'
      <4>1. p \in idle' /\ p \notin insys' /\ \A u \in T : ~Has(st'[u], p)
        BY <2>1, <2>3, <3>1, <3>3, <3>4, <3>5 DEF Rest
      <4> QED
        BY <4>1 DEF OwnedAt
    <3>7. \A q \in P \ {p}, u \in T : Has(st'[u], q) <=> Has(st[u], q)
      BY <3>3, <3>4 DEF Rest
    <3>8. \A u \in T : st'[u].hp = None \/ st'[u].hp # st'[u].p
      BY <3>3 DEF Rest, Owned
    <3>9. \A q \in P \ {p} : (q \in idle' <=> q \in idle) /\ (q \in insys' <=> q \in insys)
      BY <2>1, <2>3, <3>1
    <3> QED
      BY <3>6, <3>7, <3>8, <3>9, MovesOne
  <2> QED
    BY <1>6, <2>2, <2>3, stopDoes
<1> QED
  BY <1>2, <1>3, <1>4, <1>5, <1>6

(* sysmon takes a P only out of a system call. *)
LEMMA RetakeOwned ==
  ASSUME Good, Owned, retakeCas
  PROVE  Owned'
<1> USE DEF Good
<1>0. Fits(Sysmon, st[Sysmon]) /\ Sysmon \in T /\ SchedAssumption
  BY SchedAssumption DEF Shapes, T
<1>a. None \notin P
  BY <1>0 DEF SchedAssumption
<1>1. st[Sysmon].pc = "retakeCas" /\ idle' = idle
  BY DEF retakeCas, At
<1>2. st[Sysmon].hp = None /\ \A q \in P : ~Has(st[Sysmon], q)
  <2>1. st[Sysmon].p = None /\ st[Sysmon].hp = None
    BY <1>0, <1>1 DEF SchedAssumption, Fits, Shape, Injector, Spinner, WithP, NoP, Handing, Starting, Injecting, Monitoring, ForSysmon
  <2> QED
    BY <1>a, <2>1 DEF Has
<1>3. PICK p \in P : \/ p \in insys /\ insys' = insys \ {p} /\ RetakenDoes(p)
                     \/ insys' = insys /\ Rest(Sysmon) /\ IsLocal(st'[Sysmon], "uncount", None)
  BY retakeCasDoes
<1>4. CASE insys' = insys /\ Rest(Sysmon) /\ IsLocal(st'[Sysmon], "uncount", None)
  <2>1. \A q \in P : Has(st'[Sysmon], q) <=> Has(st[Sysmon], q)
    BY <1>2, <1>4, <1>a DEF Has, IsLocal
  <2> QED
    BY <1>0, <1>1, <1>4, <2>1, MovesNone DEF IsLocal
<1>5. CASE p \in insys /\ insys' = insys \ {p} /\ RetakenDoes(p)
  <2>1. Rest(Sysmon) /\ st'[Sysmon].hp = p /\ st'[Sysmon].p = None
    BY <1>5 DEF RetakenDoes
  <2>2. \A q \in P : Has(st'[Sysmon], q) <=> q = p
    BY <1>a, <2>1 DEF Has
  <2>3. p \notin idle /\ \A u \in T : ~Has(st[u], p)
    BY <1>5, <1>0, OwnerOf
  <2>4. OwnedAt(p)'
    <3>1. p \notin idle' /\ p \notin insys' /\ \A u \in T : Has(st'[u], p) <=> u = Sysmon
      BY <1>1, <1>5, <2>1, <2>2, <2>3 DEF Rest
    <3> QED
      BY <1>0, <3>1 DEF OwnedAt
  <2>5. \A q \in P \ {p}, u \in T : Has(st'[u], q) <=> Has(st[u], q)
    BY <1>2, <2>1, <2>2 DEF Rest
  <2>6. \A u \in T : st'[u].hp = None \/ st'[u].hp # st'[u].p
    BY <1>a, <2>1 DEF Rest, Owned
  <2>7. \A q \in P \ {p} : (q \in idle' <=> q \in idle) /\ (q \in insys' <=> q \in insys)
    BY <1>1, <1>5
  <2> QED
    BY <2>4, <2>5, <2>6, <2>7, MovesOne
<1> QED
  BY <1>3, <1>4, <1>5

----------------------------------------------------------------------------
(* Counting the threads that spin. *)
LEMMA SpinningFinite ==
  IsFiniteSet(Spinning) /\ IsFiniteSet(T) /\ (SpinningIsCounted <=> nmspinning = Cardinality(Spinning))
<1>1. IsFiniteSet(T)
  BY SchedAssumption, FS_AddElement DEF SchedAssumption, T
<1>2. Spinning = {t \in T : st[t].spin \/ st[t].sp}
  BY DEF Spinning, Counted
<1> QED
  BY <1>1, <1>2, FS_Subset DEF SpinningIsCounted, Spinning

(* Nobody starts or stops spinning, *)
LEMMA CountsSame ==
  ASSUME SpinningIsCounted, \A u \in T : Counted(st'[u]) <=> Counted(st[u]), nmspinning' = nmspinning
  PROVE  SpinningIsCounted'
<1>1. {u \in T : st'[u].spin \/ st'[u].sp} = {u \in T : st[u].spin \/ st[u].sp}
  BY DEF Counted
<1> QED
  BY <1>1 DEF SpinningIsCounted

(* one thread starts to, *)
LEMMA CountsMore ==
  ASSUME SpinningIsCounted, NEW t \in T, \A u \in T \ {t} : Counted(st'[u]) <=> Counted(st[u]),
         ~Counted(st[t]), Counted(st'[t]), nmspinning' = nmspinning + 1
  PROVE  SpinningIsCounted'
<1>1. Spinning' = Spinning \cup {t} /\ t \notin Spinning
  BY DEF Spinning
<1>2. IsFiniteSet(Spinning) /\ nmspinning = Cardinality(Spinning)
  BY SpinningFinite
<1>3. Cardinality(Spinning') = Cardinality(Spinning) + 1
  BY <1>1, <1>2, FS_AddElement
<1>4. Spinning' = {u \in T : st'[u].spin \/ st'[u].sp}
  BY DEF Spinning, Counted
<1> QED
  BY <1>2, <1>3, <1>4 DEF SpinningIsCounted

(* one stops, *)
LEMMA CountsLess ==
  ASSUME SpinningIsCounted, NEW t \in T, \A u \in T \ {t} : Counted(st'[u]) <=> Counted(st[u]),
         Counted(st[t]), ~Counted(st'[t]), nmspinning' = nmspinning - 1
  PROVE  SpinningIsCounted'
<1>1. Spinning' = Spinning \ {t} /\ t \in Spinning
  BY DEF Spinning
<1>2. IsFiniteSet(Spinning) /\ nmspinning = Cardinality(Spinning)
  BY SpinningFinite
<1>3. Cardinality(Spinning') = Cardinality(Spinning) - 1
  BY <1>1, <1>2, FS_RemoveElement
<1>4. Spinning' = {u \in T : st'[u].spin \/ st'[u].sp}
  BY DEF Spinning, Counted
<1> QED
  BY <1>2, <1>3, <1>4 DEF SpinningIsCounted

(* or startm passes the count on to the thread it starts. *)
LEMMA CountsMoved ==
  ASSUME SpinningIsCounted, NEW t \in T, NEW m \in T \ {t},
         \A u \in T \ {t, m} : Counted(st'[u]) <=> Counted(st[u]),
         Counted(st[t]), ~Counted(st'[t]), ~Counted(st[m]), Counted(st'[m]), nmspinning' = nmspinning
  PROVE  SpinningIsCounted'
<1>1. Spinning' = (Spinning \ {t}) \cup {m} /\ t \in Spinning /\ m \notin Spinning
  BY DEF Spinning
<1>2. IsFiniteSet(Spinning) /\ nmspinning = Cardinality(Spinning)
  BY SpinningFinite
<1>3. IsFiniteSet(Spinning \ {t}) /\ Cardinality(Spinning \ {t}) = Cardinality(Spinning) - 1
  BY <1>1, <1>2, FS_RemoveElement
<1>4. Cardinality(Spinning') = Cardinality(Spinning \ {t}) + 1
  BY <1>1, <1>3, FS_AddElement
<1>5. Spinning' = {u \in T : st'[u].spin \/ st'[u].sp}
  BY DEF Spinning, Counted
<1>6. Cardinality(Spinning) \in Nat
  BY <1>2, FS_CardinalityType
<1> QED
  BY <1>2, <1>3, <1>4, <1>5, <1>6 DEF SpinningIsCounted

(* startm passes its count on, or takes it back when there is no P. *)
LEMMA StartingCounted ==
  ASSUME Good, SpinningIsCounted, NEW t \in T, startm(t) \/ startmUndo(t) \/ newm(t)
  PROVE  SpinningIsCounted'
<1> USE DEF Good
<1>0. Fits(t, st[t])
  BY DEF Shapes
<1>1. st[t].sp => ~st[t].spin
  BY <1>0 DEF Fits, Shape
<1>2. ASSUME NEW m \in M, st[m].pc \in {"stopped", "fresh"} PROVE m \in T /\ ~Counted(st[m])
  <2>1. m \in T /\ Fits(m, st[m])
    BY DEF T, Shapes
  <2> QED
    BY <1>2, <2>1 DEF Counted, SchedAssumption, Fits, Shape, Injector, Spinner, WithP, NoP, Handing, Starting, Injecting, Monitoring, ForSysmon
<1>3. ASSUME NEW m \in M \ {t}, st[m].pc \in {"stopped", "fresh"},
             \A u \in T \ {t, m} : st'[u] = st[u], Back(st'[t], st[t]), NEW l, NEW p,
             Starts(st'[m], l, p, st[t].sp), nmspinning' = nmspinning
      PROVE  SpinningIsCounted'
  <2>1. CASE st[t].sp
    <3>1. Counted(st[t]) /\ ~Counted(st'[t]) /\ ~Counted(st[m]) /\ Counted(st'[m]) /\ m \in T
      BY <1>1, <1>2, <1>3, <2>1 DEF Counted, Back, Starts
    <3> QED
      BY <1>3, <3>1, CountsMoved
  <2>2. CASE ~st[t].sp
    <3>1. (Counted(st'[t]) <=> Counted(st[t])) /\ ~Counted(st[m]) /\ ~Counted(st'[m])
      BY <1>2, <1>3, <2>2 DEF Counted, Back, Starts
    <3> QED
      BY <1>3, <3>1, CountsSame
  <2> QED
    BY <2>1, <2>2
<1>4. CASE startm(t)
  <2>1. StartmDoes(t) /\ nmspinning' = nmspinning
    BY <1>4, startmDoes
  <2>2. ASSUME Rest(t), Counted(st'[t]) <=> Counted(st[t]) PROVE SpinningIsCounted'
    <3>1. \A u \in T : Counted(st'[u]) <=> Counted(st[u])
      BY <2>2 DEF Rest
    <3> QED
      BY <2>1, <3>1, CountsSame
  <2>3. ASSUME Goes(t, "undo") PROVE SpinningIsCounted'
    BY <2>2, <2>3 DEF Goes, To, Same, Counted
  <2>4. ASSUME Rest(t), Back(st'[t], st[t]), ~st[t].sp PROVE SpinningIsCounted'
    BY <2>2, <2>4 DEF Back, Counted
  <2>5. ASSUME Rest(t), st'[t].spin = st[t].spin, st'[t].sp = st[t].sp PROVE SpinningIsCounted'
    BY <2>2, <2>5 DEF Counted
  <2>6. ASSUME NEW p, NEW m \in M \ {t}, st[m].pc = "stopped", \A u \in T \ {t, m} : st'[u] = st[u],
               Back(st'[t], st[t]), Starts(st'[m], st[m].ret, p, st[t].sp)
        PROVE  SpinningIsCounted'
    BY <1>3, <2>1, <2>6
  <2> QED
    BY <2>1, <2>3, <2>4, <2>5, <2>6 DEF StartmDoes
<1>5. CASE startmUndo(t)
  <2>1. st[t].pc = "undo" /\ Rest(t) /\ Back(st'[t], st[t]) /\ nmspinning' = nmspinning - 1
    BY <1>5, startmUndoDoes DEF startmUndo, At
  <2>2. Counted(st[t]) /\ ~Counted(st'[t])
    BY <1>0, <1>1, <2>1 DEF Counted, Back, Fits, Shape
  <2> QED
    BY <2>1, <2>2, CountsLess DEF Rest
<1>6. CASE newm(t)
  <2>1. PICK m \in M \ {t} : NewmDoes(t, m)
    BY <1>6, newmDoes
  <2>2. nmspinning' = nmspinning
    BY <1>6 DEF newm
  <2> QED
    BY <1>3, <2>1, <2>2 DEF NewmDoes
<1> QED
  BY <1>4, <1>5, <1>6

(* wakep and handoffp count the spinning thread they are about to start. *)
LEMMA HandingCounted ==
  ASSUME Good, SpinningIsCounted, NEW t \in T, handoffCas(t) \/ handoffLocked(t) \/ wakep(t)
  PROVE  SpinningIsCounted'
<1> USE DEF Good
<1>0. Fits(t, st[t])
  BY DEF Shapes
<1>1. st[t].pc \in {"handoffCas", "handoffLocked", "wakep"} /\ ~Counted(st[t])
  <2>1. st[t].pc \in {"handoffCas", "handoffLocked", "wakep"}
    BY DEF handoffCas, handoffLocked, wakep, At
  <2> QED
    BY <1>0, <2>1 DEF Counted, SchedAssumption, Fits, Shape, Injector, Spinner, WithP, NoP, Handing, Starting, Injecting, Monitoring, ForSysmon
<1>2. ASSUME Rest(t), ~Counted(st'[t]), nmspinning' = nmspinning PROVE SpinningIsCounted'
  <2>1. \A u \in T : Counted(st'[u]) <=> Counted(st[u])
    BY <1>1, <1>2 DEF Rest
  <2> QED
    BY <1>2, <2>1, CountsSame
<1>3. ASSUME NEW l, Goes(t, l), nmspinning' = nmspinning PROVE SpinningIsCounted'
  BY <1>1, <1>2, <1>3 DEF Goes, To, Same, Counted
<1>4. ASSUME NEW p, NEW r, Calls(t, p, TRUE, r), nmspinning' = 1, nmspinning = 0 PROVE SpinningIsCounted'
  <2>1. Rest(t) /\ Counted(st'[t])
    BY <1>4 DEF Calls, Counted
  <2>2. nmspinning' = nmspinning + 1
    BY <1>4
  <2> QED
    BY <1>1, <2>1, <2>2, CountsMore DEF Rest
<1>5. CASE wakep(t)
  <2>1. ASSUME nmspinning = 0, nmspinning' = 1, Calls(t, None, TRUE, "run") PROVE SpinningIsCounted'
    BY <1>4, <2>1
  <2>2. ASSUME nmspinning' = nmspinning, Goes(t, "run") PROVE SpinningIsCounted'
    BY <1>3, <2>2
  <2> QED
    BY <1>5, <2>1, <2>2, wakepDoes
<1>6. CASE handoffCas(t)
  <2>1. ASSUME nmspinning = 0, nmspinning' = 1, Calls(t, st[t].hp, TRUE, st[t].ret) PROVE SpinningIsCounted'
    BY <1>4, <2>1
  <2>2. ASSUME nmspinning' = nmspinning, Goes(t, "handoffLocked") PROVE SpinningIsCounted'
    BY <1>3, <2>2
  <2>3. \/ nmspinning = 0 /\ nmspinning' = 1 /\ Calls(t, st[t].hp, TRUE, st[t].ret)
        \/ nmspinning' = nmspinning /\ Goes(t, "handoffLocked")
    BY <1>6, handoffCasDoes
  <2> QED
    BY <2>1, <2>2, <2>3
<1>7. CASE handoffLocked(t)
  <2>1. nmspinning' = nmspinning
    BY <1>7 DEF handoffLocked
  <2>2. ASSUME Goes(t, "startm") PROVE SpinningIsCounted'
    BY <1>3, <2>1, <2>2
  <2>3. ASSUME Rest(t), Back(st'[t], st[t]) PROVE SpinningIsCounted'
    BY <1>1, <1>2, <2>1, <2>3 DEF Back, Counted
  <2> QED
    BY <1>7, <2>2, <2>3, handoffLockedDoes
<1> QED
  BY <1>5, <1>6, <1>7

(* No running goroutine and no system call touches the count. *)
LEMMA RunCounted ==
  ASSUME Good, SpinningIsCounted, NEW m \in M,
         \/ entersyscall(m) \/ entersyscallblock(m) \/ exitsyscall(m)
         \/ exitsyscall0(m) \/ rechecked(m) \/ pollPidle(m)
  PROVE  SpinningIsCounted'
<1> USE DEF Good
<1>0. Fits(m, st[m]) /\ m \in T /\ Sysmon \in T /\ m # Sysmon
  BY SchedAssumption DEF Shapes, T, SchedAssumption
<1>1. st[m].pc \in {"run", "syscall", "exit0", "rechecked", "pollPidle"} /\ ~Counted(st[m])
  <2>1. st[m].pc \in {"run", "syscall", "exit0", "rechecked", "pollPidle"}
    BY Zenon DEF entersyscall, entersyscallblock, exitsyscall, exitsyscall0, rechecked, pollPidle, At
  <2> QED
    BY SMTT(30), <1>0, <2>1 DEF Counted, SchedAssumption, Fits, Shape, Injector, Spinner, WithP, NoP, Handing, Starting, Injecting, Monitoring, ForSysmon
<1>2. nmspinning' = nmspinning
  BY Zenon DEF entersyscall, entersyscallblock, exitsyscall, exitsyscall0, rechecked, pollPidle
<1>3. ASSUME Rest(m), ~Counted(st'[m]) PROVE SpinningIsCounted'
  <2>1. \A u \in T : Counted(st'[u]) <=> Counted(st[u])
    BY <1>1, <1>3 DEF Rest
  <2> QED
    BY <1>2, <2>1, CountsSame
<1>4. ASSUME NEW l, NEW p, IsLocal(st'[m], l, p) PROVE ~Counted(st'[m])
  BY <1>4 DEF IsLocal, Counted
<1>5. ASSUME NEW l, \A u \in T \ {m, Sysmon} : st'[u] = st[u], To(st'[Sysmon], st[Sysmon], l), ~Counted(st'[m])
      PROVE  SpinningIsCounted'
  <2>1. \A u \in T : Counted(st'[u]) <=> Counted(st[u])
    BY <1>1, <1>5 DEF To, Same, Counted
  <2> QED
    BY <1>2, <2>1, CountsSame
<1>6. CASE entersyscall(m)
  <2>1. EnterDoes(m)
    BY <1>6, entersyscallDoes
  <2>2. ~Counted(st'[m])
    BY <1>1, <2>1 DEF EnterDoes, To, Same, Counted
  <2> QED
    BY <1>5, <2>1, <2>2 DEF EnterDoes
<1>7. CASE entersyscallblock(m)
  BY <1>3, <1>7, entersyscallblockDoes DEF BlockDoes, Counted
<1>8. CASE exitsyscall(m)
  <2>1. ASSUME Goes(m, "run") PROVE Rest(m) /\ ~Counted(st'[m])
    BY <1>1, <2>1 DEF Goes, To, Same, Counted
  <2> QED
    BY <1>3, <1>4, <1>8, <2>1, exitsyscallDoes
<1>9. CASE exitsyscall0(m)
  <2>1. Exit0Does(m)
    BY <1>9, exitsyscall0Does
  <2>2. CASE st'[m].pc = "stopm"
    <3>1. Rest(m) /\ st'[m].spin = st[m].spin /\ st'[m].sp = st[m].sp
      BY <2>1, <2>2 DEF Exit0Does, IsLocal
    <3> QED
      BY <1>1, <1>3, <3>1 DEF Counted
  <2>3. CASE st'[m].pc # "stopm"
    <3>1. PICK p \in idle :
            /\ \A u \in T \ {m, Sysmon} : st'[u] = st[u]
            /\ IsLocal(st'[m], "run", p)
            /\ To(st'[Sysmon], st[Sysmon], IF sysmonwait THEN "sysmon" ELSE st[Sysmon].pc)
      BY <2>1, <2>3 DEF Exit0Does
    <3> QED
      BY <1>4, <1>5, <3>1
  <2> QED
    BY <2>2, <2>3
<1>10. CASE rechecked(m)
  <2>1. ASSUME ParksDoes(m) PROVE Rest(m) /\ ~Counted(st'[m])
    BY <2>1 DEF ParksDoes, Counted
  <2>2. ASSUME NEW p \in idle, IsLocal(st'[m], st[m].ret, p) PROVE ~Counted(st'[m])
    BY <1>4, <2>2
  <2> QED
    BY <1>3, <1>10, <2>1, <2>2, recheckedDoes
<1>11. CASE pollPidle(m)
  <2>1. PidleDoes(m)
    BY <1>11, pollPidleDoes
  <2>2. ASSUME NEW p, IsLocal(st'[m], "run", p) \/ Bears(st'[m], "inject", p, st[m].n - 1, "run")
        PROVE  ~Counted(st'[m])
    BY <2>2 DEF IsLocal, Bears, Counted
  <2>3. ASSUME Holds(st'[m], st[m]) PROVE ~Counted(st'[m])
    BY <1>1, <2>3 DEF Holds, Counted
  <2>4. Rest(m) /\ ~Counted(st'[m])
    BY <2>1, <2>2, <2>3 DEF PidleDoes
  <2> QED
    BY <1>3, <2>4
<1> QED
  BY <1>6, <1>7, <1>8, <1>9, <1>10, <1>11

(* A thread is counted from the moment it spins until it has a goroutine or gives up. *)
LEMMA LookingCounted ==
  ASSUME Good, SpinningIsCounted, NEW m \in M,
         spin(m) \/ stop(m) \/ unspin(m) \/ respin(m) \/ resetspinning(m)
  PROVE  SpinningIsCounted'
<1> USE DEF Good
<1>0. Fits(m, st[m]) /\ m \in T
  BY DEF Shapes, T
<1>1. st[m].pc \in {"spin", "stop", "unspin", "respin", "resetspinning"} /\ ~st[m].sp
  <2>1. st[m].pc \in {"spin", "stop", "unspin", "respin", "resetspinning"}
    BY DEF spin, stop, unspin, respin, resetspinning, At
  <2> QED
    BY <1>0, <2>1 DEF Fits, Shape, Starting
<1>2. ASSUME Rest(m), Counted(st'[m]) <=> Counted(st[m]), nmspinning' = nmspinning PROVE SpinningIsCounted'
  <2>1. \A u \in T : Counted(st'[u]) <=> Counted(st[u])
    BY <1>2 DEF Rest
  <2> QED
    BY <1>2, <2>1, CountsSame
<1>3. ASSUME NEW l, NEW d, Looks(m, l, TRUE, d), ~st[m].spin, nmspinning' = nmspinning + 1
      PROVE  SpinningIsCounted'
  <2>1. Rest(m) /\ ~Counted(st[m]) /\ Counted(st'[m])
    BY <1>1, <1>3 DEF Looks, Counted
  <2> QED
    BY <1>0, <1>3, <2>1, CountsMore DEF Rest
<1>4. ASSUME NEW l, NEW d, Looks(m, l, FALSE, d), st[m].spin, nmspinning' = nmspinning - 1
      PROVE  SpinningIsCounted'
  <2>1. Rest(m) /\ Counted(st[m]) /\ ~Counted(st'[m])
    BY <1>1, <1>4 DEF Looks, Counted
  <2> QED
    BY <1>0, <1>4, <2>1, CountsLess DEF Rest
<1>5. CASE spin(m)
  <2>1. ASSUME Goes(m, "stop"), nmspinning' = nmspinning PROVE SpinningIsCounted'
    BY <1>2, <2>1 DEF Goes, To, Same, Counted
  <2>2. ASSUME Looks(m, "steal", TRUE, st[m].todo), nmspinning' = (IF st[m].spin THEN nmspinning ELSE nmspinning + 1)
        PROVE  SpinningIsCounted'
    <3>1. CASE st[m].spin
      BY <1>2, <2>2, <3>1 DEF Looks, Counted
    <3>2. CASE ~st[m].spin
      BY <1>3, <2>2, <3>2
    <3> QED
      BY <3>1, <3>2
  <2> QED
    BY <1>5, <2>1, <2>2, spinDoes
<1>6. CASE unspin(m)
  <2>1. st[m].spin
    BY <1>0, <1>6 DEF unspin, At, Fits, Shape
  <2>2. Looks(m, "recheck", FALSE, st[m].todo) /\ nmspinning' = nmspinning - 1
    BY <1>6, unspinDoes
  <2> QED
    BY <1>4, <2>1, <2>2
<1>7. CASE respin(m)
  <2>1. ~st[m].spin
    <3>1. st[m].pc = "respin"
      BY <1>7 DEF respin, At
    <3> QED
      BY <1>0, <3>1 DEF SchedAssumption, Fits, Shape, Injector, Spinner, WithP, NoP, Handing, Starting, Injecting, Monitoring, ForSysmon
  <2>2. Looks(m, "findrunnable", TRUE, st[m].todo) /\ nmspinning' = nmspinning + 1
    BY <1>7, respinDoes
  <2> QED
    BY <1>3, <2>1, <2>2
<1>8. CASE resetspinning(m)
  <2>1. st[m].spin
    BY <1>0, <1>8 DEF resetspinning, At, Fits, Shape
  <2>2. Looks(m, IF nmspinning = 1 THEN "readied" ELSE "run", FALSE, st[m].todo) /\ nmspinning' = nmspinning - 1
    BY <1>8, resetspinningDoes
  <2> QED
    BY <1>4, <2>1, <2>2
<1>9. CASE stop(m)
  <2>1. nmspinning' = nmspinning
    BY <1>9 DEF stop
  <2>2. ASSUME TakeShare(m), idle' = idle PROVE SpinningIsCounted'
    <3>1. Steady(m)
      BY <1>9, <2>2, SteadyRun
    <3> QED
      BY <1>2, <2>1, <3>1 DEF Steady, Alike, Counted
  <2>3. ASSUME StopsDoes(m) PROVE SpinningIsCounted'
    BY <1>1, <1>2, <2>1, <2>3 DEF StopsDoes, Counted
  <2> QED
    BY <1>9, <2>2, <2>3, stopDoes
<1> QED
  BY <1>5, <1>6, <1>7, <1>8, <1>9

(* sysmon does not touch the count. *)
LEMMA RetakeCounted ==
  ASSUME Good, SpinningIsCounted, retakeCas
  PROVE  SpinningIsCounted'
<1> USE DEF Good
<1>0. Fits(Sysmon, st[Sysmon]) /\ Sysmon \in T
  BY DEF Shapes, T
<1>1. st[Sysmon].pc = "retakeCas" /\ nmspinning' = nmspinning
  BY DEF retakeCas, At
<1>2. ~Counted(st[Sysmon])
  BY <1>0, <1>1 DEF Counted, SchedAssumption, Fits, Shape, Injector, Spinner, WithP, NoP, Handing, Starting, Injecting, Monitoring, ForSysmon
<1>3. Rest(Sysmon) /\ ~Counted(st'[Sysmon])
  BY retakeCasDoes DEF RetakenDoes, IsLocal, Counted
<1>4. \A u \in T : Counted(st'[u]) <=> Counted(st[u])
  BY <1>2, <1>3 DEF Rest
<1> QED
  BY <1>1, <1>4, CountsSame

----------------------------------------------------------------------------
(* No P is left with work. *)
Plain(s) == /\ s.pc \notin {"netpoll", "spin", "steal", "stop", "handoffCas", "handoffLocked"} /\ ~s.sp
            /\ s.pc = "schedule" => ~s.spin

(* At most places a thread may have work in the queue of its P. *)
LEMMA Plainly ==
  ASSUME NEW t \in T, NEW s, Fits(t, s),
         s.pc \notin {"netpoll", "spin", "steal", "stop", "handoffCas", "handoffLocked"} \cup Starting,
         s.pc = "schedule" => ~s.spin
  PROVE  Plain(s)
BY DEF Plain, Fits, Shape

(* A P that must be empty is somebody's. *)
LEMMA BareIsHad ==
  ASSUME NEW t \in T, NEW s, Fits(t, s), NEW p \in P, Bare(s, p)
  PROVE  Has(s, p)
BY DEF Bare, Has, Fits, Shape, Starting

(* It is enough that no queue grew and that the Ps that must be empty now were so before. *)
LEMMA EmptyBy ==
  ASSUME Empty, loc' = loc, \A p \in idle' : p \in idle \/ loc[p] = 0,
         \A u \in T, p \in P : Bare(st'[u], p) => Bare(st[u], p) \/ loc[p] = 0
  PROVE  Empty'
BY DEF Empty

(* That is so of a step of a thread to a place where its P may have work. *)
LEMMA EmptyPlain ==
  ASSUME Empty, loc' = loc, idle' \subseteq idle, NEW t \in T, \A u \in T \ {t} : st'[u] = st[u], Plain(st'[t])
  PROVE  Empty'
<1>1. \A p \in P : ~Bare(st'[t], p)
  BY DEF Plain, Bare
<1> QED
  BY <1>1, EmptyBy

(* Work comes only to the P of a thread that goes on to run. *)
LEMMA EmptyGrows ==
  ASSUME Good, Owned, Empty, idle' = idle, NEW m \in T, Rest(m), Plain(st'[m]), st[m].p \in P,
         st[m].pc # "syscall", \A p \in P \ {st[m].p} : loc[p] = 0 => loc'[p] = 0
  PROVE  Empty'
<1> DEFINE q == st[m].p
<1>1. Has(st[m], q)
  BY DEF Has
<1>2. q \notin idle /\ \A u \in T \ {m} : ~Has(st[u], q)
  BY <1>1, OwnerOf
<1>3. \A u \in T \ {m} : ~Bare(st[u], q)
  BY <1>2, BareIsHad DEF Good, Shapes
<1>4. \A p \in P : ~Bare(st'[m], p)
  BY DEF Plain, Bare
<1>5. ASSUME NEW p \in P, p \in idle' \/ \E u \in T : Bare(st'[u], p) PROVE loc'[p] = 0
  <2>1. p # q /\ loc[p] = 0
    BY <1>2, <1>3, <1>4, <1>5 DEF Rest, Empty
  <2> QED
    BY <2>1
<1> QED
  BY <1>5 DEF Empty

(* startm gives a spinning thread, and newm a new one, a P without work. *)
LEMMA StartingEmpty ==
  ASSUME Good, Empty, Good', NEW t \in T, startm(t) \/ startmUndo(t) \/ newm(t)
  PROVE  Empty'
<1>0. Fits(t, st[t]) /\ None \notin P /\ idle \subseteq P
  BY SchedAssumption DEF Good, Shapes, SchedAssumption, TypeOK
<1>1. ASSUME Back(st'[t], st[t]), st[t].pc \in Starting PROVE Plain(st'[t])
  BY <1>0, <1>1 DEF Plain, Back, SchedAssumption, Fits, Shape, Injector, Spinner, WithP, NoP, Handing, Starting, Injecting, Monitoring, ForSysmon
<1>2. ASSUME NEW m \in M \ {t}, NEW l \in {"schedule", "findrunnable"}, NEW p \in P,
             \A u \in T \ {t, m} : st'[u] = st[u], Back(st'[t], st[t]), st[t].pc \in Starting,
             Starts(st'[m], l, p, st[t].sp), p \in idle \/ st[t].hp = p, loc' = loc, idle' \subseteq idle
      PROVE  Empty'
  <2>1. \A q \in P : ~Bare(st'[t], q)
    BY <1>1, <1>2 DEF Plain, Bare
  <2>2. ASSUME NEW q \in P, Bare(st'[m], q) PROVE loc[q] = 0
    <3>1. q = p /\ st[t].sp
      BY <1>0, <1>2, <2>2 DEF Bare, Starts
    <3>2. st[t].hp = p => Bare(st[t], p)
      BY <3>1 DEF Bare
    <3> QED
      BY <1>2, <3>1, <3>2 DEF Empty
  <2>3. \A u \in T, q \in P : Bare(st'[u], q) => Bare(st[u], q) \/ loc[q] = 0
    BY <1>2, <2>1, <2>2
  <2> QED
    BY <1>2, <2>3, EmptyBy
<1>3. CASE startm(t)
  <2>1. StartmDoes(t) /\ st[t].pc = "startm" /\ loc' = loc
    BY <1>3, startmDoes DEF Good
  <2>2. ASSUME Goes(t, "undo"), idle' = idle PROVE Empty'
    <3>1. \A u \in T, q \in P : Bare(st'[u], q) => Bare(st[u], q)
      BY <2>2 DEF Goes, To, Same, Rest, Bare
    <3> QED
      BY <2>1, <2>2, <3>1, EmptyBy
  <2>3. ASSUME Rest(t), Back(st'[t], st[t]), idle' = idle PROVE Empty'
    BY <1>1, <2>1, <2>3, EmptyPlain DEF Rest, Starting
  <2>4. ASSUME NEW p \in IF st[t].hp = None THEN idle ELSE {st[t].hp}, p \in P, idle' = idle \ {p},
               Rest(t), st'[t].pc = "newm", st'[t].hp = p, st'[t].sp = st[t].sp
        PROVE  Empty'
    <3>1. ASSUME NEW q \in P, Bare(st'[t], q) PROVE Bare(st[t], q) \/ loc[q] = 0
      <4>1. q = p /\ st[t].sp
        BY <2>4, <3>1 DEF Bare
      <4> QED
        BY <2>4, <4>1 DEF Bare, Empty
    <3>2. \A u \in T, q \in P : Bare(st'[u], q) => Bare(st[u], q) \/ loc[q] = 0
      BY <2>4, <3>1 DEF Rest
    <3> QED
      BY <2>1, <2>4, <3>2, EmptyBy
  <2>5. ASSUME NEW p \in IF st[t].hp = None THEN idle ELSE {st[t].hp}, p \in P, idle' = idle \ {p},
               NEW m \in M \ {t}, st[m].pc = "stopped", \A u \in T \ {t, m} : st'[u] = st[u],
               Back(st'[t], st[t]), Starts(st'[m], st[m].ret, p, st[t].sp)
        PROVE  Empty'
    <3>1. st[m].ret \in {"schedule", "findrunnable"}
      BY <2>5 DEF T, Good, Shapes, Fits, Shape
    <3>2. (p \in idle \/ st[t].hp = p) /\ idle' \subseteq idle /\ st[t].pc \in Starting
      BY <2>1, <2>5 DEF Starting
    <3> QED
      BY <1>2, <2>1, <2>5, <3>1, <3>2
  <2> QED
    BY <2>1, <2>2, <2>3, <2>4, <2>5 DEF StartmDoes
<1>4. CASE startmUndo(t)
  <2>1. st[t].pc \in Starting /\ Rest(t) /\ Back(st'[t], st[t]) /\ UNCHANGED <<idle, loc>>
    BY <1>4, startmUndoDoes DEF Good, startmUndo, At, Starting
  <2> QED
    BY <1>1, <2>1, EmptyPlain DEF Rest
<1>5. CASE newm(t)
  <2>1. PICK m \in M \ {t} : NewmDoes(t, m)
    BY <1>5, newmDoes DEF Good
  <2>2. st[t].hp \in P /\ st[t].pc \in Starting /\ loc' = loc /\ idle' \subseteq idle
    BY <1>0, <1>5, <2>1 DEF NewmDoes, Fits, Shape, newm, Starting
  <2> QED
    BY <1>2, <2>1, <2>2 DEF NewmDoes
<1> QED
  BY <1>3, <1>4, <1>5

(* handoffp puts on the idle list only the P it saw empty, and nobody else can fill it. *)
LEMMA HandingEmpty ==
  ASSUME Good, Empty, Good', NEW t \in T,
         handoffp(t) \/ handoffCas(t) \/ handoffLocked(t) \/ injectglist(t) \/ injected(t)
  PROVE  Empty'
<1>0. Fits(t, st[t]) /\ Fits(t, st'[t]) /\ None \notin P /\ idle \subseteq P
  BY SchedAssumption DEF Good, Shapes, SchedAssumption, TypeOK
<1>1. st[t].sp = FALSE /\ loc' = loc
  <2>1. st[t].pc \in Handing \cup Injecting
    BY DEF handoffp, handoffCas, handoffLocked, injectglist, injected, At, Handing, Injecting
  <2>2. st[t].sp \in BOOLEAN
    BY DEF Good, TypeOK, Thread
  <2> QED
    BY Zenon, <1>0, <2>1, <2>2 DEF Fits, Shape, Handing, Injecting, Starting, handoffp, handoffCas, handoffLocked, injectglist, injected
<1>2. ASSUME Goes(t, "startm") PROVE Plain(st'[t]) /\ Rest(t)
  BY <1>1, <1>2 DEF Plain, Goes, To, Same
<1>3. ASSUME Goes(t, "startm"), idle' = idle PROVE Empty'
  BY <1>1, <1>2, <1>3, EmptyPlain DEF Rest
<1>4. ASSUME NEW l \in {"handoffCas", "handoffLocked"}, Goes(t, l), idle' = idle, st[t].p = None,
             loc[st[t].hp] = 0 \/ st[t].pc = "handoffCas"
      PROVE  Empty'
  <2>1. ASSUME NEW q \in P, Bare(st'[t], q) PROVE Bare(st[t], q) \/ loc[q] = 0
    <3>1. q = st[t].hp
      BY <1>0, <1>1, <1>4, <2>1 DEF Goes, To, Same, Bare
    <3> QED
      BY <1>4, <3>1 DEF Bare
  <2>2. \A u \in T, q \in P : Bare(st'[u], q) => Bare(st[u], q) \/ loc[q] = 0
    BY <1>4, <2>1 DEF Goes, Rest
  <2> QED
    BY <1>1, <1>4, <2>2, EmptyBy
<1>5. CASE handoffp(t)
  <2>1. idle' = idle /\ st[t].p = None
    BY <1>0, <1>5 DEF handoffp, At, Fits, Shape, Handing
  <2> QED
    BY <1>3, <1>4, <1>5, <2>1, handoffpDoes DEF Good
<1>6. CASE handoffCas(t)
  <2>1. idle' = idle /\ st[t].p = None /\ st[t].pc = "handoffCas"
    BY <1>0, <1>6 DEF handoffCas, At, Fits, Shape, Handing
  <2>2. ASSUME Calls(t, st[t].hp, TRUE, st[t].ret) PROVE Empty'
    <3>1. \A q \in P : Bare(st'[t], q) => Bare(st[t], q)
      BY <1>0, <2>1, <2>2 DEF Calls, Bare
    <3>2. \A u \in T, q \in P : Bare(st'[u], q) => Bare(st[u], q)
      BY <2>2, <3>1 DEF Calls, Rest
    <3> QED
      BY <1>1, <2>1, <3>2, EmptyBy
  <2>3. ASSUME Goes(t, "handoffLocked") PROVE Empty'
    BY <1>4, <2>1, <2>3
  <2>4. Calls(t, st[t].hp, TRUE, st[t].ret) \/ Goes(t, "handoffLocked")
    BY <1>6, handoffCasDoes DEF Good
  <2> QED
    BY <2>2, <2>3, <2>4
<1>7. CASE handoffLocked(t)
  <2>1. st[t].hp \in P /\ st[t].pc = "handoffLocked"
    BY <1>0, <1>7 DEF handoffLocked, At, Fits, Shape, Handing
  <2>2. loc[st[t].hp] = 0
    BY <2>1 DEF Empty, Bare
  <2>3. ASSUME Rest(t), Back(st'[t], st[t]), idle' = idle \cup {st[t].hp} PROVE Empty'
    <3>1. st'[t].pc \in {"syscall", "uncount"} /\ st'[t].hp = None
      BY <1>0, <2>1, <2>3 DEF Back, Fits, Shape, Handing
    <3>2. \A q \in P : ~Bare(st'[t], q)
      BY <1>0, <3>1 DEF Bare
    <3>3. \A u \in T, q \in P : Bare(st'[u], q) => Bare(st[u], q)
      BY <2>3, <3>2 DEF Rest
    <3> QED
      BY <1>1, <2>2, <2>3, <3>3, EmptyBy
  <2> QED
    BY <1>3, <1>7, <2>3, handoffLockedDoes DEF Good
<1>8. CASE injectglist(t)
  <2>1. Goes(t, "injected") /\ idle' = idle
    BY <1>8, Going DEF injectglist, PC, Injecting, Good
  <2>2. Plain(st'[t])
    BY <1>1, <2>1 DEF Plain, Goes, To, Same
  <2> QED
    BY <1>1, <2>1, <2>2, EmptyPlain DEF Goes, Rest
<1>9. CASE injected(t)
  <2>1. InjectedDoes(t) /\ st[t].pc = "injected" /\ idle' = idle
    BY Zenon, <1>9, injectedDoes DEF injected, At, Good
  <2>2. AfterInject(st[t]) \in {"run", "resetspinning", "repark", "uncount"}
    BY <1>0, <2>1 DEF AfterInject, HasOne, Fits, Shape, Injector, Injecting
  <2>3. Plain(st'[t])
    BY <1>1, <2>1, <2>2 DEF InjectedDoes, Plain
  <2> QED
    BY ZenonT(60), <1>1, <2>1, <2>3, EmptyPlain DEF InjectedDoes, Rest
<1> QED
  BY <1>5, <1>6, <1>7, <1>8, <1>9

(* A goroutine fills the queue of its own P only. *)
LEMMA RunEmpty ==
  ASSUME Good, Owned, Empty, Good', NEW m \in M,
         \/ ready(m) \/ readied(m) \/ wakep(m) \/ park(m) \/ parkOnNet(m) \/ gosched(m)
         \/ entersyscall(m) \/ entersyscallblock(m) \/ exitsyscall(m) \/ exitsyscall0(m)
  PROVE  Empty'
<1>0. Fits(m, st[m]) /\ Fits(m, st'[m]) /\ m \in T /\ Sysmon \in T /\ m # Sysmon /\ st'[m].spin \in BOOLEAN
  BY SchedAssumption DEF Good, Shapes, SchedAssumption, T, TypeOK, Thread
<1>1. ASSUME Rest(m), st'[m].pc \in {"run", "readied", "wakep", "syscall", "exit0", "handoffp", "stopm"}
      PROVE  Plain(st'[m]) /\ \A u \in T \ {m} : st'[u] = st[u]
  BY <1>0, <1>1, Plainly DEF Starting, Rest
<1>2. ASSUME Rest(m), st'[m].pc = "schedule", ~st'[m].spin PROVE Plain(st'[m]) /\ \A u \in T \ {m} : st'[u] = st[u]
  BY <1>0, <1>2, Plainly DEF Starting, Rest
<1>3. CASE ready(m)
  <2>1. /\ st[m].pc = "run" /\ loc' = [loc EXCEPT ![st[m].p] = loc[st[m].p] + 1] /\ Goto(m, "readied")
        /\ idle' = idle /\ "readied" \in PC /\ st[m].p \in P
    BY <1>0, <1>3 DEF ready, At, PC, WithP, Fits, Shape
  <2>2. Rest(m) /\ Plain(st'[m])
    BY <1>0, <1>1, <2>1, Going DEF Goes, To, Good
  <2>3. \A p \in P \ {st[m].p} : loc'[p] = loc[p]
    BY <2>1 DEF Good, TypeOK
  <2> QED
    BY <1>0, <2>1, <2>2, <2>3, EmptyGrows
<1>4. CASE readied(m) \/ park(m) \/ parkOnNet(m) \/ gosched(m)
  <2>1. /\ UNCHANGED <<idle, loc>> /\ st[m].pc \in {"run", "readied"}
        /\ Goto(m, "run") \/ Goto(m, "wakep") \/ Goto(m, "schedule")
    BY <1>4 DEF readied, park, parkOnNet, gosched, At
  <2>2. ~st[m].spin
    BY <1>0, <2>1 DEF SchedAssumption, Fits, Shape, Injector, Spinner, WithP, NoP, Handing, Starting, Injecting, Monitoring, ForSysmon
  <2>3. ASSUME NEW l \in {"run", "wakep", "schedule"}, Goto(m, l)
        PROVE  Plain(st'[m]) /\ \A u \in T \ {m} : st'[u] = st[u]
    <3>1. Goes(m, l)
      BY <1>0, <2>3, Going DEF Good, PC, WithP
    <3>2. st'[m].spin = st[m].spin /\ st'[m].pc = l /\ Rest(m)
      BY <3>1 DEF Goes, To, Same
    <3> QED
      BY <1>1, <1>2, <2>2, <2>3, <3>2
  <2> QED
    BY <1>0, <2>1, <2>3, EmptyPlain
<1>5. CASE wakep(m)
  <2>1. UNCHANGED <<idle, loc>> /\ (Calls(m, None, TRUE, "run") \/ Goes(m, "run"))
    BY <1>0, <1>5, wakepDoes DEF Good, wakep
  <2>2. ASSUME Goes(m, "run") PROVE Empty'
    BY <1>0, <1>1, <2>1, <2>2, EmptyPlain DEF Goes, To
  <2>3. ASSUME Calls(m, None, TRUE, "run") PROVE Empty'
    <3>1. \A q \in P : ~Bare(st'[m], q)
      BY <2>3, SchedAssumption DEF Calls, Bare, SchedAssumption
    <3>2. \A u \in T, q \in P : Bare(st'[u], q) => Bare(st[u], q)
      BY <2>3, <3>1 DEF Calls, Rest
    <3> QED
      BY <2>1, <3>2, EmptyBy
  <2> QED
    BY <2>1, <2>2, <2>3
<1>6. ASSUME \A u \in T \ {m, Sysmon} : st'[u] = st[u], st'[m].pc \in {"run", "syscall"}, loc' = loc, idle' \subseteq idle,
             To(st'[Sysmon], st[Sysmon], IF sysmonwait THEN "sysmon" ELSE st[Sysmon].pc)
      PROVE  Empty'
  <2>1. \A q \in P : ~Bare(st'[m], q)
    BY <1>0, <1>6, Plainly DEF Plain, Bare, Starting
  <2>2. \A q \in P : Bare(st'[Sysmon], q) => Bare(st[Sysmon], q)
    BY <1>6 DEF To, Same, Bare
  <2>3. \A u \in T, q \in P : Bare(st'[u], q) => Bare(st[u], q)
    BY <1>6, <2>1, <2>2
  <2> QED
    BY <1>6, <2>3, EmptyBy
<1>7. CASE entersyscall(m)
  <2>1. EnterDoes(m) /\ UNCHANGED <<idle, loc>>
    BY <1>7, entersyscallDoes DEF Good, entersyscall
  <2> QED
    BY <1>6, <2>1 DEF EnterDoes, To
<1>8. CASE entersyscallblock(m)
  <2>1. BlockDoes(m) /\ UNCHANGED <<idle, loc>>
    BY <1>8, entersyscallblockDoes DEF Good, entersyscallblock
  <2> QED
    BY <1>0, <1>1, <2>1, EmptyPlain DEF BlockDoes
<1>9. CASE exitsyscall(m)
  <2>1. Rest(m) /\ st'[m].pc \in {"run", "exit0"} /\ UNCHANGED <<idle, loc>>
    BY <1>9, exitsyscallDoes DEF Good, exitsyscall, Goes, To, IsLocal
  <2> QED
    BY <1>0, <1>1, <2>1, EmptyPlain
<1>10. CASE exitsyscall0(m)
  <2>1. Exit0Does(m) /\ loc' = loc
    BY <1>10, exitsyscall0Does DEF Good, exitsyscall0
  <2>2. CASE st'[m].pc = "stopm"
    <3>1. Rest(m) /\ idle' = idle
      BY <2>1, <2>2 DEF Exit0Does, IsLocal
    <3> QED
      BY <1>0, <1>1, <2>1, <2>2, <3>1, EmptyPlain
  <2>3. CASE st'[m].pc # "stopm"
    <3>1. PICK p \in idle :
            /\ idle' = idle \ {p} /\ \A u \in T \ {m, Sysmon} : st'[u] = st[u]
            /\ IsLocal(st'[m], "run", p)
            /\ To(st'[Sysmon], st[Sysmon], IF sysmonwait THEN "sysmon" ELSE st[Sysmon].pc)
      BY <2>1, <2>3 DEF Exit0Does
    <3>2. st'[m].pc \in {"run", "syscall"} /\ idle' \subseteq idle
      BY <3>1 DEF IsLocal
    <3> QED
      BY <1>6, <2>1, <3>1, <3>2
  <2> QED
    BY <2>2, <2>3
<1> QED
  BY <1>3, <1>4, <1>5, <1>7, <1>8, <1>9, <1>10

(* A thread looks further only from an empty queue, and steals into its own. *)
LEMMA LookingEmpty ==
  ASSUME Good, Owned, Empty, Good', NEW m \in M,
         schedule(m) \/ findrunnable(m) \/ netpoll(m) \/ spin(m) \/ steal(m) \/ stop(m)
  PROVE  Empty'
<1>0. /\ Fits(m, st[m]) /\ Fits(m, st'[m]) /\ m \in T /\ st[m].pc # "syscall" /\ st[m].p \in P
      /\ st[m].sp = FALSE /\ loc \in [P -> Nat]
  <2>1. st[m].pc \in {"schedule", "findrunnable", "netpoll", "spin", "steal", "stop"} /\ m \in T
    BY Zenon DEF schedule, findrunnable, netpoll, spin, steal, stop, At, T
  <2>2. Fits(m, st[m]) /\ Fits(m, st'[m]) /\ st[m].sp \in BOOLEAN /\ loc \in [P -> Nat]
    BY <2>1 DEF Good, Shapes, TypeOK, Thread
  <2> QED
    BY Zenon, <2>1, <2>2 DEF Fits, Shape, WithP, Starting
<1>1. ASSUME Goes(m, HasOne(st[m])), idle' = idle, \A p \in P \ {st[m].p} : loc[p] = 0 => loc'[p] = 0
      PROVE  Empty'
  <2>1. Rest(m) /\ st'[m].pc \in {"run", "resetspinning"}
    BY <1>1 DEF Goes, To, HasOne
  <2>2. Plain(st'[m])
    BY <1>0, <2>1, Plainly DEF Starting
  <2> QED
    BY <1>0, <1>1, <2>1, <2>2, EmptyGrows
<1>2. ASSUME GotOne(m), idle' = idle, \A p \in P \ {st[m].p} : loc[p] = 0 => loc'[p] = 0
      PROVE  Empty'
  BY <1>0, <1>1, <1>2, GotOneDoes DEF Good
<1>3. ASSUME TakeShare(m), idle' = idle PROVE Empty'
  <2>1. GotOne(m) /\ \E k : loc' = [loc EXCEPT ![st[m].p] = k]
    BY <1>3 DEF TakeShare
  <2>2. \A p \in P \ {st[m].p} : loc'[p] = loc[p]
    BY <1>0, <2>1
  <2> QED
    BY <1>2, <1>3, <2>1, <2>2
<1>4. ASSUME NEW l, Goes(m, l), UNCHANGED <<idle, loc>>, loc[st[m].p] = 0 PROVE Empty'
  <2>1. \A q \in P : Bare(st'[m], q) => q = st[m].p \/ Bare(st[m], q)
    <3>1. st'[m].p = st[m].p /\ st'[m].sp = FALSE /\ (st'[m].hp # None => st'[m].pc \in Handing \cup {"startm", "newm"})
      BY Zenon, <1>0, <1>4 DEF Goes, To, Same, Fits, Shape
    <3>2. st'[m].hp = None
      BY Zenon, <1>0, <1>4, SchedAssumption DEF Goes, To, Same, Fits, Shape, Handing, schedule, findrunnable, netpoll, spin, steal, stop, At
    <3> QED
      BY <3>1, <3>2, SchedAssumption DEF Bare, SchedAssumption
  <2>2. \A u \in T, q \in P : Bare(st'[u], q) => Bare(st[u], q) \/ loc[q] = 0
    BY <1>4, <2>1 DEF Goes, Rest
  <2> QED
    BY <1>4, <2>2, EmptyBy
<1>5. ASSUME NEW l \in {"findrunnable", "netpoll", "spin", "stop"}, Goto(m, l), UNCHANGED <<idle, loc>>, loc[st[m].p] = 0
      PROVE  Empty'
  <2>1. l \in PC
    BY DEF PC, WithP
  <2> QED
    BY <1>0, <1>4, <1>5, <2>1, Going DEF Good
<1>6. ASSUME st[m].pc \in {"netpoll", "spin", "steal", "stop"} PROVE loc[st[m].p] = 0
  BY <1>0, <1>6 DEF Empty, Bare
<1>7. ASSUME NEW k, loc' = [loc EXCEPT ![st[m].p] = k] PROVE \A p \in P \ {st[m].p} : loc[p] = 0 => loc'[p] = 0
  BY <1>0, <1>7
<1>8. CASE schedule(m)
  <2>1. idle' = idle
    BY <1>8 DEF schedule
  <2>2. \/ GotOne(m) /\ loc' = loc
        \/ GotOne(m) /\ loc' = [loc EXCEPT ![st[m].p] = loc[st[m].p] - 1]
        \/ loc[st[m].p] = 0 /\ Goto(m, "findrunnable") /\ loc' = loc
    BY <1>8 DEF schedule
  <2> QED
    BY <1>2, <1>5, <1>7, <2>1, <2>2
<1>9. CASE findrunnable(m)
  <2>1. idle' = idle
    BY <1>9 DEF findrunnable
  <2>2. \/ TakeShare(m)
        \/ GotOne(m) /\ loc' = [loc EXCEPT ![st[m].p] = loc[st[m].p] - 1]
        \/ loc[st[m].p] = 0 /\ (Goto(m, "netpoll") \/ Goto(m, "spin")) /\ loc' = loc
    BY <1>9 DEF findrunnable
  <2> QED
    BY <1>2, <1>3, <1>5, <1>7, <2>1, <2>2
<1>10. CASE netpoll(m)
  <2>1. UNCHANGED <<idle, loc>> /\ NetpollDoes(m) /\ loc[st[m].p] = 0
    BY Zenon, <1>6, <1>10, netpollDoes DEF netpoll, Good, At
  <2>2. ASSUME Rest(m), st'[m].pc = "inject" PROVE Empty'
    <3>1. Plain(st'[m])
      BY <1>0, <2>2, Plainly DEF Starting
    <3> QED
      BY <1>0, <2>1, <2>2, <3>1, EmptyPlain DEF Rest
  <2>3. ASSUME Goes(m, "spin") PROVE Empty'
    BY <1>4, <2>1, <2>3
  <2> QED
    BY <1>1, <2>1, <2>2, <2>3 DEF NetpollDoes
<1>11. CASE spin(m)
  <2>1. UNCHANGED <<idle, loc>> /\ loc[st[m].p] = 0 /\ st[m].pc = "spin"
    BY <1>6, <1>11 DEF spin, At
  <2>2. ASSUME Goes(m, "stop") PROVE Empty'
    BY <1>4, <2>1, <2>2
  <2>3. ASSUME Looks(m, "steal", TRUE, st[m].todo) PROVE Empty'
    <3>1. Rest(m) /\ st'[m].p = st[m].p /\ st'[m].sp = FALSE /\ st'[m].pc = "steal"
      BY <1>0, <2>3 DEF Looks
    <3>2. \A q \in P : Bare(st'[m], q) => q = st[m].p
      BY <3>1 DEF Bare
    <3>3. \A u \in T, q \in P : Bare(st'[u], q) => Bare(st[u], q) \/ loc[q] = 0
      BY <2>1, <3>1, <3>2 DEF Rest
    <3> QED
      BY <2>1, <3>3, EmptyBy
  <2> QED
    BY <1>11, <2>2, <2>3, spinDoes DEF Good
<1>12. CASE steal(m)
  <2>1. idle' = idle /\ loc[st[m].p] = 0
    BY <1>6, <1>12 DEF steal, At
  <2>2. ASSUME NEW p \in P \ {st[m].p}, NEW k \in 1 .. (loc[p] + 1) \div 2,
               loc' = [loc EXCEPT ![p] = @ - k, ![st[m].p] = @ + k - 1]
        PROVE  \A q \in P \ {st[m].p} : loc[q] = 0 => loc'[q] = 0
    <3>1. loc[p] # 0
      BY <1>0, <2>2
    <3> QED
      BY <1>0, <2>2, <3>1
  <2>3. CASE Goto(m, "stop") /\ loc' = loc
    BY <1>5, <2>1, <2>3
  <2>4. ASSUME NEW p \in P \ {st[m].p}, NEW k \in 1 .. (loc[p] + 1) \div 2,
               loc' = [loc EXCEPT ![p] = @ - k, ![st[m].p] = @ + k - 1], GotOne(m)
        PROVE  Empty'
    BY <1>2, <2>1, <2>2, <2>4
  <2> QED
    BY <1>12, <2>3, <2>4 DEF steal
<1>13. CASE stop(m)
  <2>1. loc[st[m].p] = 0
    BY <1>6, <1>13 DEF stop, At
  <2>2. ASSUME idle' = idle \cup {st[m].p}, StopsDoes(m), loc' = loc PROVE Empty'
    <3>1. Rest(m) /\ st'[m].pc \in {"unspin", "recheck"}
      BY <2>2 DEF StopsDoes
    <3>2. \A q \in P : ~Bare(st'[m], q)
      BY <1>0, <3>1, Plainly DEF Plain, Bare, Starting
    <3>3. \A u \in T, q \in P : Bare(st'[u], q) => Bare(st[u], q)
      BY <3>1, <3>2 DEF Rest
    <3>4. \A p \in idle' : p \in idle \/ loc[p] = 0
      BY <2>1, <2>2
    <3> QED
      BY <2>2, <3>3, <3>4, EmptyBy
  <2> QED
    BY <1>3, <1>13, <2>2, stopDoes DEF Good
<1> QED
  BY <1>8, <1>9, <1>10, <1>11, <1>12, <1>13

(* A thread without a P fills no queue, *)
LEMMA StopEmpty ==
  ASSUME Good, Empty, Good', NEW m \in M,
         \/ unspin(m) \/ recheck(m) \/ rechecked(m) \/ respin(m) \/ netblock(m)
         \/ polling(m) \/ polled(m) \/ pollPidle(m) \/ resetspinning(m) \/ stopm(m)
  PROVE  Empty'
<1> USE DEF Good
<1>0. Fits(m, st'[m]) /\ m \in T
  BY SMTT(30) DEF Shapes, T
<1>1. loc' = loc /\ idle' \subseteq idle
  BY Zenon DEF unspin, recheck, rechecked, respin, netblock, polling, polled, pollPidle, resetspinning, stopm
<1>2. ASSUME Rest(m),
             st'[m].pc \in {"recheck", "rechecked", "respin", "findrunnable", "netblock", "polling", "polled",
                            "pollPidle", "stopm", "stopped", "readied", "run", "inject"}
      PROVE  Empty'
  <2>1. Plain(st'[m])
    BY <1>0, <1>2, Plainly DEF Starting
  <2> QED
    BY <1>0, <1>1, <1>2, <2>1, EmptyPlain DEF Rest
<1>3. ASSUME ParksDoes(m) PROVE Empty'
  BY <1>2, <1>3 DEF ParksDoes
<1>4. ASSUME NEW l \in {"polling", "stopm", "pollPidle"}, Goto(m, l) PROVE Empty'
  <2>1. l \in PC
    BY DEF PC, NoP
  <2> QED
    BY <1>0, <1>2, <1>4, <2>1, Going DEF Goes, To
<1>5. CASE unspin(m)
  BY <1>2, <1>5, unspinDoes DEF Looks
<1>6. CASE recheck(m)
  <2>1. ASSUME NEW p \in P,
               Looks(m, IF loc[p] # 0 THEN "rechecked" ELSE "recheck", st[m].spin, st[m].todo \ {p})
        PROVE  Empty'
    BY <1>2, <2>1 DEF Looks
  <2> QED
    BY <1>3, <1>6, <2>1, recheckDoes
<1>7. CASE rechecked(m)
  <2>1. st[m].ret \in {"respin", "findrunnable"}
    BY <1>7 DEF Shapes, rechecked, At, Fits, Shape, T
  <2>2. ASSUME NEW p \in idle, Rest(m), IsLocal(st'[m], st[m].ret, p) PROVE Empty'
    BY <1>2, <2>1, <2>2 DEF IsLocal
  <2> QED
    BY <1>3, <1>7, <2>2, recheckedDoes
<1>8. CASE respin(m)
  BY <1>2, <1>8, respinDoes DEF Looks
<1>9. CASE netblock(m) \/ polled(m)
  BY <1>4, <1>9 DEF netblock, polled
<1>10. CASE polling(m)
  BY <1>2, <1>10, pollingDoes DEF PollDoes
<1>11. CASE pollPidle(m)
  <2>1. PidleDoes(m)
    BY <1>11, pollPidleDoes
  <2>2. Rest(m) /\ st'[m].pc \in {"run", "inject"}
    BY <2>1 DEF PidleDoes, IsLocal, Bears
  <2> QED
    BY <1>2, <2>2
<1>12. CASE resetspinning(m)
  <2>1. Looks(m, IF nmspinning = 1 THEN "readied" ELSE "run", FALSE, st[m].todo)
    BY <1>12, resetspinningDoes
  <2>2. Rest(m) /\ st'[m].pc \in {"readied", "run"}
    BY <2>1 DEF Looks
  <2> QED
    BY <1>2, <2>2
<1>13. CASE stopm(m)
  BY <1>2, <1>13, stopmDoes DEF StopmDoes
<1> QED
  BY <1>5, <1>6, <1>7, <1>8, <1>9, <1>10, <1>11, <1>12, <1>13

(* and neither does sysmon. *)
LEMMA SysmonEmpty ==
  ASSUME Good, Empty, Good', SysmonNext
  PROVE  Empty'
<1> USE DEF Good
<1>0. Fits(Sysmon, st'[Sysmon]) /\ Sysmon \in T
  BY DEF Shapes, T
<1>1. loc' = loc /\ idle' = idle
  BY DEF SysmonNext, sysmonSleeps, sysmonTimeout, sysmonPolls, incidlelocked, retake, retakeCas, uncount
<1>2. ASSUME Rest(Sysmon), st'[Sysmon].pc \in Monitoring \cup {"inject", "handoffp"} PROVE Empty'
  <2>1. Plain(st'[Sysmon])
    BY <1>0, <1>2, Plainly DEF Starting, Monitoring
  <2> QED
    BY <1>0, <1>1, <1>2, <2>1, EmptyPlain DEF Rest
<1>3. ASSUME NEW l \in {"asleep", "sysmon", "inject"}, Goto(Sysmon, l) PROVE Empty'
  <2>1. l \in PC
    BY DEF PC, Monitoring, Injecting
  <2> QED
    BY <1>0, <1>2, <1>3, <2>1, Going DEF Goes, To, Monitoring
<1>4. CASE sysmonSleeps \/ sysmonTimeout \/ incidlelocked
  BY <1>3, <1>4 DEF sysmonSleeps, sysmonTimeout, incidlelocked
<1>5. CASE sysmonPolls
  BY <1>2, <1>5, sysmonPollsDoes DEF Bears, Monitoring
<1>6. CASE retake
  BY <1>2, <1>6, retakeDoes DEF RetakeDoes, Monitoring
<1>7. CASE retakeCas
  BY <1>2, <1>7, retakeCasDoes DEF RetakenDoes, IsLocal, Monitoring
<1>8. CASE uncount
  BY <1>2, <1>8, uncountDoes DEF IsLocal, Monitoring
<1> QED
  BY <1>4, <1>5, <1>6, <1>7, <1>8 DEF SysmonNext

----------------------------------------------------------------------------
(* sysmon knows whether it sleeps. *)
SharedNext(t) == \/ startm(t) \/ startmUndo(t) \/ newm(t) \/ handoffp(t) \/ handoffCas(t) \/ handoffLocked(t)
                 \/ injectglist(t) \/ injected(t)
ThreadNext(m) == \/ ready(m) \/ readied(m) \/ wakep(m) \/ park(m) \/ parkOnNet(m) \/ gosched(m)
                 \/ entersyscall(m) \/ entersyscallblock(m) \/ exitsyscall(m) \/ exitsyscall0(m)
                 \/ schedule(m) \/ findrunnable(m) \/ netpoll(m) \/ spin(m) \/ steal(m)
                 \/ stop(m) \/ unspin(m) \/ recheck(m) \/ rechecked(m) \/ respin(m)
                 \/ netblock(m) \/ polling(m) \/ polled(m) \/ pollPidle(m)
                 \/ resetspinning(m) \/ stopm(m)

(* startm, handoffp and injectglist neither put sysmon to sleep nor wake it. *)
LEMMA SharedAsleep ==
  ASSUME Good, Asleep, NEW t \in T, SharedNext(t)
  PROVE  Asleep'
<1> USE DEF Good
<1>0. Fits(t, st[t]) /\ SchedAssumption /\ Sysmon \in T /\ Sysmon \notin M
  BY SchedAssumption DEF Shapes, T, SchedAssumption
<1>1. sysmonwait' = sysmonwait /\ st[t].pc \in Starting \cup Handing \cup Injecting
  BY Zenon DEF SharedNext, startm, startmUndo, newm, handoffp, handoffCas, handoffLocked, injectglist, injected, mon,
         At, Starting, Handing, Injecting
<1>2. ASSUME \A u \in T \ {t} : u = Sysmon => st'[u] = st[u], st'[t].pc # "asleep" PROVE Asleep'
  <2>1. CASE t = Sysmon
    BY <1>1, <1>2, <2>1 DEF Asleep, Starting, Handing, Injecting
  <2>2. CASE t # Sysmon
    BY <1>0, <1>1, <1>2, <2>2 DEF Asleep
  <2> QED
    BY <2>1, <2>2
<1>3. ASSUME NEW l, Goes(t, l), l # "asleep" PROVE Asleep'
  BY <1>2, <1>3 DEF Goes, To, Rest
<1>4. ASSUME Back(st'[t], st[t]), \A u \in T \ {t} : u = Sysmon => st'[u] = st[u], st[t].pc \in Starting \cup Handing PROVE Asleep'
  <2>1. st[t].ret # "asleep"
    BY <1>0, <1>4 DEF Fits, Shape
  <2> QED
    BY <1>2, <1>4, <2>1 DEF Back
<1>5. CASE startm(t)
  <2>1. StartmDoes(t) /\ st[t].pc \in Starting \cup Handing
    BY <1>5, startmDoes DEF Starting
  <2>2. ASSUME Rest(t), st'[t].pc = "newm" PROVE Asleep'
    BY <1>2, <2>2 DEF Rest
  <2>3. ASSUME Rest(t), Back(st'[t], st[t]) PROVE Asleep'
    BY <1>4, <2>1, <2>3 DEF Rest
  <2>4. ASSUME NEW m \in M \ {t}, \A u \in T \ {t, m} : st'[u] = st[u], Back(st'[t], st[t]) PROVE Asleep'
    BY <1>0, <1>4, <2>1, <2>4
  <2>5. ASSUME Goes(t, "undo") PROVE Asleep'
    BY <1>3, <2>5
  <2> QED
    BY <2>1, <2>2, <2>3, <2>4, <2>5 DEF StartmDoes
<1>6. CASE startmUndo(t)
  <2>1. st[t].pc \in Starting \cup Handing
    BY <1>6 DEF startmUndo, At, Starting
  <2> QED
    BY <1>4, <1>6, <2>1, startmUndoDoes DEF Rest
<1>7. CASE newm(t)
  <2>1. PICK m \in M \ {t} : NewmDoes(t, m)
    BY <1>7, newmDoes
  <2>2. st[t].pc \in Starting \cup Handing
    BY <1>7 DEF newm, At, Starting
  <2> QED
    BY <1>0, <1>4, <2>1, <2>2 DEF NewmDoes
<1>8. CASE handoffp(t)
  BY <1>3, <1>8, handoffpDoes
<1>9. CASE handoffCas(t)
  <2>1. ASSUME Calls(t, st[t].hp, TRUE, st[t].ret) PROVE Asleep'
    BY <1>2, <2>1 DEF Calls, Rest
  <2>2. Calls(t, st[t].hp, TRUE, st[t].ret) \/ Goes(t, "handoffLocked")
    BY <1>9, handoffCasDoes
  <2>3. ASSUME Goes(t, "handoffLocked") PROVE Asleep'
    BY <1>3, <2>3
  <2> QED
    BY <2>1, <2>2, <2>3
<1>10. CASE handoffLocked(t)
  <2>1. st[t].pc \in Starting \cup Handing
    BY <1>10 DEF handoffLocked, At, Handing
  <2>2. ASSUME Rest(t), Back(st'[t], st[t]) PROVE Asleep'
    BY <1>4, <2>1, <2>2 DEF Rest
  <2>3. ASSUME Goes(t, "startm") PROVE Asleep'
    BY <1>3, <2>3
  <2> QED
    BY <1>10, <2>2, <2>3, handoffLockedDoes
<1>11. CASE injectglist(t)
  <2>1. Goes(t, "injected")
    BY <1>11, Going DEF injectglist, PC, Injecting
  <2> QED
    BY <1>3, <2>1
<1>12. CASE injected(t)
  <2>1. InjectedDoes(t) /\ st[t].pc = "injected"
    BY Zenon, <1>12, injectedDoes DEF injected, At
  <2>2. AfterInject(st[t]) # "asleep"
    BY <1>0, <2>1 DEF AfterInject, HasOne, Fits, Shape, Injector, Injecting
  <2>3. Rest(t) /\ st'[t].pc # "asleep"
    BY <2>1, <2>2 DEF InjectedDoes
  <2> QED
    BY Zenon, <1>2, <2>3 DEF Rest
<1> QED
  BY <1>5, <1>6, <1>7, <1>8, <1>9, <1>10, <1>11, <1>12 DEF SharedNext

(* The actions of a thread that change no other. *)
LEMMA ThreadAlone ==
  ASSUME Good, NEW m \in M, ThreadNext(m), ~entersyscall(m), ~exitsyscall0(m) \/ idle = {}
  PROVE  Rest(m)
<1> USE DEF Good
<1>0. m \in T /\ Fits(m, st[m]) /\ {"run", "readied", "wakep", "schedule", "findrunnable", "netpoll", "spin", "stop", "polling", "stopm", "pollPidle"} \subseteq PC
  BY DEF T, PC, WithP, NoP, Shapes
<1>1. ASSUME NEW l \in PC, Goto(m, l) PROVE Rest(m)
  BY <1>0, <1>1, Going DEF Goes
<1>2. ASSUME GotOne(m) PROVE Rest(m)
  BY <1>0, <1>2, GotOneDoes DEF Goes
<1>3. ASSUME ready(m) \/ readied(m) \/ park(m) \/ parkOnNet(m) \/ gosched(m) PROVE Rest(m)
  <2>1. Goto(m, "run") \/ Goto(m, "readied") \/ Goto(m, "wakep") \/ Goto(m, "schedule")
    BY <1>3 DEF ready, readied, park, parkOnNet, gosched
  <2> QED
    BY <1>0, <1>1, <2>1
<1>4. ASSUME schedule(m) \/ findrunnable(m) \/ steal(m) PROVE Rest(m)
  <2>1. GotOne(m) \/ Goto(m, "findrunnable") \/ Goto(m, "netpoll") \/ Goto(m, "spin") \/ Goto(m, "stop")
    BY <1>4 DEF schedule, findrunnable, steal, TakeShare
  <2> QED
    BY <1>0, <1>1, <1>2, <2>1
<1>5. ASSUME netblock(m) \/ polled(m) PROVE Rest(m)
  <2>1. Goto(m, "polling") \/ Goto(m, "stopm") \/ Goto(m, "pollPidle")
    BY <1>5 DEF netblock, polled
  <2> QED
    BY <1>0, <1>1, <2>1
<1>6. ASSUME wakep(m) PROVE Rest(m)
  BY <1>0, <1>6, wakepDoes DEF Goes, Calls
<1>7. ASSUME entersyscallblock(m) PROVE Rest(m)
  BY <1>7, entersyscallblockDoes DEF BlockDoes
<1>8. ASSUME exitsyscall(m) PROVE Rest(m)
  BY <1>8, exitsyscallDoes DEF Goes
<1>9. ASSUME exitsyscall0(m), idle = {} PROVE Rest(m)
  BY <1>9, exitsyscall0Does DEF Exit0Does
<1>10. ASSUME netpoll(m) PROVE Rest(m)
  BY <1>10, netpollDoes DEF NetpollDoes, Goes
<1>11. ASSUME spin(m) PROVE Rest(m)
  BY <1>11, spinDoes DEF Looks, Goes
<1>12. ASSUME stop(m) PROVE Rest(m)
  BY <1>2, <1>12, stopDoes DEF StopsDoes, TakeShare
<1>13. ASSUME unspin(m) \/ respin(m) \/ resetspinning(m) PROVE Rest(m)
  BY <1>13, unspinDoes, respinDoes, resetspinningDoes DEF Looks
<1>14. ASSUME recheck(m) PROVE Rest(m)
  BY <1>14, recheckDoes DEF Looks, ParksDoes
<1>15. ASSUME rechecked(m) PROVE Rest(m)
  BY <1>15, recheckedDoes DEF ParksDoes
<1>16. ASSUME polling(m) PROVE Rest(m)
  BY <1>16, pollingDoes DEF PollDoes
<1>17. ASSUME pollPidle(m) PROVE Rest(m)
  BY <1>17, pollPidleDoes DEF PidleDoes
<1>18. ASSUME stopm(m) PROVE Rest(m)
  BY <1>18, stopmDoes DEF StopmDoes
<1> QED
  BY <1>3, <1>4, <1>5, <1>6, <1>7, <1>8, <1>9, <1>10, <1>11, <1>12, <1>13, <1>14, <1>15, <1>16, <1>17, <1>18
  DEF ThreadNext

(* entersyscall and exitsyscall0 wake sysmon with sysmonwait; the others leave both alone. *)
LEMMA ThreadAsleep ==
  ASSUME Good, Asleep, NEW m \in M, ThreadNext(m)
  PROVE  Asleep'
<1> USE DEF Good
<1>0. m # Sysmon /\ Sysmon \in T
  BY SchedAssumption DEF SchedAssumption, T
<1>1. ASSUME To(st'[Sysmon], st[Sysmon], IF sysmonwait THEN "sysmon" ELSE st[Sysmon].pc), ~sysmonwait' PROVE Asleep'
  BY <1>1 DEF Asleep, To
<1>2. CASE entersyscall(m)
  <2>1. EnterDoes(m) /\ ~sysmonwait'
    BY <1>2, entersyscallDoes DEF entersyscall
  <2> QED
    BY <1>1, <2>1 DEF EnterDoes
<1>3. CASE exitsyscall0(m) /\ idle # {}
  <2>1. \/ /\ ~sysmonwait'
           /\ To(st'[Sysmon], st[Sysmon], IF sysmonwait THEN "sysmon" ELSE st[Sysmon].pc)
        \/ idle = {}
    BY <1>3, exitsyscall0Does DEF Exit0Does
  <2> QED
    BY <1>1, <1>3, <2>1
<1>4. CASE ~entersyscall(m) /\ (~exitsyscall0(m) \/ idle = {})
  <2>1. Rest(m)
    BY Zenon, <1>4, ThreadAlone
  <2>2. sysmonwait' = sysmonwait
    BY Zenon, <1>4 DEF ThreadNext, ready, readied, wakep, park, parkOnNet, gosched, entersyscallblock, exitsyscall, exitsyscall0,
       schedule, findrunnable, netpoll, spin, steal, stop, unspin, recheck, rechecked, respin, netblock, polling,
       polled, pollPidle, resetspinning, stopm, mon
  <2> QED
    BY <1>0, <2>1, <2>2 DEF Asleep, Rest
<1> QED
  BY <1>2, <1>3, <1>4

(* sysmon sets and clears sysmonwait as it falls asleep and wakes up. *)
LEMMA SysmonAsleep ==
  ASSUME Good, Asleep, SysmonNext
  PROVE  Asleep'
<1> USE DEF Good
<1>0. Sysmon \in T /\ {"asleep", "sysmon", "inject"} \subseteq PC
  BY DEF T, PC, Monitoring, Injecting
<1>1. ASSUME NEW l \in {"asleep", "sysmon", "inject"}, Goto(Sysmon, l) PROVE st'[Sysmon].pc = l
  BY <1>0, <1>1, Going DEF Goes, To
<1>2. CASE sysmonSleeps
  BY <1>1, <1>2 DEF sysmonSleeps, Asleep
<1>3. CASE sysmonTimeout
  BY <1>1, <1>3 DEF sysmonTimeout, Asleep
<1>4. CASE incidlelocked
  <2>1. st[Sysmon].pc = "incidlelocked" /\ sysmonwait' = sysmonwait /\ Goto(Sysmon, "inject")
    BY <1>4 DEF incidlelocked, At
  <2> QED
    BY <1>1, <2>1 DEF Asleep
<1>5. ASSUME st[Sysmon].pc # "asleep", sysmonwait' = sysmonwait, st'[Sysmon].pc # "asleep" PROVE Asleep'
  BY <1>5 DEF Asleep
<1>6. CASE sysmonPolls
  <2>1. st[Sysmon].pc # "asleep" /\ sysmonwait' = sysmonwait
    BY <1>6 DEF sysmonPolls, At, mon
  <2> QED
    BY <1>5, <1>6, <2>1, sysmonPollsDoes DEF Bears
<1>7. CASE retake
  <2>1. st[Sysmon].pc # "asleep" /\ sysmonwait' = sysmonwait
    BY <1>7 DEF retake, At
  <2> QED
    BY <1>5, <1>7, <2>1, retakeDoes DEF RetakeDoes
<1>8. CASE retakeCas
  <2>1. st[Sysmon].pc # "asleep" /\ sysmonwait' = sysmonwait
    BY <1>8 DEF retakeCas, At, mon
  <2> QED
    BY <1>5, <1>8, <2>1, retakeCasDoes DEF RetakenDoes, IsLocal
<1>9. CASE uncount
  <2>1. st[Sysmon].pc # "asleep" /\ sysmonwait' = sysmonwait
    BY <1>9 DEF uncount, At
  <2> QED
    BY <1>5, <1>9, <2>1, uncountDoes DEF IsLocal
<1> QED
  BY <1>2, <1>3, <1>4, <1>6, <1>7, <1>8, <1>9 DEF SysmonNext

----------------------------------------------------------------------------
(* The invariant of the threads, the Ps and nmspinning. *)
IInv == Good /\ Asleep /\ Owned /\ SpinningIsCounted /\ Empty

(* When the program starts the one thread runs main on its P, and the other Ps are idle. *)
LEMMA InitIInv == Init => IInv
<1> SUFFICES ASSUME Init PROVE IInv
  OBVIOUS
<1>1. PICK m0 \in M, p0 \in P :
        /\ st = [t \in T |-> IF t = m0 THEN Local("run", p0)
                             ELSE IF t = Sysmon THEN Local("sysmon", None) ELSE Local("fresh", None)]
        /\ idle = P \ {p0}
  BY DEF Init
<1>0. m0 \in T /\ Sysmon \in T /\ m0 # Sysmon /\ None \notin P /\ NG - 1 \in Nat
  BY SchedAssumption DEF SchedAssumption, T
<1>2. /\ Local("run", p0) \in Thread /\ IsLocal(Local("run", p0), "run", p0)
      /\ Local("sysmon", None) \in Thread /\ IsLocal(Local("sysmon", None), "sysmon", None)
      /\ Local("fresh", None) \in Thread /\ IsLocal(Local("fresh", None), "fresh", None)
  <2>1. "run" \in PC /\ "sysmon" \in PC /\ "fresh" \in PC
    BY DEF PC, WithP, NoP, Monitoring
  <2> QED
    BY <2>1, Locals
<1> HIDE DEF Local
<1>3. /\ st \in [T -> Thread] /\ IsLocal(st[m0], "run", p0) /\ IsLocal(st[Sysmon], "sysmon", None)
      /\ \A t \in T \ {m0, Sysmon} : IsLocal(st[t], "fresh", None)
  BY <1>0, <1>1, <1>2
<1>4. TypeOK
  <2>1. /\ loc = [p \in P |-> 0] /\ glob = 0 /\ insys = {} /\ nmspinning = 0
        /\ lastpoll = TRUE /\ waiters = FALSE /\ parked = NG - 1 /\ netwait = 0
        /\ idlelocked = 0 /\ sysmonwait = FALSE /\ dead = FALSE /\ lapse = FALSE
    BY DEF Init
  <2>2. loc \in [P -> Nat] /\ idle \subseteq P /\ P # {} /\ parked \in Nat
    BY <1>0, <1>1, <2>1
  <2>3. glob \in Nat /\ insys \subseteq P /\ nmspinning \in Int /\ netwait \in Nat /\ idlelocked \in Int
    BY <2>1
  <2>4. /\ lastpoll \in BOOLEAN /\ waiters \in BOOLEAN /\ sysmonwait \in BOOLEAN
        /\ dead \in BOOLEAN /\ lapse \in BOOLEAN
    BY <2>1, Zenon
  <2> QED
    BY <1>3, <2>2, <2>3, <2>4 DEF TypeOK
<1>5. Shapes
  <2>1. Fits(m0, st[m0])
    BY <1>0, <1>3, SchedAssumption DEF IsLocal, SchedAssumption, Fits, Shape, Injector, Spinner, WithP, NoP, Handing, Starting, Injecting, Monitoring, ForSysmon
  <2>2. Fits(Sysmon, st[Sysmon])
    BY <1>0, <1>3, SchedAssumption DEF IsLocal, SchedAssumption, Fits, Shape, Injector, Spinner, WithP, NoP, Handing, Starting, Injecting, Monitoring, ForSysmon
  <2>3. ASSUME NEW t \in T \ {m0, Sysmon} PROVE Fits(t, st[t])
    BY <1>3, SchedAssumption DEF IsLocal, SchedAssumption, Fits, Shape, Injector, Spinner, WithP, NoP, Handing, Starting, Injecting, Monitoring, ForSysmon
  <2> QED
    BY <2>1, <2>2, <2>3 DEF Shapes
<1>6. Asleep
  BY <1>3 DEF Asleep, IsLocal, Init
<1>7. Owned
  <2>1. \A u \in T, q \in P : Has(st[u], q) <=> u = m0 /\ q = p0
    BY ZenonT(60), <1>0, <1>3 DEF Has, IsLocal
  <2>2. ASSUME NEW q \in P PROVE OwnedAt(q)
    BY <1>0, <1>1, <2>1 DEF OwnedAt, Init
  <2>3. \A u \in T : st[u].hp = None
    BY <1>3 DEF IsLocal
  <2> QED
    BY <2>2, <2>3 DEF Owned
<1>8. SpinningIsCounted
  <2>1. {t \in T : st[t].spin \/ st[t].sp} = {}
    BY <1>3 DEF IsLocal
  <2> QED
    BY <2>1, FS_EmptySet DEF SpinningIsCounted, Init
<1>9. Empty
  BY DEF Empty, Init
<1> QED
  BY <1>4, <1>5, <1>6, <1>7, <1>8, <1>9 DEF IInv, Good

(* Next by actors. *)
LEMMA NextSplit == Next <=> (\E t \in T : SharedNext(t)) \/ (\E m \in M : ThreadNext(m)) \/ SysmonNext
<1>1. \A t \in T : SharedNext(t) <=> (startm(t) \/ startmUndo(t) \/ newm(t) \/ handoffp(t) \/ handoffCas(t)
                  \/ handoffLocked(t) \/ injectglist(t) \/ injected(t))
  BY DEF SharedNext
<1> QED
  BY Zenon DEF Next, SharedNext, ThreadNext, SysmonNext

(* Every step keeps the invariant. *)
LEMMA IInvStep == IInv /\ [Next]_vars => IInv'
<1> SUFFICES ASSUME IInv, [Next]_vars PROVE IInv'
  OBVIOUS
<1> USE DEF IInv
<1>1. ASSUME NEW t \in T, SharedNext(t) PROVE IInv'
  <2>1. Good'
    BY <1>1, StartingGood, HandingGood DEF SharedNext
  <2>2. Asleep'
    BY <1>1, SharedAsleep
  <2>3. CASE startm(t) \/ startmUndo(t) \/ newm(t)
    BY <2>1, <2>2, <2>3, StartingOwned, StartingCounted, StartingEmpty
  <2>4. CASE handoffCas(t) \/ handoffLocked(t)
    BY <2>1, <2>2, <2>4, HandingOwned, HandingCounted, HandingEmpty
  <2>5. CASE handoffp(t) \/ injectglist(t) \/ injected(t)
    <3>1. Steady(t)
      BY <2>5, SteadyShared
    <3> QED
      BY <2>1, <2>2, <2>5, <3>1, SteadyKeeps, HandingEmpty
  <2> QED
    BY <1>1, <2>3, <2>4, <2>5 DEF SharedNext
<1>2. ASSUME NEW m \in M, ThreadNext(m) PROVE IInv'
  <2>0. m \in T
    BY DEF T
  <2>1. Good'
    BY <1>2, RunGood, SyscallGood, LookGood, StopGood, PollGood DEF ThreadNext
  <2>2. Asleep'
    BY <1>2, ThreadAsleep
  <2>3. Empty'
    BY <1>2, <2>1, RunEmpty, LookingEmpty, StopEmpty DEF ThreadNext
  <2>4. ASSUME Steady(m) PROVE Owned' /\ SpinningIsCounted'
    BY <2>0, <2>4, SteadyKeeps
  <2>5. Owned' /\ SpinningIsCounted'
    <3>1. CASE ready(m) \/ readied(m) \/ park(m) \/ parkOnNet(m) \/ gosched(m)
               \/ schedule(m) \/ findrunnable(m) \/ netpoll(m) \/ steal(m)
      BY <2>4, <3>1, SteadyRun
    <3>2. CASE recheck(m) \/ netblock(m) \/ polling(m) \/ polled(m) \/ stopm(m)
      BY <2>4, <3>2, SteadyStop
    <3>3. CASE wakep(m)
      BY <2>0, <3>3, RunOwned, HandingCounted
    <3>4. CASE entersyscall(m) \/ entersyscallblock(m) \/ exitsyscall(m)
      BY <3>4, RunOwned, RunCounted
    <3>5. CASE exitsyscall0(m) \/ rechecked(m) \/ pollPidle(m)
      BY <2>1, <3>5, TakingOwned, RunCounted
    <3>6. CASE spin(m) \/ stop(m) \/ unspin(m) \/ respin(m) \/ resetspinning(m)
      BY <3>6, LookingOwned, LookingCounted
    <3> QED
      BY <1>2, <3>1, <3>2, <3>3, <3>4, <3>5, <3>6 DEF ThreadNext
  <2> QED
    BY <2>1, <2>2, <2>3, <2>5
<1>3. CASE SysmonNext
  <2>1. Good' /\ Asleep'
    BY <1>3, SysmonGood, SysmonAsleep
  <2>2. Empty'
    BY <1>3, <2>1, SysmonEmpty
  <2>3. Owned' /\ SpinningIsCounted'
    <3>1. CASE retakeCas
      BY <3>1, RetakeOwned, RetakeCounted
    <3>2. CASE ~retakeCas
      <4>1. Steady(Sysmon) /\ Sysmon \in T
        BY <1>3, <3>2, SteadySysmon DEF T
      <4> QED
        BY <4>1, SteadyKeeps
    <3> QED
      BY <3>1, <3>2
  <2> QED
    BY <2>1, <2>2, <2>3
<1>4. CASE UNCHANGED vars
  BY <1>4 DEF vars, net, mon, Good, TypeOK, Shapes, Asleep, Owned, OwnedAt, SpinningIsCounted, Empty
<1> QED
  BY <1>1, <1>2, <1>3, <1>4, NextSplit

(* In every reachable state every P is in exactly one place, nmspinning    *)
(* counts the threads that spin and those started to, no P is left idle    *)
(* or given to a spinning thread with work in its queue, and sysmonwait    *)
(* says whether sysmon sleeps (proc.go:1888-2200, 2190-2500, 2700-3000).   *)
THEOREM Invariance == Spec => []IInv
BY InitIInv, IInvStep, PTL DEF Spec

(* The invariant rules the throws out. *)
LEMMA IInvThrows == IInv => NeverThrows
<1> SUFFICES ASSUME IInv PROVE NeverThrows
  OBVIOUS
<1> USE DEF IInv
<1>1. OneOwner
  <2>1. ASSUME NEW p \in P
        PROVE  Cardinality(Holders(p)) + (IF p \in idle THEN 1 ELSE 0) + (IF p \in insys THEN 1 ELSE 0) = 1
    <3>1. Holders(p) = {t \in T : Has(st[t], p)}
      BY DEF Holders, Has
    <3>2. OwnedAt(p)
      BY DEF Owned
    <3>3. CASE \A t \in T : ~Has(st[t], p)
      <4>1. Holders(p) = {}
        BY <3>1, <3>3
      <4>2. (p \in idle /\ p \notin insys) \/ (p \notin idle /\ p \in insys)
        BY <3>2, <3>3 DEF OwnedAt
      <4> QED
        BY <4>1, <4>2, FS_EmptySet
    <3>4. CASE \E t \in T : Has(st[t], p)
      <4>1. p \notin idle /\ p \notin insys /\ \E t \in T : \A u \in T : Has(st[u], p) <=> u = t
        BY <3>2, <3>4 DEF OwnedAt
      <4>2. PICK t \in T : Holders(p) = {t}
        BY <3>1, <4>1
      <4>3. Cardinality(Holders(p)) = 1
        BY <4>2, FS_Singleton
      <4> QED
        BY <4>1, <4>3
    <3> QED
      BY <3>3, <3>4
  <2> QED
    BY <2>1 DEF OneOwner
<1>2. WorkIsWithOwner
  <2>1. \A p \in idle : loc[p] = 0
    BY DEF Empty, Good, TypeOK
  <2>2. ASSUME NEW t \in T
        PROVE  /\ st[t].sp /\ st[t].hp # None => loc[st[t].hp] = 0
               /\ st[t].pc = "schedule" /\ st[t].spin => loc[st[t].p] = 0
               /\ st[t].pc = "stopm" => ~st[t].spin
    <3>1. Fits(t, st[t]) /\ st[t].hp \in P \cup {None}
      BY DEF Good, Shapes, TypeOK, Thread
    <3>2. st[t].sp /\ st[t].hp # None => loc[st[t].hp] = 0
      BY <3>1 DEF Empty, Bare
    <3>3. st[t].pc = "schedule" /\ st[t].spin => loc[st[t].p] = 0
      BY <3>1 DEF Empty, Bare, Fits, Shape, WithP
    <3>4. st[t].pc = "stopm" => ~st[t].spin
      BY <3>1 DEF SchedAssumption, Fits, Shape, Injector, Spinner, WithP, NoP, Handing, Starting, Injecting, Monitoring, ForSysmon
    <3> QED
      BY <3>2, <3>3, <3>4
  <2> QED
    BY <2>1, <2>2 DEF WorkIsWithOwner
<1> QED
  BY <1>1, <1>2 DEF NeverThrows

(* None of the throws of acquirep, pidleput, startm, schedule, stopm and   *)
(* resetspinning is reachable: for any number of threads, Ps and           *)
(* goroutines every P is in one place, nmspinning is the number of         *)
(* spinning threads, and no idle P and no spinning thread starts with      *)
(* work in its queue.                                                      *)
THEOREM Sound == Spec => []NeverThrows
BY Invariance, IInvThrows, PTL

----------------------------------------------------------------------------
(* Nobody works or looks for work, and yet there is some: what keeps the   *)
(* scheduler from coming to rest like that.                                *)
Pollers == {"unspin", "recheck", "rechecked", "netblock", "polling", "polled", "pollPidle"}
Waker(s) == s.pc = "startm" \/ (s.pc = "injected" /\ s.n > 0)

(* sysmon sleeps only while no P is in a system call. *)
Rested == sysmonwait => insys = {}
(* lastpoll is 0 only while a thread polls. *)
Blocking == ~lastpoll => \E m \in M : st[m].pc \in {"polling", "polled"}
(* When the last P becomes idle, a thread has still to look at the network, *)
Watching == waiters => idle # P \/ \E m \in M : st[m].pc \in Pollers
Waiting == netwait > 0 => waiters
(* and a thread that put a goroutine into the global queue starts another. *)
Fetched == glob > 0 => idle # P \/ \E t \in T : Waker(st[t])

RestInv == Rested /\ Blocking /\ Watching /\ Waiting /\ Fetched

(* A step of thread a leaves alone all that are in the middle of something. *)
Others(a) == \A u \in T \ {a} : st[u].pc \notin {"stopped", "fresh", "asleep"} =>
                                  st'[u].pc = st[u].pc /\ st'[u].p = st[u].p /\ st'[u].n = st[u].n

(* startm, handoffp and injectglist touch only the thread they wake or create. *)
LEMMA SharedOthers ==
  ASSUME Good, NEW t \in T, SharedNext(t)
  PROVE  Others(t)
<1> USE DEF Good
<1>1. ASSUME Rest(t) PROVE Others(t)
  BY <1>1 DEF Rest, Others
<1>2. CASE startm(t)
  <2>1. StartmDoes(t)
    BY <1>2, startmDoes
  <2>2. ASSUME NEW m \in M \ {t}, st[m].pc = "stopped", \A u \in T \ {t, m} : st'[u] = st[u] PROVE Others(t)
    BY <2>2 DEF Others
  <2> QED
    BY <1>1, <2>1, <2>2 DEF StartmDoes, Goes
<1>3. CASE newm(t)
  <2>1. PICK m \in M \ {t} : NewmDoes(t, m)
    BY <1>3, newmDoes
  <2> QED
    BY <2>1 DEF NewmDoes, Others
<1>4. CASE startmUndo(t)
  BY <1>1, <1>4, startmUndoDoes
<1>5. CASE handoffCas(t)
  BY <1>1, <1>5, handoffCasDoes DEF Calls, Goes
<1>6. CASE handoffLocked(t)
  BY <1>1, <1>6, handoffLockedDoes DEF Goes
<1>7. CASE handoffp(t) \/ injectglist(t) \/ injected(t)
  BY <1>1, <1>7, SteadyShared DEF Steady
<1> QED
  BY <1>2, <1>3, <1>4, <1>5, <1>6, <1>7 DEF SharedNext

(* A thread's own steps touch nobody but sysmon, when they wake it. *)
LEMMA ThreadOthers ==
  ASSUME Good, Asleep, NEW m \in M, ThreadNext(m)
  PROVE  Others(m)
<1> USE DEF Good
<1>0. m # Sysmon /\ Sysmon \in T
  BY SchedAssumption DEF SchedAssumption, T
<1>1. ASSUME \A u \in T \ {m, Sysmon} : st'[u] = st[u],
             To(st'[Sysmon], st[Sysmon], IF sysmonwait THEN "sysmon" ELSE st[Sysmon].pc)
      PROVE  Others(m)
  BY <1>0, <1>1 DEF Others, To, Same, Asleep
<1>2. CASE entersyscall(m)
  BY <1>1, <1>2, entersyscallDoes DEF EnterDoes
<1>3. CASE exitsyscall0(m) /\ idle # {}
  <2>1. Exit0Does(m)
    BY <1>3, exitsyscall0Does
  <2> QED
    BY <1>1, <1>3, <2>1 DEF Exit0Does
<1>4. CASE ~entersyscall(m) /\ (~exitsyscall0(m) \/ idle = {})
  <2>1. Rest(m)
    BY <1>4, ThreadAlone
  <2> QED
    BY <2>1 DEF Rest, Others
<1> QED
  BY <1>2, <1>3, <1>4

(* sysmon's own steps touch no other thread. *)
LEMMA SysmonOthers ==
  ASSUME Good, SysmonNext
  PROVE  Others(Sysmon)
<1> USE DEF Good
<1>0. Sysmon \in T
  BY DEF T
<1>1. ASSUME Rest(Sysmon) PROVE Others(Sysmon)
  BY <1>1 DEF Rest, Others
<1>2. CASE retakeCas
  BY <1>1, <1>2, retakeCasDoes DEF RetakenDoes
<1>3. CASE ~retakeCas
  BY <1>1, <1>3, SteadySysmon DEF Steady
<1> QED
  BY <1>2, <1>3

(* entersyscall wakes sysmon, and sysmon sleeps only when every P is idle  *)
(* (proc.go:2918-2925, 4344-4352).                                         *)
LEMMA RestedStep ==
  ASSUME IInv, Rested, [Next]_vars
  PROVE  Rested'
<1> USE DEF IInv, Good
<1>1. ASSUME NEW t \in T, SharedNext(t) PROVE Rested'
  <2>1. sysmonwait' = sysmonwait /\ insys' = insys
    BY Zenon, <1>1 DEF SharedNext, startm, startmUndo, newm, handoffp, handoffCas, handoffLocked, injectglist, injected, mon
  <2> QED
    BY <2>1 DEF Rested
<1>2. ASSUME NEW m \in M, ThreadNext(m) PROVE Rested'
  <2>1. CASE entersyscall(m)
    BY <2>1 DEF entersyscall, Rested
  <2>2. CASE exitsyscall(m)
    BY <2>2 DEF exitsyscall, Rested, mon
  <2>3. CASE exitsyscall0(m)
    BY <2>3 DEF exitsyscall0, Rested
  <2>4. CASE ~entersyscall(m) /\ ~exitsyscall(m) /\ ~exitsyscall0(m)
    <3>1. sysmonwait' = sysmonwait /\ insys' = insys
      BY Zenon, <1>2, <2>4 DEF ThreadNext, ready, readied, wakep, park, parkOnNet, gosched, entersyscallblock,
       schedule, findrunnable, netpoll, spin, steal, stop, unspin, recheck, rechecked, respin, netblock, polling,
       polled, pollPidle, resetspinning, stopm, mon
    <3> QED
      BY <3>1 DEF Rested
  <2> QED
    BY <2>1, <2>2, <2>3, <2>4
<1>3. CASE SysmonNext
  <2>1. CASE sysmonSleeps
    <3>1. \A p \in P : p \notin insys
      BY <2>1 DEF sysmonSleeps, Owned, OwnedAt
    <3> QED
      BY <2>1, <3>1 DEF sysmonSleeps, Rested, TypeOK
  <2>2. CASE ~sysmonSleeps
    <3>1. (sysmonwait' => sysmonwait) /\ insys' \subseteq insys
      <4>1. CASE retakeCas
        BY <4>1, Zenon DEF retakeCas, mon
      <4>2. CASE sysmonTimeout
        BY <4>2 DEF sysmonTimeout
      <4>3. CASE ~retakeCas /\ ~sysmonTimeout
        <5>1. sysmonwait' = sysmonwait /\ insys' = insys
          BY <1>3, <2>2, <4>3 DEF SysmonNext, sysmonPolls, incidlelocked, retake, uncount, mon
        <5> QED
          BY <5>1
      <4> QED
        BY <4>1, <4>2, <4>3
    <3> QED
      BY <3>1 DEF Rested
  <2> QED
    BY <2>1, <2>2
<1>4. CASE UNCHANGED vars
  BY <1>4 DEF vars, mon, Rested
<1> QED
  BY <1>1, <1>2, <1>3, <1>4, NextSplit

(* netpollWaiters is raised before a goroutine waits for the network and never lowered. *)
LEMMA WaitingStep ==
  ASSUME TypeOK, Waiting, [Next]_vars
  PROVE  Waiting'
<1>0. netwait \in Nat
  BY DEF TypeOK
<1>1. ASSUME UNCHANGED <<netwait, waiters>> PROVE Waiting'
  BY <1>1 DEF Waiting
<1>2. ASSUME NEW n \in 0 .. netwait, netwait' = netwait - n, waiters' = waiters PROVE Waiting'
  BY <1>0, <1>2 DEF Waiting
<1>3. ASSUME NEW t \in T, SharedNext(t) PROVE Waiting'
  BY Zenon, <1>1, <1>3 DEF SharedNext, startm, startmUndo, newm, handoffp, handoffCas, handoffLocked, injectglist, injected, net
<1>4. ASSUME NEW m \in M, ThreadNext(m) PROVE Waiting'
  <2>1. CASE parkOnNet(m)
    BY <2>1 DEF parkOnNet, Waiting
  <2>2. CASE netpoll(m)
    BY <1>2, <2>2 DEF netpoll
  <2>3. CASE polling(m)
    <3>1. PICK n \in 1 .. netwait : netwait' = netwait - n
      BY <2>3 DEF polling
    <3>2. waiters' = waiters
      BY <2>3 DEF polling
    <3>3. n \in 0 .. netwait
      BY <1>0, <3>1
    <3> QED
      BY <1>2, <3>1, <3>2, <3>3
  <2>4. CASE ~parkOnNet(m) /\ ~netpoll(m) /\ ~polling(m)
    BY Zenon, <1>1, <1>4, <2>4 DEF ThreadNext, ready, readied, wakep, park, gosched, entersyscall, entersyscallblock, exitsyscall,
       exitsyscall0, schedule, findrunnable, spin, steal, stop, unspin, recheck, rechecked, respin, netblock,
       polled, pollPidle, resetspinning, stopm, net
  <2> QED
    BY <2>1, <2>2, <2>3, <2>4
<1>5. CASE SysmonNext
  <2>1. CASE sysmonPolls
    <3>1. PICK n \in 1 .. netwait : netwait' = netwait - n
      BY <2>1 DEF sysmonPolls
    <3>2. n \in 0 .. netwait /\ waiters' = waiters
      BY <1>0, <3>1, <2>1 DEF sysmonPolls
    <3> QED
      BY <1>2, <3>1, <3>2
  <2>2. CASE ~sysmonPolls
    BY <1>1, <1>5, <2>2 DEF SysmonNext, sysmonSleeps, sysmonTimeout, incidlelocked, retake, retakeCas, uncount, net
  <2> QED
    BY <2>1, <2>2
<1>6. CASE UNCHANGED vars
  BY <1>1, <1>6 DEF vars, net
<1> QED
  BY <1>3, <1>4, <1>5, <1>6, NextSplit

(* sched.lastpoll is set to 0 by the thread that blocks in netpoll and set *)
(* again when it returns (proc.go:2461-2474).                              *)
LEMMA BlockingStep ==
  ASSUME Good, Asleep, Blocking, [Next]_vars
  PROVE  Blocking'
<1> USE DEF Good
<1>0. ASSUME NEW a \in T, Others(a), st[a].pc \notin {"polling", "polled"}, lastpoll' = lastpoll PROVE Blocking'
  BY <1>0 DEF Others, Blocking, T
<1>1. ASSUME NEW t \in T, SharedNext(t) PROVE Blocking'
  <2>1. lastpoll' = lastpoll /\ st[t].pc \notin {"polling", "polled"}
    BY Zenon, <1>1 DEF SharedNext, startm, startmUndo, newm, handoffp, handoffCas, handoffLocked, injectglist, injected, net, At
  <2> QED
    BY <1>0, <1>1, <2>1, SharedOthers
<1>2. ASSUME NEW m \in M, ThreadNext(m) PROVE Blocking'
  <2>0. m \in T /\ Others(m)
    BY <1>2, ThreadOthers DEF T
  <2>1. CASE netblock(m)
    <3>1. st[m].pc = "netblock" /\ Goto(m, IF lastpoll THEN "polling" ELSE "stopm")
      BY <2>1 DEF netblock, At
    <3>2. CASE lastpoll
      <4>1. Goes(m, "polling")
        BY <2>0, <3>1, <3>2, Going DEF PC, NoP
      <4> QED
        BY <4>1 DEF Goes, To, Blocking
    <3>3. CASE ~lastpoll
      BY <2>0, <3>1, <3>3 DEF Others, Blocking, T
    <3> QED
      BY <3>2, <3>3
  <2>2. CASE polling(m)
    <3>1. st'[m].pc = "polled"
      BY <2>2, pollingDoes DEF PollDoes
    <3> QED
      BY <3>1 DEF Blocking
  <2>3. CASE polled(m)
    BY <2>3 DEF polled, Blocking
  <2>4. CASE ~netblock(m) /\ ~polling(m) /\ ~polled(m)
    <3>1. lastpoll' = lastpoll /\ st[m].pc \notin {"polling", "polled"}
      BY Zenon, <1>2, <2>4 DEF ThreadNext, ready, readied, wakep, park, parkOnNet, gosched, entersyscall, entersyscallblock,
       exitsyscall, exitsyscall0, schedule, findrunnable, netpoll, spin, steal, stop, unspin, recheck, rechecked,
       respin, pollPidle, resetspinning, stopm, net, At
    <3> QED
      BY Zenon, <1>0, <2>0, <3>1
  <2> QED
    BY <2>1, <2>2, <2>3, <2>4
<1>3. CASE SysmonNext
  <2>1. lastpoll' = lastpoll /\ st[Sysmon].pc \notin {"polling", "polled"} /\ Sysmon \in T
    BY Zenon, <1>3 DEF SysmonNext, sysmonSleeps, sysmonTimeout, sysmonPolls, incidlelocked, retake, retakeCas, uncount, net, At, T
  <2> QED
    BY <1>0, <1>3, <2>1, SysmonOthers
<1>4. CASE UNCHANGED vars
  BY <1>4 DEF vars, net, Blocking
<1> QED
  BY <1>1, <1>2, <1>3, <1>4, NextSplit

(* While every P is idle nobody has one. *)
LEMMA Full ==
  ASSUME Owned', idle' = P, NEW t \in T, NEW p \in P
  PROVE  ~Has(st'[t], p) /\ p \notin insys'
BY DEF Owned, OwnedAt

(* handoffp gives up the last P only when a thread polls (proc.go:2129-2135). *)
LEMMA SharedWatching ==
  ASSUME IInv, IInv', Blocking, Watching, NEW t \in T, SharedNext(t), idle' = P
  PROVE  Watching'
<1> USE DEF IInv, Good
<1>1. waiters' = waiters /\ Others(t) /\ st[t].pc \notin Pollers
  <2>1. st[t].pc \in Starting \cup Handing \cup Injecting /\ waiters' = waiters
    BY Zenon DEF SharedNext, startm, startmUndo, newm, handoffp, handoffCas, handoffLocked, injectglist, injected, net,
         At, Starting, Handing, Injecting
  <2> QED
    BY <2>1, SharedOthers DEF Starting, Handing, Injecting, Pollers
<1>2. ASSUME NEW m \in M, st[m].pc \in Pollers PROVE st'[m].pc \in Pollers
  BY <1>1, <1>2 DEF Others, T, Pollers
<1>3. CASE handoffLocked(t) /\ idle # P
  <2>1. idle' = idle \cup {st[t].hp} /\ ~LastToPoll
    BY <1>3, handoffLockedDoes
  <2>2. st[t].pc = "handoffLocked" /\ st[t].hp \in P
    BY <1>3 DEF handoffLocked, At, Shapes, Fits, Shape, Handing
  <2>3. st[t].hp \notin idle
    BY <2>2 DEF Owned, OwnedAt, Has
  <2>4. idle = P \ {st[t].hp}
    BY <2>1, <2>3 DEF TypeOK
  <2>5. Cardinality(idle) = Cardinality(P) - 1
    BY <2>2, <2>4, SchedAssumption, FS_RemoveElement DEF SchedAssumption
  <2>6. ~lastpoll
    BY <2>1, <2>5 DEF LastToPoll
  <2>7. PICK m \in M : st[m].pc \in {"polling", "polled"}
    BY <2>6 DEF Blocking
  <2> QED
    BY <1>2, <2>7 DEF Watching, Pollers
<1>4. CASE idle = P
  BY <1>1, <1>2, <1>4 DEF Watching
<1>5. CASE ~handoffLocked(t) /\ idle # P
  <2>1. idle' \subseteq idle
    <3>1. CASE startm(t)
      BY <3>1 DEF startm
    <3>2. CASE ~startm(t)
      BY <1>5, <3>2 DEF SharedNext, startmUndo, newm, handoffp, handoffCas, injectglist, injected
    <3> QED
      BY <3>1, <3>2
  <2> QED
    BY <1>5, <2>1 DEF TypeOK
<1> QED
  BY <1>3, <1>4, <1>5

(* A thread that gives up the last P has still to pass the poll of the     *)
(* network before it stops (proc.go:2461).                                 *)
LEMMA ThreadWatching ==
  ASSUME IInv, IInv', Blocking, Watching, NEW m \in M, ThreadNext(m), idle' = P
  PROVE  Watching'
<1> USE DEF IInv, Good
<1>0. /\ m \in T /\ Others(m) /\ Fits(m, st[m]) /\ P # {}
      /\ \A p \in P : ~Has(st'[m], p)
  BY ThreadOthers, Full DEF T, Shapes, TypeOK
<1>1. ASSUME st'[m].pc \in Pollers PROVE Watching'
  BY <1>1 DEF Watching
<1>2. ASSUME idle = P, waiters' = waiters, st[m].pc \notin Pollers PROVE Watching'
  BY <1>0, <1>2 DEF Watching, Others, T, Pollers
<1>3. ASSUME waiters, waiters' = waiters, ParksDoes(m) PROVE Watching'
  BY <1>1, <1>3 DEF ParksDoes, Pollers
<1>4. ASSUME ~waiters, waiters' = waiters PROVE Watching'
  BY <1>4 DEF Watching
<1>5. CASE parkOnNet(m)
  <2>1. Goes(m, "schedule") /\ st[m].p \in P
    BY <1>0, <1>5, Going DEF parkOnNet, At, Fits, Shape, PC, WithP
  <2> QED
    BY <1>0, <2>1 DEF Goes, To, Same, Has
<1>6. CASE stop(m)
  <2>1. waiters' = waiters
    BY <1>6 DEF stop, net
  <2>2. CASE idle = P
    BY <1>2, <1>6, <2>1, <2>2 DEF stop, At, Pollers
  <2>3. CASE idle # P
    <3>1. StopsDoes(m)
      BY <1>6, <2>3, stopDoes
    <3> QED
      BY <1>1, <3>1 DEF StopsDoes, Pollers
  <2> QED
    BY <2>2, <2>3
<1>7. CASE unspin(m)
  BY <1>1, <1>7, unspinDoes DEF Looks, Pollers
<1>8. CASE recheck(m)
  <2>1. st'[m].pc \in {"rechecked", "recheck"} \/ ParksDoes(m)
    BY <1>8, recheckDoes DEF Looks
  <2>2. waiters' = waiters
    BY <1>8 DEF recheck, net
  <2> QED
    BY <1>1, <1>3, <1>4, <2>1, <2>2 DEF Pollers
<1>9. CASE rechecked(m)
  <2>1. (\E p \in idle : idle' = idle \ {p}) \/ ParksDoes(m)
    BY <1>9, recheckedDoes
  <2>2. ParksDoes(m)
    BY <2>1 DEF TypeOK
  <2>3. waiters' = waiters
    BY <1>9 DEF rechecked, net
  <2> QED
    BY <1>3, <1>4, <2>2, <2>3
<1>10. CASE netblock(m)
  <2>1. st[m].pc = "netblock" /\ Goto(m, IF lastpoll THEN "polling" ELSE "stopm")
    BY <1>10 DEF netblock, At
  <2>2. CASE lastpoll
    <3>1. Goes(m, "polling")
      BY <1>0, <2>1, <2>2, Going DEF PC, NoP
    <3> QED
      BY <1>1, <3>1 DEF Goes, To, Pollers
  <2>3. CASE ~lastpoll
    <3>1. PICK u \in M : st[u].pc \in {"polling", "polled"}
      BY <2>3 DEF Blocking
    <3>2. st'[u].pc \in Pollers
      BY <1>0, <2>1, <3>1 DEF Others, T, Pollers
    <3> QED
      BY <3>2 DEF Watching
  <2> QED
    BY <2>2, <2>3
<1>11. CASE polling(m)
  BY <1>1, <1>11, pollingDoes DEF PollDoes, Pollers
<1>12. CASE polled(m)
  <2>1. Goes(m, "pollPidle")
    BY <1>0, <1>12, Going DEF polled, PC, NoP
  <2> QED
    BY <1>1, <2>1 DEF Goes, To, Pollers
<1>13. CASE pollPidle(m)
  <2>1. (\E p \in idle : idle' = idle \ {p}) \/ (idle = {} /\ idle' = idle)
    BY <1>13, pollPidleDoes DEF PidleDoes
  <2> QED
    BY <1>0, <2>1 DEF TypeOK
<1>14. CASE ~parkOnNet(m) /\ ~stop(m) /\ ~unspin(m) /\ ~recheck(m) /\ ~rechecked(m) /\ ~netblock(m) /\ ~polling(m)
            /\ ~polled(m) /\ ~pollPidle(m)
  <2>1. waiters' = waiters /\ st[m].pc \notin Pollers
    BY Zenon, <1>14 DEF ThreadNext, ready, readied, wakep, park, gosched, entersyscall, entersyscallblock,
       exitsyscall, exitsyscall0, schedule, findrunnable, netpoll, spin, steal, respin, resetspinning, stopm, net, At, Pollers
  <2>2. idle' \subseteq idle
    <3>1. CASE exitsyscall0(m)
      BY Zenon, <3>1 DEF exitsyscall0
    <3>2. CASE ~exitsyscall0(m)
      BY Zenon, <1>14, <3>2 DEF ThreadNext, ready, readied, wakep, park, gosched, entersyscall, entersyscallblock,
         exitsyscall, schedule, findrunnable, netpoll, spin, steal, respin, resetspinning, stopm
    <3> QED
      BY <3>1, <3>2
  <2> QED
    BY Zenon, <1>2, <2>1, <2>2 DEF TypeOK
<1> QED
  BY <1>5, <1>6, <1>7, <1>8, <1>9, <1>10, <1>11, <1>12, <1>13, <1>14

(* Hence, whenever all Ps are idle, somebody looks at the network or is about to. *)
LEMMA WatchingStep ==
  ASSUME IInv, IInv', Blocking, Watching, [Next]_vars
  PROVE  Watching'
<1> USE DEF IInv, Good
<1>1. CASE idle' # P
  BY <1>1 DEF Watching
<1>2. CASE idle' = P
  <2>1. ASSUME NEW t \in T, SharedNext(t) PROVE Watching'
    BY <1>2, <2>1, SharedWatching
  <2>2. ASSUME NEW m \in M, ThreadNext(m) PROVE Watching'
    BY <1>2, <2>2, ThreadWatching
  <2>3. CASE SysmonNext
    <3>1. waiters' = waiters /\ idle' = idle /\ Sysmon \notin M
      BY Zenon, <2>3, SchedAssumption DEF SchedAssumption, SysmonNext, sysmonSleeps, sysmonTimeout, sysmonPolls, incidlelocked,
         retake, retakeCas, uncount, net
    <3>2. Others(Sysmon)
      BY <2>3, SysmonOthers
    <3> QED
      BY <1>2, <3>1, <3>2 DEF Watching, Others, T, Pollers
  <2>4. CASE UNCHANGED vars
    BY <2>4 DEF vars, net, Watching
  <2> QED
    BY <2>1, <2>2, <2>3, <2>4, NextSplit
<1> QED
  BY <1>1, <1>2

(* handoffp looks at the global queue with the lock; injectglist starts    *)
(* threads after it put goroutines there.                                  *)
LEMMA SharedFetched ==
  ASSUME IInv, IInv', Fetched, NEW t \in T, SharedNext(t), idle' = P
  PROVE  Fetched'
<1> USE DEF IInv, Good
<1>0. /\ Others(t) /\ Fits(t, st[t]) /\ st[t] \in Thread /\ P # {} /\ glob \in Nat
      /\ \A p \in P : ~Has(st'[t], p)
  BY SharedOthers, Full DEF Shapes, TypeOK
<1>1. ASSUME Waker(st'[t]) PROVE Fetched'
  BY <1>1 DEF Fetched
<1>2. ASSUME idle = P, glob' = glob, ~Waker(st[t]) PROVE Fetched'
  BY <1>0, <1>2 DEF Fetched, Others, Waker
<1>3. CASE startm(t)
  <2>1. (\E p \in P : idle' = idle \ {p}) \/ (idle = {} /\ idle' = idle)
    BY <1>3, startmDoes DEF StartmDoes
  <2> QED
    BY <1>0, <2>1 DEF TypeOK
<1>4. CASE handoffLocked(t)
  <2>1. Goes(t, "startm") \/ (glob = 0 /\ glob' = glob)
    BY <1>4, handoffLockedDoes DEF handoffLocked
  <2> QED
    BY <1>1, <2>1 DEF Goes, To, Waker, Fetched
<1>5. CASE injectglist(t)
  <2>1. Goes(t, "injected") /\ st[t].n > 0
    BY <1>0, <1>5, Going DEF injectglist, PC, Injecting, At, Fits, Shape
  <2> QED
    BY <1>1, <2>1 DEF Goes, To, Same, Waker
<1>6. CASE injected(t)
  <2>1. idle' = idle /\ glob' = glob /\ st[t].pc = "injected" /\ st[t].n \in Nat
    BY <1>0, <1>6 DEF injected, At, Thread
  <2>2. CASE st[t].n # 0
    <3>1. idle # {}
      BY <1>0, <2>1
    <3>2. st'[t].pc = "startm"
      BY <1>6, <2>2, <3>1, injectedDoes DEF InjectedDoes
    <3> QED
      BY <1>1, <3>2 DEF Waker
  <2>3. CASE st[t].n = 0
    BY <1>2, <2>1, <2>3 DEF Waker
  <2> QED
    BY <2>2, <2>3
<1>7. CASE startmUndo(t) \/ newm(t) \/ handoffp(t) \/ handoffCas(t)
  BY <1>2, <1>7 DEF startmUndo, newm, handoffp, handoffCas, At, Waker
<1> QED
  BY <1>3, <1>4, <1>5, <1>6, <1>7 DEF SharedNext

(* A thread gives up its P only when the global queue is empty under the   *)
(* lock (proc.go:2347-2364); exitsyscall0 puts a goroutine there only      *)
(* while no P is idle.                                                     *)
LEMMA ThreadFetched ==
  ASSUME IInv, IInv', Fetched, NEW m \in M, ThreadNext(m), idle' = P
  PROVE  Fetched'
<1> USE DEF IInv, Good
<1>0. /\ m \in T /\ Others(m) /\ Fits(m, st[m]) /\ P # {} /\ glob \in Nat
      /\ \A p \in P : ~Has(st'[m], p)
  BY ThreadOthers, Full DEF T, Shapes, TypeOK
<1>1. ASSUME st'[m].p \in P, st'[m].pc # "syscall" PROVE FALSE
  BY <1>0, <1>1 DEF Has
<1>2. ASSUME NEW l \in PC, Goto(m, l), l # "syscall", st[m].p \in P PROVE FALSE
  <2>1. Goes(m, l)
    BY <1>0, <1>2, Going
  <2> QED
    BY <1>1, <1>2, <2>1 DEF Goes, To, Same
<1>3. ASSUME TakeShare(m), st[m].p \in P PROVE FALSE
  <2>1. HasOne(st[m]) \in PC /\ HasOne(st[m]) # "syscall"
    BY DEF HasOne, PC, WithP
  <2> QED
    BY <1>2, <1>3, <2>1 DEF TakeShare, GotOne
<1>4. CASE gosched(m)
  <2>1. st[m].p \in P /\ "schedule" \in PC
    BY <1>0, <1>4 DEF gosched, At, Fits, Shape, PC, WithP
  <2> QED
    BY <1>2, <1>4, <2>1 DEF gosched
<1>5. CASE exitsyscall0(m)
  <2>1. (\E p \in P : idle' = idle \ {p}) \/ (idle = {} /\ idle' = idle)
    BY <1>5, exitsyscall0Does DEF Exit0Does, TypeOK
  <2> QED
    BY <1>0, <2>1 DEF TypeOK
<1>6. CASE schedule(m) \/ findrunnable(m)
  <2>1. st[m].p \in P /\ {"findrunnable", "netpoll", "spin", HasOne(st[m])} \subseteq PC \ {"syscall"}
    BY <1>0, <1>6 DEF schedule, findrunnable, At, Fits, Shape, PC, WithP, HasOne
  <2>2. TakeShare(m) \/ \E l \in {"findrunnable", "netpoll", "spin", HasOne(st[m])} : Goto(m, l)
    BY <1>6 DEF schedule, findrunnable, GotOne
  <2> QED
    BY <1>2, <1>3, <2>1, <2>2
<1>7. CASE stop(m)
  <2>1. st[m].p \in P
    BY <1>0, <1>7 DEF stop, At, Fits, Shape, WithP
  <2>2. glob = 0 /\ glob' = 0
    BY <1>3, <1>7, <2>1 DEF stop
  <2> QED
    BY <2>2 DEF Fetched
<1>8. CASE rechecked(m) \/ pollPidle(m)
  <2>1. glob' = glob /\ ~Waker(st[m]) /\ idle' \subseteq idle
    BY Zenon, <1>8 DEF rechecked, pollPidle, At, Waker
  <2> QED
    BY <1>0, <2>1 DEF Fetched, Others, Waker, TypeOK
<1>9. CASE ~gosched(m) /\ ~exitsyscall0(m) /\ ~schedule(m) /\ ~findrunnable(m) /\ ~stop(m) /\ ~rechecked(m)
           /\ ~pollPidle(m)
  <2>1. glob' = glob /\ idle' = idle /\ ~Waker(st[m])
    BY Zenon, <1>9 DEF ThreadNext, ready, readied, wakep, park, parkOnNet, entersyscall, entersyscallblock,
       exitsyscall, netpoll, spin, steal, unspin, recheck, respin, netblock, polling, polled, resetspinning, stopm,
       At, Waker
  <2> QED
    BY Zenon, <1>0, <2>1 DEF Fetched, Others, Waker
<1> QED
  BY <1>4, <1>5, <1>6, <1>7, <1>8, <1>9

(* Hence the global queue is empty when all Ps are idle, or a thread is about to be started. *)
LEMMA FetchedStep ==
  ASSUME IInv, IInv', Fetched, [Next]_vars
  PROVE  Fetched'
<1> USE DEF IInv, Good
<1>1. CASE idle' # P
  BY <1>1 DEF Fetched
<1>2. CASE idle' = P
  <2>1. ASSUME NEW t \in T, SharedNext(t) PROVE Fetched'
    BY <1>2, <2>1, SharedFetched
  <2>2. ASSUME NEW m \in M, ThreadNext(m) PROVE Fetched'
    BY <1>2, <2>2, ThreadFetched
  <2>3. CASE SysmonNext
    <3>1. glob' = glob /\ idle' = idle /\ ~Waker(st[Sysmon])
      BY Zenon, <2>3 DEF SysmonNext, sysmonSleeps, sysmonTimeout, sysmonPolls, incidlelocked,
         retake, retakeCas, uncount, At, Waker
    <3>2. Others(Sysmon)
      BY <2>3, SysmonOthers
    <3> QED
      BY <1>2, <3>1, <3>2 DEF Fetched, Others, T, Waker
  <2>4. CASE UNCHANGED vars
    BY <2>4 DEF vars, Fetched
  <2> QED
    BY <2>1, <2>2, <2>3, <2>4, NextSplit
<1> QED
  BY <1>1, <1>2

(* Every step keeps what the scheduler needs to come to rest. *)
LEMMA RestInvStep == IInv /\ RestInv /\ [Next]_vars => RestInv'
<1> SUFFICES ASSUME IInv, RestInv, [Next]_vars PROVE RestInv'
  OBVIOUS
<1>1. IInv'
  BY IInvStep
<1> QED
  BY <1>1, RestedStep, BlockingStep, WatchingStep, WaitingStep, FetchedStep DEF RestInv, IInv, Good

(* In every reachable state: sysmon sleeps only while no P is in a system  *)
(* call, lastpoll is 0 only while a thread polls, and when all Ps are idle *)
(* no global work and no wait for the network is without a thread that     *)
(* sees to it (proc.go:2124-2135, 2347-2364, 2461-2474, 2918-2925).        *)
THEOREM Resting == Spec => [](IInv /\ RestInv)
<1>1. Init => RestInv
  BY DEF Init, RestInv, Rested, Blocking, Watching, Waiting, Fetched
<1> QED
  BY <1>1, InitIInv, IInvStep, RestInvStep, PTL DEF Spec

(* Together the invariants say that nothing is left when the scheduler is at rest. *)
LEMMA RestInvStranded == IInv /\ RestInv => NoStrandedWork
<1> SUFFICES ASSUME IInv, RestInv PROVE NoStrandedWork
  OBVIOUS
<1> USE DEF IInv, Good, RestInv
<1>1. NetworkIsPolled
  BY DEF NetworkIsPolled, Quiet, Waiting, Watching, Pollers
<1>2. ASSUME Quiet, Running = {}, insys = {} \/ sysmonwait PROVE glob = 0 /\ NoWork
  <2>1. insys = {}
    BY <1>2 DEF Rested
  <2>2. ASSUME NEW t \in T PROVE st[t].pc \in {"stopped", "fresh", "syscall", "polling", "sysmon", "asleep"}
    BY <1>2 DEF Quiet, Running, T
  <2>3. ASSUME NEW t \in T, NEW p \in P PROVE ~Has(st[t], p)
    <3>1. Fits(t, st[t]) /\ st[t].pc \in {"stopped", "fresh", "syscall", "polling", "sysmon", "asleep"} /\ p # None
      BY <2>2, SchedAssumption DEF Shapes, SchedAssumption
    <3> QED
      BY <3>1 DEF Fits, Shape, NoP, Monitoring, Handing, Has
  <2>4. idle = P
    BY <2>1, <2>3 DEF Owned, OwnedAt, TypeOK
  <2>5. NoWork
    BY <2>4 DEF NoWork, Empty
  <2>6. ~\E t \in T : Waker(st[t])
    BY <2>2 DEF Waker
  <2>7. glob = 0
    BY <2>4, <2>6 DEF Fetched, TypeOK
  <2> QED
    BY <2>5, <2>7
<1> QED
  BY <1>1, <1>2 DEF NoStrandedWork

(* When nothing runs and the scheduler has come to rest no goroutine is    *)
(* runnable, but in the queue of a P in a system call, for which sysmon is *)
(* awake; and while all Ps are idle and a goroutine waits for the network, *)
(* a thread is blocked in netpoll.                                         *)
THEOREM NothingStranded == Spec => []NoStrandedWork
BY Resting, RestInvStranded, PTL

----------------------------------------------------------------------------
(* Where the goroutines are: parked, waiting for the network, in a queue,  *)
(* or with a thread, which may run one and have others in its hand.        *)
Hand(s) == IF s.pc \in {"polled", "pollPidle", "incidlelocked", "inject"} THEN s.n ELSE 0
Carries(s) == \/ s.pc \in {"run", "readied", "wakep", "resetspinning", "syscall", "exit0"}
              \/ s.pc \in Starting \cup Handing /\ s.ret \in {"run", "syscall"}
              \/ Injector(s) /\ s.fin \in {"got", "run"}
Load(s) == Hand(s) + IF Carries(s) THEN 1 ELSE 0
Loads == [t \in T |-> Load(st[t])]

(* The sum of a function, as the size of a set of units. *)
Units(S, f) == {u \in S \X Nat : u[2] < f[u[1]]}
Total(S, f) == Cardinality(Units(S, f))

Conserved == /\ IsFiniteSet(Units(P, loc)) /\ IsFiniteSet(Units(T, Loads))
             /\ NG = parked + netwait + glob + Total(P, loc) + Total(T, Loads)

(* A column of n units has n elements. *)
LEMMA Column ==
  ASSUME NEW x, NEW n \in Nat
  PROVE  IsFiniteSet({x} \X (0 .. n - 1)) /\ Cardinality({x} \X (0 .. n - 1)) = n
<1>1. IsFiniteSet({x}) /\ Cardinality({x}) = 1
  BY FS_Singleton
<1>2. n - 1 \in Int /\ 0 \in Int
  OBVIOUS
<1>3. IsFiniteSet(0 .. n - 1) /\ Cardinality(0 .. n - 1) = IF 0 > n - 1 THEN 0 ELSE (n - 1) - 0 + 1
  BY <1>2, FS_Interval
<1>4. Cardinality(0 .. n - 1) = n
  BY <1>3
<1>5. IsFiniteSet({x} \X (0 .. n - 1)) /\ Cardinality({x} \X (0 .. n - 1)) = 1 * n
  BY <1>1, <1>3, <1>4, FS_Product
<1> QED
  BY <1>5

(* The units of a function are those of one argument and the others. *)
LEMMA TotalSplits ==
  ASSUME NEW S, NEW f \in [S -> Nat], NEW x \in S,
         NEW R, R = {u \in Units(S, f) : u[1] # x}, IsFiniteSet(R)
  PROVE  IsFiniteSet(Units(S, f)) /\ Total(S, f) = Cardinality(R) + f[x] /\ Cardinality(R) \in Nat
<1> DEFINE C == {x} \X (0 .. f[x] - 1)
<1>1. IsFiniteSet(C) /\ Cardinality(C) = f[x] /\ f[x] \in Nat
  BY Column
<1>2. Units(S, f) = R \cup C
  <2>1. ASSUME NEW u \in C PROVE u \in Units(S, f)
    <3>1. PICK i \in 0 .. f[x] - 1 : u = <<x, i>>
      OBVIOUS
    <3>2. i \in Nat /\ i < f[x]
      BY <1>1, <3>1
    <3> QED
      BY <3>1, <3>2 DEF Units
  <2>2. ASSUME NEW u \in Units(S, f), u[1] = x PROVE u \in C
    <3>1. PICK y \in S, i \in Nat : u = <<y, i>>
      BY DEF Units
    <3>2. y = x /\ i < f[x]
      BY <3>1, <2>2 DEF Units
    <3>3. i \in 0 .. f[x] - 1
      BY <1>1, <3>2
    <3> QED
      BY <3>1, <3>2, <3>3
  <2> QED
    BY <2>1, <2>2
<1>3. R \cap C = {}
  OBVIOUS
<1> HIDE DEF C
<1>4. /\ IsFiniteSet(R \cup C)
      /\ Cardinality(R \cup C) = Cardinality(R) + Cardinality(C) - Cardinality(R \cap C)
  BY <1>1, FS_Union
<1>5. Cardinality(R \cap C) = 0 /\ Cardinality(R) \in Nat
  BY <1>3, FS_EmptySet, FS_CardinalityType
<1>6. Cardinality(R \cup C) = Cardinality(R) + f[x]
  BY <1>1, <1>4, <1>5
<1> QED
  BY <1>2, <1>4, <1>5, <1>6, Zenon DEF Total

(* When a function changes at one argument, its sum changes by as much. *)
LEMMA TotalChanges ==
  ASSUME NEW S, NEW f \in [S -> Nat], NEW g \in [S -> Nat], NEW x \in S,
         \A y \in S \ {x} : g[y] = f[y], IsFiniteSet(Units(S, f))
  PROVE  /\ IsFiniteSet(Units(S, g))
         /\ Total(S, g) = Total(S, f) + g[x] - f[x] /\ Total(S, f) \in Nat /\ Total(S, g) \in Nat
<1> DEFINE R == {u \in Units(S, f) : u[1] # x}
<1>1. IsFiniteSet(R)
  BY FS_Subset
<1>2. R = {u \in Units(S, g) : u[1] # x}
  BY DEF Units
<1> HIDE DEF R
<1>3. Total(S, f) = Cardinality(R) + f[x] /\ Cardinality(R) \in Nat
  <2>1. R = {u \in Units(S, f) : u[1] # x}
    BY DEF R
  <2> QED
    BY <1>1, <2>1, TotalSplits
<1>4. Total(S, g) = Cardinality(R) + g[x] /\ IsFiniteSet(Units(S, g))
  BY <1>1, <1>2, TotalSplits
<1>5. f[x] \in Nat /\ g[x] \in Nat
  OBVIOUS
<1> QED
  BY <1>3, <1>4, <1>5

(* Nothing amounts to 0. *)
LEMMA TotalZero ==
  ASSUME NEW S, NEW f, \A x \in S : f[x] = 0
  PROVE  IsFiniteSet(Units(S, f)) /\ Total(S, f) = 0
<1>1. Units(S, f) = {}
  BY DEF Units
<1> QED
  BY <1>1, FS_EmptySet DEF Total

(* A thread has a natural number of goroutines. *)
LEMMA LoadIsNat ==
  ASSUME NEW s, s.n \in Nat
  PROVE  Load(s) \in Nat
<1>1. Hand(s) \in Nat
  BY DEF Hand
<1>2. (IF Carries(s) THEN 1 ELSE 0) \in Nat
  OBVIOUS
<1> HIDE DEF Carries, Hand
<1> QED
  BY <1>1, <1>2 DEF Load

(* Where the goroutines go in a step. *)
LEMMA LoadsAre ==
  ASSUME TypeOK
  PROVE  /\ loc \in [P -> Nat] /\ Loads \in [T -> Nat] /\ \A t \in T : Loads[t] = Load(st[t])
         /\ parked \in Nat /\ netwait \in Nat /\ glob \in Nat
<1>1. \A t \in T : Load(st[t]) \in Nat
  <2>1. \A t \in T : st[t].n \in Nat
    BY DEF TypeOK, Thread
  <2> QED
    BY <2>1, LoadIsNat
<1> QED
  BY <1>1 DEF TypeOK, Loads

(* When no thread gets or loses any, the whole is the same. *)
LEMMA LoadsSame ==
  ASSUME TypeOK, TypeOK', \A t \in T : Load(st'[t]) = Load(st[t])
  PROVE  Loads' = Loads
<1>1. Loads \in [T -> Nat] /\ \A t \in T : Loads[t] = Load(st[t])
  BY LoadsAre
<1>2. \A t \in T : Loads'[t] = Load(st'[t])
  BY DEF Loads
<1>3. Loads' = [t \in T |-> Load(st'[t])] /\ Loads = [t \in T |-> Load(st[t])]
  BY DEF Loads
<1> QED
  BY <1>3

(* One thread or none gets or loses some, *)
LEMMA LoadsOne ==
  ASSUME TypeOK, TypeOK', IsFiniteSet(Units(T, Loads)), NEW t \in T, \A u \in T \ {t} : Load(st'[u]) = Load(st[u])
  PROVE  /\ IsFiniteSet(Units(T, Loads'))
         /\ Total(T, Loads') = Total(T, Loads) + Load(st'[t]) - Load(st[t])
         /\ Total(T, Loads) \in Nat /\ Total(T, Loads') \in Nat
         /\ Load(st'[t]) \in Nat /\ Load(st[t]) \in Nat
<1>1. Loads \in [T -> Nat] /\ \A u \in T : Loads[u] = Load(st[u])
  BY LoadsAre
<1>2. \A u \in T : Load(st'[u]) \in Nat
  <2>1. \A u \in T : st'[u].n \in Nat
    BY DEF TypeOK, Thread
  <2> QED
    BY <2>1, LoadIsNat
<1>3. Loads' = [u \in T |-> Load(st'[u])]
  BY DEF Loads
<1>4. Loads' \in [T -> Nat] /\ \A u \in T : Loads'[u] = Load(st'[u])
  BY <1>2, <1>3
<1> HIDE DEF Loads, Load
<1>5. \A u \in T \ {t} : Loads'[u] = Loads[u]
  BY <1>1, <1>4
<1>6. /\ IsFiniteSet(Units(T, Loads'))
      /\ Total(T, Loads') = Total(T, Loads) + Loads'[t] - Loads[t]
      /\ Total(T, Loads) \in Nat /\ Total(T, Loads') \in Nat
  BY <1>1, <1>4, <1>5, TotalChanges
<1> QED
  BY <1>1, <1>2, <1>4, <1>6

(* one queue or none. *)
LEMMA QueueOne ==
  ASSUME TypeOK, TypeOK', IsFiniteSet(Units(P, loc)), NEW p \in P, \A q \in P \ {p} : loc'[q] = loc[q]
  PROVE  /\ IsFiniteSet(Units(P, loc'))
         /\ Total(P, loc') = Total(P, loc) + loc'[p] - loc[p]
         /\ Total(P, loc) \in Nat /\ Total(P, loc') \in Nat /\ loc[p] \in Nat /\ loc'[p] \in Nat
<1>1. loc \in [P -> Nat] /\ loc' \in [P -> Nat]
  BY DEF TypeOK
<1> QED
  BY <1>1, TotalChanges

(* What the whole amounts to. *)
LEMMA ConservedBy ==
  ASSUME TypeOK, TypeOK', Conserved, NEW t \in T, \A u \in T \ {t} : Load(st'[u]) = Load(st[u]),
         NEW p \in P, \A q \in P \ {p} : loc'[q] = loc[q],
         parked' + netwait' + glob' + loc'[p] + Load(st'[t]) = parked + netwait + glob + loc[p] + Load(st[t])
  PROVE  Conserved'
<1>1. /\ IsFiniteSet(Units(T, Loads'))
      /\ Total(T, Loads') = Total(T, Loads) + Load(st'[t]) - Load(st[t])
      /\ Total(T, Loads) \in Nat /\ Total(T, Loads') \in Nat
      /\ Load(st'[t]) \in Nat /\ Load(st[t]) \in Nat
  BY LoadsOne DEF Conserved
<1>2. /\ IsFiniteSet(Units(P, loc'))
      /\ Total(P, loc') = Total(P, loc) + loc'[p] - loc[p]
      /\ Total(P, loc) \in Nat /\ Total(P, loc') \in Nat /\ loc[p] \in Nat /\ loc'[p] \in Nat
  BY QueueOne DEF Conserved
<1>3. /\ parked \in Nat /\ netwait \in Nat /\ glob \in Nat
      /\ parked' \in Nat /\ netwait' \in Nat /\ glob' \in Nat
  BY DEF TypeOK
<1>4. NG = parked + netwait + glob + Total(P, loc) + Total(T, Loads)
  BY DEF Conserved
<1> HIDE DEF Load
<1>5. NG = parked' + netwait' + glob' + Total(P, loc') + Total(T, Loads')
  BY <1>1, <1>2, <1>3, <1>4
<1> QED
  BY <1>1, <1>2, <1>5 DEF Conserved

(* No goroutine moves. *)
LEMMA ConservedSame ==
  ASSUME TypeOK, TypeOK', Conserved, \A u \in T : Load(st'[u]) = Load(st[u]),
         UNCHANGED <<parked, netwait, glob, loc>>
  PROVE  Conserved'
<1>1. Loads' = Loads
  BY LoadsSame
<1> QED
  BY <1>1 DEF Conserved

(* What returns from startm or handoffp has what it had, *)
LEMMA BackLoads ==
  ASSUME NEW t, NEW r, NEW s, Fits(t, r), r.pc \in Starting \cup Handing, Back(s, r)
  PROVE  Load(s) = Load(r)
<1>1. r.ret \in {"run", "syscall", "uncount", "injected"}
  BY DEF Fits, Shape
<1>2. CASE r.ret = "injected"
  <2>1. s.pc = "injected" /\ s.ret = "" /\ s.fin = r.fin /\ s.n = r.n
    BY <1>2 DEF Back
  <2> QED
    BY <1>2, <2>1 DEF Load, Hand, Carries, Injector, Starting, Handing, Injecting
<1>3. CASE r.ret # "injected"
  <2>1. s.pc = r.ret /\ s.ret = "" /\ s.fin = r.fin /\ s.n = r.n
    BY <1>3 DEF Back
  <2>2. CASE r.ret = "uncount"
    BY <2>1, <2>2 DEF Load, Hand, Carries, Injector, Starting, Handing, Injecting
  <2>3. CASE r.ret \in {"run", "syscall"}
    BY <2>1, <2>3 DEF Load, Hand, Carries, Injector, Starting, Handing, Injecting
  <2> QED
    BY <1>1, <1>3, <2>2, <2>3
<1> QED
  BY <1>2, <1>3

(* and what was just started has nothing. *)
LEMMA StartsLoads ==
  ASSUME NEW s, NEW l \in {"schedule", "findrunnable"}, NEW p, NEW b, Starts(s, l, p, b)
  PROVE  Load(s) = 0
<1>1. s.ret = "" /\ s.n = 0 /\ s.fin = "" /\ s.pc \in {"schedule", "findrunnable"}
  BY DEF Starts
<1>2. ~Carries(s) /\ Hand(s) = 0
  BY <1>1 DEF Hand, Carries, Injector, Starting, Handing, Injecting
<1> QED
  BY <1>2 DEF Load

(* startm and newm move no goroutine: the thread they start comes with none. *)
LEMMA StartingConserved ==
  ASSUME Good, Good', Conserved, NEW t \in T, startm(t) \/ startmUndo(t) \/ newm(t)
  PROVE  Conserved'
<1> USE DEF Good
<1>0. UNCHANGED <<parked, netwait, glob, loc>> /\ Fits(t, st[t]) /\ st[t].pc \in Starting \cup Handing
  BY DEF startm, startmUndo, newm, net, Shapes, At, Starting
<1>1. ASSUME \A u \in T : Load(st'[u]) = Load(st[u]) PROVE Conserved'
  BY <1>0, <1>1, ConservedSame
<1>2. ASSUME Back(st'[t], st[t]), Rest(t) PROVE Conserved'
  <2>1. Load(st'[t]) = Load(st[t])
    BY <1>0, <1>2, BackLoads
  <2> QED
    BY <1>1, <1>2, <2>1 DEF Rest
<1>3. ASSUME NEW m \in M \ {t}, NEW l \in {"schedule", "findrunnable"}, NEW p, NEW b, Back(st'[t], st[t]), Starts(st'[m], l, p, b),
             st[m].pc \in {"stopped", "fresh"}, \A u \in T \ {t, m} : st'[u] = st[u]
      PROVE  Conserved'
  <2>1. Load(st'[t]) = Load(st[t])
    BY <1>0, <1>3, BackLoads
  <2>2. Load(st'[m]) = 0
    BY <1>3, StartsLoads
  <2>3. Fits(m, st[m])
    BY DEF Shapes, T
  <2>4. Load(st[m]) = 0
    BY <1>3, <2>3 DEF Fits, Shape, Load, Hand, Carries, Injector, Starting, Handing, Injecting
  <2> QED
    BY <1>1, <1>3, <2>1, <2>2, <2>4
<1>4. CASE startm(t)
  <2>1. StartmDoes(t) /\ st[t].pc = "startm"
    BY <1>4, startmDoes
  <2>2. ASSUME Goes(t, "undo") PROVE Conserved'
    <3>1. Load(st'[t]) = Load(st[t])
      BY <2>1, <2>2 DEF Goes, To, Same, Load, Hand, Carries, Injector, Starting, Handing, Injecting
    <3> QED
      BY <1>1, <2>2, <3>1 DEF Goes, Rest
  <2>3. ASSUME Rest(t), st'[t].pc = "newm", st'[t].ret = st[t].ret, st'[t].n = st[t].n, st'[t].fin = st[t].fin
        PROVE  Conserved'
    <3>1. Load(st'[t]) = Load(st[t])
      BY <2>1, <2>3 DEF Load, Hand, Carries, Injector, Starting, Handing, Injecting
    <3> QED
      BY <1>1, <2>3, <3>1 DEF Rest
  <2>4. ASSUME NEW m \in M \ {t}, st[m].pc = "stopped", \A u \in T \ {t, m} : st'[u] = st[u], NEW p,
               Back(st'[t], st[t]), Starts(st'[m], st[m].ret, p, st[t].sp)
        PROVE  Conserved'
    <3>1. st[m].ret \in {"schedule", "findrunnable"}
      BY <2>4 DEF Shapes, Fits, Shape, T
    <3> QED
      BY <1>3, <2>4, <3>1
  <2> QED
    BY <1>2, <2>1, <2>2, <2>3, <2>4 DEF StartmDoes
<1>5. CASE startmUndo(t)
  BY <1>2, <1>5, startmUndoDoes
<1>6. CASE newm(t)
  <2>1. PICK m \in M \ {t} : NewmDoes(t, m)
    BY <1>6, newmDoes
  <2> QED
    BY <1>3, <2>1 DEF NewmDoes
<1> QED
  BY <1>4, <1>5, <1>6

(* handoffp moves none, injectglist moves those in the hand of its caller to the global queue. *)
LEMMA HandingConserved ==
  ASSUME Good, Good', Conserved, NEW t \in T,
         handoffp(t) \/ handoffCas(t) \/ handoffLocked(t) \/ injectglist(t) \/ injected(t)
  PROVE  Conserved'
<1> USE DEF Good
<1>0. /\ Fits(t, st[t]) /\ st[t] \in Thread /\ st[t].n \in Nat /\ UNCHANGED <<parked, netwait, loc>> /\ P # {}
      /\ netwait \in Nat /\ parked \in Nat /\ glob \in Nat /\ loc \in [P -> Nat]
  BY DEF handoffp, handoffCas, handoffLocked, injectglist, injected, net, Shapes, TypeOK, Thread
<1>1. ASSUME Load(st'[t]) = Load(st[t]), Rest(t), glob' = glob PROVE Conserved'
  BY <1>0, <1>1, ConservedSame DEF Rest
<1>2. ASSUME NEW l \in Handing \cup {"startm"}, Goes(t, l), st[t].pc \in Handing, glob' = glob PROVE Conserved'
  <2>1. Load(st'[t]) = Load(st[t])
    BY <1>2 DEF Goes, To, Same, Load, Hand, Carries, Injector, Starting, Handing, Injecting
  <2> QED
    BY <1>1, <1>2, <2>1 DEF Goes
<1>3. CASE handoffp(t)
  <2>1. Goes(t, "startm") \/ Goes(t, "handoffCas") \/ Goes(t, "handoffLocked")
    BY <1>3, handoffpDoes
  <2>2. st[t].pc \in Handing /\ glob' = glob /\ {"handoffCas", "handoffLocked"} \subseteq Handing
    BY <1>3 DEF handoffp, At, Handing
  <2> QED
    BY <1>2, <2>1, <2>2
<1>4. CASE handoffCas(t)
  <2>1. Calls(t, st[t].hp, TRUE, st[t].ret) \/ Goes(t, "handoffLocked")
    BY <1>4, handoffCasDoes
  <2>2. st[t].pc = "handoffCas" /\ glob' = glob /\ st[t].ret \in {"syscall", "uncount"}
    BY <1>0, <1>4 DEF handoffCas, At, Handing, Fits, Shape
  <2>3. ASSUME Calls(t, st[t].hp, TRUE, st[t].ret) PROVE Conserved'
    <3>1. Load(st'[t]) = Load(st[t])
      BY <2>2, <2>3 DEF Calls, Load, Hand, Carries, Injector, Starting, Handing, Injecting
    <3> QED
      BY <1>1, <2>2, <2>3, <3>1 DEF Calls
  <2> QED
    BY <1>2, <2>1, <2>2, <2>3 DEF Handing
<1>5. CASE handoffLocked(t)
  <2>1. Goes(t, "startm") \/ (Rest(t) /\ Back(st'[t], st[t]))
    BY <1>5, handoffLockedDoes
  <2>2. st[t].pc = "handoffLocked" /\ st[t].pc \in Handing /\ glob' = glob
    BY <1>5 DEF handoffLocked, At, Handing
  <2>3. ASSUME Rest(t), Back(st'[t], st[t]) PROVE Conserved'
    <3>1. Load(st'[t]) = Load(st[t])
      BY <1>0, <2>2, <2>3, BackLoads
    <3> QED
      BY <1>1, <2>2, <2>3, <3>1
  <2> QED
    BY <1>2, <2>1, <2>2, <2>3
<1>6. CASE injectglist(t)
  <2>1. Goes(t, "injected") /\ st[t].pc = "inject" /\ glob' = glob + st[t].n
    BY <1>6, Going DEF injectglist, PC, Injecting, At
  <2> DEFINE c == IF st[t].fin \in {"got", "run"} THEN 1 ELSE 0
  <2>2. Load(st'[t]) = c
    BY <2>1 DEF Goes, To, Same, Load, Hand, Carries, Injector, Starting, Handing, Injecting
  <2>3. Load(st[t]) = st[t].n + c
    BY <2>1 DEF Load, Hand, Carries, Injector, Starting, Handing, Injecting
  <2>4. PICK p \in P : TRUE
    BY <1>0
  <2>5. c \in Nat /\ loc[p] \in Nat
    BY <1>0
  <2> HIDE DEF c
  <2>6. parked' + netwait' + glob' + loc'[p] + Load(st'[t]) = parked + netwait + glob + loc[p] + Load(st[t])
    BY <1>0, <2>1, <2>2, <2>3, <2>5
  <2>7. \A u \in T \ {t} : Load(st'[u]) = Load(st[u])
    BY <2>1 DEF Goes, Rest
  <2> QED
    BY <1>0, <2>6, <2>7, ConservedBy
<1>7. CASE injected(t)
  <2>1. InjectedDoes(t) /\ st[t].pc = "injected" /\ glob' = glob
    BY Zenon, <1>7, injectedDoes DEF injected, At
  <2>2. CASE st'[t].pc = "startm" /\ st'[t].ret = "injected" /\ st'[t].fin = st[t].fin
    <3>1. Load(st'[t]) = Load(st[t])
      BY <2>1, <2>2 DEF Load, Hand, Carries, Injector, Starting, Handing, Injecting
    <3> QED
      BY <1>1, <2>1, <3>1 DEF InjectedDoes
  <2>3. CASE st'[t].n = 0 /\ st'[t].fin = "" /\ st'[t].pc = AfterInject(st[t]) /\ st'[t].ret = st[t].ret
    <3>1. st[t].fin \in {"got", "run", "repark", "uncount"} /\ st[t].ret # "injected"
      BY <1>0, <2>1 DEF Fits, Shape, Injector, Injecting
    <3>2. Load(st[t]) = IF st[t].fin \in {"got", "run"} THEN 1 ELSE 0
      BY <2>1 DEF Load, Hand, Carries, Injector, Starting, Handing, Injecting
    <3>3. Rest(t)
      BY <2>1 DEF InjectedDoes
    <3>4. CASE st[t].fin \in {"got", "run"}
      <4>1. st'[t].pc \in {"run", "resetspinning"}
        BY <2>3, <3>4 DEF AfterInject, HasOne
      <4>2. Load(st'[t]) = 1
        <5>1. Hand(st'[t]) = 0
          BY <2>3 DEF Hand
        <5>2. Carries(st'[t])
          BY <4>1 DEF Carries
        <5> QED
          BY <5>1, <5>2 DEF Load
      <4> QED
        BY <1>1, <2>1, <3>2, <3>3, <3>4, <4>2
    <3>5. CASE st[t].fin \in {"repark", "uncount"}
      <4>1. st'[t].pc \in {"repark", "uncount"}
        BY <2>3, <3>5 DEF AfterInject
      <4>2. Load(st'[t]) = 0
        <5>1. Hand(st'[t]) = 0
          BY <2>3 DEF Hand
        <5>2. ~Carries(st'[t])
          BY <2>3, <3>1, <4>1 DEF Carries, Injector, Starting, Handing, Injecting
        <5> QED
          BY <5>1, <5>2 DEF Load
      <4> QED
        BY <1>1, <2>1, <3>2, <3>3, <3>5, <4>2
    <3> QED
      BY <3>1, <3>4, <3>5
  <2> QED
    BY ZenonT(60), <2>1, <2>2, <2>3 DEF InjectedDoes
<1> QED
  BY <1>3, <1>4, <1>5, <1>6, <1>7

Carrying == {"run", "readied", "wakep", "resetspinning", "syscall", "exit0"}
Free == {"schedule", "findrunnable", "netpoll", "spin", "steal", "stop", "respin", "stopm", "stopped", "fresh",
         "unspin", "recheck", "rechecked", "netblock", "polling", "repark", "sysmon", "asleep", "retakeCas", "uncount"}

(* What a thread has, by its place. *)
LEMMA LoadOf ==
  ASSUME NEW t, NEW s, Fits(t, s)
  PROVE  /\ s.pc \in Carrying => Load(s) = 1
         /\ s.pc \in Free => Load(s) = 0
         /\ s.pc \in {"polled", "pollPidle", "incidlelocked"} => Load(s) = s.n + 0
         /\ s.pc = "inject" => Load(s) = s.n + (IF s.fin \in {"got", "run"} THEN 1 ELSE 0)
<1>1. s.ret = "injected" => s.pc \in {"startm", "newm"}
  BY DEF Fits, Shape
<1>2. CASE s.pc \in Carrying
  <2>1. Hand(s) = 0 /\ Carries(s)
    BY <1>2 DEF Carrying, Hand, Carries
  <2> QED
    BY <1>2, <2>1 DEF Load, Carrying, Free
<1>3. CASE s.pc \in Free
  <2>1. Hand(s) = 0 /\ ~Carries(s)
    BY <1>1, <1>3 DEF Free, Hand, Carries, Injector, Starting, Handing, Injecting
  <2> QED
    BY <1>3, <2>1 DEF Load, Carrying, Free
<1>4. CASE s.pc \in {"polled", "pollPidle", "incidlelocked"}
  <2>1. Hand(s) = s.n /\ ~Carries(s)
    BY <1>1, <1>4 DEF Hand, Carries, Injector, Starting, Handing, Injecting
  <2> QED
    BY <1>4, <2>1 DEF Load, Carrying, Free
<1>5. CASE s.pc = "inject"
  <2>1. Hand(s) = s.n /\ (Carries(s) <=> s.fin \in {"got", "run"})
    BY <1>1, <1>5 DEF Hand, Carries, Injector, Starting, Handing, Injecting
  <2> QED
    BY <1>5, <2>1 DEF Load, Carrying, Free
<1> QED
  BY <1>2, <1>3, <1>4, <1>5

(* A thread alone moves goroutines from one place to another. *)
LEMMA ConservedAlone ==
  ASSUME TypeOK, TypeOK', Conserved, NEW t \in T, Rest(t), NEW p \in P, \A q \in P \ {p} : loc'[q] = loc[q],
         parked' + netwait' + glob' + loc'[p] + Load(st'[t]) = parked + netwait + glob + loc[p] + Load(st[t])
  PROVE  Conserved'
<1>1. \A u \in T \ {t} : Load(st'[u]) = Load(st[u])
  BY DEF Rest
<1> QED
  BY <1>1, ConservedBy

(* A running goroutine parks, yields or readies another: it goes to one place from another. *)
LEMMA RunConserved ==
  ASSUME Good, Good', Conserved, NEW m \in M,
         ready(m) \/ readied(m) \/ wakep(m) \/ park(m) \/ parkOnNet(m) \/ gosched(m) \/ resetspinning(m)
  PROVE  Conserved'
<1> USE DEF Good
<1>0. /\ m \in T /\ Fits(m, st[m]) /\ Fits(m, st'[m]) /\ P # {}
      /\ parked \in Nat /\ netwait \in Nat /\ glob \in Nat /\ loc \in [P -> Nat]
  BY DEF T, Shapes, TypeOK
<1>1. Rest(m)
  BY <1>0, SteadyRun, wakepDoes, resetspinningDoes DEF Steady, Goes, Calls, Looks
<1>2. st[m].pc \in Carrying /\ st[m].p \in P
  BY <1>0 DEF ready, readied, wakep, park, parkOnNet, gosched, resetspinning, At, Carrying, Fits, Shape, WithP
<1>3. Load(st[m]) = 1
  BY <1>0, <1>2, LoadOf
<1>4. ASSUME NEW l \in {"run", "readied", "wakep", "schedule"}, Goto(m, l)
      PROVE  st'[m].pc = l /\ Load(st'[m]) = IF l = "schedule" THEN 0 ELSE 1
  <2>1. Goes(m, l)
    BY <1>0, <1>4, Going DEF PC, WithP
  <2>2. st'[m].pc = l
    BY <2>1 DEF Goes, To
  <2> QED
    BY <1>0, <2>2, LoadOf DEF Carrying, Free
<1>5. ASSUME Load(st'[m]) = 1, UNCHANGED <<parked, netwait, glob, loc>> PROVE Conserved'
  BY <1>1, <1>3, <1>5, ConservedSame DEF Rest
<1>6. CASE ready(m)
  <2>1. Load(st'[m]) = 1
    BY <1>4, <1>6 DEF ready
  <2>2. loc' = [loc EXCEPT ![st[m].p] = loc[st[m].p] + 1] /\ parked' = parked - 1 /\ UNCHANGED <<netwait, glob>>
    BY <1>6 DEF ready, net
  <2>3. loc'[st[m].p] = loc[st[m].p] + 1 /\ (\A q \in P \ {st[m].p} : loc'[q] = loc[q]) /\ loc[st[m].p] \in Nat
    BY <1>0, <1>2, <2>2
  <2>4. parked' + netwait' + glob' + loc'[st[m].p] + Load(st'[m]) = parked + netwait + glob + loc[st[m].p] + Load(st[m])
    BY <1>0, <1>3, <2>1, <2>2, <2>3
  <2> QED
    BY <1>0, <1>1, <1>2, <2>3, <2>4, ConservedAlone
<1>7. CASE park(m) \/ parkOnNet(m) \/ gosched(m)
  <2>1. Load(st'[m]) = 0
    BY <1>4, <1>7 DEF park, parkOnNet, gosched
  <2>2. /\ loc' = loc /\ loc[st[m].p] \in Nat
        /\ \/ parked' = parked + 1 /\ netwait' = netwait /\ glob' = glob
           \/ parked' = parked /\ netwait' = netwait + 1 /\ glob' = glob
           \/ parked' = parked /\ netwait' = netwait /\ glob' = glob + 1
    BY <1>0, <1>2, <1>7 DEF park, parkOnNet, gosched, net
  <2>3. parked' + netwait' + glob' + loc'[st[m].p] + Load(st'[m]) = parked + netwait + glob + loc[st[m].p] + Load(st[m])
    BY <1>0, <1>3, <2>1, <2>2
  <2> QED
    BY <1>0, <1>1, <1>2, <2>2, <2>3, ConservedAlone
<1>8. CASE readied(m)
  <2>1. Load(st'[m]) = 1
    BY <1>4, <1>8 DEF readied
  <2> QED
    BY <1>5, <1>8, <2>1 DEF readied, net
<1>9. CASE resetspinning(m)
  <2>1. st'[m].pc \in {"run", "readied"}
    BY <1>9, resetspinningDoes DEF Looks
  <2>2. Load(st'[m]) = 1
    BY <1>0, <2>1, LoadOf DEF Carrying
  <2> QED
    BY <1>5, <1>9, <2>2 DEF resetspinning, net
<1>10. CASE wakep(m)
  <2>1. Load(st'[m]) = 1
    <3>1. CASE Goes(m, "run")
      <4>1. st'[m].pc \in Carrying
        BY <3>1 DEF Goes, To, Carrying
      <4> QED
        BY <1>0, <4>1, LoadOf
    <3>2. CASE Calls(m, None, TRUE, "run")
      <4>1. st'[m].pc = "startm" /\ st'[m].ret = "run"
        BY <3>2 DEF Calls
      <4>2. Hand(st'[m]) = 0 /\ Carries(st'[m])
        BY <4>1 DEF Hand, Carries, Starting
      <4> QED
        BY <4>2 DEF Load
    <3> QED
      BY <1>0, <1>10, <3>1, <3>2, wakepDoes
  <2> QED
    BY <1>5, <1>10, <2>1 DEF wakep, net
<1> QED
  BY <1>6, <1>7, <1>8, <1>9, <1>10

(* A goroutine stays with its thread during a system call, or goes to the global queue after it. *)
LEMMA SyscallConserved ==
  ASSUME Good, Good', Asleep, Conserved, NEW m \in M,
         entersyscall(m) \/ entersyscallblock(m) \/ exitsyscall(m) \/ exitsyscall0(m)
  PROVE  Conserved'
<1> USE DEF Good
<1>0. /\ m \in T /\ Sysmon \in T /\ m # Sysmon /\ P # {}
      /\ Fits(m, st[m]) /\ Fits(m, st'[m]) /\ Fits(Sysmon, st[Sysmon]) /\ Fits(Sysmon, st'[Sysmon])
      /\ parked \in Nat /\ netwait \in Nat /\ glob \in Nat /\ loc \in [P -> Nat]
  BY SchedAssumption DEF SchedAssumption, T, Shapes, TypeOK
<1>1. st[m].pc \in Carrying /\ UNCHANGED <<parked, netwait, loc>>
  BY DEF entersyscall, entersyscallblock, exitsyscall, exitsyscall0, At, Carrying, net
<1>2. Load(st[m]) = 1
  BY <1>0, <1>1, LoadOf
<1>3. ASSUME Rest(m), Load(st'[m]) = 1, glob' = glob PROVE Conserved'
  BY <1>1, <1>2, <1>3, ConservedSame DEF Rest
<1>4. ASSUME To(st'[Sysmon], st[Sysmon], IF sysmonwait THEN "sysmon" ELSE st[Sysmon].pc),
             \A u \in T \ {m, Sysmon} : st'[u] = st[u], st'[m].pc \in Carrying, glob' = glob
      PROVE  Conserved'
  <2>1. Load(st'[m]) = 1
    BY <1>0, <1>4, LoadOf
  <2>2. Load(st'[Sysmon]) = Load(st[Sysmon])
    <3>1. CASE sysmonwait
      <4>1. st[Sysmon].pc \in Free /\ st'[Sysmon].pc \in Free
        BY <1>4, <3>1 DEF Asleep, To, Free
      <4> QED
        BY <1>0, <4>1, LoadOf
    <3>2. CASE ~sysmonwait
      BY <1>4, <3>2 DEF To, Same, Load, Hand, Carries, Injector
    <3> QED
      BY <3>1, <3>2
  <2> QED
    BY <1>1, <1>2, <1>4, <2>1, <2>2, ConservedSame
<1>5. CASE entersyscall(m)
  <2>1. EnterDoes(m) /\ glob' = glob
    BY <1>5, entersyscallDoes DEF entersyscall
  <2> QED
    BY <1>4, <2>1 DEF EnterDoes, To, Carrying
<1>6. CASE entersyscallblock(m)
  <2>1. BlockDoes(m) /\ glob' = glob
    BY <1>6, entersyscallblockDoes DEF entersyscallblock
  <2>2. st'[m].pc = "handoffp" /\ st'[m].ret = "syscall" /\ Rest(m)
    BY <2>1 DEF BlockDoes
  <2>3. Hand(st'[m]) = 0 /\ Carries(st'[m])
    BY <2>2 DEF Hand, Carries, Handing
  <2> QED
    BY <1>3, <2>1, <2>2, <2>3 DEF Load
<1>7. CASE exitsyscall(m)
  <2>1. Rest(m) /\ st'[m].pc \in Carrying /\ glob' = glob
    BY <1>7, exitsyscallDoes DEF exitsyscall, Goes, To, IsLocal, Carrying
  <2> QED
    BY <1>0, <1>3, <2>1, LoadOf
<1>8. CASE exitsyscall0(m)
  <2>1. Exit0Does(m)
    BY <1>8, exitsyscall0Does
  <2>2. ASSUME glob' = glob + 1, Rest(m), st'[m].pc = "stopm" PROVE Conserved'
    <3>1. Load(st'[m]) = 0
      BY <1>0, <2>2, LoadOf DEF Free
    <3>2. PICK p \in P : loc[p] \in Nat
      BY <1>0
    <3>3. parked' + netwait' + glob' + loc'[p] + Load(st'[m]) = parked + netwait + glob + loc[p] + Load(st[m])
      BY <1>0, <1>1, <1>2, <2>2, <3>1, <3>2
    <3> QED
      BY <1>0, <1>1, <2>2, <3>3, ConservedAlone
  <2>3. ASSUME NEW p, IsLocal(st'[m], "run", p), glob' = glob, \A u \in T \ {m, Sysmon} : st'[u] = st[u],
               To(st'[Sysmon], st[Sysmon], IF sysmonwait THEN "sysmon" ELSE st[Sysmon].pc)
        PROVE  Conserved'
    BY <1>4, <2>3 DEF IsLocal, Carrying
  <2> QED
    BY <2>1, <2>2, <2>3 DEF Exit0Does
<1> QED
  BY <1>5, <1>6, <1>7, <1>8

(* A goroutine that is found comes from a queue or from the network. *)
LEMMA LookingConserved ==
  ASSUME Good, Good', Conserved, NEW m \in M,
         schedule(m) \/ findrunnable(m) \/ netpoll(m) \/ spin(m) \/ steal(m) \/ stop(m)
  PROVE  Conserved'
<1> USE DEF Good
<1>0. /\ m \in T /\ Fits(m, st[m]) /\ Fits(m, st'[m]) /\ P # {}
      /\ parked \in Nat /\ netwait \in Nat /\ glob \in Nat /\ loc \in [P -> Nat]
  BY Zenon DEF T, Shapes, TypeOK
<1>2. st[m].pc \in Free /\ st[m].p \in P /\ parked' = parked
  BY Zenon, <1>0 DEF schedule, findrunnable, netpoll, spin, steal, stop, At, Free, Fits, Shape, WithP
<1>3. Load(st[m]) = 0
  BY <1>0, <1>2, LoadOf
<1>4. ASSUME st'[m].pc \in Free PROVE Load(st'[m]) = 0
  BY <1>0, <1>4, LoadOf
<1>5. ASSUME Goes(m, HasOne(st[m])) PROVE Load(st'[m]) = 1
  <2>1. st'[m].pc \in Carrying
    BY <1>5 DEF Goes, To, HasOne, Carrying
  <2> QED
    BY <1>0, <2>1, LoadOf
<1>6. ASSUME Rest(m), st'[m].pc \in Free, UNCHANGED <<netwait, glob, loc>> PROVE Conserved'
  BY <1>2, <1>3, <1>4, <1>6, ConservedSame DEF Rest
<1>7. ASSUME NEW l \in Free \cap PC, Goto(m, l), UNCHANGED <<netwait, glob, loc>> PROVE Conserved'
  <2>1. Goes(m, l)
    BY <1>0, <1>7, Going
  <2> QED
    BY <1>6, <1>7, <2>1 DEF Goes, To
<1>8. {"findrunnable", "netpoll", "spin", "stop"} \subseteq Free \cap PC
  BY DEF Free, PC, WithP
<1>9. ASSUME GotOne(m), glob' = glob - 1, glob > 0, UNCHANGED <<netwait, loc>> PROVE Conserved'
  <2>1. Goes(m, HasOne(st[m])) /\ Load(st'[m]) = 1
    BY <1>0, <1>5, <1>9, GotOneDoes
  <2>2. loc[st[m].p] \in Nat /\ loc' = loc
    BY <1>0, <1>2, <1>9
  <2>3. parked' + netwait' + glob' + loc'[st[m].p] + Load(st'[m]) = parked + netwait + glob + loc[st[m].p] + Load(st[m])
    BY <1>0, <1>2, <1>3, <1>9, <2>1, <2>2
  <2> QED
    BY <1>0, <1>2, <2>1, <2>2, <2>3, ConservedAlone DEF Goes
<1>10. ASSUME GotOne(m), loc[st[m].p] > 0, loc' = [loc EXCEPT ![st[m].p] = loc[st[m].p] - 1], UNCHANGED <<netwait, glob>>
       PROVE  Conserved'
  <2>1. Goes(m, HasOne(st[m])) /\ Load(st'[m]) = 1
    BY <1>0, <1>5, <1>10, GotOneDoes
  <2>2. loc[st[m].p] \in Nat /\ loc'[st[m].p] = loc[st[m].p] - 1 /\ \A q \in P \ {st[m].p} : loc'[q] = loc[q]
    BY <1>0, <1>2, <1>10
  <2>3. parked' + netwait' + glob' + loc'[st[m].p] + Load(st'[m]) = parked + netwait + glob + loc[st[m].p] + Load(st[m])
    BY <1>0, <1>2, <1>3, <1>10, <2>1, <2>2
  <2> QED
    BY <1>0, <1>2, <2>1, <2>2, <2>3, ConservedAlone DEF Goes
<1>11. ASSUME TakeShare(m), netwait' = netwait PROVE Conserved'
  <2>1. PICK k \in 1 .. glob : /\ glob' = glob - k
                               /\ loc' = [loc EXCEPT ![st[m].p] = loc[st[m].p] + k - 1]
                               /\ Goes(m, HasOne(st[m]))
    BY <1>2, <1>11, TakeShareDoes DEF ShareDoes
  <2>2. Load(st'[m]) = 1
    BY <1>5, <2>1
  <2>3. loc[st[m].p] \in Nat /\ loc'[st[m].p] = loc[st[m].p] + k - 1 /\ \A q \in P \ {st[m].p} : loc'[q] = loc[q]
    BY <1>0, <1>2, <2>1
  <2>4. parked' + netwait' + glob' + loc'[st[m].p] + Load(st'[m]) = parked + netwait + glob + loc[st[m].p] + Load(st[m])
    BY <1>0, <1>2, <1>3, <1>11, <2>1, <2>2, <2>3
  <2> QED
    BY <1>0, <1>2, <2>1, <2>3, <2>4, ConservedAlone DEF Goes
<1>12. CASE schedule(m)
  <2>1. netwait' = netwait
    BY <1>12 DEF schedule, net
  <2>2. \/ glob > 0 /\ glob' = glob - 1 /\ GotOne(m) /\ loc' = loc
        \/ loc[st[m].p] > 0 /\ loc' = [loc EXCEPT ![st[m].p] = loc[st[m].p] - 1] /\ GotOne(m) /\ glob' = glob
        \/ Goto(m, "findrunnable") /\ UNCHANGED <<loc, glob>>
    BY <1>12 DEF schedule
  <2> QED
    BY <1>7, <1>8, <1>9, <1>10, <2>1, <2>2
<1>13. CASE findrunnable(m)
  <2>1. netwait' = netwait
    BY <1>13 DEF findrunnable, net
  <2>2. \/ loc[st[m].p] > 0 /\ loc' = [loc EXCEPT ![st[m].p] = loc[st[m].p] - 1] /\ GotOne(m) /\ glob' = glob
        \/ TakeShare(m)
        \/ (Goto(m, "netpoll") \/ Goto(m, "spin")) /\ UNCHANGED <<loc, glob>>
    BY <1>13 DEF findrunnable
  <2> QED
    BY <1>7, <1>8, <1>10, <1>11, <2>1, <2>2
<1>14. CASE netpoll(m)
  <2>1. UNCHANGED <<glob, loc>> /\ NetpollDoes(m)
    BY Zenon, <1>14, netpollDoes DEF netpoll
  <2>2. PICK n \in 0 .. netwait :
          /\ netwait' = netwait - n
          /\ \/ n = 0 /\ Goes(m, "spin")
             \/ n = 1 /\ Goes(m, HasOne(st[m]))
             \/ n > 1 /\ Rest(m) /\ st'[m].pc = "inject" /\ st'[m].n = n - 1 /\ st'[m].fin = "got"
    BY <2>1 DEF NetpollDoes
  <2>3. Load(st'[m]) = n
    <3>1. CASE n = 0 /\ Goes(m, "spin")
      BY <1>4, <1>8, <3>1 DEF Goes, To
    <3>2. CASE n = 1 /\ Goes(m, HasOne(st[m]))
      BY <1>5, <3>2
    <3>3. CASE n > 1 /\ st'[m].pc = "inject" /\ st'[m].n = n - 1 /\ st'[m].fin = "got"
      <4>1. Load(st'[m]) = (n - 1) + 1
        BY <1>0, <3>3, LoadOf
      <4> QED
        BY <4>1
    <3> QED
      BY <2>2, <3>1, <3>2, <3>3
  <2>4. Rest(m) /\ loc[st[m].p] \in Nat /\ loc' = loc
    BY <1>0, <1>2, <2>1, <2>2 DEF Goes
  <2>5. parked' + netwait' + glob' + loc'[st[m].p] + Load(st'[m]) = parked + netwait + glob + loc[st[m].p] + Load(st[m])
    BY <1>0, <1>2, <1>3, <2>1, <2>2, <2>3, <2>4
  <2> QED
    BY <1>0, <1>2, <2>4, <2>5, ConservedAlone
<1>15. CASE spin(m)
  <2>1. Rest(m) /\ st'[m].pc \in Free
    BY <1>15, spinDoes DEF Goes, To, Looks, Free
  <2> QED
    BY <1>6, <1>15, <2>1 DEF spin, net
<1>16. CASE steal(m)
  <2>1. CASE Goto(m, "stop") /\ loc' = loc
    BY <1>7, <1>8, <1>16, <2>1 DEF steal, net
  <2>2. CASE ~(Goto(m, "stop") /\ loc' = loc)
    <3>0. PICK p \in P \ {st[m].p} : \E k \in 1 .. (loc[p] + 1) \div 2 :
            loc' = [loc EXCEPT ![p] = @ - k, ![st[m].p] = @ + k - 1] /\ GotOne(m)
      BY <1>16, <2>2 DEF steal
    <3>1. PICK k \in 1 .. (loc[p] + 1) \div 2 :
            loc' = [loc EXCEPT ![p] = loc[p] - k, ![st[m].p] = loc[st[m].p] + k - 1] /\ GotOne(m)
      BY <3>0
    <3>2. UNCHANGED <<netwait, glob>>
      BY <1>16 DEF steal, net
    <3>3. Goes(m, HasOne(st[m])) /\ Load(st'[m]) = 1
      BY <1>0, <1>5, <3>1, GotOneDoes
    <3>4. /\ loc[p] \in Nat /\ loc[st[m].p] \in Nat /\ k \in Int
          /\ loc'[p] = loc[p] - k /\ loc'[st[m].p] = loc[st[m].p] + k - 1 /\ \A q \in P \ {p, st[m].p} : loc'[q] = loc[q]
          /\ loc' \in [P -> Nat]
      BY <1>0, <1>2, <3>1 DEF TypeOK
    <3> DEFINE f == [loc EXCEPT ![p] = loc'[p]]
    <3>5. f \in [P -> Nat] /\ f[p] = loc'[p] /\ (\A q \in P \ {p} : f[q] = loc[q]) /\ p \in P
      BY <1>0, <3>4
    <3>6. \A q \in P \ {st[m].p} : loc'[q] = f[q]
      BY <3>4, <3>5
    <3> HIDE DEF f
    <3>7. /\ IsFiniteSet(Units(P, f)) /\ Total(P, f) = Total(P, loc) + f[p] - loc[p]
          /\ Total(P, loc) \in Nat /\ Total(P, f) \in Nat
      BY <1>0, <3>5, TotalChanges DEF Conserved
    <3>8. /\ IsFiniteSet(Units(P, loc')) /\ Total(P, loc') = Total(P, f) + loc'[st[m].p] - f[st[m].p]
          /\ Total(P, loc') \in Nat
      BY <1>2, <3>4, <3>5, <3>6, <3>7, TotalChanges
    <3>9. f[st[m].p] = loc[st[m].p]
      BY <1>2, <3>1, <3>5
    <3>10. Total(P, loc') = Total(P, loc) - 1
      BY <3>4, <3>5, <3>7, <3>8, <3>9
    <3>11. /\ IsFiniteSet(Units(T, Loads')) /\ Total(T, Loads') = Total(T, Loads) + Load(st'[m]) - Load(st[m])
           /\ Total(T, Loads) \in Nat
      <4>1. \A u \in T \ {m} : Load(st'[u]) = Load(st[u])
        BY <3>3 DEF Goes, Rest
      <4> QED
        BY <1>0, <4>1, LoadsOne DEF Conserved
    <3>12. Total(T, Loads') = Total(T, Loads) + 1
      BY <1>3, <3>3, <3>11
    <3>13. NG = parked' + netwait' + glob' + Total(P, loc') + Total(T, Loads')
      BY <1>0, <1>2, <3>2, <3>7, <3>10, <3>11, <3>12 DEF Conserved
    <3> QED
      BY <3>8, <3>11, <3>13 DEF Conserved
  <2> QED
    BY <2>1, <2>2
<1>17. CASE stop(m)
  <2>1. netwait' = netwait
    BY <1>17 DEF stop, net
  <2>2. TakeShare(m) \/ (StopsDoes(m) /\ UNCHANGED <<loc, glob>>)
    BY <1>17, stopDoes
  <2>3. ASSUME StopsDoes(m) PROVE Rest(m) /\ st'[m].pc \in Free
    BY <2>3 DEF StopsDoes, Free
  <2> QED
    BY <1>6, <1>11, <2>1, <2>2, <2>3
<1> QED
  BY <1>12, <1>13, <1>14, <1>15, <1>16, <1>17

(* A thread that stops has none; one that polls takes what it finds. *)
LEMMA StopConserved ==
  ASSUME Good, Good', Conserved, NEW m \in M,
         \/ unspin(m) \/ recheck(m) \/ rechecked(m) \/ respin(m) \/ netblock(m) \/ polling(m) \/ polled(m)
         \/ pollPidle(m) \/ stopm(m)
  PROVE  Conserved'
<1> USE DEF Good
<1>0. /\ m \in T /\ Fits(m, st[m]) /\ Fits(m, st'[m]) /\ P # {} /\ st[m].n \in Nat
      /\ parked \in Nat /\ netwait \in Nat /\ glob \in Nat /\ loc \in [P -> Nat]
  BY ZenonT(60) DEF T, Shapes, TypeOK, Thread
<1>1. UNCHANGED <<parked, glob, loc>>
  BY Zenon DEF unspin, recheck, rechecked, respin, netblock, polling, polled, pollPidle, stopm
<1>2. ASSUME Rest(m), Load(st'[m]) = Load(st[m]), netwait' = netwait PROVE Conserved'
  BY <1>1, <1>2, ConservedSame DEF Rest
<1>3. ASSUME Rest(m), st[m].pc \in Free, st'[m].pc \in Free, netwait' = netwait PROVE Conserved'
  BY <1>0, <1>2, <1>3, LoadOf
<1>4. CASE unspin(m)
  BY <1>3, <1>4, unspinDoes DEF Looks, Free, unspin, At, net
<1>5. CASE respin(m)
  BY <1>3, <1>5, respinDoes DEF Looks, Free, respin, At, net
<1>6. ASSUME ParksDoes(m) PROVE Rest(m) /\ st'[m].pc \in Free
  BY <1>6 DEF ParksDoes, Free
<1>7. CASE recheck(m)
  <2>1. Rest(m) /\ st'[m].pc \in Free
    BY <1>6, <1>7, recheckDoes DEF Looks, Free
  <2> QED
    BY <1>3, <1>7, <2>1 DEF recheck, At, Free, net
<1>8. CASE rechecked(m)
  <2>1. st[m].pc = "rechecked" /\ st[m].ret \in {"respin", "findrunnable"} /\ netwait' = netwait
    BY <1>0, <1>8 DEF rechecked, At, Fits, Shape, net
  <2>2. Rest(m) /\ st'[m].pc \in Free
    <3>1. (\E p \in idle : Rest(m) /\ IsLocal(st'[m], st[m].ret, p)) \/ ParksDoes(m)
      BY <1>8, recheckedDoes
    <3> QED
      BY <1>6, <2>1, <3>1 DEF IsLocal, Free
  <2> QED
    BY <1>3, <2>1, <2>2 DEF Free
<1>9. CASE netblock(m)
  <2>1. Goto(m, "polling") \/ Goto(m, "stopm")
    BY <1>9 DEF netblock
  <2>2. Goes(m, "polling") \/ Goes(m, "stopm")
    BY <1>0, <2>1, Going DEF PC, NoP
  <2> QED
    BY <1>3, <1>9, <2>2 DEF netblock, At, Goes, To, Free, net
<1>10. CASE polling(m)
  <2>1. PICK n \in 1 .. netwait : netwait' = netwait - n /\ Rest(m) /\ st'[m].n = n /\ st'[m].pc = "polled"
    BY <1>10, pollingDoes DEF PollDoes
  <2>2. Load(st'[m]) = n
    BY <1>0, <2>1, LoadOf
  <2>3. Load(st[m]) = 0
    BY <1>0, <1>10, LoadOf DEF polling, At, Free
  <2>4. PICK p \in P : loc[p] \in Nat
    BY <1>0
  <2>5. parked' + netwait' + glob' + loc'[p] + Load(st'[m]) = parked + netwait + glob + loc[p] + Load(st[m])
    BY <1>0, <1>1, <2>1, <2>2, <2>3, <2>4
  <2> QED
    BY <1>0, <1>1, <2>1, <2>5, ConservedAlone
<1>11. CASE polled(m)
  <2>1. Goes(m, "pollPidle") /\ st[m].pc = "polled" /\ netwait' = netwait
    BY <1>0, <1>11, Going DEF polled, PC, NoP, At
  <2>2. st'[m].pc = "pollPidle" /\ st'[m].n = st[m].n /\ Rest(m)
    BY <2>1 DEF Goes, To, Same
  <2> QED
    BY <1>0, <1>2, <2>1, <2>2, LoadOf
<1>12. CASE pollPidle(m)
  <2>1. st[m].pc = "pollPidle" /\ netwait' = netwait
    BY Zenon, <1>12 DEF pollPidle, At, net
  <2>2. Load(st[m]) = st[m].n
    BY <1>0, <2>1, LoadOf
  <2>3. ASSUME NEW p, IsLocal(st'[m], "run", p), st[m].n = 1 PROVE Load(st'[m]) = st[m].n
    BY <1>0, <2>3, LoadOf DEF IsLocal, Carrying
  <2>4. ASSUME NEW p, Bears(st'[m], "inject", p, st[m].n - 1, "run") PROVE Load(st'[m]) = st[m].n
    <3>1. Load(st'[m]) = (st[m].n - 1) + 1
      BY <1>0, <2>4, LoadOf DEF Bears
    <3> QED
      BY <1>0, <3>1
  <2>5. ASSUME st'[m].pc = "inject", st'[m].fin = "repark", st'[m].n = st[m].n PROVE Load(st'[m]) = st[m].n
    <3>1. Load(st'[m]) = st[m].n + 0
      BY <1>0, <2>5, LoadOf
    <3> QED
      BY <1>0, <3>1
  <2>6. Rest(m) /\ Load(st'[m]) = st[m].n
    BY <1>12, <2>3, <2>4, <2>5, pollPidleDoes DEF PidleDoes
  <2> QED
    BY SMTT(30), <1>2, <2>1, <2>2, <2>6
<1>13. CASE stopm(m)
  <2>1. Rest(m) /\ st'[m].pc = "stopped" /\ st[m].pc \in {"stopm", "repark"} /\ netwait' = netwait
    BY <1>13, stopmDoes DEF StopmDoes, stopm, net
  <2> QED
    BY <1>3, <2>1 DEF Free
<1> QED
  BY <1>4, <1>5, <1>7, <1>8, <1>9, <1>10, <1>11, <1>12, <1>13

(* sysmon has what it polled from the network in its hand until injectglist. *)
LEMMA SysmonConserved ==
  ASSUME Good, Good', Conserved, SysmonNext
  PROVE  Conserved'
<1> USE DEF Good
<1>0. /\ Sysmon \in T /\ Fits(Sysmon, st[Sysmon]) /\ Fits(Sysmon, st'[Sysmon]) /\ P # {}
      /\ parked \in Nat /\ netwait \in Nat /\ glob \in Nat /\ loc \in [P -> Nat]
  BY DEF T, Shapes, TypeOK
<1>1. UNCHANGED <<parked, glob, loc>>
  BY Zenon DEF SysmonNext, sysmonSleeps, sysmonTimeout, sysmonPolls, incidlelocked, retake, retakeCas, uncount
<1>2. ASSUME Rest(Sysmon), Load(st'[Sysmon]) = Load(st[Sysmon]), netwait' = netwait PROVE Conserved'
  BY <1>0, <1>1, <1>2, ConservedSame DEF Rest
<1>3. ASSUME Rest(Sysmon), st[Sysmon].pc \in Free, st'[Sysmon].pc \in Free, netwait' = netwait PROVE Conserved'
  BY <1>0, <1>2, <1>3, LoadOf
<1>4. CASE sysmonSleeps \/ sysmonTimeout
  <2>1. Goto(Sysmon, "asleep") \/ Goto(Sysmon, "sysmon")
    BY <1>4 DEF sysmonSleeps, sysmonTimeout
  <2>2. Goes(Sysmon, "asleep") \/ Goes(Sysmon, "sysmon")
    BY <1>0, <2>1, Going DEF PC, Monitoring
  <2> QED
    BY <1>3, <1>4, <2>2 DEF sysmonSleeps, sysmonTimeout, At, Goes, To, Free, net
<1>5. CASE sysmonPolls
  <2>1. PICK n \in 1 .. netwait : netwait' = netwait - n /\ Rest(Sysmon) /\ Bears(st'[Sysmon], "incidlelocked", None, n, "uncount")
    BY <1>5, sysmonPollsDoes
  <2>2. Load(st'[Sysmon]) = n
    <3>1. st'[Sysmon].pc = "incidlelocked" /\ st'[Sysmon].n = n
      BY <2>1 DEF Bears
    <3>2. Load(st'[Sysmon]) = st'[Sysmon].n + 0
      BY <1>0, <3>1, LoadOf
    <3> QED
      BY <3>1, <3>2
  <2>3. Load(st[Sysmon]) = 0
    BY <1>0, <1>5, LoadOf DEF sysmonPolls, At, Free
  <2>4. PICK p \in P : loc[p] \in Nat
    BY <1>0
  <2>5. parked' + netwait' + glob' + loc'[p] + Load(st'[Sysmon]) = parked + netwait + glob + loc[p] + Load(st[Sysmon])
    BY <1>0, <1>1, <2>1, <2>2, <2>3, <2>4
  <2> QED
    BY <1>0, <1>1, <2>1, <2>5, ConservedAlone
<1>6. CASE incidlelocked
  <2>1. Goes(Sysmon, "inject") /\ st[Sysmon].pc = "incidlelocked" /\ netwait' = netwait /\ st[Sysmon].fin = "uncount"
    BY <1>0, <1>6, Going DEF incidlelocked, PC, Injecting, At, net, Fits, Shape
  <2>2. st'[Sysmon].pc = "inject" /\ st'[Sysmon].n = st[Sysmon].n /\ Rest(Sysmon) /\ st'[Sysmon].fin = "uncount"
    BY <2>1 DEF Goes, To, Same
  <2> QED
    BY <1>0, <1>2, <2>1, <2>2, LoadOf
<1>7. CASE retake
  <2>1. Rest(Sysmon) /\ st'[Sysmon].pc = "retakeCas"
    BY <1>7, retakeDoes DEF RetakeDoes
  <2> QED
    BY <1>3, <1>7, <2>1 DEF retake, At, Free, net
<1>8. CASE retakeCas
  <2>1. Load(st[Sysmon]) = 0 /\ netwait' = netwait
    BY <1>0, <1>8, LoadOf DEF retakeCas, At, Free, net
  <2>2. ASSUME NEW p, RetakenDoes(p) PROVE Rest(Sysmon) /\ Load(st'[Sysmon]) = 0
    <3>1. Rest(Sysmon) /\ st'[Sysmon].pc = "handoffp" /\ st'[Sysmon].ret = "uncount"
      BY <2>2 DEF RetakenDoes
    <3>2. Hand(st'[Sysmon]) = 0 /\ ~Carries(st'[Sysmon])
      BY <3>1 DEF Hand, Carries, Injector, Injecting
    <3> QED
      BY <3>1, <3>2 DEF Load
  <2>3. ASSUME Rest(Sysmon), IsLocal(st'[Sysmon], "uncount", None) PROVE Load(st'[Sysmon]) = 0
    BY <1>0, <2>3, LoadOf DEF IsLocal, Free
  <2> QED
    BY <1>2, <1>8, <2>1, <2>2, <2>3, retakeCasDoes
<1>9. CASE uncount
  BY <1>3, <1>9, uncountDoes DEF IsLocal, Free, uncount, net
<1> QED
  BY <1>4, <1>5, <1>6, <1>7, <1>8, <1>9 DEF SysmonNext

(* Where sysmon is when it has counted no thread of its own as running. *)
Uncounting == {"sysmon", "asleep", "incidlelocked"}

(* nmidlelocked is -1 while sysmon is about to start a thread. *)
Locked == idlelocked = IF st[Sysmon].pc \in Uncounting THEN 0 ELSE -1
(* What sysmon got from the poller waited for the network. *)
Noted == st[Sysmon].pc = "incidlelocked" => waiters
(* A P in a system call was left so by a thread that is still in it. *)
Hosted == \A p \in insys : \E m \in M : st[m].pc = "syscall" /\ st[m].p = p

DInv == Locked /\ Noted /\ Hosted /\ Conserved

(* While sysmon is in startm, handoffp or injectglist it has counted one thread as running. *)
LEMMA SharedBusy ==
  ASSUME Good, SharedNext(Sysmon)
  PROVE  st[Sysmon].pc \notin Uncounting /\ st'[Sysmon].pc \notin Uncounting
<1> USE DEF Good
<1>0. Sysmon \in T /\ Fits(Sysmon, st[Sysmon])
  BY SMTT(30) DEF T, Shapes
<1>1. st[Sysmon].pc \in Starting \cup Handing \cup Injecting
  BY Zenon DEF SharedNext, startm, startmUndo, newm, handoffp, handoffCas, handoffLocked, injectglist, injected, mon,
         At, Starting, Handing, Injecting
<1>2. SUFFICES st'[Sysmon].pc \notin Uncounting
  BY <1>1 DEF Starting, Handing, Injecting, Uncounting
<1>3. ASSUME Back(st'[Sysmon], st[Sysmon]), st[Sysmon].pc \in Starting \cup Handing PROVE st'[Sysmon].pc \notin Uncounting
  BY <1>0, <1>3 DEF Fits, Back, Uncounting
<1>4. ASSUME NEW l \in {"newm", "undo", "startm", "handoffCas", "handoffLocked", "injected"}, Goes(Sysmon, l)
      PROVE  st'[Sysmon].pc \notin Uncounting
  BY <1>4 DEF Goes, To, Uncounting
<1>5. CASE startm(Sysmon)
  <2>1. StartmDoes(Sysmon) /\ st[Sysmon].pc \in Starting \cup Handing
    BY <1>0, <1>5, startmDoes DEF startm, At, Starting
  <2>2. ASSUME st'[Sysmon].pc = "newm" PROVE st'[Sysmon].pc \notin Uncounting
    BY <2>2 DEF Uncounting
  <2> QED
    BY <1>3, <1>4, <2>1, <2>2 DEF StartmDoes
<1>6. CASE startmUndo(Sysmon)
  <2>1. st[Sysmon].pc \in Starting \cup Handing
    BY <1>6 DEF startmUndo, At, Starting
  <2> QED
    BY <1>0, <1>3, <1>6, <2>1, startmUndoDoes
<1>7. CASE newm(Sysmon)
  <2>1. PICK m \in M \ {Sysmon} : NewmDoes(Sysmon, m)
    BY <1>0, <1>7, newmDoes
  <2>2. st[Sysmon].pc \in Starting \cup Handing
    BY <1>7 DEF newm, At, Starting
  <2> QED
    BY <1>3, <2>1, <2>2 DEF NewmDoes
<1>8. CASE handoffp(Sysmon)
  BY <1>0, <1>4, <1>8, handoffpDoes
<1>9. CASE handoffCas(Sysmon)
  <2>1. ASSUME NEW h, NEW r, Calls(Sysmon, h, TRUE, r) PROVE st'[Sysmon].pc \notin Uncounting
    BY <2>1 DEF Calls, Uncounting
  <2> QED
    BY <1>0, <1>4, <1>9, <2>1, handoffCasDoes
<1>10. CASE handoffLocked(Sysmon)
  <2>1. st[Sysmon].pc \in Starting \cup Handing
    BY <1>10 DEF handoffLocked, At, Handing
  <2> QED
    BY <1>0, <1>3, <1>4, <1>10, <2>1, handoffLockedDoes
<1>11. CASE injectglist(Sysmon)
  <2>1. Goes(Sysmon, "injected")
    BY <1>0, <1>11, Going DEF injectglist, PC, Injecting
  <2> QED
    BY <1>4, <2>1
<1>12. CASE injected(Sysmon)
  <2>1. InjectedDoes(Sysmon) /\ st[Sysmon].pc = "injected"
    BY Zenon, <1>0, <1>12, injectedDoes DEF injected, At
  <2>2. AfterInject(st[Sysmon]) = "uncount"
    BY <1>0, <2>1 DEF AfterInject, Fits, Injector, Injecting
  <2>3. st'[Sysmon].pc \in {"startm", "uncount"}
    BY <2>1, <2>2 DEF InjectedDoes
  <2> QED
    BY Zenon, <2>3 DEF Uncounting
<1> QED
  BY <1>5, <1>6, <1>7, <1>8, <1>9, <1>10, <1>11, <1>12 DEF SharedNext

(* A thread moves sysmon only to wake it up. *)
LEMMA ThreadSysmon ==
  ASSUME Good, Asleep, NEW m \in M, ThreadNext(m)
  PROVE  st'[Sysmon].pc = st[Sysmon].pc \/ (st[Sysmon].pc = "asleep" /\ st'[Sysmon].pc = "sysmon")
<1> USE DEF Good
<1>0. m # Sysmon /\ Sysmon \in T
  BY SchedAssumption DEF SchedAssumption, T
<1>1. ASSUME To(st'[Sysmon], st[Sysmon], IF sysmonwait THEN "sysmon" ELSE st[Sysmon].pc)
      PROVE  st'[Sysmon].pc = st[Sysmon].pc \/ (st[Sysmon].pc = "asleep" /\ st'[Sysmon].pc = "sysmon")
  BY <1>1 DEF Asleep, To
<1>2. CASE entersyscall(m)
  BY <1>1, <1>2, entersyscallDoes DEF EnterDoes
<1>3. CASE exitsyscall0(m) /\ idle # {}
  BY <1>1, <1>3, exitsyscall0Does DEF Exit0Does
<1>4. CASE ~entersyscall(m) /\ (~exitsyscall0(m) \/ idle = {})
  <2>1. Rest(m)
    BY <1>4, ThreadAlone
  <2> QED
    BY <1>0, <2>1 DEF Rest
<1> QED
  BY <1>2, <1>3, <1>4

(* sysmon counts itself in and out. *)
LEMMA SysmonLocked ==
  ASSUME Good, Locked, Noted, Waiting, SysmonNext
  PROVE  Locked' /\ Noted'
<1> USE DEF Good
<1>0. Sysmon \in T /\ {"asleep", "sysmon", "inject"} \subseteq PC /\ netwait \in Nat
  BY DEF T, PC, Monitoring, Injecting, TypeOK
<1>1. ASSUME NEW l \in {"asleep", "sysmon", "inject"}, Goto(Sysmon, l) PROVE st'[Sysmon].pc = l
  BY <1>0, <1>1, Going DEF Goes, To
<1>2. CASE sysmonSleeps \/ sysmonTimeout
  <2>1. idlelocked' = idlelocked /\ st[Sysmon].pc \in {"sysmon", "asleep"} /\ st'[Sysmon].pc \in {"sysmon", "asleep"}
    BY <1>1, <1>2 DEF sysmonSleeps, sysmonTimeout, At
  <2> QED
    BY <2>1 DEF Locked, Noted, Uncounting
<1>3. CASE sysmonPolls
  <2>1. idlelocked' = idlelocked /\ st[Sysmon].pc = "sysmon" /\ waiters' = waiters /\ netwait > 0
    BY <1>0, <1>3 DEF sysmonPolls, At, mon
  <2>2. st'[Sysmon].pc = "incidlelocked"
    BY <1>3, sysmonPollsDoes DEF Bears
  <2> QED
    BY <2>1, <2>2 DEF Locked, Noted, Uncounting, Waiting
<1>4. CASE incidlelocked
  <2>1. idlelocked' = idlelocked - 1 /\ st[Sysmon].pc = "incidlelocked" /\ st'[Sysmon].pc = "inject"
    BY <1>1, <1>4 DEF incidlelocked, At
  <2> QED
    BY <2>1 DEF Locked, Noted, Uncounting
<1>5. CASE retake
  <2>1. idlelocked' = idlelocked - 1 /\ st[Sysmon].pc = "sysmon"
    BY <1>5 DEF retake, At
  <2>2. st'[Sysmon].pc = "retakeCas"
    BY <1>5, retakeDoes DEF RetakeDoes
  <2> QED
    BY <2>1, <2>2 DEF Locked, Noted, Uncounting
<1>6. CASE retakeCas
  <2>1. idlelocked' = idlelocked /\ st[Sysmon].pc = "retakeCas"
    BY <1>6 DEF retakeCas, At, mon
  <2>2. st'[Sysmon].pc \in {"handoffp", "uncount"}
    BY <1>6, retakeCasDoes DEF RetakenDoes, IsLocal
  <2> QED
    BY <2>1, <2>2 DEF Locked, Noted, Uncounting
<1>7. CASE uncount
  <2>1. idlelocked' = idlelocked + 1 /\ st[Sysmon].pc = "uncount"
    BY <1>7 DEF uncount, At
  <2>2. st'[Sysmon].pc = "sysmon"
    BY <1>7, uncountDoes DEF IsLocal
  <2> QED
    BY <2>1, <2>2 DEF Locked, Noted, Uncounting
<1> QED
  BY <1>2, <1>3, <1>4, <1>5, <1>6, <1>7 DEF SysmonNext

(* incidlelocked(-1) and incidlelocked(1) come in pairs (proc.go:4393-4401, 4475-4481). *)
LEMMA LockedStep ==
  ASSUME IInv, IInv', Waiting, Locked, Noted, [Next]_vars
  PROVE  Locked' /\ Noted'
<1> USE DEF IInv, Good
<1>0. Sysmon \in T /\ Sysmon \notin M
  BY SchedAssumption DEF SchedAssumption, T
<1>1. ASSUME idlelocked' = idlelocked, waiters => waiters',
             \/ st'[Sysmon].pc = st[Sysmon].pc
             \/ st'[Sysmon].pc \in {"sysmon", "asleep"} /\ st[Sysmon].pc \in {"sysmon", "asleep"}
             \/ st'[Sysmon].pc \notin Uncounting /\ st[Sysmon].pc \notin Uncounting
      PROVE  Locked' /\ Noted'
  BY <1>1 DEF Locked, Noted, Uncounting
<1>2. ASSUME NEW t \in T, SharedNext(t) PROVE Locked' /\ Noted'
  <2>1. idlelocked' = idlelocked /\ waiters' = waiters /\ sysmonwait' = sysmonwait
    BY Zenon, <1>2 DEF SharedNext, startm, startmUndo, newm, handoffp, handoffCas, handoffLocked, injectglist, injected, mon, net
  <2>2. CASE t = Sysmon
    BY <1>1, <1>2, <2>1, <2>2, SharedBusy
  <2>3. CASE t # Sysmon
    <3>1. Others(t)
      BY <1>2, SharedOthers
    <3>2. st[Sysmon].pc \notin {"stopped", "fresh"}
      BY <1>0 DEF Shapes, Fits, ForSysmon, Starting, Handing, Injecting, Monitoring
    <3>3. st'[Sysmon].pc = st[Sysmon].pc
      <4>1. CASE st[Sysmon].pc = "asleep"
        BY <2>1, <4>1 DEF Asleep
      <4>2. CASE st[Sysmon].pc # "asleep"
        BY <1>0, <2>3, <3>1, <3>2, <4>2 DEF Others
      <4> QED
        BY <4>1, <4>2
    <3> QED
      BY <1>1, <2>1, <3>3
  <2> QED
    BY SMTT(30), <2>2, <2>3
<1>3. ASSUME NEW m \in M, ThreadNext(m) PROVE Locked' /\ Noted'
  <2>1. idlelocked' = idlelocked
    BY ZenonT(60), <1>3 DEF ThreadNext, ready, readied, wakep, park, parkOnNet, gosched, entersyscall, entersyscallblock,
       exitsyscall, exitsyscall0, schedule, findrunnable, netpoll, spin, steal, stop, unspin, recheck, rechecked,
       respin, netblock, polling, polled, pollPidle, resetspinning, stopm, mon
  <2>2. waiters => waiters'
    BY Zenon, <1>3 DEF ThreadNext, ready, readied, wakep, park, parkOnNet, gosched, entersyscall, entersyscallblock,
       exitsyscall, exitsyscall0, schedule, findrunnable, netpoll, spin, steal, stop, unspin, recheck, rechecked,
       respin, netblock, polling, polled, pollPidle, resetspinning, stopm, net
  <2> QED
    BY Zenon, <1>1, <1>3, <2>1, <2>2, ThreadSysmon
<1>4. CASE SysmonNext
  BY <1>4, SysmonLocked
<1>5. CASE UNCHANGED vars
  BY <1>5 DEF vars, net, mon, Locked, Noted
<1> QED
  BY <1>2, <1>3, <1>4, <1>5, NextSplit

(* A P stays in a system call with its thread, until the thread or sysmon takes it out. *)
LEMMA HostedStep ==
  ASSUME IInv, Hosted, [Next]_vars
  PROVE  Hosted'
<1> USE DEF IInv, Good
<1>1. ASSUME NEW a \in T, Others(a), insys' \subseteq insys, st[a].pc # "syscall" PROVE Hosted'
  <2>1. ASSUME NEW p \in insys' PROVE \E m \in M : st'[m].pc = "syscall" /\ st'[m].p = p
    <3>1. PICK m \in M : st[m].pc = "syscall" /\ st[m].p = p
      BY <1>1 DEF Hosted
    <3>2. m \in T \ {a}
      BY <1>1, <3>1 DEF T
    <3> QED
      BY <1>1, <3>1, <3>2 DEF Others
  <2> QED
    BY <2>1 DEF Hosted
<1>2. ASSUME NEW t \in T, SharedNext(t) PROVE Hosted'
  <2>1. insys' = insys /\ st[t].pc # "syscall"
    BY Zenon, <1>2 DEF SharedNext, startm, startmUndo, newm, handoffp, handoffCas, handoffLocked, injectglist, injected, At
  <2> QED
    BY SMTT(30), <1>1, <1>2, <2>1, SharedOthers
<1>3. ASSUME NEW m \in M, ThreadNext(m) PROVE Hosted'
  <2>0. m \in T /\ Others(m)
    BY <1>3, ThreadOthers DEF T
  <2>1. CASE entersyscall(m)
    <3>1. insys' = insys \cup {st[m].p} /\ st[m].pc = "run"
      BY <2>1 DEF entersyscall, At
    <3>2. st'[m].pc = "syscall" /\ st'[m].p = st[m].p
      BY <2>1, entersyscallDoes DEF EnterDoes, To, Same
    <3>3. ASSUME NEW p \in insys PROVE \E u \in M : st'[u].pc = "syscall" /\ st'[u].p = p
      <4>1. PICK u \in M : st[u].pc = "syscall" /\ st[u].p = p
        BY DEF Hosted
      <4>2. u \in T \ {m}
        BY <3>1, <4>1 DEF T
      <4> QED
        BY <2>0, <4>1, <4>2 DEF Others
    <3> QED
      BY <3>1, <3>2, <3>3 DEF Hosted
  <2>2. CASE exitsyscall(m)
    <3>1. ASSUME NEW p \in insys' PROVE \E u \in M : st'[u].pc = "syscall" /\ st'[u].p = p
      <4>0. insys' = insys \ {st[m].p}
        <5>1. CASE st[m].p \in insys
          BY <2>2, <5>1, Zenon DEF exitsyscall
        <5>2. CASE st[m].p \notin insys
          <6>1. insys' = insys
            BY <2>2, <5>2, Zenon DEF exitsyscall
          <6> QED
            BY <5>2, <6>1
        <5> QED
          BY <5>1, <5>2
      <4>1. p \in insys /\ p # st[m].p
        BY <3>1, <4>0
      <4>2. PICK u \in M : st[u].pc = "syscall" /\ st[u].p = p
        BY <4>1 DEF Hosted
      <4>3. u \in T \ {m}
        BY <4>1, <4>2 DEF T
      <4> QED
        BY <2>0, <4>2, <4>3 DEF Others
    <3> QED
      BY <3>1 DEF Hosted
  <2>3. CASE ~entersyscall(m) /\ ~exitsyscall(m)
    <3>1. insys' = insys /\ st[m].pc # "syscall"
      BY Zenon, <1>3, <2>3 DEF ThreadNext, ready, readied, wakep, park, parkOnNet, gosched, entersyscallblock,
       exitsyscall0, schedule, findrunnable, netpoll, spin, steal, stop, unspin, recheck, rechecked, respin,
       netblock, polling, polled, pollPidle, resetspinning, stopm, mon, At
    <3> QED
      BY Zenon, <1>1, <2>0, <3>1
  <2> QED
    BY <2>1, <2>2, <2>3
<1>4. CASE SysmonNext
  <2>1. st[Sysmon].pc # "syscall" /\ Sysmon \in T
    BY Zenon, <1>4 DEF SysmonNext, sysmonSleeps, sysmonTimeout, sysmonPolls, incidlelocked, retake, retakeCas, uncount, At, T
  <2>2. insys' \subseteq insys
    <3>1. CASE retakeCas
      BY <3>1, Zenon DEF retakeCas
    <3>2. CASE ~retakeCas
      BY Zenon, <1>4, <3>2 DEF SysmonNext, sysmonSleeps, sysmonTimeout, sysmonPolls, incidlelocked, retake, uncount
    <3> QED
      BY <3>1, <3>2
  <2> QED
    BY <1>1, <1>4, <2>1, <2>2, SysmonOthers
<1>5. CASE UNCHANGED vars
  BY <1>5 DEF vars, Hosted
<1> QED
  BY <1>2, <1>3, <1>4, <1>5, NextSplit

(* No step makes or loses a goroutine. *)
LEMMA ConservedStep ==
  ASSUME IInv, IInv', Conserved, [Next]_vars
  PROVE  Conserved'
<1> USE DEF IInv
<1>1. ASSUME NEW t \in T, SharedNext(t) PROVE Conserved'
  BY <1>1, StartingConserved, HandingConserved DEF SharedNext
<1>2. ASSUME NEW m \in M, ThreadNext(m) PROVE Conserved'
  BY <1>2, RunConserved, SyscallConserved, LookingConserved, StopConserved DEF ThreadNext
<1>3. CASE SysmonNext
  BY <1>3, SysmonConserved
<1>4. CASE UNCHANGED vars
  <2>1. st' = st /\ UNCHANGED <<parked, netwait, glob, loc>>
    BY <1>4 DEF vars, net
  <2> QED
    BY <2>1, ConservedSame DEF Good
<1> QED
  BY <1>1, <1>2, <1>3, <1>4, NextSplit

(* At the start main runs, sysmon counts nobody, and the other goroutines are parked. *)
LEMMA DInvInit == Init => DInv
<1> SUFFICES ASSUME Init PROVE DInv
  OBVIOUS
<1>1. PICK m0 \in M, p0 \in P :
        st = [t \in T |-> IF t = m0 THEN Local("run", p0)
                          ELSE IF t = Sysmon THEN Local("sysmon", None) ELSE Local("fresh", None)]
  BY DEF Init
<1>2. m0 \in T /\ Sysmon \in T /\ m0 # Sysmon
  BY SchedAssumption DEF SchedAssumption, T
<1>3. st[Sysmon].pc = "sysmon"
  BY <1>1, <1>2 DEF Local
<1>4. Locked /\ Noted /\ Hosted
  BY <1>3 DEF Init, Locked, Noted, Hosted, Uncounting
<1>5. TypeOK
  BY InitIInv DEF IInv, Good
<1>6. Load(st[m0]) = 1
  <2>1. st[m0].pc = "run"
    BY <1>1, <1>2 DEF Local
  <2>2. Hand(st[m0]) = 0 /\ Carries(st[m0])
    BY <2>1 DEF Hand, Carries
  <2> QED
    BY <2>2 DEF Load
<1>7. ASSUME NEW t \in T \ {m0} PROVE Load(st[t]) = 0
  <2>1. st[t].pc \in {"sysmon", "fresh"} /\ st[t].ret = ""
    BY <1>1 DEF Local
  <2>2. Hand(st[t]) = 0 /\ ~Carries(st[t])
    BY <2>1 DEF Hand, Carries, Injector, Starting, Handing, Injecting
  <2> QED
    BY <2>2 DEF Load
<1>8. IsFiniteSet(Units(T, Loads)) /\ Total(T, Loads) = 1
  <2> DEFINE f == [t \in T |-> 0]
  <2>1. f \in [T -> Nat] /\ \A t \in T : f[t] = 0
    OBVIOUS
  <2>2. Loads \in [T -> Nat] /\ \A t \in T : Loads[t] = Load(st[t])
    BY <1>5, LoadsAre
  <2> HIDE DEF f, Load, Loads
  <2>3. IsFiniteSet(Units(T, f)) /\ Total(T, f) = 0
    BY <2>1, TotalZero
  <2>4. \A t \in T \ {m0} : Loads[t] = f[t]
    BY <1>7, <2>1, <2>2
  <2>5. IsFiniteSet(Units(T, Loads)) /\ Total(T, Loads) = Total(T, f) + Loads[m0] - f[m0]
    BY <1>2, <2>1, <2>2, <2>3, <2>4, TotalChanges
  <2> QED
    BY <1>2, <1>6, <2>1, <2>2, <2>3, <2>5
<1>9. IsFiniteSet(Units(P, loc)) /\ Total(P, loc) = 0
  BY TotalZero DEF Init
<1>10. NG = parked + netwait + glob + Total(P, loc) + Total(T, Loads)
  BY <1>8, <1>9, SchedAssumption DEF Init, SchedAssumption
<1> QED
  BY <1>4, <1>8, <1>9, <1>10 DEF DInv, Conserved

(* When every thread that was ever created has stopped and sysmon is about *)
(* to start none, no goroutine can be anywhere but parked.                 *)
Silent == Created(st) \subseteq Stopped(st) /\ idlelocked = 0 => parked = NG

(* Nobody has a P, a queue, a wait or a hand to put it in. *)
LEMMA Silence == IInv /\ RestInv /\ DInv => Silent
<1> SUFFICES ASSUME IInv, RestInv, DInv, Created(st) \subseteq Stopped(st), idlelocked = 0 PROVE parked = NG
  BY DEF Silent
<1> USE DEF IInv, Good, RestInv, DInv
<1>0. Sysmon \in T /\ Sysmon \notin M /\ None \notin P
  BY SchedAssumption DEF SchedAssumption, T
<1>1. ASSUME NEW m \in M PROVE st[m].pc \in {"fresh", "stopped"}
  BY DEF Created, Stopped
<1>2. st[Sysmon].pc \in Uncounting
  BY DEF Locked
<1>3. ASSUME NEW t \in T PROVE st[t].pc \in {"fresh", "stopped", "sysmon", "asleep", "incidlelocked"} /\ Fits(t, st[t])
  BY <1>1, <1>2 DEF T, Shapes, Uncounting
<1>4. insys = {}
  <2>1. ASSUME NEW p \in insys PROVE FALSE
    BY <1>1 DEF Hosted
  <2> QED
    BY <2>1
<1>5. ASSUME NEW t \in T, NEW p \in P PROVE ~Has(st[t], p)
  BY <1>0, <1>3 DEF Fits, Shape, NoP, Monitoring, Handing, Has
<1>6. idle = P
  BY <1>4, <1>5 DEF Owned, OwnedAt, TypeOK
<1>7. ~waiters
  BY <1>1, <1>6 DEF Watching, Pollers
<1>8. netwait = 0
  BY <1>7 DEF Waiting, TypeOK
<1>9. glob = 0
  <2>1. \A t \in T : ~Waker(st[t])
    BY <1>3 DEF Waker
  <2> QED
    BY <1>6, <2>1 DEF Fetched, TypeOK
<1>10. Total(P, loc) = 0
  BY <1>6, TotalZero DEF Empty
<1>11. ASSUME NEW t \in T PROVE Load(st[t]) = 0
  <2>1. st[t].pc \in {"fresh", "stopped", "sysmon", "asleep"}
    <3>1. CASE t \in M
      BY <1>1, <3>1
    <3>2. CASE t = Sysmon
      BY <1>3, <1>2, <1>7, <3>2 DEF Noted, Uncounting
    <3> QED
      BY <3>1, <3>2 DEF T
  <2>2. st[t].pc \in Free
    BY <2>1 DEF Free
  <2> QED
    BY <1>3, <2>2, LoadOf
<1>12. Total(T, Loads) = 0
  <2>1. \A t \in T : Loads[t] = 0
    BY <1>11, LoadsAre
  <2> QED
    BY <2>1, TotalZero
<1>13. NG = parked + netwait + glob + Total(P, loc) + Total(T, Loads) /\ parked \in Nat
  BY DEF Conserved, TypeOK
<1> QED
  BY <1>8, <1>9, <1>10, <1>12, <1>13

(* Every step keeps the count of the goroutines and that of the threads. *)
LEMMA DInvStep == IInv /\ RestInv /\ DInv /\ [Next]_vars => DInv'
<1> SUFFICES ASSUME IInv, RestInv, DInv, [Next]_vars PROVE DInv'
  OBVIOUS
<1>1. IInv'
  BY IInvStep
<1> QED
  BY <1>1, LockedStep, HostedStep, ConservedStep DEF DInv, RestInv

(* After checkdead threw nothing happens. *)
LEMMA DeadStops == dead /\ [Next]_vars => UNCHANGED vars
<1> SUFFICES ASSUME dead, [Next]_vars PROVE UNCHANGED vars
  OBVIOUS
<1>1. ASSUME NEW t \in T, SharedNext(t) PROVE FALSE
  BY <1>1 DEF SharedNext, startm, startmUndo, newm, handoffp, handoffCas, handoffLocked, injectglist, injected, At
<1>2. ASSUME NEW m \in M, ThreadNext(m) PROVE FALSE
  BY <1>2 DEF ThreadNext, ready, readied, wakep, park, parkOnNet, gosched, entersyscall, entersyscallblock,
     exitsyscall, exitsyscall0, schedule, findrunnable, netpoll, spin, steal, stop, unspin, recheck, rechecked,
     respin, netblock, polling, polled, pollPidle, resetspinning, stopm, At
<1>3. ASSUME SysmonNext PROVE FALSE
  BY <1>3 DEF SysmonNext, sysmonSleeps, sysmonTimeout, sysmonPolls, incidlelocked, retake, retakeCas, uncount, At
<1> QED
  BY <1>1, <1>2, <1>3, NextSplit

(* checkdead throws when there are no more threads than stopped ones. *)
LEMMA DeadBy ==
  ASSUME ~dead, dead', [Next]_vars
  PROVE  checkdead(st', idlelocked')
<1>1. ASSUME NEW t \in T, SharedNext(t) PROVE FALSE
  BY Zenon, <1>1 DEF SharedNext, startm, startmUndo, newm, handoffp, handoffCas, handoffLocked, injectglist, injected, mon
<1>2. ASSUME NEW m \in M, ThreadNext(m) PROVE checkdead(st', idlelocked')
  <2>1. CASE stopm(m)
    BY Zenon, <2>1 DEF stopm
  <2>2. CASE ~stopm(m)
    BY Zenon, <1>2, <2>2 DEF ThreadNext, ready, readied, wakep, park, parkOnNet, gosched, entersyscall, entersyscallblock,
     exitsyscall, exitsyscall0, schedule, findrunnable, netpoll, spin, steal, stop, unspin, recheck, rechecked,
     respin, netblock, polling, polled, pollPidle, resetspinning, mon
  <2> QED
    BY <2>1, <2>2
<1>3. ASSUME SysmonNext PROVE checkdead(st', idlelocked')
  <2>1. CASE uncount
    BY <2>1 DEF uncount
  <2>2. CASE ~uncount
    BY Zenon, <1>3, <2>2 DEF SysmonNext, sysmonSleeps, sysmonTimeout, sysmonPolls, incidlelocked, retake, retakeCas, mon
  <2> QED
    BY <2>1, <2>2
<1>4. CASE UNCHANGED vars
  BY <1>4 DEF vars, mon
<1> QED
  BY SMTT(30), <1>1, <1>2, <1>3, <1>4, NextSplit

(* checkdead throws only when every goroutine is parked. *)
LEMMA DeadStep == IInv /\ RestInv /\ DInv /\ DeadIsDead /\ [Next]_vars => DeadIsDead'
<1> SUFFICES ASSUME IInv, RestInv, DInv, DeadIsDead, [Next]_vars PROVE DeadIsDead'
  OBVIOUS
<1>1. CASE dead
  <2>1. UNCHANGED vars
    BY <1>1, DeadStops
  <2> QED
    BY <2>1 DEF vars, mon, DeadIsDead
<1>2. CASE ~dead /\ dead'
  <2>1. IInv' /\ RestInv' /\ DInv'
    BY IInvStep, RestInvStep, DInvStep
  <2>2. Silent'
    BY <2>1, Silence, PTL
  <2>3. Cardinality(Created(st')) - Cardinality(Stopped(st')) - idlelocked' <= 0
    BY <1>2, DeadBy DEF checkdead
  <2>4. idlelocked' \in {0, -1}
    BY <2>1 DEF DInv, Locked
  <2>5. IsFiniteSet(Created(st')) /\ Stopped(st') \subseteq Created(st')
    <3>1. Created(st') \subseteq M /\ IsFiniteSet(M)
      BY SchedAssumption DEF SchedAssumption, Created
    <3> QED
      BY <3>1, FS_Subset DEF Created, Stopped
  <2>6. /\ Cardinality(Stopped(st')) <= Cardinality(Created(st'))
        /\ Cardinality(Created(st')) = Cardinality(Stopped(st')) => Created(st') = Stopped(st')
        /\ IsFiniteSet(Stopped(st'))
    BY <2>5, FS_Subset
  <2>7. Cardinality(Created(st')) \in Nat /\ Cardinality(Stopped(st')) \in Nat
    BY <2>5, <2>6, FS_CardinalityType
  <2>8. idlelocked' = 0 /\ Created(st') = Stopped(st')
    BY <2>3, <2>4, <2>6, <2>7
  <2>9. parked' = NG
    BY <2>2, <2>8 DEF Silent, Created, Stopped
  <2> QED
    BY <2>9 DEF DeadIsDead
<1>3. CASE ~dead'
  BY <1>3 DEF DeadIsDead
<1> QED
  BY <1>1, <1>2, <1>3

(* In every reachable state each goroutine is in one place (parked,        *)
(* waiting for the network, in a queue, or with a thread), nmidlelocked is *)
(* 0 or, while sysmon is about to start a thread, -1, and a P in a system  *)
(* call has a thread in it (proc.go:2918-3000, 4393-4401, 4475-4481).      *)
THEOREM NobodyIsLost == Spec => [](IInv /\ RestInv /\ DInv)
<1>1. Init => RestInv
  BY DEF Init, RestInv, Rested, Blocking, Watching, Waiting, Fetched
<1> QED
  BY <1>1, InitIInv, DInvInit, IInvStep, RestInvStep, DInvStep, PTL DEF Spec

(* checkdead throws "all goroutines are asleep - deadlock!" only when they *)
(* are: it is not misled by a goroutine on its way from the poller to a    *)
(* queue, by a thread that is about to be started, or by one in a system   *)
(* call (proc.go:4223, 4393-4401, 4475-4481).                              *)
THEOREM DeadIsTrue == Spec => []DeadIsDead
<1>1. Init => DeadIsDead
  BY DEF Init, DeadIsDead
<1> QED
  BY <1>1, NobodyIsLost, DeadStep, PTL DEF Spec

----------------------------------------------------------------------------
(* While a P is idle and no lapse has happened, somebody is responsible    *)
(* for each queue with work: a thread that will look at it or start one    *)
(* that will, or, for every P that is idle, somebody who will take it.     *)

(* The threads that an injectglist has still to start. *)
Pending(s) == IF s.pc = "injected" THEN s.n
              ELSE IF s.ret = "injected" THEN (IF s.pc = "startm" THEN s.n + 1 ELSE s.n) ELSE 0
(* In the last look at the queues, the one of p not yet seen. *)
Checking(s, p) == s.pc = "rechecked" \/ (s.pc = "recheck" /\ p \in s.todo)
(* The idle Ps that a thread will take, if there is work with p. *)
Owes(s, p) == IF s.ret = "findrunnable" /\ Checking(s, p) THEN Pending(s) + 1 ELSE Pending(s)
(* A thread that spins, will spin, or will start one that does. *)
Minds(s, p) == \/ s.spin \/ s.sp \/ s.pc \in {"readied", "wakep", "respin"}
               \/ s.ret = "respin" /\ Checking(s, p)

Pendings == [t \in T |-> Pending(st[t])]
Debts(p) == [t \in T |-> Owes(st[t], p)]
Alert(p) == \E t \in T : Minds(st[t], p)
Covered(p) == Cardinality(idle) <= Total(T, Debts(p))

(* There is no more in the global queue than threads about to be started   *)
(* and Ps at work will see to, *)
Few == idle # {} /\ ~lapse => glob <= Total(T, Pendings) + Cardinality(P) - Cardinality(idle)
(* and each local queue with work has somebody. *)
Responsible == idle # {} /\ ~lapse => \A p \in P : loc[p] > 0 => Alert(p) \/ Covered(p)
Minded == Few /\ Responsible

(* A finite set has finitely many units. *)
LEMMA UnitsAreFinite ==
  ASSUME NEW S, IsFiniteSet(S), NEW f \in [S -> Nat]
  PROVE  IsFiniteSet(Units(S, f))
<1> DEFINE h == [x \in S |-> {x} \X (0 .. f[x] - 1)]
           H == {h[x] : x \in S}
<1>1. h \in Surjection(S, H)
  BY DEF Surjection
<1>2. IsFiniteSet(H)
  BY <1>1, FS_Surjection
<1>3. \A x \in S : IsFiniteSet(h[x])
  <2> TAKE x \in S
  <2>1. f[x] \in Nat
    OBVIOUS
  <2>2. IsFiniteSet({x} \X (0 .. f[x] - 1))
    BY <2>1, Column
  <2> QED
    BY <2>2
<1>4. IsFiniteSet(UNION H)
  BY <1>2, <1>3, FS_UNION
<1>5. Units(S, f) \subseteq UNION H
  <2>1. ASSUME NEW u \in Units(S, f) PROVE u \in UNION H
    <3>1. PICK x \in S, i \in Nat : u = <<x, i>> /\ i < f[x]
      BY DEF Units
    <3>2. i \in 0 .. f[x] - 1
      BY <3>1
    <3>3. u \in h[x]
      BY <3>1, <3>2
    <3> QED
      BY <3>3
  <2> QED
    BY <2>1
<1> QED
  BY <1>4, <1>5, FS_Subset

(* A function that is nowhere smaller has no smaller sum. *)
LEMMA TotalGrows ==
  ASSUME NEW S, IsFiniteSet(S), NEW f \in [S -> Nat], NEW g \in [S -> Nat], \A x \in S : f[x] <= g[x]
  PROVE  Total(S, f) <= Total(S, g) /\ Total(S, f) \in Nat /\ Total(S, g) \in Nat
<1>1. IsFiniteSet(Units(S, f)) /\ IsFiniteSet(Units(S, g))
  BY UnitsAreFinite
<1>2. Units(S, f) \subseteq Units(S, g)
  <2>1. ASSUME NEW u \in Units(S, f) PROVE u \in Units(S, g)
    <3>1. u \in S \X Nat /\ u[2] < f[u[1]]
      BY DEF Units
    <3>2. u[1] \in S /\ u[2] \in Nat
      BY <3>1
    <3>3. f[u[1]] \in Nat /\ g[u[1]] \in Nat /\ f[u[1]] <= g[u[1]]
      BY <3>2
    <3>4. u[2] < g[u[1]]
      BY <3>1, <3>2, <3>3
    <3> QED
      BY <3>1, <3>4 DEF Units
  <2> QED
    BY <2>1
<1> QED
  BY <1>1, <1>2, FS_Subset, FS_CardinalityType DEF Total

(* It changes as the function does at one argument. *)
LEMMA TotalMoves ==
  ASSUME NEW S, IsFiniteSet(S), NEW f \in [S -> Nat], NEW g \in [S -> Nat], NEW x \in S,
         \A y \in S \ {x} : g[y] = f[y]
  PROVE  Total(S, g) = Total(S, f) + g[x] - f[x] /\ Total(S, f) \in Nat /\ Total(S, g) \in Nat
BY UnitsAreFinite, TotalChanges

(* What threads owe is a natural number, *)
LEMMA OwesNat ==
  ASSUME NEW s, s.n \in Nat, NEW p
  PROVE  /\ Pending(s) \in Nat /\ Owes(s, p) \in Nat /\ Pending(s) <= Owes(s, p)
         /\ s.ret # "findrunnable" \/ ~Checking(s, p) => Owes(s, p) = Pending(s)
         /\ s.ret = "findrunnable" /\ Checking(s, p) => Owes(s, p) = Pending(s) + 1
<1>1. Pending(s) \in Nat
  BY DEF Pending
<1> HIDE DEF Pending
<1> QED
  BY <1>1 DEF Owes

(* sum by sum, and who takes a P for any work takes it for p's too, *)
LEMMA DebtsAre ==
  ASSUME TypeOK, NEW p
  PROVE  /\ Pendings \in [T -> Nat] /\ Debts(p) \in [T -> Nat]
         /\ \A t \in T : Pendings[t] = Pending(st[t]) /\ Debts(p)[t] = Owes(st[t], p)
         /\ IsFiniteSet(T) /\ Total(T, Pendings) \in Nat /\ Total(T, Debts(p)) \in Nat
         /\ Total(T, Pendings) <= Total(T, Debts(p))
<1>1. \A t \in T : st[t].n \in Nat
  BY DEF TypeOK, Thread
<1>2. \A t \in T : Pending(st[t]) \in Nat /\ Owes(st[t], p) \in Nat /\ Pending(st[t]) <= Owes(st[t], p)
  BY <1>1, OwesNat
<1>3. /\ Pendings \in [T -> Nat] /\ Debts(p) \in [T -> Nat]
      /\ \A t \in T : Pendings[t] = Pending(st[t]) /\ Debts(p)[t] = Owes(st[t], p)
  BY <1>2 DEF Pendings, Debts
<1>4. IsFiniteSet(T)
  BY SchedAssumption, FS_AddElement DEF SchedAssumption, T
<1>5. \A t \in T : Pendings[t] <= Debts(p)[t]
  BY <1>2, <1>3
<1> QED
  BY <1>3, <1>4, <1>5, TotalGrows

(* and when one thread's changes the sum does. *)
LEMMA DebtsOne ==
  ASSUME TypeOK, TypeOK', NEW p, NEW t \in T,
         \A u \in T \ {t} : Pending(st'[u]) = Pending(st[u]) /\ Owes(st'[u], p) = Owes(st[u], p)
  PROVE  /\ Total(T, Pendings') = Total(T, Pendings) + Pending(st'[t]) - Pending(st[t])
         /\ Total(T, Debts(p)') = Total(T, Debts(p)) + Owes(st'[t], p) - Owes(st[t], p)
         /\ Total(T, Pendings) \in Nat /\ Total(T, Debts(p)) \in Nat
         /\ Total(T, Pendings') \in Nat /\ Total(T, Debts(p)') \in Nat
         /\ Total(T, Pendings') <= Total(T, Debts(p)')
         /\ Pending(st[t]) \in Nat /\ Pending(st'[t]) \in Nat /\ Owes(st[t], p) \in Nat /\ Owes(st'[t], p) \in Nat
<1>1. /\ Pendings \in [T -> Nat] /\ Debts(p) \in [T -> Nat] /\ IsFiniteSet(T)
      /\ \A u \in T : Pendings[u] = Pending(st[u]) /\ Debts(p)[u] = Owes(st[u], p)
  BY DebtsAre
<1>2. \A u \in T : Pending(st'[u]) \in Nat /\ Owes(st'[u], p) \in Nat /\ Pending(st'[u]) <= Owes(st'[u], p)
  <2>1. \A u \in T : st'[u].n \in Nat
    BY DEF TypeOK, Thread
  <2> QED
    BY <2>1, OwesNat
<1>3. /\ Pendings' = [u \in T |-> Pending(st'[u])]
      /\ Debts(p)' = [u \in T |-> Owes(st'[u], p)]
  BY DEF Pendings, Debts, Pending, Owes, Checking
<1>4. /\ Pendings' \in [T -> Nat] /\ Debts(p)' \in [T -> Nat]
      /\ \A u \in T : Pendings'[u] = Pending(st'[u]) /\ Debts(p)'[u] = Owes(st'[u], p)
  BY <1>2, <1>3
<1> DEFINE f == Pendings  f2 == Pendings'  g == Debts(p)  g2 == Debts(p)'
<1> HIDE DEF Pending, Owes, f, f2, g, g2
<1>5. f \in [T -> Nat] /\ f2 \in [T -> Nat] /\ \A u \in T \ {t} : f2[u] = f[u]
  BY <1>1, <1>4 DEF f, f2
<1>6. g \in [T -> Nat] /\ g2 \in [T -> Nat] /\ \A u \in T \ {t} : g2[u] = g[u]
  BY <1>1, <1>4 DEF g, g2
<1>7. /\ f[t] = Pending(st[t]) /\ f2[t] = Pending(st'[t]) /\ g[t] = Owes(st[t], p) /\ g2[t] = Owes(st'[t], p)
  BY <1>1, <1>4 DEF f, f2, g, g2
<1>8. IsFiniteSet(T)
  BY <1>1
<1>9. Total(T, f2) = Total(T, f) + f2[t] - f[t] /\ Total(T, f) \in Nat /\ Total(T, f2) \in Nat
  BY <1>5, <1>8, TotalMoves
<1>10. Total(T, g2) = Total(T, g) + g2[t] - g[t] /\ Total(T, g) \in Nat /\ Total(T, g2) \in Nat
  BY <1>6, <1>8, TotalMoves
<1>11. \A u \in T : f2[u] <= g2[u]
  BY <1>2, <1>4 DEF f2, g2
<1>12. Total(T, f2) <= Total(T, g2)
  BY <1>5, <1>6, <1>8, <1>11, TotalGrows
<1>13. Pending(st[t]) \in Nat /\ Pending(st'[t]) \in Nat /\ Owes(st[t], p) \in Nat /\ Owes(st'[t], p) \in Nat
  BY <1>5, <1>6, <1>7
<1>14. /\ Total(T, f2) = Total(T, f) + Pending(st'[t]) - Pending(st[t])
       /\ Total(T, g2) = Total(T, g) + Owes(st'[t], p) - Owes(st[t], p)
  BY <1>7, <1>9, <1>10
<1>15. f = Pendings /\ f2 = Pendings' /\ g = Debts(p) /\ g2 = Debts(p)'
  BY DEF f, f2, g, g2
<1> HIDE DEF Pendings, Debts
<1> QED
  BY <1>9, <1>10, <1>12, <1>13, <1>14, <1>15

(* A thread from which nobody can expect anything, *)
Careless(s) == Pending(s) = 0 /\ \A p \in P : Owes(s, p) = 0 /\ ~Minds(s, p)
(* and threads from which as much can be expected as before. *)
Undisturbed(t) ==
  \A u \in T \ {t} : /\ Pending(st'[u]) = Pending(st[u])
                     /\ \A p \in P : Owes(st'[u], p) = Owes(st[u], p) /\ (Minds(st[u], p) => Minds(st'[u], p))

(* Only the last look and injectglist owe anything, *)
LEMMA NoDebt ==
  ASSUME NEW s, Shape(s), s.pc \notin {"injected", "recheck", "rechecked", "startm", "newm"}
  PROVE  Pending(s) = 0 /\ \A p \in P : Owes(s, p) = 0
<1>1. s.ret # "injected"
  BY DEF Shape
<1> QED
  BY <1>1 DEF Pending, Owes, Checking

(* and at many places a thread owes nothing and wakes nobody. *)
LEMMA CarelessAt ==
  ASSUME NEW s, Shape(s),
         s.pc \in {"run", "exit0", "syscall", "stopm", "stopped", "fresh", "netblock", "polling", "polled",
                   "pollPidle", "repark"} \cup Monitoring \cup Handing
  PROVE  Careless(s)
<1>1. Pending(s) = 0 /\ \A p \in P : Owes(s, p) = 0
  BY NoDebt DEF Monitoring, Handing
<1>2. ~s.spin /\ ~s.sp
  BY DEF Shape, Spinner, Injector, Injecting, Starting, Monitoring, Handing
<1>3. \A p \in P : ~Minds(s, p)
  BY <1>2 DEF Minds, Checking, Monitoring, Handing
<1> QED
  BY <1>1, <1>3 DEF Careless

(* A step that changes one thread disturbs no other. *)
LEMMA RestUndisturbed ==
  ASSUME NEW t \in T, Rest(t)
  PROVE  Undisturbed(t)
BY DEF Rest, Undisturbed

(* The idle Ps can be counted. *)
LEMMA IdleCount ==
  ASSUME NEW i \in SUBSET P
  PROVE  Cardinality(i) \in Nat /\ Cardinality(P) \in Nat /\ Cardinality(i) <= Cardinality(P) /\ IsFiniteSet(i)
BY SchedAssumption, FS_Subset, FS_CardinalityType DEF SchedAssumption

(* With no idle P, or after a lapse, nothing is asked. *)
LEMMA MindedFree ==
  ASSUME idle' = {} \/ lapse'
  PROVE  Minded'
BY DEF Minded, Few, Responsible

(* Nothing is to be minded when the queues are empty. *)
LEMMA MindedNothing ==
  ASSUME TypeOK, TypeOK', NEW t \in T, Undisturbed(t), glob' = 0, \A p \in P : loc'[p] = 0
  PROVE  Minded'
<1>1. PICK p0 \in P : TRUE
  BY DEF TypeOK
<1>2. Total(T, Pendings') \in Nat
  BY <1>1, DebtsOne DEF Undisturbed
<1>3. idle' \in SUBSET P
  BY DEF TypeOK
<1>4. Cardinality(idle') \in Nat /\ Cardinality(P) \in Nat /\ Cardinality(idle') <= Cardinality(P)
  BY <1>3, IdleCount
<1> HIDE DEF Pendings
<1>5. Few'
  BY <1>2, <1>4 DEF Few
<1>6. Responsible'
  BY DEF Responsible
<1> QED
  BY <1>5, <1>6 DEF Minded

(* What one thread owes more makes up for more to do and more idle Ps. *)
LEMMA MindedBy ==
  ASSUME TypeOK, TypeOK', Minded, NEW t \in T, Undisturbed(t), idle # {}, lapse => lapse',
         glob' + Cardinality(idle') + Pending(st[t]) <= glob + Cardinality(idle) + Pending(st'[t]),
         \A p \in P : loc'[p] > 0 =>
           \/ Alert(p)'
           \/ Covered(p)'
           \/ /\ loc[p] > 0 /\ (Minds(st[t], p) => Minds(st'[t], p))
              /\ Cardinality(idle') + Owes(st[t], p) <= Cardinality(idle) + Owes(st'[t], p)
  PROVE  Minded'
<1> SUFFICES ASSUME ~lapse', idle' # {} PROVE Minded'
  BY MindedFree DEF TypeOK
<1>1. idle # {} /\ ~lapse /\ glob \in Nat /\ glob' \in Nat /\ idle \in SUBSET P /\ idle' \in SUBSET P
  BY DEF TypeOK
<1>2. /\ Cardinality(idle) \in Nat /\ Cardinality(idle') \in Nat /\ Cardinality(P) \in Nat
  BY <1>1, IdleCount
<1>3. \A p \in P :
         /\ Total(T, Pendings') = Total(T, Pendings) + Pending(st'[t]) - Pending(st[t])
         /\ Total(T, Debts(p)') = Total(T, Debts(p)) + Owes(st'[t], p) - Owes(st[t], p)
         /\ Total(T, Pendings) \in Nat /\ Total(T, Debts(p)) \in Nat
         /\ Total(T, Pendings') \in Nat /\ Total(T, Debts(p)') \in Nat
         /\ Pending(st[t]) \in Nat /\ Pending(st'[t]) \in Nat /\ Owes(st[t], p) \in Nat /\ Owes(st'[t], p) \in Nat
  BY DebtsOne DEF Undisturbed
<1>4. Few'
  <2>1. PICK p0 \in P : TRUE
    BY DEF TypeOK
  <2>2. /\ Total(T, Pendings') = Total(T, Pendings) + Pending(st'[t]) - Pending(st[t])
        /\ Total(T, Pendings) \in Nat /\ Total(T, Pendings') \in Nat
        /\ Pending(st[t]) \in Nat /\ Pending(st'[t]) \in Nat
    BY <1>3, <2>1
  <2>3. glob <= Total(T, Pendings) + Cardinality(P) - Cardinality(idle)
    BY <1>1 DEF Minded, Few
  <2> HIDE DEF Pendings, Pending
  <2>4. glob' <= Total(T, Pendings') + Cardinality(P) - Cardinality(idle')
    BY <1>1, <1>2, <2>2, <2>3
  <2> QED
    BY <2>4 DEF Few
<1>5. Responsible'
  <2>1. ASSUME NEW p \in P, loc'[p] > 0 PROVE Alert(p)' \/ Covered(p)'
    <3>1. CASE /\ loc[p] > 0 /\ (Minds(st[t], p) => Minds(st'[t], p))
               /\ Cardinality(idle') + Owes(st[t], p) <= Cardinality(idle) + Owes(st'[t], p)
      <4>1. CASE Alert(p)
        <5>1. PICK u \in T : Minds(st[u], p)
          BY <4>1 DEF Alert
        <5>2. Minds(st'[u], p)
          BY <3>1, <5>1 DEF Undisturbed
        <5>3. \E v \in T : Minds(st'[v], p)
          BY <5>2
        <5> QED
          BY <5>3 DEF Alert, Minds, Checking
      <4>2. CASE Covered(p)
        <5>1. Cardinality(idle) <= Total(T, Debts(p))
          BY <4>2 DEF Covered
        <5>2. /\ Total(T, Debts(p)') = Total(T, Debts(p)) + Owes(st'[t], p) - Owes(st[t], p)
              /\ Total(T, Debts(p)) \in Nat /\ Total(T, Debts(p)') \in Nat
              /\ Owes(st[t], p) \in Nat /\ Owes(st'[t], p) \in Nat
          BY <1>3
        <5> HIDE DEF Debts, Owes
        <5>3. Cardinality(idle') <= Total(T, Debts(p)')
          BY <1>2, <3>1, <5>1, <5>2
        <5> QED
          BY <5>3 DEF Covered
      <4> QED
        BY <1>1, <3>1, <4>1, <4>2 DEF Minded, Responsible
    <3> QED
      BY <2>1, <3>1
  <2> QED
    BY <2>1 DEF Responsible
<1> QED
  BY <1>4, <1>5 DEF Minded

(* A step after which there is no more to do, no more Ps are idle and as   *)
(* much can be expected from the thread.                                   *)
LEMMA MindedKept ==
  ASSUME TypeOK, TypeOK', Minded, NEW t \in T, Undisturbed(t), idle' \subseteq idle, lapse => lapse', glob' <= glob,
         \A p \in P : loc'[p] <= loc[p],
         Pending(st'[t]) = Pending(st[t]),
         \A p \in P : Owes(st'[t], p) = Owes(st[t], p) /\ (Minds(st[t], p) => Minds(st'[t], p))
  PROVE  Minded'
<1> SUFFICES ASSUME idle' # {} PROVE Minded'
  BY MindedFree
<1>1. idle # {} /\ idle \in SUBSET P /\ idle' \in SUBSET P
  BY DEF TypeOK
<1>2. /\ Cardinality(idle) \in Nat /\ Cardinality(idle') \in Nat /\ Cardinality(idle') <= Cardinality(idle)
  BY <1>1, IdleCount, FS_Subset
<1>3. glob \in Nat /\ glob' \in Nat /\ \A p \in P : loc[p] \in Nat /\ loc'[p] \in Nat
  BY DEF TypeOK
<1>4. st[t].n \in Nat
  BY DEF TypeOK, Thread
<1>5. Pending(st[t]) \in Nat /\ \A p \in P : Owes(st[t], p) \in Nat
  BY <1>4, OwesNat
<1> HIDE DEF Pending, Owes
<1>6. glob' + Cardinality(idle') + Pending(st[t]) <= glob + Cardinality(idle) + Pending(st'[t])
  BY <1>2, <1>3, <1>5
<1>7. \A p \in P : loc'[p] > 0 =>
           /\ loc[p] > 0 /\ (Minds(st[t], p) => Minds(st'[t], p))
           /\ Cardinality(idle') + Owes(st[t], p) <= Cardinality(idle) + Owes(st'[t], p)
  BY <1>2, <1>3, <1>5
<1> QED
  BY <1>1, <1>6, <1>7, MindedBy

(* A thread that is told to spin is expected to look at every queue. *)
LEMMA AlertBy ==
  ASSUME NEW u \in T, NEW p, Minds(st'[u], p)
  PROVE  Alert(p)'
<1>1. \E v \in T : Minds(st'[v], p)
  OBVIOUS
<1> QED
  BY <1>1 DEF Alert, Minds, Checking

(* Somebody spins, and no more is to do. *)
LEMMA MindedAlert ==
  ASSUME TypeOK, TypeOK', Minded, NEW t \in T, Undisturbed(t), idle' \subseteq idle, lapse => lapse', glob' <= glob,
         Pending(st'[t]) = Pending(st[t]), NEW u \in T, \A p \in P : Minds(st'[u], p)
  PROVE  Minded'
<1> SUFFICES ASSUME idle' # {} PROVE Minded'
  BY MindedFree
<1>1. idle # {} /\ idle \in SUBSET P /\ idle' \in SUBSET P
  BY DEF TypeOK
<1>2. /\ Cardinality(idle) \in Nat /\ Cardinality(idle') \in Nat /\ Cardinality(idle') <= Cardinality(idle)
  BY <1>1, IdleCount, FS_Subset
<1>3. glob \in Nat /\ glob' \in Nat
  BY DEF TypeOK
<1>4. st[t].n \in Nat
  BY DEF TypeOK, Thread
<1>5. Pending(st[t]) \in Nat
  BY <1>4, OwesNat
<1> HIDE DEF Pending, Owes
<1>6. glob' + Cardinality(idle') + Pending(st[t]) <= glob + Cardinality(idle) + Pending(st'[t])
  BY <1>2, <1>3, <1>5
<1>7. \A p \in P : Alert(p)'
  BY AlertBy
<1> QED
  BY <1>1, <1>6, <1>7, MindedBy

(* A thread that startm or newm starts disturbs nobody. *)
LEMMA StartUndisturbed ==
  ASSUME Good, NEW t \in T, NEW m \in M \ {t}, st[m].pc \in {"stopped", "fresh"},
         \A u \in T \ {t, m} : st'[u] = st[u],
         st'[m].pc \in {"schedule", "findrunnable"}, st'[m].ret = ""
  PROVE  Undisturbed(t)
<1>1. m \in T /\ Shape(st[m])
  BY DEF T, Good, Shapes, Fits
<1>2. Careless(st[m])
  BY <1>1, CarelessAt
<1>3. Pending(st'[m]) = 0 /\ \A p \in P : Owes(st'[m], p) = 0
  BY DEF Pending, Owes, Checking
<1> QED
  BY <1>2, <1>3 DEF Undisturbed, Careless

(* One thread less to start and one idle P less. *)
LEMMA OneLess ==
  ASSUME NEW b \in Nat, NEW c \in Nat, NEW g \in Nat
  PROVE  g + (c - 1) + (b + 1) <= g + c + b /\ (c - 1) + (b + 1) <= c + b
OBVIOUS

(* The thread that has started another for injectglist has one less to     *)
(* start, and one P less is idle.                                          *)
LEMMA StartedOne ==
  ASSUME TypeOK, TypeOK', Minded, NEW t \in T, Undisturbed(t), NEW q \in idle, idle' = idle \ {q}, lapse' = lapse,
         glob' = glob, loc' = loc,
         st[t].pc = "startm", st[t].ret = "injected", ~st[t].sp, st'[t].spin = st[t].spin, st'[t].n = st[t].n,
         \/ st'[t].pc = "newm" /\ st'[t].ret = "injected"
         \/ st'[t].pc = "injected" /\ st'[t].ret = ""
  PROVE  Minded'
<1>1. st[t].n \in Nat /\ idle \in SUBSET P /\ glob \in Nat
  BY DEF TypeOK, Thread
<1>2. Pending(st[t]) = st[t].n + 1 /\ Pending(st'[t]) = st[t].n
  BY DEF Pending
<1>3. \A p \in P : Owes(st[t], p) = Pending(st[t]) /\ Owes(st'[t], p) = Pending(st'[t])
  BY DEF Owes, Checking
<1>4. \A p \in P : Minds(st[t], p) => Minds(st'[t], p)
  BY DEF Minds, Checking
<1>5. IsFiniteSet(idle) /\ Cardinality(idle) \in Nat
  BY <1>1, IdleCount
<1>6. Cardinality(idle') = Cardinality(idle) - 1
  BY <1>5, FS_RemoveElement
<1> DEFINE a == Pending(st[t])  b == Pending(st'[t])  c == Cardinality(idle)  d == Cardinality(idle')
<1>10. a = b + 1 /\ b \in Nat /\ c \in Nat /\ d = c - 1
  BY <1>1, <1>2, <1>5, <1>6
<1> HIDE DEF Pending, Owes, a, b, c, d
<1>7. glob' + d + a <= glob + c + b /\ d + a <= c + b
  BY <1>1, <1>10, OneLess
<1>9. \A p \in P : Cardinality(idle') + Owes(st[t], p) <= Cardinality(idle) + Owes(st'[t], p)
  BY <1>3, <1>7 DEF a, b, c, d
<1> QED
  BY <1>4, <1>7, <1>9, MindedBy DEF a, b, c, d

(* startm and newm (proc.go:1797, 1913) pass the promise on to the thread  *)
(* they start.                                                             *)
LEMMA startmMinded ==
  ASSUME IInv, TypeOK', Minded, NEW t \in T, startm(t)
  PROVE  Minded'
<1> USE DEF IInv, Good
<1>0. /\ st[t].pc = "startm" /\ StartmDoes(t) /\ Fits(t, st[t]) /\ Shape(st[t])
      /\ UNCHANGED <<loc, glob, insys, nmspinning, net, parked, mon>>
  BY startmDoes DEF Shapes, Fits
<1>1. lapse' = lapse /\ loc' = loc /\ glob' = glob /\ \A p \in P : loc[p] \in Nat /\ loc'[p] <= loc[p]
  BY <1>0 DEF mon, TypeOK
<1>2. glob \in Nat /\ glob' <= glob
  BY <1>1 DEF TypeOK
<1>3. CASE idle' = {}
  BY <1>3, MindedFree
<1>4. ASSUME idle' # {}, NEW p \in (IF st[t].hp = None THEN idle ELSE {st[t].hp}), idle' = idle \ {p},
             Undisturbed(t), st'[t].n = st[t].n, st'[t].spin = st[t].spin,
             \/ st'[t].pc = "newm" /\ st'[t].ret = st[t].ret /\ st'[t].sp = st[t].sp
             \/ st'[t].pc = st[t].ret /\ st'[t].ret = "" /\ ~st'[t].sp,
             st[t].sp => \E u \in T : st'[u].spin \/ st'[u].sp
      PROVE  Minded'
  <2>1. CASE st[t].ret = "injected"
    <3>1. p \in idle /\ ~st[t].sp
      BY <1>0, <1>4, <2>1 DEF Shape
    <3> QED
      BY <1>0, <1>1, <1>4, <2>1, <3>1, StartedOne
  <2>2. CASE st[t].ret # "injected"
    <3>1. st[t].ret \in {"run", "syscall", "uncount"}
      BY <1>0, <2>2 DEF Shape, Starting
    <3>2. Pending(st[t]) = 0 /\ Pending(st'[t]) = 0
      BY <1>0, <1>4, <3>1 DEF Pending
    <3>3. \A q \in P : Owes(st[t], q) = 0 /\ Owes(st'[t], q) = 0
      BY <1>0, <1>4, <3>1, <3>2 DEF Owes, Checking
    <3>4. CASE st[t].sp
      <4>1. PICK u \in T : st'[u].spin \/ st'[u].sp
        BY <1>4, <3>4
      <4>2. \A q \in P : Minds(st'[u], q)
        BY <4>1 DEF Minds
      <4> QED
        BY <1>1, <1>2, <1>4, <3>2, <4>2, MindedAlert
    <3>5. CASE ~st[t].sp
      <4>1. ~st[t].spin
        BY <1>0, <2>2 DEF Shape, Spinner, Injector, Injecting
      <4>2. \A q \in P : ~Minds(st[t], q)
        BY <1>0, <3>1, <3>5, <4>1 DEF Minds, Checking
      <4> QED
        BY <1>1, <1>2, <1>4, <3>2, <3>3, <4>2, MindedKept
    <3> QED
      BY <3>4, <3>5
  <2> QED
    BY <2>1, <2>2
<1>5. ASSUME idle' # {}, NEW p \in (IF st[t].hp = None THEN idle ELSE {st[t].hp}), idle' = idle \ {p},
             Rest(t), st'[t].pc = "newm", st'[t].spin = st[t].spin, st'[t].sp = st[t].sp, st'[t].ret = st[t].ret,
             st'[t].n = st[t].n
      PROVE  Minded'
  BY <1>4, <1>5, RestUndisturbed
<1>6. ASSUME idle' # {}, NEW p \in (IF st[t].hp = None THEN idle ELSE {st[t].hp}), idle' = idle \ {p},
             NEW m \in M \ {t}, st[m].pc = "stopped", \A u \in T \ {t, m} : st'[u] = st[u],
             Back(st'[t], st[t]), Starts(st'[m], st[m].ret, p, st[t].sp)
      PROVE  Minded'
  <2>1. m \in T /\ st[m].ret \in {"schedule", "findrunnable"}
    BY <1>6 DEF T, Shapes, Fits, Shape
  <2>2. Undisturbed(t)
    BY <1>6, <2>1, StartUndisturbed DEF Starts
  <2>3. st'[m].spin = st[t].sp
    BY <1>6 DEF Starts
  <2> QED
    BY <1>4, <1>6, <2>1, <2>2, <2>3 DEF Back
<1>7. CASE idle' # {}
  BY <1>0, <1>5, <1>6, <1>7 DEF StartmDoes
<1> QED
  BY <1>3, <1>7

(* newm: the new thread has the P and the promise that the caller made with it. *)
LEMMA newmMinded ==
  ASSUME IInv, TypeOK', Minded, NEW t \in T, newm(t)
  PROVE  Minded'
<1> USE DEF IInv, Good
<1>1. PICK m \in M \ {t} : NewmDoes(t, m)
  BY newmDoes
<1>2. /\ st[t].pc = "newm" /\ Shape(st[t]) /\ m \in T
      /\ lapse' = lapse /\ loc' = loc /\ glob' = glob /\ idle' = idle
  BY <1>1 DEF newm, At, Shapes, Fits, mon, NewmDoes, T
<1>3. glob \in Nat /\ glob' <= glob /\ idle' \subseteq idle /\ \A p \in P : loc[p] \in Nat /\ loc'[p] <= loc[p]
  BY <1>2 DEF TypeOK
<1>4. Undisturbed(t)
  BY <1>1, StartUndisturbed DEF NewmDoes, Starts
<1>5. st'[t].pc = st[t].ret /\ st'[t].ret = "" /\ st'[t].n = st[t].n /\ st'[t].spin = st[t].spin
  BY <1>1 DEF NewmDoes, Back
<1>6. st[t].ret \in {"run", "syscall", "uncount", "injected"}
  BY <1>2 DEF Shape, Starting
<1>7. Pending(st'[t]) = Pending(st[t])
  BY <1>2, <1>5, <1>6 DEF Pending
<1>8. \A p \in P : Owes(st'[t], p) = Owes(st[t], p)
  BY <1>2, <1>5, <1>6, <1>7 DEF Owes, Checking
<1>9. CASE st[t].sp
  <2>1. \A p \in P : Minds(st'[m], p)
    BY <1>1, <1>9 DEF NewmDoes, Starts, Minds
  <2> QED
    BY <1>2, <1>3, <1>4, <1>7, <2>1, MindedAlert
<1>10. CASE ~st[t].sp
  <2>1. \A p \in P : Minds(st[t], p) => Minds(st'[t], p)
    BY <1>2, <1>5, <1>6, <1>10 DEF Minds, Checking
  <2> QED
    BY <1>2, <1>3, <1>4, <1>7, <1>8, <2>1, MindedKept
<1> QED
  BY <1>9, <1>10

(* A thread that neither looks at the queues nor injects owes nothing. *)
LEMMA DebtFree ==
  ASSUME NEW s, s.pc \notin {"injected", "recheck", "rechecked"}, s.ret # "injected"
  PROVE  Pending(s) = 0 /\ \A p \in P : Owes(s, p) = 0
BY DEF Pending, Owes, Checking

(* A step of a thread nobody relied on. *)
LEMMA MindedFrom ==
  ASSUME TypeOK, TypeOK', Minded, NEW t \in T, Undisturbed(t), Careless(st[t]),
         st'[t].pc \notin {"injected", "recheck", "rechecked"}, st'[t].ret # "injected",
         idle' \subseteq idle, lapse => lapse', glob' <= glob, \A p \in P : loc'[p] <= loc[p]
  PROVE  Minded'
<1>1. Pending(st'[t]) = 0 /\ \A p \in P : Owes(st'[t], p) = 0
  BY DebtFree
<1> QED
  BY <1>1, MindedKept DEF Careless

(* When neither the queues nor the idle Ps change, nor a lapse ends. *)
QuietlyShared == UNCHANGED <<loc, glob, idle>> /\ (lapse => lapse')
(* Then there is no more to do. *)
LEMMA QuietlyLess ==
  ASSUME TypeOK, QuietlyShared
  PROVE  idle' \subseteq idle /\ (lapse => lapse') /\ glob' <= glob /\ \A p \in P : loc'[p] <= loc[p]
BY DEF QuietlyShared, TypeOK

(* Such a step of a thread nobody relied on, *)
LEMMA QuietlyFrom ==
  ASSUME TypeOK, TypeOK', Minded, QuietlyShared, NEW t \in T, Rest(t), Careless(st[t]),
         st'[t].pc \notin {"injected", "recheck", "rechecked"}, st'[t].ret # "injected"
  PROVE  Minded'
BY QuietlyLess, RestUndisturbed, MindedFrom

(* and one of a thread that goes on as before. *)
LEMMA QuietlyKept ==
  ASSUME TypeOK, TypeOK', Minded, QuietlyShared, NEW t \in T, Rest(t),
         Pending(st'[t]) = Pending(st[t]),
         \A p \in P : Owes(st'[t], p) = Owes(st[t], p) /\ (Minds(st[t], p) => Minds(st'[t], p))
  PROVE  Minded'
BY QuietlyLess, RestUndisturbed, MindedKept

(* handoffp (proc.go:2090) makes a P idle beside empty queues or in a lapse. *)
LEMMA HandingMinded ==
  ASSUME IInv, TypeOK', Minded, NEW t \in T, handoffp(t) \/ handoffCas(t) \/ handoffLocked(t)
  PROVE  Minded'
<1> USE DEF IInv, Good
<1>0. st[t].pc \in Handing /\ Shape(st[t])
  BY DEF handoffp, handoffCas, handoffLocked, At, Handing, Shapes, Fits
<1>1. Careless(st[t]) /\ st[t].ret \in {"syscall", "uncount"}
  BY <1>0, CarelessAt DEF Shape
<1>2. CASE handoffp(t)
  <2>1. QuietlyShared
    BY <1>2 DEF handoffp, mon, QuietlyShared
  <2>2. Rest(t) /\ st'[t].ret = st[t].ret /\ st'[t].pc \in {"startm", "handoffCas", "handoffLocked"}
    BY <1>2, handoffpDoes DEF Goes, To, Same
  <2> QED
    BY <1>1, <2>1, <2>2, QuietlyFrom
<1>3. CASE handoffCas(t)
  <2>1. QuietlyShared
    BY <1>3 DEF handoffCas, mon, QuietlyShared
  <2>2. Rest(t) /\ st'[t].ret = st[t].ret /\ st'[t].pc \in {"startm", "handoffLocked"}
    BY <1>3, handoffCasDoes DEF Goes, To, Same, Calls
  <2> QED
    BY <1>1, <2>1, <2>2, QuietlyFrom
<1>4. CASE handoffLocked(t)
  <2>1. CASE Goes(t, "startm") /\ UNCHANGED <<idle, lapse>>
    <3>1. QuietlyShared
      BY <1>4, <2>1 DEF handoffLocked, QuietlyShared
    <3>2. Rest(t) /\ st'[t].ret = st[t].ret /\ st'[t].pc = "startm"
      BY <2>1 DEF Goes, To, Same
    <3> QED
      BY <1>1, <3>1, <3>2, QuietlyFrom
  <2>2. CASE glob = 0 /\ Rest(t) /\ lapse' = (lapse \/ \E p \in P : loc[p] # 0)
    <3>1. loc' = loc /\ glob' = 0
      BY <1>4, <2>2 DEF handoffLocked
    <3>2. CASE lapse'
      BY <3>2, MindedFree
    <3>3. CASE ~lapse'
      <4>1. \A p \in P : loc'[p] = 0
        BY <2>2, <3>1, <3>3
      <4> QED
        BY <2>2, <3>1, <4>1, RestUndisturbed, MindedNothing
    <3> QED
      BY <3>2, <3>3
  <2> QED
    BY <1>4, <2>1, <2>2, handoffLockedDoes
<1> QED
  BY <1>2, <1>3, <1>4

(* As many threads to start as goroutines added. *)
LEMMA InjectedMore ==
  ASSUME NEW n \in Nat, NEW c \in Nat, NEW g \in Nat
  PROVE  (g + n) + c + 0 <= g + c + n /\ c + 0 <= c + n
OBVIOUS

(* injectglist (proc.go:2511) starts a thread for each goroutine it adds   *)
(* while there is an idle P.                                               *)
LEMMA InjectingMinded ==
  ASSUME IInv, TypeOK', Minded, NEW t \in T, injectglist(t) \/ injected(t)
  PROVE  Minded'
<1> USE DEF IInv, Good
<1>0. Shape(st[t]) /\ st[t] \in Thread /\ st[t].n \in Nat
  BY DEF Shapes, Fits, TypeOK, Thread
<1>1. idle' = idle /\ lapse' = lapse /\ loc' = loc
  BY DEF injectglist, injected, mon
<1>2. CASE idle = {}
  BY <1>1, <1>2, MindedFree
<1>3. CASE injectglist(t) /\ idle # {}
  <2>1. st[t].pc = "inject" /\ glob' = glob + st[t].n /\ glob \in Nat
    BY <1>3 DEF injectglist, At, TypeOK
  <2>2. Goes(t, "injected")
    BY <1>3, Going DEF injectglist, PC, Injecting
  <2>3. Rest(t) /\ st'[t].pc = "injected" /\ Same(st'[t], st[t])
    BY <2>2 DEF Goes, To
  <2>4. Undisturbed(t)
    BY <2>3, RestUndisturbed
  <2>5. Pending(st[t]) = 0 /\ \A p \in P : Owes(st[t], p) = 0
    BY <1>0, <2>1, NoDebt
  <2>6. Pending(st'[t]) = st[t].n
    BY <2>3 DEF Same, Pending
  <2>7. \A p \in P : Owes(st'[t], p) = st[t].n
    BY <2>3, <2>6 DEF Owes, Checking
  <2>8. \A p \in P : Minds(st[t], p) => Minds(st'[t], p)
    BY <2>1, <2>3 DEF Minds, Same, Checking
  <2>9. Cardinality(idle) \in Nat
    BY IdleCount DEF TypeOK
  <2>10. /\ glob' + Cardinality(idle') + Pending(st[t]) <= glob + Cardinality(idle) + Pending(st'[t])
         /\ \A p \in P : Cardinality(idle') + Owes(st[t], p) <= Cardinality(idle) + Owes(st'[t], p)
    BY <1>0, <1>1, <2>1, <2>5, <2>6, <2>7, <2>9, InjectedMore
  <2> QED
    BY <1>1, <1>3, <2>4, <2>8, <2>10, MindedBy
<1>4. CASE injected(t) /\ idle # {}
  <2>1. InjectedDoes(t) /\ st[t].pc = "injected" /\ st[t].ret # "injected"
    BY Zenon, <1>0, <1>4, injectedDoes DEF injected, At, Shape
  <2>2. QuietlyShared
    BY <1>4 DEF injected, QuietlyShared, mon
  <2>3. Pending(st[t]) = st[t].n
    BY <2>1 DEF Pending
  <2>4. \A p \in P : Owes(st[t], p) = Pending(st[t])
    BY <2>1 DEF Owes, Checking
  <2>5. \A p \in P : Minds(st[t], p) => st[t].spin \/ st[t].sp
    BY <2>1 DEF Minds, Checking
  <2>6. Rest(t) /\ st'[t].spin = st[t].spin /\ st'[t].sp = st[t].sp
    BY <2>1 DEF InjectedDoes
  <2>7. \A p \in P : Minds(st[t], p) => Minds(st'[t], p)
    BY <2>5, <2>6 DEF Minds
  <2>8. CASE st'[t].n = st[t].n - 1 /\ st'[t].pc = "startm" /\ st'[t].ret = "injected"
    <3>1. Pending(st'[t]) = st[t].n
      BY <1>0, <2>8 DEF Pending
    <3>2. \A p \in P : Owes(st'[t], p) = Pending(st'[t])
      BY <2>8 DEF Owes, Checking
    <3> QED
      BY <2>2, <2>3, <2>4, <2>6, <2>7, <3>1, <3>2, QuietlyKept
  <2>9. CASE st[t].n = 0 /\ st'[t].pc = AfterInject(st[t]) /\ st'[t].ret = st[t].ret
    <3>1. st'[t].pc \in {"resetspinning", "run", "repark", "uncount"}
      BY <1>0, <2>1, <2>9 DEF AfterInject, HasOne, Shape, Injector, Injecting
    <3>2. Pending(st'[t]) = 0 /\ \A p \in P : Owes(st'[t], p) = 0
      BY <2>1, <2>9, <3>1, DebtFree
    <3> QED
      BY <2>2, <2>3, <2>4, <2>6, <2>7, <2>9, <3>2, QuietlyKept
  <2> QED
    BY ZenonT(60), <1>4, <2>1, <2>8, <2>9 DEF InjectedDoes
<1> QED
  BY <1>2, <1>3, <1>4

(* A step of a running goroutine that leaves the thread without debts. *)
LEMMA MindedRun ==
  ASSUME IInv, TypeOK', Minded, NEW m \in M,
         ready(m) \/ park(m) \/ parkOnNet(m) \/ gosched(m) \/ entersyscallblock(m) \/ exitsyscall(m)
  PROVE  Minded'
<1> USE DEF IInv, Good
<1>0. m \in T /\ Shape(st[m]) /\ {"readied", "schedule"} \subseteq PC
  BY DEF T, Shapes, Fits, PC, WithP
<1>1. st[m].pc \in {"run", "syscall"}
  BY DEF ready, park, parkOnNet, gosched, entersyscallblock, exitsyscall, At
<1>2. Careless(st[m]) /\ Pending(st[m]) = 0
  BY <1>0, <1>1, CarelessAt DEF Careless
<1>3. st[m].ret # "injected"
  BY <1>0, <1>1 DEF Shape
<1>4. CASE ready(m)
  <2>1. Goes(m, "readied")
    BY <1>0, <1>4, Going DEF ready
  <2>2. Rest(m) /\ st'[m].pc = "readied" /\ st'[m].ret = st[m].ret
    BY <2>1 DEF Goes, To, Same
  <2>3. \A p \in P : Minds(st'[m], p)
    BY <2>2 DEF Minds
  <2>4. Pending(st'[m]) = 0
    BY <1>3, <2>2 DEF Pending
  <2>5. idle' \subseteq idle /\ (lapse => lapse') /\ glob' <= glob
    BY <1>4 DEF ready, mon, TypeOK
  <2>6. Undisturbed(m)
    BY <1>0, <2>2, RestUndisturbed
  <2> QED
    BY <1>0, <1>2, <2>3, <2>4, <2>5, <2>6, MindedAlert
<1>5. CASE gosched(m)
  <2>1. lapse'
    BY <1>5 DEF gosched
  <2> QED
    BY <2>1, MindedFree
<1>6. CASE park(m) \/ parkOnNet(m)
  <2>1. Goes(m, "schedule")
    BY <1>0, <1>6, Going DEF park, parkOnNet
  <2>2. Rest(m) /\ st'[m].pc = "schedule" /\ st'[m].ret = st[m].ret
    BY <2>1 DEF Goes, To, Same
  <2>3. QuietlyShared
    BY <1>6 DEF park, parkOnNet, mon, QuietlyShared
  <2> QED
    BY <1>0, <1>2, <1>3, <2>2, <2>3, QuietlyFrom
<1>7. CASE entersyscallblock(m)
  <2>1. QuietlyShared
    BY <1>7 DEF entersyscallblock, mon, QuietlyShared
  <2>2. Rest(m) /\ st'[m].pc = "handoffp" /\ st'[m].ret = "syscall"
    BY <1>7, entersyscallblockDoes DEF BlockDoes
  <2> QED
    BY <1>0, <1>2, <2>1, <2>2, QuietlyFrom
<1>8. CASE exitsyscall(m)
  <2>1. QuietlyShared
    BY <1>8 DEF exitsyscall, mon, QuietlyShared
  <2>2. Rest(m) /\ st'[m].pc \in {"run", "exit0"} /\ st'[m].ret # "injected"
    BY <1>3, <1>8, exitsyscallDoes DEF Goes, To, Same, IsLocal
  <2> QED
    BY <1>0, <1>2, <2>1, <2>2, QuietlyFrom
<1> QED
  BY <1>4, <1>5, <1>6, <1>7, <1>8

(* A system call may wake sysmon, from which nobody expects anything then. *)
LEMMA WokenUndisturbed ==
  ASSUME Good, Asleep, NEW m \in M, \A u \in T \ {m, Sysmon} : st'[u] = st[u],
         To(st'[Sysmon], st[Sysmon], IF sysmonwait THEN "sysmon" ELSE st[Sysmon].pc)
  PROVE  Undisturbed(m)
<1>0. Sysmon \in T /\ Shape(st[Sysmon])
  BY DEF T, Good, Shapes, Fits
<1>1. /\ Pending(st'[Sysmon]) = Pending(st[Sysmon])
      /\ \A p \in P : Owes(st'[Sysmon], p) = Owes(st[Sysmon], p) /\ (Minds(st[Sysmon], p) => Minds(st'[Sysmon], p))
  <2>1. CASE sysmonwait
    <3>1. st[Sysmon].pc = "asleep" /\ st'[Sysmon].pc = "sysmon" /\ st'[Sysmon].ret = st[Sysmon].ret
      BY <2>1 DEF Asleep, To, Same
    <3>2. Careless(st[Sysmon]) /\ st[Sysmon].ret # "injected"
      BY <1>0, <3>1, CarelessAt DEF Monitoring, Shape
    <3>3. Pending(st'[Sysmon]) = 0 /\ \A p \in P : Owes(st'[Sysmon], p) = 0
      BY <3>1, <3>2, DebtFree
    <3> QED
      BY <3>2, <3>3 DEF Careless
  <2>2. CASE ~sysmonwait
    BY <2>2 DEF To, Same, Pending, Owes, Minds, Checking
  <2> QED
    BY <2>1, <2>2
<1> QED
  BY <1>1 DEF Undisturbed

(* System calls: nobody relied on the thread, and the P that one finds idle is not owed. *)
LEMMA MindedSyscall ==
  ASSUME IInv, TypeOK', Minded, NEW m \in M, entersyscall(m) \/ exitsyscall0(m)
  PROVE  Minded'
<1> USE DEF IInv, Good
<1>0. m \in T /\ Shape(st[m])
  BY DEF T, Shapes, Fits
<1>1. st[m].pc \in {"run", "exit0"}
  BY DEF entersyscall, exitsyscall0, At
<1>2. Careless(st[m]) /\ st[m].ret # "injected"
  BY <1>0, <1>1, CarelessAt DEF Shape
<1>3. loc' = loc /\ lapse' = lapse /\ glob \in Nat /\ \A p \in P : loc[p] \in Nat
  BY DEF entersyscall, exitsyscall0, TypeOK
<1>4. \A p \in P : loc'[p] <= loc[p]
  BY <1>3
<1>5. CASE entersyscall(m)
  <2>1. EnterDoes(m) /\ QuietlyShared
    BY <1>5, entersyscallDoes DEF entersyscall, QuietlyShared
  <2>2. Undisturbed(m)
    BY <2>1, WokenUndisturbed DEF EnterDoes
  <2>3. st'[m].pc = "syscall" /\ st'[m].ret = st[m].ret
    BY <2>1 DEF EnterDoes, To, Same
  <2> QED
    BY <1>0, <1>2, <2>1, <2>2, <2>3, QuietlyLess, MindedFrom
<1>6. CASE exitsyscall0(m)
  <2>1. Exit0Does(m)
    BY <1>6, exitsyscall0Does
  <2>2. CASE idle' = {}
    BY <2>2, MindedFree
  <2>3. CASE idle' # {}
    <3>1. PICK p \in idle : /\ idle' = idle \ {p} /\ glob' = glob
                            /\ \A u \in T \ {m, Sysmon} : st'[u] = st[u]
                            /\ IsLocal(st'[m], "run", p)
                            /\ To(st'[Sysmon], st[Sysmon], IF sysmonwait THEN "sysmon" ELSE st[Sysmon].pc)
      BY <2>1, <2>3 DEF Exit0Does
    <3>2. Undisturbed(m)
      BY <3>1, WokenUndisturbed
    <3>3. glob' <= glob /\ idle' \subseteq idle
      BY <1>3, <3>1
    <3>4. st'[m].pc = "run" /\ st'[m].ret = ""
      BY <3>1 DEF IsLocal
    <3> QED
      BY <1>0, <1>2, <1>3, <1>4, <3>2, <3>3, <3>4, MindedFrom
  <2> QED
    BY <2>2, <2>3
<1> QED
  BY <1>5, <1>6

(* When nmspinning is not 0 a thread spins, and when it is not 1 there is  *)
(* another one beside a thread that does.                                  *)
LEMMA SomebodySpins ==
  ASSUME TypeOK, SpinningIsCounted, NEW m \in T, IF Counted(st[m]) THEN nmspinning # 1 ELSE nmspinning # 0
  PROVE  \E u \in T \ {m} : st[u].spin \/ st[u].sp
<1>1. IsFiniteSet(Spinning) /\ nmspinning = Cardinality(Spinning)
  BY SpinningFinite
<1>2. SUFFICES ASSUME Spinning \subseteq {m} PROVE FALSE
  BY DEF Spinning, Counted
<1>3. CASE Counted(st[m])
  <2>1. Spinning = {m}
    BY <1>2, <1>3 DEF Spinning
  <2> QED
    BY <1>1, <1>3, <2>1, FS_Singleton
<1>4. CASE ~Counted(st[m])
  <2>1. Spinning = {}
    BY <1>2, <1>4 DEF Spinning
  <2> QED
    BY <1>1, <1>4, <2>1, FS_EmptySet
<1> QED
  BY <1>3, <1>4

(* wakep and resetspinning (proc.go:2150, 2475) wake somebody unless a     *)
(* thread spins already.                                                   *)
LEMMA WakingMinded ==
  ASSUME IInv, TypeOK', Minded, NEW m \in M, readied(m) \/ wakep(m) \/ resetspinning(m)
  PROVE  Minded'
<1> USE DEF IInv, Good
<1>0. m \in T /\ Shape(st[m]) /\ {"run", "wakep"} \subseteq PC
  BY DEF T, Shapes, Fits, PC, WithP
<1>1. st[m].pc \in {"readied", "wakep", "resetspinning"}
  BY DEF readied, wakep, resetspinning, At
<1>2. st[m].ret # "injected" /\ Pending(st[m]) = 0
  BY <1>0, <1>1, NoDebt DEF Shape
<1>3. QuietlyShared
  <2>1. CASE readied(m)
    BY <2>1 DEF readied, QuietlyShared, mon
  <2>2. CASE wakep(m)
    BY <2>2 DEF wakep, QuietlyShared, mon
  <2>3. CASE resetspinning(m)
    BY <2>3 DEF resetspinning, QuietlyShared, mon
  <2> QED
    BY <2>1, <2>2, <2>3
<1>4. idle' \subseteq idle /\ (lapse => lapse') /\ glob' <= glob
  BY <1>3, QuietlyLess
<1>5. ASSUME Rest(m), st'[m].pc \in {"run", "wakep", "startm", "readied"}, st'[m].ret # "injected",
             NEW u \in T, \A p \in P : Minds(st'[u], p)
      PROVE  Minded'
  <2>1. Pending(st'[m]) = 0
    BY <1>5 DEF Pending
  <2> QED
    BY <1>0, <1>2, <1>4, <1>5, <2>1, RestUndisturbed, MindedAlert
<1>6. ASSUME Rest(m), st'[m].pc = "run", st'[m].ret = st[m].ret,
             IF Counted(st[m]) THEN nmspinning # 1 ELSE nmspinning # 0
      PROVE  Minded'
  <2>1. PICK u \in T \ {m} : st[u].spin \/ st[u].sp
    BY <1>0, <1>6, SomebodySpins
  <2>2. \A p \in P : Minds(st'[u], p)
    BY <1>6, <2>1 DEF Rest, Minds
  <2> QED
    BY <1>2, <1>5, <1>6, <2>1, <2>2
<1>7. CASE readied(m)
  <2>1. CASE idle = {}
    BY <1>3, <2>1, MindedFree DEF QuietlyShared
  <2>2. CASE idle # {}
    <3>1. Goes(m, "wakep")
      BY <1>0, <1>7, <2>2, Going DEF readied
    <3>2. Rest(m) /\ st'[m].pc = "wakep" /\ st'[m].ret = st[m].ret /\ \A p \in P : Minds(st'[m], p)
      BY <3>1 DEF Goes, To, Same, Minds
    <3> QED
      BY <1>0, <1>2, <1>5, <3>2
  <2> QED
    BY <2>1, <2>2
<1>8. CASE wakep(m)
  <2>1. st[m].pc = "wakep" /\ ~Counted(st[m])
    BY <1>0, <1>2, <1>8 DEF wakep, At, Shape, Spinner, Injector, Injecting, Starting, Counted
  <2>2. CASE Calls(m, None, TRUE, "run")
    <3>1. Rest(m) /\ st'[m].pc = "startm" /\ st'[m].ret = "run" /\ \A p \in P : Minds(st'[m], p)
      BY <2>2 DEF Calls, Minds
    <3> QED
      BY <1>0, <1>5, <3>1
  <2>3. CASE nmspinning # 0 /\ Goes(m, "run")
    <3>1. Rest(m) /\ st'[m].pc = "run" /\ st'[m].ret = st[m].ret
      BY <2>3 DEF Goes, To, Same
    <3> QED
      BY <1>6, <2>1, <2>3, <3>1
  <2> QED
    BY <1>0, <1>8, <2>2, <2>3, wakepDoes
<1>9. CASE resetspinning(m)
  <2>1. st[m].pc = "resetspinning" /\ Counted(st[m])
    BY <1>0, <1>9 DEF resetspinning, At, Shape, Counted
  <2>2. Looks(m, IF nmspinning = 1 THEN "readied" ELSE "run", FALSE, st[m].todo)
    BY <1>9, resetspinningDoes
  <2>3. Rest(m) /\ st'[m].ret = st[m].ret /\ st'[m].pc = IF nmspinning = 1 THEN "readied" ELSE "run"
    BY <2>2 DEF Looks
  <2>4. CASE nmspinning = 1
    <3>1. st'[m].pc = "readied" /\ \A p \in P : Minds(st'[m], p)
      BY <2>3, <2>4 DEF Minds
    <3> QED
      BY <1>0, <1>2, <1>5, <2>3, <3>1
  <2>5. CASE nmspinning # 1
    BY <1>6, <2>1, <2>3, <2>5
  <2> QED
    BY <2>4, <2>5
<1> QED
  BY <1>7, <1>8, <1>9

(* A lapse ends when the queues are empty. *)
LEMMA MindedSettled ==
  ASSUME TypeOK, TypeOK', NEW m \in T, Undisturbed(m), Settle, lapse
  PROVE  Minded'
<1>1. CASE lapse'
  BY <1>1, MindedFree
<1>2. CASE ~lapse'
  <2>1. glob' = 0 /\ \A p \in P : loc'[p] = 0
    BY <1>2 DEF Settle
  <2> QED
    BY <2>1, MindedNothing
<1> QED
  BY <1>1, <1>2

(* While a thread looks for work *)
Seeking == {"schedule", "findrunnable", "netpoll", "spin", "steal", "stop"}

(* it owes nothing, and minds if it spins. *)
LEMMA Seeks ==
  ASSUME Good, NEW m \in M, st[m].pc \in Seeking
  PROVE  /\ m \in T /\ st[m].p \in P /\ Shape(st[m]) /\ st[m].ret # "injected"
         /\ Pending(st[m]) = 0 /\ \A p \in P : Owes(st[m], p) = 0 /\ (Minds(st[m], p) <=> st[m].spin)
<1>1. m \in T /\ Shape(st[m])
  BY DEF T, Good, Shapes, Fits
<1>2. Pending(st[m]) = 0 /\ \A p \in P : Owes(st[m], p) = 0
  BY <1>1, NoDebt DEF Seeking
<1>3. st[m].p \in P /\ ~st[m].sp /\ st[m].ret # "injected"
  BY <1>1 DEF Seeking, Shape, WithP, Starting
<1>4. \A p \in P : Minds(st[m], p) <=> st[m].spin
  BY <1>3 DEF Minds, Seeking, Checking
<1> QED
  BY <1>1, <1>2, <1>3, <1>4

(* A step of it after which it minds if it did. *)
LEMMA Sought ==
  ASSUME Good, NEW m \in M, st[m].pc \in Seeking, Rest(m), st'[m].spin = st[m].spin,
         st'[m].ret = st[m].ret, st'[m].pc \notin {"injected", "recheck", "rechecked"}
  PROVE  /\ m \in T /\ Undisturbed(m) /\ Pending(st'[m]) = Pending(st[m])
         /\ \A p \in P : Owes(st'[m], p) = Owes(st[m], p) /\ (Minds(st[m], p) => Minds(st'[m], p))
         /\ st[m].spin => \A p \in P : Minds(st'[m], p)
<1>1. /\ m \in T /\ st[m].p \in P /\ Shape(st[m]) /\ st[m].ret # "injected"
      /\ Pending(st[m]) = 0 /\ \A p \in P : Owes(st[m], p) = 0 /\ (Minds(st[m], p) <=> st[m].spin)
  BY Seeks
<1>2. Pending(st'[m]) = 0 /\ \A p \in P : Owes(st'[m], p) = 0
  BY <1>1, DebtFree
<1>3. st[m].spin => \A p \in P : Minds(st'[m], p)
  BY DEF Minds
<1> QED
  BY <1>1, <1>2, <1>3, RestUndisturbed

(* A global queue of as many as there are Ps means a thread about to start for each idle P. *)
LEMMA SpareIdle ==
  ASSUME NEW g \in Nat, NEW n \in Nat, NEW i \in Nat, NEW a \in Nat, NEW b \in Nat,
         g <= a + n - i, g >= n, a <= b
  PROVE  i <= b
OBVIOUS

(* A share of more than one goroutine is only taken from a global queue so *)
(* long that threads are about to be started for every idle P.             *)
LEMMA ShareMinded ==
  ASSUME IInv, TypeOK', Minded, NEW m \in M, st[m].pc \in {"findrunnable", "stop"}, TakeShare(m), idle' = idle, Settle
  PROVE  Minded'
<1> USE DEF IInv, Good
<1>0. st[m].pc \in Seeking
  BY DEF Seeking
<1>1. m \in T /\ st[m].p \in P
  BY <1>0, Seeks
<1>2. PICK k \in 1 .. glob : /\ k >= 2 => glob >= Cardinality(P)
                             /\ glob' = glob - k
                             /\ loc' = [loc EXCEPT ![st[m].p] = loc[st[m].p] + k - 1]
                             /\ Goes(m, HasOne(st[m]))
  BY <1>1, TakeShareDoes DEF ShareDoes
<1>3. Rest(m) /\ st'[m].spin = st[m].spin /\ st'[m].ret = st[m].ret /\ st'[m].pc \in {"resetspinning", "run"}
  BY <1>2 DEF Goes, To, Same, HasOne
<1>4. /\ Undisturbed(m) /\ Pending(st'[m]) = Pending(st[m])
      /\ \A p \in P : Owes(st'[m], p) = Owes(st[m], p) /\ (Minds(st[m], p) => Minds(st'[m], p))
      /\ st[m].spin => \A p \in P : Minds(st'[m], p)
  BY <1>0, <1>3, Sought
<1>5. glob \in Nat /\ glob' <= glob /\ k \in Nat /\ k >= 1 /\ idle' \subseteq idle
  BY <1>2 DEF TypeOK
<1>6. CASE lapse
  BY <1>1, <1>4, <1>6, MindedSettled
<1>7. CASE ~lapse /\ st[m].spin
  BY <1>1, <1>4, <1>5, <1>7, MindedAlert
<1>8. CASE ~lapse /\ k = 1
  <2>1. \A p \in P : loc[p] \in Nat /\ loc'[p] <= loc[p]
    BY <1>1, <1>2, <1>8 DEF TypeOK
  <2> QED
    BY <1>1, <1>4, <1>5, <1>8, <2>1, MindedKept
<1>9. CASE ~lapse /\ k >= 2 /\ idle # {}
  <2>1. glob >= Cardinality(P) /\ glob <= Total(T, Pendings) + Cardinality(P) - Cardinality(idle)
    BY <1>2, <1>9 DEF Minded, Few
  <2>2. Cardinality(P) \in Nat /\ Cardinality(idle) \in Nat
    BY IdleCount DEF TypeOK
  <2>3. ASSUME NEW p \in P PROVE Covered(p)'
    <3>1. /\ Total(T, Pendings') = Total(T, Pendings) + Pending(st'[m]) - Pending(st[m])
          /\ Total(T, Pendings) \in Nat /\ Total(T, Pendings') \in Nat /\ Total(T, Debts(p)') \in Nat
          /\ Total(T, Pendings') <= Total(T, Debts(p)')
          /\ Pending(st[m]) \in Nat
      BY <1>1, <1>4, DebtsOne DEF Undisturbed
    <3> HIDE DEF Pendings, Debts, Pending
    <3>2. Total(T, Pendings') = Total(T, Pendings)
      BY <1>4, <3>1
    <3>3. Total(T, Pendings) <= Total(T, Debts(p)')
      BY <3>1, <3>2
    <3>4. Cardinality(idle) <= Total(T, Debts(p)')
      BY <1>5, <2>1, <2>2, <3>1, <3>3, SpareIdle
    <3> QED
      BY <3>4 DEF Covered
  <2>4. glob' + Cardinality(idle') + Pending(st[m]) <= glob + Cardinality(idle) + Pending(st'[m])
    <3>1. st[m].n \in Nat
      BY <1>1 DEF TypeOK, Thread
    <3>2. Pending(st[m]) \in Nat
      BY <3>1, OwesNat
    <3> HIDE DEF Pending
    <3> QED
      BY <1>2, <1>4, <1>5, <2>2, <3>2
  <2> QED
    BY <1>1, <1>4, <1>9, <2>3, <2>4, MindedBy
<1>10. CASE idle = {}
  BY <1>10, MindedFree
<1> QED
  BY <1>5, <1>6, <1>7, <1>8, <1>9, <1>10

(* schedule, findrunnable and steal (proc.go:2190-2350, 2526): a thread    *)
(* that found a goroutine minds the queues if it spun.                     *)
LEMMA SeekingMinded ==
  ASSUME IInv, TypeOK', Minded, NEW m \in M, schedule(m) \/ findrunnable(m) \/ steal(m)
  PROVE  Minded'
<1> USE DEF IInv, Good
<1>0. st[m].pc \in {"schedule", "findrunnable", "steal"} /\ st[m].pc \in Seeking
  BY DEF schedule, findrunnable, steal, At, Seeking
<1>1. m \in T /\ st[m].p \in P /\ Shape(st[m])
  BY <1>0, Seeks
<1>2. idle' = idle /\ Settle /\ glob \in Nat /\ \A p \in P : loc[p] \in Nat
  BY DEF schedule, findrunnable, steal, TypeOK
<1>3. ASSUME Goes(m, HasOne(st[m])) \/ Goes(m, "findrunnable") \/ Goes(m, "netpoll") \/ Goes(m, "spin") \/ Goes(m, "stop")
      PROVE  Rest(m) /\ st'[m].spin = st[m].spin /\ st'[m].ret = st[m].ret /\ st'[m].pc \notin {"injected", "recheck", "rechecked"}
  BY <1>3 DEF Goes, To, Same, HasOne
<1>4. ASSUME Goes(m, HasOne(st[m])) \/ Goes(m, "findrunnable") \/ Goes(m, "netpoll") \/ Goes(m, "spin") \/ Goes(m, "stop"),
             glob' <= glob, \A p \in P : loc'[p] <= loc[p]
      PROVE  Minded'
  <2>1. /\ Undisturbed(m) /\ Pending(st'[m]) = Pending(st[m])
        /\ \A p \in P : Owes(st'[m], p) = Owes(st[m], p) /\ (Minds(st[m], p) => Minds(st'[m], p))
    BY <1>0, <1>3, <1>4, Sought
  <2>2. CASE lapse
    BY <1>1, <1>2, <2>1, <2>2, MindedSettled
  <2>3. CASE ~lapse
    BY <1>1, <1>2, <1>4, <2>1, <2>3, MindedKept
  <2> QED
    BY <2>2, <2>3
<1>5. ASSUME GotOne(m) PROVE Goes(m, HasOne(st[m]))
  BY <1>1, <1>5, GotOneDoes
<1>6. {"findrunnable", "netpoll", "spin", "stop"} \subseteq PC
  BY DEF PC, WithP
<1>7. loc[st[m].p] \in Nat
  BY <1>1, <1>2
<1>8. CASE schedule(m)
  <2>1. CASE GotOne(m) /\ glob' = glob - 1 /\ loc' = loc
    <3>1. glob' <= glob /\ \A p \in P : loc'[p] <= loc[p]
      BY <1>1, <1>2, <2>1 DEF TypeOK
    <3> QED
      BY <1>4, <1>5, <2>1, <3>1
  <2>2. CASE GotOne(m) /\ glob' = glob /\ loc' = [loc EXCEPT ![st[m].p] = @ - 1]
    <3>1. glob' <= glob /\ \A p \in P : loc'[p] <= loc[p]
      BY <1>1, <1>2, <2>2 DEF TypeOK
    <3> QED
      BY <1>4, <1>5, <2>2, <3>1
  <2>3. CASE Goto(m, "findrunnable") /\ UNCHANGED <<loc, glob>>
    BY <1>1, <1>2, <1>4, <1>6, <2>3, Going
  <2> QED
    BY <1>8, <2>1, <2>2, <2>3 DEF schedule
<1>9. CASE findrunnable(m)
  <2>1. CASE GotOne(m) /\ glob' = glob /\ loc' = [loc EXCEPT ![st[m].p] = @ - 1]
    <3>1. glob' <= glob /\ \A p \in P : loc'[p] <= loc[p]
      BY <1>1, <1>2, <2>1 DEF TypeOK
    <3> QED
      BY <1>4, <1>5, <2>1, <3>1
  <2>2. CASE TakeShare(m)
    BY <1>2, <1>9, <2>2, ShareMinded DEF findrunnable, At
  <2>3. CASE Goto(m, IF waiters /\ lastpoll THEN "netpoll" ELSE "spin") /\ UNCHANGED <<loc, glob>>
    <3>1. Goes(m, "netpoll") \/ Goes(m, "spin")
      BY <1>1, <1>6, <2>3, Going
    <3> QED
      BY <1>2, <1>4, <2>3, <3>1
  <2> QED
    BY <1>9, <2>1, <2>2, <2>3 DEF findrunnable
<1>10. CASE steal(m)
  <2>1. st[m].pc = "steal" /\ st[m].spin /\ glob' = glob
    BY <1>1, <1>10 DEF steal, At, Shape
  <2>2. Goes(m, HasOne(st[m])) \/ Goes(m, "stop")
    BY <1>1, <1>5, <1>6, <1>10, Going DEF steal
  <2>3. /\ Undisturbed(m) /\ Pending(st'[m]) = Pending(st[m])
        /\ \A p \in P : Minds(st'[m], p)
    BY <1>0, <1>3, <2>1, <2>2, Sought
  <2>4. CASE lapse
    BY <1>1, <1>2, <2>3, <2>4, MindedSettled
  <2>5. CASE ~lapse
    <3>1. glob' <= glob /\ idle' \subseteq idle
      BY <1>2, <2>1
    <3> QED
      BY <1>1, <2>3, <2>5, <3>1, MindedAlert
  <2> QED
    BY <2>4, <2>5
<1> QED
  BY <1>8, <1>9, <1>10

(* Between two looks for work a thread goes on minding as it did. *)
LEMMA BetweenMinded ==
  ASSUME IInv, TypeOK', Minded, NEW m \in M, netpoll(m) \/ spin(m) \/ respin(m)
  PROVE  Minded'
<1> USE DEF IInv, Good
<1>1. m \in T /\ Shape(st[m])
  BY DEF T, Shapes, Fits
<1>2. QuietlyShared
  <2>1. CASE netpoll(m)
    BY Zenon, <2>1 DEF netpoll, mon, QuietlyShared
  <2>2. CASE spin(m)
    BY <2>2 DEF spin, mon, QuietlyShared
  <2>3. CASE respin(m)
    BY <2>3 DEF respin, mon, QuietlyShared
  <2> QED
    BY <2>1, <2>2, <2>3
<1>3. CASE netpoll(m)
  <2>1. st[m].pc \in Seeking
    BY Zenon, <1>3 DEF netpoll, At, Seeking
  <2>2. Rest(m) /\ st'[m].spin = st[m].spin /\ st'[m].ret = st[m].ret /\ st'[m].pc \in {"spin", "resetspinning", "run", "inject"}
    BY <1>3, netpollDoes DEF NetpollDoes, Goes, To, Same, HasOne, Holds
  <2> QED
    BY <1>2, <2>1, <2>2, Sought, QuietlyKept
<1>4. CASE spin(m)
  <2>1. st[m].pc \in Seeking
    BY <1>4 DEF spin, At, Seeking
  <2>2. CASE Goes(m, "stop")
    <3>1. Rest(m) /\ st'[m].spin = st[m].spin /\ st'[m].ret = st[m].ret /\ st'[m].pc = "stop"
      BY <2>2 DEF Goes, To, Same
    <3> QED
      BY <1>2, <2>1, <3>1, Sought, QuietlyKept
  <2>3. CASE Looks(m, "steal", TRUE, st[m].todo)
    <3>1. Rest(m) /\ st'[m].pc = "steal" /\ st'[m].spin /\ st'[m].ret = st[m].ret
      BY <2>3 DEF Looks
    <3>2. st[m].ret # "injected" /\ Pending(st[m]) = 0
      BY <2>1, Seeks
    <3>3. Pending(st'[m]) = 0 /\ \A p \in P : Minds(st'[m], p)
      BY <3>1, <3>2 DEF Pending, Minds
    <3> QED
      BY <1>1, <1>2, <3>1, <3>2, <3>3, QuietlyLess, RestUndisturbed, MindedAlert
  <2> QED
    BY <1>4, <2>2, <2>3, spinDoes
<1>5. CASE respin(m)
  <2>1. st[m].pc = "respin"
    BY <1>5 DEF respin, At
  <2>2. Looks(m, "findrunnable", TRUE, st[m].todo)
    BY <1>5, respinDoes
  <2>3. Rest(m) /\ st'[m].pc = "findrunnable" /\ st'[m].spin /\ st'[m].ret = st[m].ret
    BY <2>2 DEF Looks
  <2>4. st[m].ret # "injected" /\ Pending(st[m]) = 0
    BY <1>1, <2>1, NoDebt DEF Shape
  <2>5. Pending(st'[m]) = 0 /\ \A p \in P : Minds(st'[m], p)
    BY <2>3, <2>4 DEF Pending, Minds
  <2> QED
    BY <1>1, <1>2, <2>3, <2>4, <2>5, QuietlyLess, RestUndisturbed, MindedAlert
<1> QED
  BY <1>3, <1>4, <1>5

(* One more idle P, and one more thread that will take one. *)
LEMMA OneMore ==
  ASSUME NEW i \in Nat, NEW j \in Nat, NEW a \in Nat, NEW b, j <= i + 1, b = a + 1 - 0, i = 0 \/ i <= a
  PROVE  j <= b
OBVIOUS

(* A thread that gives its P up looks at every queue once more, either as  *)
(* one that will spin again or as one that takes an idle P itself.         *)
LEMMA GivingUpMinded ==
  ASSUME IInv, TypeOK', Minded, NEW m \in M, stop(m)
  PROVE  Minded'
<1> USE DEF IInv, Good
<1>0. st[m].pc = "stop" /\ st[m].pc \in Seeking /\ Settle
  BY DEF stop, At, Seeking
<1>1. /\ m \in T /\ st[m].p \in P /\ st[m].ret # "injected"
      /\ Pending(st[m]) = 0 /\ \A p \in P : Owes(st[m], p) = 0 /\ (Minds(st[m], p) <=> st[m].spin)
  BY <1>0, Seeks
<1>2. CASE TakeShare(m) /\ idle' = idle
  BY <1>0, <1>2, ShareMinded
<1>3. CASE glob = 0 /\ idle' = idle \cup {st[m].p} /\ StopsDoes(m) /\ UNCHANGED <<loc, glob>>
  <2>1. /\ Rest(m) /\ st'[m].pc = (IF st[m].spin THEN "unspin" ELSE "recheck") /\ st'[m].spin = st[m].spin
        /\ st'[m].todo = P /\ st'[m].ret = (IF st[m].spin THEN "respin" ELSE "findrunnable")
    BY <1>3 DEF StopsDoes
  <2>2. Undisturbed(m)
    BY <1>1, <2>1, RestUndisturbed
  <2>3. CASE lapse
    BY <1>0, <1>1, <2>2, <2>3, MindedSettled
  <2>4. CASE ~lapse
    <3>1. Pending(st'[m]) = 0
      BY <2>1 DEF Pending
    <3>2. ~st[m].spin => \A p \in P : Owes(st'[m], p) = 1
      BY <2>1, <3>1 DEF Owes, Checking
    <3>3. /\ Cardinality(idle) \in Nat /\ Cardinality(idle') \in Nat /\ Cardinality(P) \in Nat
          /\ Cardinality(idle') <= Cardinality(P) /\ IsFiniteSet(idle)
      BY IdleCount DEF TypeOK
    <3>4. Cardinality(idle') <= Cardinality(idle) + 1
      <4>1. CASE st[m].p \in idle
        <5>1. idle' = idle
          BY <1>3, <4>1
        <5> QED
          BY <3>3, <5>1
      <4>2. CASE st[m].p \notin idle
        <5>1. Cardinality(idle \cup {st[m].p}) = Cardinality(idle) + 1
          BY <3>3, <4>2, FS_AddElement
        <5> QED
          BY <1>3, <3>3, <5>1
      <4> QED
        BY <4>1, <4>2
    <3>5. ASSUME NEW p \in P
          PROVE  /\ Total(T, Debts(p)') = Total(T, Debts(p)) + Owes(st'[m], p) - Owes(st[m], p)
                 /\ Total(T, Pendings') \in Nat /\ Total(T, Debts(p)) \in Nat
      BY <1>1, <2>2, DebtsOne DEF Undisturbed
    <3>6. Few'
      <4>1. Total(T, Pendings') \in Nat /\ glob' = 0
        BY <1>1, <1>3, <3>5
      <4> HIDE DEF Pendings
      <4> QED
        BY <3>3, <4>1 DEF Few
    <3>7. ASSUME NEW p \in P, loc'[p] > 0 PROVE Alert(p)' \/ Covered(p)'
      <4>1. CASE st[m].spin
        <5>1. Minds(st'[m], p)
          BY <2>1, <4>1 DEF Minds
        <5> QED
          BY <1>1, <5>1, AlertBy
      <4>2. CASE ~st[m].spin /\ Alert(p) /\ ~Covered(p)
        <5>1. PICK u \in T : Minds(st[u], p)
          BY <4>2 DEF Alert
        <5>2. u # m
          BY <1>1, <4>2, <5>1
        <5>3. Minds(st'[u], p)
          BY <2>2, <5>1, <5>2 DEF Undisturbed
        <5> QED
          BY <5>3, AlertBy
      <4>3. CASE ~st[m].spin /\ (idle = {} \/ Covered(p))
        <5>1. Total(T, Debts(p)') = Total(T, Debts(p)) + 1 - 0 /\ Total(T, Debts(p)) \in Nat
          BY <1>1, <3>2, <3>5, <4>3
        <5>2. Cardinality(idle) = 0 \/ Cardinality(idle) <= Total(T, Debts(p))
          BY <4>3, FS_EmptySet DEF Covered
        <5> HIDE DEF Debts
        <5>3. Cardinality(idle') <= Total(T, Debts(p)')
          BY <3>3, <3>4, <5>1, <5>2, OneMore
        <5> QED
          BY <5>3 DEF Covered
      <4>4. idle # {} => Alert(p) \/ Covered(p)
        BY <1>3, <2>4, <3>7 DEF Minded, Responsible
      <4> QED
        BY <4>1, <4>2, <4>3, <4>4
    <3>8. Responsible'
      BY <3>7 DEF Responsible
    <3> QED
      BY <3>6, <3>8 DEF Minded
  <2> QED
    BY <2>3, <2>4
<1> QED
  BY <1>2, <1>3, stopDoes

(* In the last look at the queues (proc.go:2402-2425) a queue with work    *)
(* makes the thread take an idle P, if there still is one.                 *)
LEMMA RecheckMinded ==
  ASSUME IInv, TypeOK', Minded, NEW m \in M, unspin(m) \/ recheck(m)
  PROVE  Minded'
<1> USE DEF IInv, Good
<1>1. m \in T /\ Shape(st[m])
  BY DEF T, Shapes, Fits
<1>2. QuietlyShared
  <2>1. CASE unspin(m)
    BY <2>1 DEF unspin, mon, QuietlyShared
  <2>2. CASE recheck(m)
    BY <2>2 DEF recheck, mon, QuietlyShared
  <2> QED
    BY <2>1, <2>2
<1>3. CASE unspin(m)
  <2>1. st[m].pc = "unspin" /\ st[m].ret = "respin" /\ st[m].todo = P
    BY <1>1, <1>3 DEF unspin, At, Shape
  <2>2. Looks(m, "recheck", FALSE, st[m].todo)
    BY <1>3, unspinDoes
  <2>3. Rest(m) /\ st'[m].pc = "recheck" /\ st'[m].ret = "respin" /\ st'[m].todo = P
    BY <2>1, <2>2 DEF Looks
  <2>4. Pending(st[m]) = 0 /\ Pending(st'[m]) = 0 /\ \A p \in P : Minds(st'[m], p)
    BY <2>1, <2>3 DEF Pending, Minds, Checking
  <2> QED
    BY <1>1, <1>2, <2>3, <2>4, QuietlyLess, RestUndisturbed, MindedAlert
<1>4. CASE recheck(m)
  <2>1. st[m].pc = "recheck" /\ st[m].ret \in {"respin", "findrunnable"} /\ ~st[m].spin /\ ~st[m].sp
    BY <1>1, <1>4 DEF recheck, At, Shape, Spinner, Injector, Injecting, Starting
  <2>2. Pending(st[m]) = 0
    BY <2>1 DEF Pending
  <2>3. CASE idle = {}
    BY <1>2, <2>3, MindedFree DEF QuietlyShared
  <2>4. ASSUME idle # {}, NEW q \in st[m].todo,
               Looks(m, IF loc[q] # 0 THEN "rechecked" ELSE "recheck", st[m].spin, st[m].todo \ {q})
        PROVE  Minded'
    <3>1. /\ Rest(m) /\ st'[m].pc = (IF loc[q] # 0 THEN "rechecked" ELSE "recheck")
          /\ st'[m].todo = st[m].todo \ {q} /\ st'[m].ret = st[m].ret
      BY <2>4 DEF Looks
    <3>2. Pending(st'[m]) = 0
      BY <2>1, <3>1 DEF Pending
    <3>3. ASSUME NEW p \in P, loc[p] > 0
          PROVE  /\ Minds(st[m], p) => Minds(st'[m], p)
                 /\ Owes(st[m], p) \in {0, 1} /\ Owes(st'[m], p) \in {Owes(st[m], p), 1}
      <4>1. Checking(st[m], p) => Checking(st'[m], p)
        BY <2>1, <3>1, <3>3 DEF Checking
      <4>2. Minds(st[m], p) => Minds(st'[m], p)
        BY <2>1, <3>1, <4>1 DEF Minds
      <4>3. CASE st[m].ret = "findrunnable" /\ Checking(st[m], p)
        <5>1. Owes(st[m], p) = 1 /\ Owes(st'[m], p) = 1
          BY <2>2, <3>1, <3>2, <4>1, <4>3 DEF Owes
        <5> HIDE DEF Owes, Minds
        <5> QED
          BY <4>2, <5>1
      <4>4. CASE ~(st[m].ret = "findrunnable" /\ Checking(st[m], p))
        <5>1. Owes(st[m], p) = 0 /\ Owes(st'[m], p) \in {0, 1}
          BY <2>2, <3>2, <4>4 DEF Owes
        <5> HIDE DEF Owes, Minds
        <5> QED
          BY <4>2, <5>1
      <4> QED
        BY <4>3, <4>4
    <3>4. /\ Cardinality(idle) \in Nat /\ idle' = idle /\ glob' = glob /\ loc' = loc /\ glob \in Nat /\ (lapse => lapse')
      BY <1>2, IdleCount DEF QuietlyShared, TypeOK
    <3>5. glob' + Cardinality(idle') + Pending(st[m]) <= glob + Cardinality(idle) + Pending(st'[m])
      BY <2>2, <3>2, <3>4
    <3>6. \A p \in P : loc'[p] > 0 =>
             /\ loc[p] > 0 /\ (Minds(st[m], p) => Minds(st'[m], p))
             /\ Cardinality(idle') + Owes(st[m], p) <= Cardinality(idle) + Owes(st'[m], p)
      BY <3>3, <3>4
    <3> QED
      BY <1>1, <2>4, <3>1, <3>4, <3>5, <3>6, RestUndisturbed, MindedBy
  <2>5. CASE st[m].todo = {} /\ ParksDoes(m)
    <3>1. Careless(st[m])
      BY <2>1, <2>2, <2>5 DEF Careless, Minds, Owes, Checking
    <3>2. Rest(m) /\ st'[m].pc \in {"netblock", "stopm"} /\ st'[m].ret = "findrunnable"
      BY <2>5 DEF ParksDoes
    <3> QED
      BY <1>1, <1>2, <3>1, <3>2, QuietlyFrom
  <2> QED
    BY <1>4, <2>3, <2>4, <2>5, recheckDoes
<1> QED
  BY <1>3, <1>4

(* One idle P less, and one thread less that will take one. *)
LEMMA OneTaken ==
  ASSUME NEW i \in Nat, NEW g \in Nat
  PROVE  g + (i - 1) + 0 <= g + i + 0 /\ (i - 1) + 1 <= i + 0
OBVIOUS

(* rechecked: the idle P that was owed is taken. *)
LEMMA RecheckedMinded ==
  ASSUME IInv, TypeOK', Minded, NEW m \in M, rechecked(m)
  PROVE  Minded'
<1> USE DEF IInv, Good
<1>1. m \in T /\ Shape(st[m])
  BY DEF T, Shapes, Fits
<1>2. st[m].pc = "rechecked" /\ st[m].ret \in {"respin", "findrunnable"} /\ ~st[m].spin /\ ~st[m].sp
  BY <1>1 DEF rechecked, At, Shape, Spinner, Injector, Injecting, Starting
<1>3. /\ glob' = glob /\ loc' = loc /\ lapse' = lapse /\ glob \in Nat /\ IsFiniteSet(idle) /\ Cardinality(idle) \in Nat
      /\ \A p \in P : loc[p] \in Nat
  BY IdleCount DEF rechecked, mon, TypeOK
<1>4. CASE idle' = {}
  BY <1>4, MindedFree
<1>5. ASSUME NEW q \in idle, idle' = idle \ {q}, Rest(m), IsLocal(st'[m], st[m].ret, q)
      PROVE  Minded'
  <2>1. Undisturbed(m) /\ st'[m].pc = st[m].ret /\ st'[m].ret = ""
    BY <1>1, <1>5, RestUndisturbed DEF IsLocal
  <2>2. Pending(st[m]) = 0 /\ Pending(st'[m]) = 0 /\ \A p \in P : Owes(st'[m], p) = 0
    BY <1>2, <2>1, DebtFree DEF Pending
  <2>3. idle' \subseteq idle /\ glob' <= glob
    BY <1>3, <1>5
  <2>4. CASE st[m].ret = "respin"
    <3>1. \A p \in P : Minds(st'[m], p)
      BY <2>1, <2>4 DEF Minds
    <3> QED
      BY <1>1, <1>3, <2>1, <2>2, <2>3, <3>1, MindedAlert
  <2>5. CASE st[m].ret = "findrunnable"
    <3>1. \A p \in P : ~Minds(st[m], p) /\ Owes(st[m], p) = 1
      BY <1>2, <2>2, <2>5 DEF Minds, Owes, Checking
    <3>2. Cardinality(idle') = Cardinality(idle) - 1
      BY <1>3, <1>5, FS_RemoveElement
    <3> DEFINE i == Cardinality(idle)  j == Cardinality(idle')
    <3>3. i \in Nat /\ j = i - 1
      BY <1>3, <3>2
    <3> HIDE DEF i, j
    <3>4. glob' + j + 0 <= glob + i + 0 /\ j + 1 <= i + 0
      BY <1>3, <3>3, OneTaken
    <3>5. glob' + Cardinality(idle') + Pending(st[m]) <= glob + Cardinality(idle) + Pending(st'[m])
      BY <2>2, <3>4 DEF i, j
    <3>6. \A p \in P : /\ Minds(st[m], p) => Minds(st'[m], p)
                       /\ Cardinality(idle') + Owes(st[m], p) <= Cardinality(idle) + Owes(st'[m], p)
      BY <2>2, <3>1, <3>4 DEF i, j
    <3> QED
      BY <1>1, <1>3, <1>5, <2>1, <3>5, <3>6, MindedBy
  <2> QED
    BY <1>2, <2>4, <2>5
<1> QED
  BY <1>4, <1>5, recheckedDoes

(* The threads that park, poll the network or stop are not counted on. *)
LEMMA ParkingMinded ==
  ASSUME IInv, TypeOK', Minded, NEW m \in M, netblock(m) \/ polling(m) \/ polled(m) \/ pollPidle(m) \/ stopm(m)
  PROVE  Minded'
<1> USE DEF IInv, Good
<1>1. m \in T /\ Shape(st[m]) /\ {"polling", "stopm", "pollPidle"} \subseteq PC
  BY DEF T, Shapes, Fits, PC, NoP
<1>2. st[m].pc \in {"netblock", "polling", "polled", "pollPidle", "stopm", "repark"}
  BY Zenon DEF netblock, polling, polled, pollPidle, stopm, At
<1>3. Careless(st[m]) /\ st[m].ret # "injected"
  BY <1>1, <1>2, CarelessAt DEF Shape
<1>4. CASE netblock(m)
  <2>1. QuietlyShared
    BY <1>4 DEF netblock, mon, QuietlyShared
  <2>2. Goes(m, "polling") \/ Goes(m, "stopm")
    BY <1>1, <1>4, Going DEF netblock
  <2>3. Rest(m) /\ st'[m].pc \in {"polling", "stopm"} /\ st'[m].ret = st[m].ret
    BY <2>2 DEF Goes, To, Same
  <2> QED
    BY <1>1, <1>3, <2>1, <2>3, QuietlyFrom
<1>5. CASE polling(m)
  <2>1. QuietlyShared
    BY <1>5 DEF polling, mon, QuietlyShared
  <2>2. Rest(m) /\ st'[m].pc = "polled" /\ st'[m].ret = st[m].ret
    BY <1>5, pollingDoes DEF PollDoes
  <2> QED
    BY <1>1, <1>3, <2>1, <2>2, QuietlyFrom
<1>6. CASE polled(m)
  <2>1. QuietlyShared
    BY <1>6 DEF polled, mon, QuietlyShared
  <2>2. Goes(m, "pollPidle")
    BY <1>1, <1>6, Going DEF polled
  <2>3. Rest(m) /\ st'[m].pc = "pollPidle" /\ st'[m].ret = st[m].ret
    BY <2>2 DEF Goes, To, Same
  <2> QED
    BY <1>1, <1>3, <2>1, <2>3, QuietlyFrom
<1>7. CASE pollPidle(m)
  <2>1. glob' = glob /\ loc' = loc /\ lapse' = lapse /\ glob \in Nat /\ \A p \in P : loc[p] \in Nat
    BY Zenon, <1>7 DEF pollPidle, mon, TypeOK
  <2>2. PidleDoes(m)
    BY <1>7, pollPidleDoes
  <2>3. Rest(m) /\ idle' \subseteq idle /\ st'[m].pc \in {"run", "inject"} /\ st'[m].ret = ""
    BY <2>2 DEF PidleDoes, IsLocal, Bears
  <2>4. glob' <= glob /\ \A p \in P : loc'[p] <= loc[p]
    BY <2>1
  <2> QED
    BY <1>1, <1>3, <2>1, <2>3, <2>4, RestUndisturbed, MindedFrom
<1>8. CASE stopm(m)
  <2>1. QuietlyShared
    BY <1>8 DEF stopm, QuietlyShared
  <2>2. Rest(m) /\ st'[m].pc = "stopped" /\ st'[m].ret \in {"findrunnable", st[m].ret}
    BY <1>8, stopmDoes DEF StopmDoes
  <2> QED
    BY <1>1, <1>3, <2>1, <2>2, QuietlyFrom
<1> QED
  BY <1>4, <1>5, <1>6, <1>7, <1>8

(* Nor is sysmon. *)
LEMMA SysmonMinded ==
  ASSUME IInv, TypeOK', Minded, SysmonNext
  PROVE  Minded'
<1> USE DEF IInv, Good
<1>1. Sysmon \in T /\ Shape(st[Sysmon]) /\ {"asleep", "sysmon", "inject"} \subseteq PC
  BY DEF T, Shapes, Fits, PC, Monitoring, Injecting
<1>2. st[Sysmon].pc \in Monitoring
  BY Zenon DEF SysmonNext, sysmonSleeps, sysmonTimeout, sysmonPolls, incidlelocked, retake, retakeCas, uncount, At, Monitoring
<1>3. Careless(st[Sysmon]) /\ st[Sysmon].ret # "injected"
  BY <1>1, <1>2, CarelessAt DEF Shape, Monitoring
<1>4. QuietlyShared
  <2>1. CASE sysmonSleeps \/ sysmonTimeout \/ incidlelocked
    BY <2>1 DEF sysmonSleeps, sysmonTimeout, incidlelocked, QuietlyShared
  <2>2. CASE sysmonPolls
    BY <2>2 DEF sysmonPolls, mon, QuietlyShared
  <2>4. CASE retakeCas
    BY <2>4 DEF retakeCas, mon, QuietlyShared
  <2>3. CASE retake \/ uncount
    BY <2>3 DEF retake, uncount, QuietlyShared
  <2> QED
    BY <2>1, <2>2, <2>3, <2>4 DEF SysmonNext
<1>5. ASSUME NEW l \in {"asleep", "sysmon", "inject"}, Goto(Sysmon, l)
      PROVE  Minded'
  <2>1. Goes(Sysmon, l)
    BY <1>1, <1>5, Going
  <2>2. Rest(Sysmon) /\ st'[Sysmon].pc \in {"asleep", "sysmon", "inject"} /\ st'[Sysmon].ret = st[Sysmon].ret
    BY <2>1 DEF Goes, To, Same
  <2> QED
    BY <1>1, <1>3, <1>4, <2>2, QuietlyFrom
<1>6. ASSUME Rest(Sysmon), st'[Sysmon].pc \in {"incidlelocked", "retakeCas", "handoffp", "uncount", "sysmon"},
             st'[Sysmon].ret \in {"", "uncount"}
      PROVE  Minded'
  BY <1>1, <1>3, <1>4, <1>6, QuietlyFrom
<1>7. CASE sysmonSleeps \/ sysmonTimeout \/ incidlelocked
  BY <1>5, <1>7 DEF sysmonSleeps, sysmonTimeout, incidlelocked
<1>8. CASE sysmonPolls
  BY <1>6, <1>8, sysmonPollsDoes DEF Bears
<1>9. CASE retake
  BY <1>6, <1>9, retakeDoes DEF RetakeDoes
<1>10. CASE retakeCas
  BY <1>6, <1>10, retakeCasDoes DEF RetakenDoes, IsLocal
<1>11. CASE uncount
  BY <1>6, <1>11, uncountDoes DEF IsLocal
<1> QED
  BY <1>7, <1>8, <1>9, <1>10, <1>11 DEF SysmonNext

(* At the start there is no work. *)
LEMMA InitMinded == Init => Minded
<1> SUFFICES ASSUME Init PROVE Minded
  OBVIOUS
<1>1. TypeOK
  BY InitIInv DEF IInv, Good
<1>2. PICK p0 \in P : TRUE
  BY <1>1 DEF TypeOK
<1>3. Total(T, Pendings) \in Nat
  BY <1>1, <1>2, DebtsAre
<1>4. Cardinality(idle) \in Nat /\ Cardinality(P) \in Nat /\ Cardinality(idle) <= Cardinality(P)
  BY <1>1, IdleCount DEF TypeOK
<1>5. glob = 0 /\ \A p \in P : loc[p] = 0
  BY DEF Init
<1> HIDE DEF Pendings
<1>6. Few
  BY <1>3, <1>4, <1>5 DEF Few
<1>7. Responsible
  BY <1>5 DEF Responsible
<1> QED
  BY <1>6, <1>7 DEF Minded

(* Every step leaves somebody responsible. *)
LEMMA MindedStep == IInv /\ Minded /\ [Next]_vars => Minded'
<1> SUFFICES ASSUME IInv, Minded, [Next]_vars PROVE Minded'
  OBVIOUS
<1>0. TypeOK'
  BY IInvStep DEF IInv, Good
<1>1. ASSUME NEW t \in T, SharedNext(t) PROVE Minded'
  <2>1. CASE startmUndo(t)
    <3>1. (idle' = {} \/ lapse')
      BY <2>1 DEF startmUndo
    <3> QED
      BY <3>1, MindedFree
  <2> QED
    BY <1>0, <1>1, <2>1, startmMinded, newmMinded, HandingMinded, InjectingMinded DEF SharedNext
<1>2. ASSUME NEW m \in M, ThreadNext(m) PROVE Minded'
  <2>1. CASE ready(m) \/ park(m) \/ parkOnNet(m) \/ gosched(m) \/ entersyscallblock(m) \/ exitsyscall(m)
    BY <1>0, <2>1, MindedRun
  <2>2. CASE entersyscall(m) \/ exitsyscall0(m)
    BY <1>0, <2>2, MindedSyscall
  <2>3. CASE readied(m) \/ wakep(m) \/ resetspinning(m)
    BY <1>0, <2>3, WakingMinded
  <2>4. CASE schedule(m) \/ findrunnable(m) \/ steal(m)
    BY <1>0, <2>4, SeekingMinded
  <2>5. CASE netpoll(m) \/ spin(m) \/ respin(m)
    BY <1>0, <2>5, BetweenMinded
  <2>6. CASE stop(m)
    BY <1>0, <2>6, GivingUpMinded
  <2>7. CASE unspin(m) \/ recheck(m)
    BY <1>0, <2>7, RecheckMinded
  <2>8. CASE rechecked(m)
    BY <1>0, <2>8, RecheckedMinded
  <2>9. CASE netblock(m) \/ polling(m) \/ polled(m) \/ pollPidle(m) \/ stopm(m)
    BY <1>0, <2>9, ParkingMinded
  <2> QED
    BY <1>2, <2>1, <2>2, <2>3, <2>4, <2>5, <2>6, <2>7, <2>8, <2>9 DEF ThreadNext
<1>3. CASE SysmonNext
  BY <1>0, <1>3, SysmonMinded
<1>4. CASE UNCHANGED vars
  BY <1>4 DEF vars, mon, Minded, Few, Responsible, Pendings, Debts, Alert, Covered, Pending, Owes, Minds, Checking
<1> QED
  BY <1>1, <1>2, <1>3, <1>4, NextSplit

(* In every reachable state with an idle P and no lapse, each queue with   *)
(* work has a thread that spins, will spin or will start one that does, or *)
(* as many threads on their way to take a P as there are idle Ps; and the  *)
(* global queue is no longer than the threads injectglist has still to     *)
(* start and the Ps at work.                                               *)
THEOREM SomebodyMinds == Spec => [](IInv /\ Minded)
<1>1. Init => IInv /\ Minded
  BY InitIInv, InitMinded
<1>2. IInv /\ Minded /\ [Next]_vars => (IInv /\ Minded)'
  BY IInvStep, MindedStep
<1> QED
  BY <1>1, <1>2, PTL DEF Spec

(* When no thread is on its way nobody minds and nobody owes: then a P is  *)
(* idle only if the queues are empty.                                      *)
LEMMA MindedRest == IInv /\ Minded => NoIdleWithWork
<1> SUFFICES ASSUME IInv, Minded, Quiet, idle # {}, ~lapse, NEW p \in P, loc[p] # 0
             PROVE  FALSE
  BY DEF NoIdleWithWork, NoWork
<1> USE DEF IInv, Good
<1>1. \A t \in T : Careless(st[t])
  <2> TAKE t \in T
  <2>1. Shape(st[t])
    BY DEF Shapes, Fits
  <2>2. st[t].pc \in {"run", "stopped", "fresh", "syscall", "polling", "sysmon", "asleep"}
    BY DEF Quiet, T
  <2> QED
    BY <2>1, <2>2, CarelessAt DEF Monitoring
<1>2. loc[p] > 0
  BY DEF TypeOK
<1>3. ~Alert(p)
  BY <1>1 DEF Alert, Careless
<1>4. Covered(p)
  BY <1>2, <1>3 DEF Minded, Responsible
<1>5. Debts(p) \in [T -> Nat] /\ \A t \in T : Debts(p)[t] = Owes(st[t], p)
  BY DebtsAre
<1>6. \A t \in T : Debts(p)[t] = 0
  BY <1>1, <1>5 DEF Careless
<1> HIDE DEF Debts
<1>7. Total(T, Debts(p)) = 0
  BY <1>6, TotalZero
<1>8. IsFiniteSet(idle) /\ Cardinality(idle) \in Nat
  BY IdleCount DEF TypeOK
<1>9. Cardinality(idle) = 0
  BY <1>4, <1>7, <1>8 DEF Covered
<1> QED
  BY <1>8, <1>9, FS_EmptySet

(* The promise of the scheduler's comment (proc.go:49-74, 2402), for any   *)
(* number of threads, Ps and goroutines: when no thread is on its way, no  *)
(* P is idle beside a local queue with work, unless handoffp, startm or    *)
(* goschedImpl has left one so since the queues were last empty.           *)
THEOREM NobodyIdlesBesideWork == Spec => []NoIdleWithWork
BY SomebodyMinds, MindedRest, PTL
==============================================================================
