------------------------------- MODULE Timers -------------------------------
(***************************************************************************)
(* Timers (runtime/time.go, time/sleep.go, time/tick.go): the heaps of the *)
(* buckets, one timerproc per bucket, and the owners of the timers, who    *)
(* start, stop, reset and drain them.                                      *)
(*                                                                         *)
(* What is done under the lock of a bucket is one step.  timerproc drops   *)
(* the lock to call f, and before it goes to sleep; it reads the clock     *)
(* once for all the timers it fires.  A timer has one owner: unsynchronized*)
(* use of one timer by several goroutines is the data race that badTimer   *)
(* reports and is left out.                                                *)
(***************************************************************************)
EXTENDS TimerHeap

CONSTANTS
  Timer,    \* the timers
  Kinds,    \* what the timers may be: each is a function from Timer to "timer"
            \* (NewTimer), "ticker" (NewTicker) or "func" (AfterFunc)
  Bucket,   \* the buckets; assignBucket picks one
  None,     \* no value, no timer
  Delays,   \* bound: the durations
  MaxGen,   \* bound: how often a timer is started
  Horizon   \* bound: the last time of the clock

ASSUME TimersAssumption ==
  /\ Kinds \subseteq [Timer -> {"timer", "ticker", "func"}]
  /\ Delays \subseteq Nat /\ MaxGen \in Nat /\ Horizon \in Nat

VARIABLES
  Kind,          \* what the timers are
  clock,         \* nanotime
  \* fields of the timers
  tb, i, when, period,
  \* fields of the buckets
  t, created, sleeping, rescheduling, sleepUntil, waitnote,
  \* timerproc
  proc, now, wakeAt,
  inflight,      \* the timer whose f it has taken out to call, and its arming
  \* the channel of a timer, or None
  C,
  \* the owners
  user,          \* what the owner knows
  gen,           \* how often the timer was started
  due,           \* the deadline the owner asked for
  ran            \* history: the armings whose f was called

timerVars == <<tb, i, when, period>>
bucketVars == <<t, created, sleeping, rescheduling, sleepUntil, waitnote>>
procVars == <<proc, now, wakeAt, inflight>>
ownerVars == <<user, gen, due>>
vars == <<Kind, clock, timerVars, bucketVars, procVars, C, ownerVars, ran>>

Idle == [timer |-> None, gen |-> 0]

Init ==
  /\ Kind \in Kinds
  /\ clock = 0
  /\ tb = [x \in Timer |-> None] /\ i = [x \in Timer |-> 0]
  /\ when = [x \in Timer |-> 0] /\ period = [x \in Timer |-> 0]
  /\ t = [b \in Bucket |-> [k \in {} |-> None]]
  /\ created = [b \in Bucket |-> FALSE]
  /\ sleeping = [b \in Bucket |-> FALSE] /\ rescheduling = [b \in Bucket |-> FALSE]
  /\ sleepUntil = [b \in Bucket |-> 0]
  /\ waitnote = [b \in Bucket |-> 0]
  /\ proc = [b \in Bucket |-> "none"]
  /\ now = [b \in Bucket |-> 0] /\ wakeAt = [b \in Bucket |-> 0]
  /\ inflight = [b \in Bucket |-> Idle]
  /\ C = [x \in Timer |-> None]
  /\ user = [x \in Timer |-> "new"]
  /\ gen = [x \in Timer |-> 0] /\ due = [x \in Timer |-> 0]
  /\ ran = [x \in Timer |-> {}]

Heap(b) == [t |-> t[b], i |-> i]
SetHeap(b, h) == t' = [t EXCEPT ![b] = h.t] /\ i' = h.i
In(b, x) == Holds(Heap(b), x)

Tick ==
  /\ clock < Horizon
  /\ clock' = clock + 1
  /\ UNCHANGED <<Kind, timerVars, bucketVars, procVars, C, ownerVars, ran>>

----------------------------------------------------------------------------
(* Mutant: timerproc is created, but not told of an earlier timer.         *)
addtimerLockedQuiet(b, x) ==
  /\ SetHeap(b, Inserted(Heap(b), when', x))
  /\ proc' = [proc EXCEPT ![b] = IF created[b] THEN @ ELSE "top"]
  /\ created' = [created EXCEPT ![b] = TRUE]
  /\ UNCHANGED <<sleeping, rescheduling, sleepUntil, waitnote>>

(* addtimer: if the timer comes to the top of the heap, timerproc must     *)
(* look at it: wake it from its sleep, or ready it, or create it.  A note  *)
(* that is set already would be a fatal "double wakeup".                   *)
addtimerLocked(b, x) ==
  /\ SetHeap(b, Inserted(Heap(b), when', x))
  /\ LET first == i'[x] = 0
     IN  /\ sleeping' = [sleeping EXCEPT ![b] = @ /\ ~first]
         /\ waitnote' = [waitnote EXCEPT ![b] = IF sleeping[b] /\ first THEN @ + 1 ELSE @]
         /\ rescheduling' = [rescheduling EXCEPT ![b] = @ /\ ~first]
         /\ proc' = [proc EXCEPT ![b] = IF (rescheduling[b] /\ first) \/ ~created[b]
                                        THEN "top" ELSE @]
  /\ created' = [created EXCEPT ![b] = TRUE]
  /\ UNCHANGED sleepUntil

(* NewTimer, NewTicker, AfterFunc, and the second half of Reset.           *)
Start(x, d) ==
  /\ gen[x] < MaxGen /\ clock + d <= Horizon
  /\ \/ user[x] = "new"
     \/ Kind[x] # "ticker" /\ user[x] \in {"stopped", "expired", "received"}
  /\ Kind[x] = "ticker" => d > 0
  /\ when' = [when EXCEPT ![x] = clock + d]
  /\ period' = [period EXCEPT ![x] = IF Kind[x] = "ticker" THEN d ELSE 0]
  /\ \E b \in Bucket : /\ tb' = [tb EXCEPT ![x] = b]
                       /\ addtimerLocked(b, x)
  /\ user' = [user EXCEPT ![x] = "armed"]
  /\ gen' = [gen EXCEPT ![x] = @ + 1]
  /\ due' = [due EXCEPT ![x] = clock + d]
  /\ UNCHANGED <<Kind, clock, now, wakeAt, inflight, C, ran>>

(* Mutant: Stop returns true for a timer that is not in the heap any more. *)
StopAlwaysTrue(x) ==
  /\ user[x] = "armed"
  /\ IF In(tb[x], x) THEN SetHeap(tb[x], Deleted(Heap(tb[x]), when, i[x])) ELSE UNCHANGED <<t, i>>
  /\ user' = [user EXCEPT ![x] = "stopped"]
  /\ UNCHANGED <<Kind, clock, tb, when, period, created, sleeping, rescheduling, sleepUntil, waitnote,
                 procVars, C, gen, due, ran>>

(* Stop, and the first half of the Reset of a func timer.  If it returns   *)
(* false, the owner of a "timer" drains the channel, as sleep.go:64 says.  *)
Stop(x) ==
  /\ user[x] = "armed"
  /\ LET b == tb[x]
     IN  IF In(b, x)
         THEN /\ SetHeap(b, Deleted(Heap(b), when, i[x]))
              /\ user' = [user EXCEPT ![x] = "stopped"]
         ELSE /\ user' = [user EXCEPT ![x] = IF Kind[x] = "timer" THEN "draining" ELSE "expired"]
              /\ UNCHANGED <<t, i>>
  /\ UNCHANGED <<Kind, clock, tb, when, period, created, sleeping, rescheduling, sleepUntil, waitnote,
                 procVars, C, gen, due, ran>>

Receive(x) ==
  /\ user[x] \in {"armed", "draining"} /\ C[x] # None
  /\ C' = [C EXCEPT ![x] = None]
  /\ user' = [user EXCEPT ![x] = IF user[x] = "draining" THEN "expired"
                                 ELSE IF Kind[x] = "ticker" THEN "armed" ELSE "received"]
  /\ UNCHANGED <<Kind, clock, timerVars, bucketVars, procVars, gen, due, ran>>

----------------------------------------------------------------------------
(* A periodic timer is set to its first deadline after n.                  *)
NextTick(x, n) == when[x] + period[x] * (1 + (n - when[x]) \div period[x])

(* One round of the inner loop of timerproc, under the lock, at time n.    *)
Round(b, n) ==
  LET h == Heap(b)
      x == t[b][0]
  IN  \/ /\ Size(h) = 0
         /\ rescheduling' = [rescheduling EXCEPT ![b] = TRUE]
         /\ sleeping' = [sleeping EXCEPT ![b] = FALSE]
         /\ proc' = [proc EXCEPT ![b] = "parked"] /\ now' = [now EXCEPT ![b] = 0]
         /\ UNCHANGED <<t, i, when, sleepUntil, waitnote, inflight, wakeAt>>
      \/ /\ Size(h) > 0 /\ when[x] > n
         /\ sleeping' = [sleeping EXCEPT ![b] = TRUE]
         /\ sleepUntil' = [sleepUntil EXCEPT ![b] = when[x]]
         /\ wakeAt' = [wakeAt EXCEPT ![b] = when[x] - n]
         /\ waitnote' = [waitnote EXCEPT ![b] = 0]
         /\ proc' = [proc EXCEPT ![b] = "doze"] /\ now' = [now EXCEPT ![b] = 0]
         /\ UNCHANGED <<t, i, when, rescheduling, inflight>>
      \/ /\ Size(h) > 0 /\ when[x] <= n
         /\ IF period[x] > 0
            THEN /\ when' = [when EXCEPT ![x] = NextTick(x, n)]
                 /\ SetHeap(b, siftdownTimer(h, when', 0))
            ELSE /\ SetHeap(b, Popped(h, when))
                 /\ UNCHANGED when
         /\ inflight' = [inflight EXCEPT ![b] = [timer |-> x, gen |-> gen[x]]]
         /\ sleeping' = [sleeping EXCEPT ![b] = FALSE]
         /\ proc' = [proc EXCEPT ![b] = "fire"] /\ now' = [now EXCEPT ![b] = n]
         /\ UNCHANGED <<rescheduling, sleepUntil, waitnote, wakeAt>>

Top(b) ==
  /\ proc[b] = "top"
  /\ Round(b, clock)
  /\ UNCHANGED <<Kind, clock, tb, period, created, C, ownerVars, ran>>

Loop(b) ==
  /\ proc[b] = "loop"
  /\ Round(b, now[b])
  /\ UNCHANGED <<Kind, clock, tb, period, created, C, ownerVars, ran>>

(* Mutant: the channel has no buffer, and nobody receives at that moment.  *)
FireUnbuffered(b) ==
  /\ proc[b] = "fire"
  /\ ran' = [ran EXCEPT ![inflight[b].timer] = @ \cup {inflight[b].gen}]
  /\ inflight' = [inflight EXCEPT ![b] = Idle]
  /\ proc' = [proc EXCEPT ![b] = "loop"]
  /\ UNCHANGED <<Kind, clock, timerVars, bucketVars, now, wakeAt, C, ownerVars>>

(* f, without the lock: sendTime drops the value if the channel is full.   *)
Fire(b) ==
  /\ proc[b] = "fire"
  /\ LET x == inflight[b].timer
     IN  /\ C' = IF Kind[x] = "func" \/ C[x] # None THEN C
                 ELSE [C EXCEPT ![x] = [gen |-> inflight[b].gen, at |-> clock]]
         /\ ran' = [ran EXCEPT ![x] = @ \cup {inflight[b].gen}]
  /\ inflight' = [inflight EXCEPT ![b] = Idle]
  /\ proc' = [proc EXCEPT ![b] = "loop"]
  /\ UNCHANGED <<Kind, clock, timerVars, bucketVars, now, wakeAt, ownerVars>>

(* notetsleepg(delta), with the delta of a clock that was read earlier.    *)
Doze(b) ==
  /\ proc[b] = "doze"
  /\ wakeAt' = [wakeAt EXCEPT ![b] = Min({clock + @, Horizon})]
  /\ proc' = [proc EXCEPT ![b] = "sleep"]
  /\ UNCHANGED <<Kind, clock, timerVars, bucketVars, now, inflight, C, ownerVars, ran>>

WakeUp(b) ==
  /\ proc[b] = "sleep"
  /\ waitnote[b] > 0 \/ clock >= wakeAt[b]
  /\ proc' = [proc EXCEPT ![b] = "top"]
  /\ wakeAt' = [wakeAt EXCEPT ![b] = 0]
  /\ UNCHANGED <<Kind, clock, timerVars, bucketVars, now, inflight, C, ownerVars, ran>>

timerproc(b) == Top(b) \/ Loop(b) \/ Fire(b) \/ Doze(b) \/ WakeUp(b)

Next ==
  \/ Tick
  \/ \E b \in Bucket : timerproc(b)
  \/ \E x \in Timer : Stop(x) \/ Receive(x) \/ \E d \in Delays : Start(x, d)

Spec == Init /\ [][Next]_vars

(* Time passes, and a thread runs each timerproc.                          *)
FairSpec == Spec /\ WF_vars(Tick) /\ \A b \in Bucket : WF_vars(timerproc(b))

----------------------------------------------------------------------------
Armings == 0..MaxGen
TypeOK ==
  /\ clock \in 0..Horizon
  /\ tb \in [Timer -> Bucket \cup {None}]
  /\ \A b \in Bucket : \E n \in 0..Cardinality(Timer) : t[b] \in [0..(n - 1) -> Timer]
  /\ created \in [Bucket -> BOOLEAN] /\ sleeping \in [Bucket -> BOOLEAN]
  /\ rescheduling \in [Bucket -> BOOLEAN]
  /\ proc \in [Bucket -> {"none", "top", "loop", "fire", "doze", "sleep", "parked"}]
  /\ inflight \in [Bucket -> [timer : Timer \cup {None}, gen : Armings]]
  /\ C \in [Timer -> {None} \cup [gen : Armings, at : 0..Horizon]]
  /\ user \in [Timer -> {"new", "armed", "stopped", "expired", "received", "draining"}]
  /\ gen \in [Timer -> Armings] /\ ran \in [Timer -> SUBSET Armings]

(* The heaps stay in order, a timer is in the bucket it names, once, and   *)
(* knows its place.  And the operations keep larger heaps in order too:    *)
(* OperationsKeepHeap does not depend on the state, so the first one will  *)
(* do (time.go:366-429, 193-215).                                          *)
HeapsAreSound ==
  /\ TypeOK
  /\ (\A x \in Timer : gen[x] = 0) /\ clock = 0 => OperationsKeepHeap
  /\ \A b \in Bucket : \A k \in DOMAIN t[b] :
       /\ k > 0 => when[t[b][Parent(k)]] <= when[t[b][k]]
       /\ tb[t[b][k]] = b /\ i[t[b][k]] = k

(* timerproc never oversleeps a timer: parked it has none, asleep it wakes *)
(* for the earliest, unless it has been told to wake now; and it is told   *)
(* once ("notewakeup - double wakeup" is fatal).  It looks at the root of  *)
(* the heap only, so this rests on HeapsAreSound.                          *)
NoDeadlineMissed ==
  /\ HeapsAreSound
  /\ \A b \in Bucket :
       /\ proc[b] \in {"none", "parked"} => t[b] = [k \in {} |-> None]
       /\ proc[b] \in {"doze", "sleep"} /\ waitnote[b] = 0 =>
            \A k \in DOMAIN t[b] : sleepUntil[b] <= when[t[b][k]]
       /\ waitnote[b] <= 1

(* Where an arming of a one-shot timer is: in its heap, in the hands of    *)
(* timerproc, or done.                                                     *)
InFlight(x) == {inflight[b].gen : b \in {a \in Bucket : inflight[a].timer = x}}
Pending(x) == tb[x] # None /\ In(tb[x], x)

(* It is in exactly one of these until it is stopped, is never called      *)
(* twice, and never again once Stop has returned true (sleep.go:55).       *)
FiresOnceOrIsStopped ==
  \A x \in Timer : Kind[x] # "ticker" =>
    /\ InFlight(x) \cap ran[x] = {}
    /\ Pending(x) => gen[x] \notin InFlight(x) \cup ran[x]
    /\ user[x] = "stopped" => ~Pending(x) /\ gen[x] \notin InFlight(x) \cup ran[x]
    /\ user[x] \in {"armed", "draining", "expired", "received"} =>
         Pending(x) \/ gen[x] \in InFlight(x) \cup ran[x]

(* The recipe of sleep.go:64-66 and 111-114: the receive that drains the   *)
(* channel after Stop returned false ends, and what is received after the  *)
(* next Reset is of that arming, and not early.                            *)
DrainingIsSound ==
  \A x \in Timer : Kind[x] = "timer" =>
    /\ user[x] = "draining" => C[x] # None \/ gen[x] \in InFlight(x)
    /\ C[x] # None => /\ C[x].gen = gen[x] /\ C[x].at >= due[x]
                      /\ user[x] \in {"armed", "draining"}

(* A ticker keeps its phase: it is set to the first tick after the time at *)
(* which it fires, dropping those it missed (time.go:244), and never ticks *)
(* early.                                                                  *)
TickerKeepsPhase ==
  \A x \in Timer : Kind[x] = "ticker" /\ user[x] = "armed" =>
    /\ Pending(x) /\ (when[x] - due[x]) % period[x] = 0
    /\ C[x] # None => C[x].at >= due[x]
    /\ \A b \in Bucket : inflight[b].timer = x =>
         now[b] < when[x] /\ when[x] <= now[b] + period[x]

(* Every value that f sends is the one its owner may expect.               *)
DeliveriesAreSound == DrainingIsSound /\ TickerKeepsPhase

(* A timer that is not stopped fires: nobody owns an armed timer for ever  *)
(* whose f is not called.                                                  *)
EveryTimerFires == \A x \in Timer : []<>~(user[x] = "armed" /\ gen[x] \notin ran[x])

(* tick.go:42: "After Stop, no more ticks will be sent."  A tick that      *)
(* timerproc has taken out before Stop is sent after it; TLC finds this    *)
(* formula violated.                                                       *)
NoTickAfterStop ==
  [][\A x \in Timer : Kind[x] = "ticker" /\ user[x] \in {"stopped", "expired"} =>
       C'[x] \in {C[x], None}]_vars

(* sleep.go:71-72: "if t.Stop returns false, then the timer has already    *)
(* expired and the function f has been started in its own goroutine".      *)
StopFalseMeansStarted ==
  \A x \in Timer : Kind[x] = "func" /\ user[x] = "expired" => gen[x] \in ran[x]
=============================================================================
