------------------------------- MODULE Sched --------------------------------
(***************************************************************************)
(* The scheduler of runtime/proc.go: threads (Ms) that take, release and   *)
(* hand over the right to run Go code (Ps), park and unpark each other, and*)
(* sysmon.  A step is one access to shared memory or one critical section  *)
(* of sched.lock; two loads of which the first only shortens the test are  *)
(* one step.  Goroutines are counted, not named: what the queues do with   *)
(* them is RunQueue's.  A search for work to steal may fail whatever the   *)
(* queues hold.  Left out: stopping the world and the collector, locked    *)
(* goroutines, tracing and the jump of time in checkdead.                  *)
(***************************************************************************)
EXTENDS Integers, FiniteSets

CONSTANTS
  M,       \* the threads that there may be, sysmon's excepted
  P,       \* the Ps
  Sysmon,  \* the thread of sysmon
  NG,      \* bound: the number of goroutines
  MaxNet,  \* bound: how many of them wait for the network at a time
  None

ASSUME SchedAssumption ==
  /\ NG \in Nat \ {0} /\ MaxNet \in Nat
  /\ Sysmon \notin M /\ None \notin P
  /\ IsFiniteSet(M) /\ IsFiniteSet(P)

VARIABLES
  st,         \* the threads: pc and their local variables
  loc,        \* goroutines in each P's queue
  glob,       \* sched.runqsize
  idle,       \* sched.pidle
  insys,      \* the Ps in status _Psyscall
  nmspinning, \* sched.nmspinning
  lastpoll,   \* sched.lastpoll is not 0
  waiters,    \* netpollWaiters is not 0
  parked,     \* goroutines that wait for another goroutine
  netwait,    \* those that wait for the network: any of them may have become ready
  idlelocked, \* sched.nmidlelocked
  sysmonwait, \* sched.sysmonwait
  dead,       \* checkdead has thrown
  lapse       \* history: a P was left idle beside work, see NoIdleWithWork

vars == <<st, loc, glob, idle, insys, nmspinning, lastpoll, waiters, parked, netwait,
          idlelocked, sysmonwait, dead, lapse>>
net == <<lastpoll, waiters, netwait>>
mon == <<idlelocked, sysmonwait, dead, lapse>>

T == M \cup {Sysmon}

\* p: m.p.  spin: m.spinning.  todo: the Ps still to be looked at.
\* hp, sp: startm's or handoffp's arguments.  ret: where they or stopm return to, or
\* where the last check of the queues goes with a P: "respin" if wasSpinning.
\* n: goroutines in hand, fin: where injectglist returns to.
Local(pc, p) == [pc |-> pc, p |-> p, spin |-> FALSE, todo |-> {},
                 hp |-> None, sp |-> FALSE, ret |-> "", n |-> 0, fin |-> ""]

Init ==
  /\ \E m0 \in M, p0 \in P :
       /\ st = [t \in T |-> IF t = m0 THEN Local("run", p0)
                            ELSE IF t = Sysmon THEN Local("sysmon", None) ELSE Local("fresh", None)]
       /\ idle = P \ {p0}
  /\ loc = [p \in P |-> 0] /\ glob = 0 /\ insys = {} /\ nmspinning = 0
  /\ lastpoll = TRUE /\ waiters = FALSE /\ parked = NG - 1 /\ netwait = 0
  /\ idlelocked = 0 /\ sysmonwait = FALSE /\ dead = FALSE
  /\ lapse = FALSE

At(t, pc) == ~dead /\ st[t].pc = pc
Goto(t, pc) == st' = [st EXCEPT ![t].pc = pc]
CallStartm(t, p, spinning, ret) ==
  st' = [st EXCEPT ![t].pc = "startm", ![t].hp = p, ![t].sp = spinning, ![t].ret = ret]
Returned(s) == [s EXCEPT !.pc = s.ret, !.hp = None, !.sp = FALSE, !.ret = ""]

Stopped(s) == {m \in M : s[m].pc = "stopped"}
Created(s) == {m \in M : s[m].pc # "fresh"}

(* checkdead, when the threads are s and nmidlelocked is n. *)
checkdead(s, n) == dead' = (Cardinality(Created(s)) - Cardinality(Stopped(s)) - n <= 0)

(***************************************************************************)
(* Starting threads                                                        *)
(***************************************************************************)

(* startm, its critical section.  A stopped thread that mget finds is woken*)
(* with the P in the same step: nobody else can reach it any more.         *)
startm(t) ==
  /\ At(t, "startm")
  /\ \/ /\ st[t].hp = None /\ idle = {}
        /\ st' = IF st[t].sp THEN [st EXCEPT ![t].pc = "undo"] ELSE [st EXCEPT ![t] = Returned(st[t])]
        /\ UNCHANGED idle
     \/ \E p \in IF st[t].hp = None THEN idle ELSE {st[t].hp} :
          /\ idle' = idle \ {p}
          /\ \/ /\ Stopped(st) = {}
                /\ st' = [st EXCEPT ![t].pc = "newm", ![t].hp = p]
             \/ \E m \in Stopped(st) :
                  st' = [st EXCEPT ![t] = Returned(st[t]),
                                   ![m] = [Local(st[m].ret, p) EXCEPT !.spin = st[t].sp]]
  /\ UNCHANGED <<loc, glob, insys, nmspinning, net, parked, mon>>

(* The caller of startm incremented nmspinning, but there was no idle P. *)
startmUndo(t) ==
  /\ At(t, "undo")
  /\ nmspinning' = nmspinning - 1
  /\ st' = [st EXCEPT ![t] = Returned(st[t])]
  /\ lapse' = (lapse \/ idle # {})
  /\ UNCHANGED <<loc, glob, idle, insys, net, parked, idlelocked, sysmonwait, dead>>

newm(t) ==
  /\ At(t, "newm")
  /\ \E m \in M :
       /\ st[m].pc = "fresh"
       /\ st' = [st EXCEPT ![t] = Returned(st[t]),
                           ![m] = [Local("schedule", st[t].hp) EXCEPT !.spin = st[t].sp]]
  /\ UNCHANGED <<loc, glob, idle, insys, nmspinning, net, parked, mon>>

wakep(t) ==
  /\ At(t, "wakep")
  /\ IF nmspinning = 0
     THEN nmspinning' = 1 /\ CallStartm(t, None, TRUE, "run")
     ELSE Goto(t, "run") /\ UNCHANGED nmspinning
  /\ UNCHANGED <<loc, glob, idle, insys, net, parked, mon>>

(* handoffp: first the tests without the lock, *)
handoffp(t) ==
  /\ At(t, "handoffp")
  /\ st' = IF loc[st[t].hp] # 0 \/ glob # 0 THEN [st EXCEPT ![t].pc = "startm"]
           ELSE IF nmspinning + Cardinality(idle) = 0 THEN [st EXCEPT ![t].pc = "handoffCas"]
           ELSE [st EXCEPT ![t].pc = "handoffLocked"]
  /\ UNCHANGED <<loc, glob, idle, insys, nmspinning, net, parked, mon>>

handoffCas(t) ==
  /\ At(t, "handoffCas")
  /\ IF nmspinning = 0
     THEN nmspinning' = 1 /\ st' = [st EXCEPT ![t].pc = "startm", ![t].sp = TRUE]
     ELSE Goto(t, "handoffLocked") /\ UNCHANGED nmspinning
  /\ UNCHANGED <<loc, glob, idle, insys, net, parked, mon>>

(* then those with it: for the last P a thread is started to poll the network. *)
LastToPoll == Cardinality(idle) = Cardinality(P) - 1 /\ lastpoll

(* Mutant: the global queue is not looked at again with the lock. *)
handoffLockedOnce(t) ==
  /\ At(t, "handoffLocked")
  /\ IF LastToPoll
     THEN Goto(t, "startm") /\ UNCHANGED <<idle, lapse>>
     ELSE /\ st' = [st EXCEPT ![t] = Returned(st[t])]
          /\ idle' = idle \cup {st[t].hp}
          /\ lapse' = (lapse \/ \E p \in P : loc[p] # 0)
  /\ UNCHANGED <<loc, glob, insys, nmspinning, net, parked, idlelocked, sysmonwait, dead>>

handoffLocked(t) ==
  /\ At(t, "handoffLocked")
  /\ IF glob # 0 \/ LastToPoll
     THEN Goto(t, "startm") /\ UNCHANGED <<idle, lapse>>
     ELSE /\ st' = [st EXCEPT ![t] = Returned(st[t])]
          /\ idle' = idle \cup {st[t].hp}
          /\ lapse' = (lapse \/ \E p \in P : loc[p] # 0)
  /\ UNCHANGED <<loc, glob, insys, nmspinning, net, parked, idlelocked, sysmonwait, dead>>

(* Has a goroutine to run: *)
HasOne(s) == IF s.spin THEN "resetspinning" ELSE "run"
AfterInject(s) == IF s.fin = "got" THEN HasOne(s) ELSE s.fin

injectglist(t) ==
  /\ At(t, "inject")
  /\ glob' = glob + st[t].n
  /\ Goto(t, "injected")
  /\ UNCHANGED <<loc, idle, insys, nmspinning, net, parked, mon>>

injected(t) ==
  /\ At(t, "injected")
  /\ IF st[t].n # 0 /\ idle # {}
     THEN st' = [st EXCEPT ![t].n = @ - 1, ![t].pc = "startm", ![t].ret = "injected"]
     ELSE st' = [st EXCEPT ![t].n = 0, ![t].fin = "", ![t].pc = AfterInject(st[t])]
  /\ UNCHANGED <<loc, glob, idle, insys, nmspinning, net, parked, mon>>

(***************************************************************************)
(* A goroutine runs                                                        *)
(***************************************************************************)

(* ready or newproc1: *)
ready(m) ==
  /\ At(m, "run")
  /\ parked > 0
  /\ parked' = parked - 1
  /\ loc' = [loc EXCEPT ![st[m].p] = @ + 1]
  /\ Goto(m, "readied")
  /\ UNCHANGED <<glob, idle, insys, nmspinning, net, mon>>

(* nmspinning is read by the compare and swap of wakep. *)
readied(m) ==
  /\ At(m, "readied")
  /\ Goto(m, IF idle = {} THEN "run" ELSE "wakep")
  /\ UNCHANGED <<loc, glob, idle, insys, nmspinning, net, parked, mon>>

park(m) ==
  /\ At(m, "run")
  /\ parked' = parked + 1
  /\ Goto(m, "schedule")
  /\ UNCHANGED <<loc, glob, idle, insys, nmspinning, net, mon>>

(* netpollblockcommit raises netpollWaiters, which no readiness lowers. *)
parkOnNet(m) ==
  /\ At(m, "run")
  /\ netwait < MaxNet
  /\ netwait' = netwait + 1 /\ waiters' = TRUE
  /\ Goto(m, "schedule")
  /\ UNCHANGED <<loc, glob, idle, insys, nmspinning, lastpoll, parked, mon>>

gosched(m) ==
  /\ At(m, "run")
  /\ glob' = glob + 1 /\ lapse' = TRUE
  /\ Goto(m, "schedule")
  /\ UNCHANGED <<loc, idle, insys, nmspinning, net, parked, idlelocked, sysmonwait, dead>>

(* While this thread has its P, sysmon does not go back to sleep. *)
entersyscall(m) ==
  /\ At(m, "run")
  /\ sysmonwait' = FALSE
  /\ insys' = insys \cup {st[m].p}
  /\ st' = [st EXCEPT ![m].pc = "syscall",
                      ![Sysmon].pc = IF sysmonwait THEN "sysmon" ELSE @]
  /\ UNCHANGED <<loc, glob, idle, nmspinning, net, parked, idlelocked, dead, lapse>>

entersyscallblock(m) ==
  /\ At(m, "run")
  /\ st' = [st EXCEPT ![m] = [Local("handoffp", None) EXCEPT !.hp = st[m].p, !.ret = "syscall"]]
  /\ UNCHANGED <<loc, glob, idle, insys, nmspinning, net, parked, mon>>

(* Mutant: the old P is taken back without looking whether sysmon took it.  *)
exitsyscallBlind(m) ==
  /\ At(m, "syscall")
  /\ IF st[m].p # None
     THEN insys' = insys \ {st[m].p} /\ Goto(m, "run")
     ELSE st' = [st EXCEPT ![m] = Local("exit0", None)] /\ UNCHANGED insys
  /\ UNCHANGED <<loc, glob, idle, nmspinning, net, parked, mon>>

(* exitsyscall: the old P, if its status is _Psyscall still or again, *)
exitsyscall(m) ==
  /\ At(m, "syscall")
  /\ IF st[m].p \in insys
     THEN insys' = insys \ {st[m].p} /\ Goto(m, "run")
     ELSE st' = [st EXCEPT ![m] = Local("exit0", None)] /\ UNCHANGED insys
  /\ UNCHANGED <<loc, glob, idle, nmspinning, net, parked, mon>>

(* or any idle one, or the goroutine goes to the global queue and the      *)
(* thread stops.  exitsyscallfast_pidle and exitsyscall0 look for an idle P*)
(* one after the other; a first look that fails changes nothing.           *)
exitsyscall0(m) ==
  /\ At(m, "exit0")
  /\ \/ \E p \in idle :
          /\ idle' = idle \ {p}
          /\ sysmonwait' = FALSE
          /\ st' = [st EXCEPT ![m] = Local("run", p),
                              ![Sysmon].pc = IF sysmonwait THEN "sysmon" ELSE @]
          /\ UNCHANGED glob
     \/ /\ idle = {} /\ glob' = glob + 1
        /\ st' = [st EXCEPT ![m].pc = "stopm", ![m].ret = "schedule"]
        /\ UNCHANGED <<idle, sysmonwait>>
  /\ UNCHANGED <<loc, insys, nmspinning, net, parked, idlelocked, dead, lapse>>

(***************************************************************************)
(* A thread looks for work                                                 *)
(***************************************************************************)
GotOne(m) == Goto(m, HasOne(st[m]))

(* globrunqget with max 0: one goroutine to run, the others of the share to the P. *)
TakeShare(m) ==
  LET n == glob \div Cardinality(P) + 1
      share == IF n > glob THEN glob ELSE n
  IN  glob > 0 /\ glob' = glob - share /\ loc' = [loc EXCEPT ![st[m].p] = @ + share - 1] /\ GotOne(m)

(* A lapse lasts until the queues are empty. *)
Settle == lapse' = (lapse /\ (glob' # 0 \/ \E p \in P : loc'[p] # 0))

(* The global queue goes first once in 61 rounds. *)
schedule(m) ==
  /\ At(m, "schedule")
  /\ \/ glob > 0 /\ glob' = glob - 1 /\ GotOne(m) /\ UNCHANGED loc
     \/ loc[st[m].p] > 0 /\ loc' = [loc EXCEPT ![st[m].p] = @ - 1] /\ GotOne(m) /\ UNCHANGED glob
     \/ loc[st[m].p] = 0 /\ Goto(m, "findrunnable") /\ UNCHANGED <<loc, glob>>
  /\ UNCHANGED <<idle, insys, nmspinning, net, parked, idlelocked, sysmonwait, dead>>
  /\ Settle

findrunnable(m) ==
  /\ At(m, "findrunnable")
  /\ \/ loc[st[m].p] > 0 /\ loc' = [loc EXCEPT ![st[m].p] = @ - 1] /\ GotOne(m) /\ UNCHANGED glob
     \/ loc[st[m].p] = 0 /\ TakeShare(m)
     \/ /\ loc[st[m].p] = 0 /\ glob = 0
        /\ Goto(m, IF waiters /\ lastpoll THEN "netpoll" ELSE "spin")
        /\ UNCHANGED <<loc, glob>>
  /\ UNCHANGED <<idle, insys, nmspinning, net, parked, idlelocked, sysmonwait, dead>>
  /\ Settle

(* netpoll(false): the first goroutine is for this thread, the others are injected. *)
netpoll(m) ==
  /\ At(m, "netpoll")
  /\ \E n \in 0 .. netwait :
       /\ netwait' = netwait - n
       /\ st' = CASE n = 0 -> [st EXCEPT ![m].pc = "spin"]
                  [] n = 1 -> [st EXCEPT ![m].pc = HasOne(st[m])]
                  [] OTHER -> [st EXCEPT ![m].n = n - 1, ![m].pc = "inject", ![m].fin = "got"]
  /\ UNCHANGED <<loc, glob, idle, insys, nmspinning, lastpoll, waiters, parked, mon>>

spin(m) ==
  LET alone == Cardinality(idle) = Cardinality(P) - 1
      enough == ~st[m].spin /\ 2 * nmspinning >= Cardinality(P) - Cardinality(idle)
  IN  /\ At(m, "spin")
      /\ IF alone \/ enough
         THEN Goto(m, "stop") /\ UNCHANGED nmspinning
         ELSE /\ st' = [st EXCEPT ![m].pc = "steal", ![m].spin = TRUE]
              /\ nmspinning' = IF st[m].spin THEN nmspinning ELSE nmspinning + 1
      /\ UNCHANGED <<loc, glob, idle, insys, net, parked, mon>>

(* runqgrab takes half of the ring, or runnext. *)
steal(m) ==
  /\ At(m, "steal")
  /\ \/ \E p \in P \ {st[m].p} : \E k \in 1 .. (loc[p] + 1) \div 2 :
          loc' = [loc EXCEPT ![p] = @ - k, ![st[m].p] = @ + k - 1] /\ GotOne(m)
     \/ Goto(m, "stop") /\ UNCHANGED loc
  /\ UNCHANGED <<glob, idle, insys, nmspinning, net, parked, idlelocked, sysmonwait, dead>>
  /\ Settle

stop(m) ==
  /\ At(m, "stop")
  /\ \/ TakeShare(m) /\ UNCHANGED idle
     \/ /\ glob = 0
        /\ idle' = idle \cup {st[m].p}
        /\ st' = [st EXCEPT ![m] = [Local(IF st[m].spin THEN "unspin" ELSE "recheck", None) EXCEPT
                                      !.spin = st[m].spin, !.todo = P,
                                      !.ret = IF st[m].spin THEN "respin" ELSE "findrunnable"]]
        /\ UNCHANGED <<loc, glob>>
  /\ UNCHANGED <<insys, nmspinning, net, parked, idlelocked, sysmonwait, dead>>
  /\ Settle

Park(m) == [Local(IF waiters THEN "netblock" ELSE "stopm", None) EXCEPT !.ret = "findrunnable"]

(* Mutant: the queues are not checked once again. *)
unspinLast(m) ==
  /\ At(m, "unspin")
  /\ nmspinning' = nmspinning - 1
  /\ st' = [st EXCEPT ![m] = Park(m)]
  /\ UNCHANGED <<loc, glob, idle, insys, net, parked, mon>>

unspin(m) ==
  /\ At(m, "unspin")
  /\ nmspinning' = nmspinning - 1
  /\ st' = [st EXCEPT ![m].spin = FALSE, ![m].pc = "recheck"]
  /\ UNCHANGED <<loc, glob, idle, insys, net, parked, mon>>

recheck(m) ==
  /\ At(m, "recheck")
  /\ \/ \E p \in st[m].todo :
          st' = [st EXCEPT ![m].todo = @ \ {p}, ![m].pc = IF loc[p] # 0 THEN "rechecked" ELSE @]
     \/ st[m].todo = {} /\ st' = [st EXCEPT ![m] = Park(m)]
  /\ UNCHANGED <<loc, glob, idle, insys, nmspinning, net, parked, mon>>

rechecked(m) ==
  /\ At(m, "rechecked")
  /\ \/ \E p \in idle :
          /\ idle' = idle \ {p}
          /\ st' = [st EXCEPT ![m] = Local(st[m].ret, p)]
     \/ idle = {} /\ st' = [st EXCEPT ![m] = Park(m)] /\ UNCHANGED idle
  /\ UNCHANGED <<loc, glob, insys, nmspinning, net, parked, mon>>

respin(m) ==
  /\ At(m, "respin")
  /\ nmspinning' = nmspinning + 1
  /\ st' = [st EXCEPT ![m].spin = TRUE, ![m].pc = "findrunnable"]
  /\ UNCHANGED <<loc, glob, idle, insys, net, parked, mon>>

(* One thread at a time blocks in netpoll(true), *)
netblock(m) ==
  /\ At(m, "netblock")
  /\ lastpoll' = FALSE
  /\ Goto(m, IF lastpoll THEN "polling" ELSE "stopm")
  /\ UNCHANGED <<loc, glob, idle, insys, nmspinning, waiters, netwait, parked, mon>>

polling(m) ==
  /\ At(m, "polling")
  /\ \E n \in 1 .. netwait :
       /\ netwait' = netwait - n
       /\ st' = [st EXCEPT ![m].n = n, ![m].pc = "polled"]
  /\ UNCHANGED <<loc, glob, idle, insys, nmspinning, lastpoll, waiters, parked, mon>>

polled(m) ==
  /\ At(m, "polled")
  /\ lastpoll' = TRUE
  /\ Goto(m, "pollPidle")
  /\ UNCHANGED <<loc, glob, idle, insys, nmspinning, waiters, netwait, parked, mon>>

(* and runs the first goroutine, if there is a P for it. *)
pollPidle(m) ==
  /\ At(m, "pollPidle")
  /\ \/ \E p \in idle :
          /\ idle' = idle \ {p}
          /\ st' = [st EXCEPT ![m] = IF st[m].n = 1 THEN Local("run", p)
                                     ELSE [Local("inject", p) EXCEPT !.n = st[m].n - 1, !.fin = "run"]]
     \/ /\ idle = {} /\ UNCHANGED idle
        /\ st' = [st EXCEPT ![m].pc = "inject", ![m].fin = "repark", ![m].ret = ""]
  /\ UNCHANGED <<loc, glob, insys, nmspinning, net, parked, mon>>

(* Out of the spinning state, and when it was the last one another thread must spin. *)
resetspinning(m) ==
  /\ At(m, "resetspinning")
  /\ nmspinning' = nmspinning - 1
  /\ st' = [st EXCEPT ![m].spin = FALSE, ![m].pc = IF nmspinning = 1 THEN "readied" ELSE "run"]
  /\ UNCHANGED <<loc, glob, idle, insys, net, parked, mon>>

stopm(m) ==
  /\ At(m, "stopm") \/ At(m, "repark")
  /\ st' = [st EXCEPT ![m] = [Local("stopped", None) EXCEPT
                                !.ret = IF st[m].pc = "stopm" THEN st[m].ret ELSE "findrunnable"]]
  /\ checkdead(st', idlelocked)
  /\ UNCHANGED <<loc, glob, idle, insys, nmspinning, net, parked, idlelocked, sysmonwait, lapse>>

(***************************************************************************)
(* sysmon and the network                                                  *)
(***************************************************************************)
sysmonSleeps ==
  /\ At(Sysmon, "sysmon")
  /\ idle = P
  /\ sysmonwait' = TRUE
  /\ Goto(Sysmon, "asleep")
  /\ UNCHANGED <<loc, glob, idle, insys, nmspinning, net, parked, idlelocked, dead, lapse>>

(* maxsleep has passed *)
sysmonTimeout ==
  /\ At(Sysmon, "asleep")
  /\ sysmonwait' = FALSE
  /\ Goto(Sysmon, "sysmon")
  /\ UNCHANGED <<loc, glob, idle, insys, nmspinning, net, parked, idlelocked, dead, lapse>>

(* netpoll(false): lastpoll was not 0 when sysmon looked. *)
sysmonPolls ==
  /\ At(Sysmon, "sysmon")
  /\ \E n \in 1 .. netwait :
       /\ netwait' = netwait - n
       /\ st' = [st EXCEPT ![Sysmon] = [Local("incidlelocked", None) EXCEPT !.n = n, !.fin = "uncount"]]
  /\ UNCHANGED <<loc, glob, idle, insys, nmspinning, lastpoll, waiters, parked, mon>>

(* incidlelocked(-1): one more thread is said to run until incidlelocked(1). *)
incidlelocked ==
  /\ At(Sysmon, "incidlelocked")
  /\ idlelocked' = idlelocked - 1
  /\ Goto(Sysmon, "inject")
  /\ UNCHANGED <<loc, glob, idle, insys, nmspinning, net, parked, sysmonwait, dead, lapse>>

(* Mutant: retake does not count the thread it is about to start as running. *)
retakeUncounted ==
  /\ At(Sysmon, "sysmon")
  /\ \E p \in insys :
       st' = [st EXCEPT ![Sysmon] = [Local("retakeCas", None) EXCEPT !.todo = {p}]]
  /\ UNCHANGED <<loc, glob, idle, insys, nmspinning, net, parked, mon>>

(* retake, for a P that has been in a system call long enough: the same,   *)
(* then a compare and swap of its status.                                  *)
retake ==
  /\ At(Sysmon, "sysmon")
  /\ idlelocked' = idlelocked - 1
  /\ \E p \in insys :
       st' = [st EXCEPT ![Sysmon] = [Local("retakeCas", None) EXCEPT !.todo = {p}]]
  /\ UNCHANGED <<loc, glob, idle, insys, nmspinning, net, parked, sysmonwait, dead, lapse>>

retakeCas ==
  LET p == CHOOSE p \in P : p \in st[Sysmon].todo
  IN  /\ At(Sysmon, "retakeCas")
      /\ insys' = insys \ {p}
      /\ st' = [st EXCEPT ![Sysmon] = IF p \in insys
                                      THEN [Local("handoffp", None) EXCEPT !.hp = p, !.ret = "uncount"]
                                      ELSE Local("uncount", None)]
      /\ UNCHANGED <<loc, glob, idle, nmspinning, net, parked, mon>>

uncount ==
  /\ At(Sysmon, "uncount")
  /\ idlelocked' = idlelocked + 1
  /\ st' = [st EXCEPT ![Sysmon] = Local("sysmon", None)]
  /\ checkdead(st', idlelocked')
  /\ UNCHANGED <<loc, glob, idle, insys, nmspinning, net, parked, sysmonwait, lapse>>

Next ==
  \/ \E t \in T : startm(t) \/ startmUndo(t) \/ newm(t) \/ handoffp(t) \/ handoffCas(t) \/ handoffLocked(t)
                  \/ injectglist(t) \/ injected(t)
  \/ \E m \in M : \/ ready(m) \/ readied(m) \/ wakep(m) \/ park(m) \/ parkOnNet(m) \/ gosched(m)
                  \/ entersyscall(m) \/ entersyscallblock(m) \/ exitsyscall(m) \/ exitsyscall0(m)
                  \/ schedule(m) \/ findrunnable(m) \/ netpoll(m) \/ spin(m) \/ steal(m)
                  \/ stop(m) \/ unspin(m) \/ recheck(m) \/ rechecked(m) \/ respin(m)
                  \/ netblock(m) \/ polling(m) \/ polled(m) \/ pollPidle(m)
                  \/ resetspinning(m) \/ stopm(m)
  \/ sysmonSleeps \/ sysmonTimeout \/ sysmonPolls \/ incidlelocked \/ retake \/ retakeCas \/ uncount

Spec == Init /\ [][Next]_vars

-----------------------------------------------------------------------------
(***************************************************************************)
(* Properties                                                              *)
(***************************************************************************)
Running == {m \in M : st[m].pc = "run"}

Holders(p) == {t \in T : (st[t].p = p /\ st[t].pc # "syscall") \/ st[t].hp = p}
OneOwner ==
  \A p \in P : Cardinality(Holders(p)) + (IF p \in idle THEN 1 ELSE 0) + (IF p \in insys THEN 1 ELSE 0) = 1

SpinningIsCounted == nmspinning = Cardinality({t \in T : st[t].spin \/ st[t].sp})

WorkIsWithOwner ==
  /\ \A p \in idle : loc[p] = 0
  /\ \A t \in T : /\ st[t].sp /\ st[t].hp # None => loc[st[t].hp] = 0
                  /\ st[t].pc = "schedule" /\ st[t].spin => loc[st[t].p] = 0
                  /\ st[t].pc = "stopm" => ~st[t].spin

(* None of the throws is reachable (acquirep, pidleput, startm, schedule,  *)
(* stopm, resetspinning): every P is in one place, on the idle list, in a  *)
(* system call, with the thread that runs on it or in the hand of one that *)
(* is about to give it away; nmspinning counts the threads that spin and   *)
(* those being started to; and neither an idle P nor a spinning thread     *)
(* starts with work in its queue.                                          *)
NeverThrows == OneOwner /\ SpinningIsCounted /\ WorkIsWithOwner

(* checkdead throws "all goroutines are asleep" only when they are: none is *)
(* runnable, in anybody's hand on its way from the poller to a queue, in a *)
(* system call or waiting for the network (proc.go:4223, 4393-4401,        *)
(* 4475-4481).                                                             *)
DeadIsDead == dead => parked = NG

(* No thread is on its way through the scheduler. *)
Quiet == /\ \A m \in M : st[m].pc \in {"run", "stopped", "fresh", "syscall", "polling"}
         /\ st[Sysmon].pc \in {"sysmon", "asleep"}

NoWork == \A p \in P : loc[p] = 0

(* While every P is idle and a goroutine waits for the network, a thread   *)
(* is blocked in netpoll: the last P to stop, by whatever way, leaves one  *)
(* there (proc.go:2129-2135, 2461).                                        *)
NetworkIsPolled == Quiet /\ idle = P /\ netwait > 0 => \E m \in M : st[m].pc = "polling"

(* When nothing runs and the scheduler has come to rest, no goroutine is   *)
(* runnable: not in a queue that a thread left, nor in the global queue    *)
(* that handoffp found empty before it took the lock (proc.go:2124).  Only *)
(* a P that is in a system call may have work, and then sysmon is not in   *)
(* its deep sleep and retakes the P (proc.go:2918-2925).  Nor is a         *)
(* goroutine whose network event nobody waits for (NetworkIsPolled).       *)
NoStrandedWork ==
  /\ Quiet /\ Running = {} /\ (insys = {} \/ sysmonwait) => glob = 0 /\ NoWork
  /\ NetworkIsPolled

(* A thread that stops spinning leaves no P idle beside a queue with work  *)
(* (proc.go:49-74, 2402): whoever made a goroutine runnable while it spun  *)
(* relied on it.  The comment there promises this always; the code keeps   *)
(* the promise until one of three lapses: handoffp gives up a P looking    *)
(* only at its own queue and the global one, startm undoes the count of a  *)
(* spinning thread after a P became idle, and goschedImpl wakes nobody.    *)
NoIdleWithWork == Quiet /\ idle # {} /\ ~lapse => NoWork
=============================================================================
