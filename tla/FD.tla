--------------------------------- MODULE FD ---------------------------------
(***************************************************************************)
(* A network descriptor: poll.FD and its fdMutex (internal/poll), and the  *)
(* pollDesc with its deadlines (runtime/netpoll.go).  Goroutines Read,     *)
(* Write, Close and set deadlines; the poller delivers readiness and timers*)
(* fire at any time.  A step is one compare and swap on fdmu.state with the*)
(* semaphore calls that follow it, one access to rg or wg, one check of the*)
(* errors, one system call, or the stores of a section under pd.lock; the  *)
(* netpollunblocks of the section are steps of their own while it has      *)
(* pd.lock.  A pollDesc that is closed is used again by the next FD.       *)
(***************************************************************************)
EXTENDS Integers, FiniteSets

CONSTANTS
  G,       \* the goroutines
  Fds,     \* the FDs, opened one after the other on one pollDesc
  Modes,   \* "r" and "w": reading and writing
  Both,    \* the sets of modes a deadline is set for
  Sets,    \* the deadlines set: 0 is none, -1 the past, a positive one the future
  MaxCalls, \* bound: the number of calls
  None     \* no FD, nobody

ASSUME FDAssumption ==
  /\ Modes \subseteq {"r", "w"} /\ Both \subseteq SUBSET {"r", "w"}
  /\ Fds \subseteq Nat /\ Sets \subseteq Int /\ MaxCalls \in Nat
  /\ None \notin Fds /\ None \notin [by : G \cup {"timer"}, todo : SUBSET {"r", "w"}]
  /\ G \cap {"nil", "ready", "wait", "timer"} = {}

VARIABLES
  mu,     \* fdmu.state: closed, the locks, the references, the waiters
  sema,   \* fdmu.rsema and wsema
  csema,  \* fd.csema
  sys,    \* whether the system's descriptor exists: "none", "open", "closed"
  pd,     \* the pollDesc: its FD, closing, seq, g (rg and wg), d (rd and wd)
  tm,     \* its timers rt and wt: f ("nil" or the modes it is for), whether armed, seq
  pl,     \* pd.lock: None, or its holder and the netpollunblocks it still makes
  flying, \* timer functions that have left the heap and not yet run
  avail,  \* a Read or Write would not return EAGAIN
  events, \* readiness the poller has and has not delivered
  st,     \* the goroutines: pc, fd, mode
  due,    \* history: the deadline last set for a mode has passed
  made    \* history: the number of calls

vars == <<mu, sema, csema, sys, pd, tm, pl, flying, avail, events, st, due, made>>
fdVars == <<mu, sema, csema, sys>>
pollVars == <<pd, tm, pl, flying>>
envVars == <<avail, events, due, made>>

Idle == [pc |-> "idle"]
NoTimer == [f |-> {}, armed |-> FALSE, seq |-> 0]
AllModes == {"r", "w"}

Init ==
  /\ mu = [f \in Fds |-> [closed |-> FALSE, lock |-> {}, refs |-> 0, wait |-> [m \in AllModes |-> 0]]]
  /\ sema = [f \in Fds |-> [m \in AllModes |-> 0]]
  /\ csema = [f \in Fds |-> 0]
  /\ sys = [f \in Fds |-> "none"]
  /\ pd = [fd |-> None, closing |-> FALSE, seq |-> 0, g |-> [m \in AllModes |-> "nil"],
           d |-> [m \in AllModes |-> 0]]
  /\ tm = [m \in AllModes |-> NoTimer]
  /\ pl = None
  /\ flying = {}
  /\ avail = {}
  /\ events = {}
  /\ st = [g \in G |-> Idle]
  /\ due = [m \in AllModes |-> FALSE]
  /\ made = 0

At(g, l) == st[g].pc = l
Fd(g) == st[g].fd
Mode(g) == st[g].m
Goto(g, l) == st' = [st EXCEPT ![g].pc = l]
Return(g) == st' = [st EXCEPT ![g] = Idle]
Begin(g, call) ==
  /\ At(g, "idle")
  /\ made < MaxCalls
  /\ made' = made + 1
  /\ st' = [st EXCEPT ![g] = call]
Usable == {f \in Fds : sys[f] # "none"}

(* pollDesc.init: runtime_pollOpen.                                        *)
Open(f) ==
  /\ sys[f] = "none"
  /\ \A e \in Fds : e < f => sys[e] # "none"
  /\ pd.fd = None
  /\ pl = None
  /\ sys' = [sys EXCEPT ![f] = "open"]
  /\ pd' = [fd |-> f, closing |-> FALSE, seq |-> pd.seq + 1, g |-> [m \in AllModes |-> "nil"],
            d |-> [m \in AllModes |-> 0]]
  /\ avail' = {}
  /\ due' = [m \in AllModes |-> FALSE]
  /\ UNCHANGED <<mu, sema, csema, tm, pl, flying, events, st, made>>

----------------------------------------------------------------------------
(* netpollcheckerr and netpollunblock.                                     *)
Err(m) == pd.closing \/ pd.d[m] < 0
Parked(g) == st[g].pc = "parked"
Woken(x) == [g \in G |-> IF x = g /\ Parked(g) THEN [st[g] EXCEPT !.pc = "xchg"] ELSE st[g]]

netpollunblock(m, ioready) ==
  LET old == pd.g[m]
  IN  IF old = "ready" \/ (old = "nil" /\ ~ioready)
      THEN UNCHANGED <<pd, st>>
      ELSE /\ pd' = [pd EXCEPT !.g[m] = IF ioready THEN "ready" ELSE "nil"]
           /\ st' = Woken(old)

(* A section under pd.lock ends with the netpollunblocks it has to make.   *)
Unblock(m) ==
  /\ pl # None
  /\ m \in pl.todo
  /\ netpollunblock(m, FALSE)
  /\ pl' = [pl EXCEPT !.todo = @ \ {m}]
  /\ UNCHANGED <<fdVars, tm, flying, envVars>>

Unlock(g) ==
  /\ At(g, "locked")
  /\ pl.todo = {}
  /\ pl' = None
  /\ Goto(g, "decref")
  /\ UNCHANGED <<fdVars, pd, tm, flying, envVars>>

----------------------------------------------------------------------------
(* Read and Write: rwlock, prepare, the system call, and wait on EAGAIN.   *)
Call(g, f, m) ==
  /\ Begin(g, [pc |-> "rwlock", fd |-> f, m |-> m])
  /\ UNCHANGED <<fdVars, pollVars, avail, events, due>>

rwlock(g) ==
  LET f == Fd(g)
      m == Mode(g)
  IN  /\ At(g, "rwlock")
      /\ IF mu[f].closed THEN Return(g) /\ UNCHANGED mu
         ELSE IF m \in mu[f].lock
         THEN mu' = [mu EXCEPT ![f].wait[m] = @ + 1] /\ Goto(g, "sema")
         ELSE mu' = [mu EXCEPT ![f].lock = @ \cup {m}, ![f].refs = @ + 1] /\ Goto(g, "prepare")
      /\ UNCHANGED <<sema, csema, sys, pollVars, envVars>>

Semacquire(g) ==
  /\ At(g, "sema")
  /\ sema[Fd(g)][Mode(g)] > 0
  /\ sema' = [sema EXCEPT ![Fd(g)][Mode(g)] = @ - 1]
  /\ Goto(g, "rwlock")
  /\ UNCHANGED <<mu, csema, sys, pollVars, envVars>>

Prepare(g) ==
  /\ At(g, "prepare")
  /\ Goto(g, IF Err(Mode(g)) THEN "rwunlock" ELSE "reset")
  /\ UNCHANGED <<fdVars, pollVars, envVars>>

pollReset(g) ==
  /\ At(g, "reset")
  /\ pd' = [pd EXCEPT !.g[Mode(g)] = "nil"]
  /\ Goto(g, "syscall")
  /\ UNCHANGED <<fdVars, tm, pl, flying, envVars>>

(* Some of what is available may be left.                                  *)
Syscall(g) ==
  /\ At(g, "syscall")
  /\ IF Mode(g) \in avail THEN avail' \in {avail, avail \ {Mode(g)}} /\ Goto(g, "rwunlock")
                          ELSE Goto(g, "wait") /\ UNCHANGED avail
  /\ UNCHANGED <<fdVars, pollVars, events, due, made>>

pollWait(g) ==
  /\ At(g, "wait")
  /\ Goto(g, IF Err(Mode(g)) THEN "rwunlock" ELSE "block")
  /\ UNCHANGED <<fdVars, pollVars, envVars>>

(* netpollblock: rg goes from nil to wait ...                              *)
netpollblock(g) ==
  /\ At(g, "block")
  /\ pd.g[Mode(g)] \in {"nil", "ready"}
  /\ IF pd.g[Mode(g)] = "ready"
     THEN pd' = [pd EXCEPT !.g[Mode(g)] = "nil"] /\ Goto(g, "syscall")
     ELSE pd' = [pd EXCEPT !.g[Mode(g)] = "wait"] /\ Goto(g, "recheck")
  /\ UNCHANGED <<fdVars, tm, pl, flying, envVars>>

(* Mutant: the errors are not checked again after rg is set to wait.       *)
RecheckNot(g) ==
  /\ At(g, "recheck")
  /\ Goto(g, "commit")
  /\ UNCHANGED <<fdVars, pollVars, envVars>>

(* ... the errors are checked again ...                                    *)
Recheck(g) ==
  /\ At(g, "recheck")
  /\ Goto(g, IF Err(Mode(g)) THEN "xchg" ELSE "commit")
  /\ UNCHANGED <<fdVars, pollVars, envVars>>

(* ... netpollblockcommit parks unless rg has changed ...                  *)
netpollblockcommit(g) ==
  /\ At(g, "commit")
  /\ IF pd.g[Mode(g)] = "wait" THEN pd' = [pd EXCEPT !.g[Mode(g)] = g] /\ Goto(g, "parked")
                               ELSE Goto(g, "xchg") /\ UNCHANGED pd
  /\ UNCHANGED <<fdVars, tm, pl, flying, envVars>>

(* ... and what is left in rg tells why it woke up.                        *)
Xchg(g) ==
  /\ At(g, "xchg")
  /\ pd' = [pd EXCEPT !.g[Mode(g)] = "nil"]
  /\ Goto(g, IF pd.g[Mode(g)] = "ready" THEN "syscall" ELSE "wait")
  /\ UNCHANGED <<fdVars, tm, pl, flying, envVars>>

(* The last reference of a closed FD destroys it.                          *)
Drop(g, f) ==
  IF mu'[f].closed /\ mu'[f].refs = 0 THEN Goto(g, "pollClose")
  ELSE IF Mode(g) = "close" THEN Goto(g, "csema") ELSE Return(g)

rwunlock(g) ==
  LET f == Fd(g)
      m == Mode(g)
      wakes == mu[f].wait[m] > 0
  IN  /\ At(g, "rwunlock")
      /\ mu' = [mu EXCEPT ![f].lock = @ \ {m}, ![f].refs = @ - 1,
                          ![f].wait[m] = IF wakes THEN @ - 1 ELSE @]
      /\ sema' = [sema EXCEPT ![f][m] = IF wakes THEN @ + 1 ELSE @]
      /\ Drop(g, f)
      /\ UNCHANGED <<csema, sys, pollVars, envVars>>

----------------------------------------------------------------------------
(* Mutant: Close leaves those who wait for the lock asleep.                *)
increfAndCloseWakesNobody(g, f) ==
  /\ ~mu[f].closed
  /\ mu' = [mu EXCEPT ![f].closed = TRUE, ![f].refs = @ + 1, ![f].wait = [m \in AllModes |-> 0]]
  /\ Begin(g, [pc |-> "evict", fd |-> f, m |-> "close"])
  /\ UNCHANGED <<sema, csema, sys, pollVars, avail, events, due>>

(* Close: increfAndClose wakes all who wait for a lock, evict unblocks all *)
(* I/O, decref, and then Close waits for the FD to be destroyed.  On a     *)
(* closed FD it only returns an error.                                     *)
increfAndClose(g, f) ==
  /\ ~mu[f].closed
  /\ mu' = [mu EXCEPT ![f].closed = TRUE, ![f].refs = @ + 1, ![f].wait = [m \in AllModes |-> 0]]
  /\ sema' = [sema EXCEPT ![f] = [m \in AllModes |-> @[m] + mu[f].wait[m]]]
  /\ Begin(g, [pc |-> "evict", fd |-> f, m |-> "close"])
  /\ UNCHANGED <<csema, sys, pollVars, avail, events, due>>

(* runtime_pollUnblock.                                                    *)
pollUnblock(g) ==
  /\ At(g, "evict")
  /\ pl = None
  /\ pl' = [by |-> g, todo |-> AllModes]
  /\ pd' = [pd EXCEPT !.closing = TRUE, !.seq = @ + 1]
  /\ tm' = [m \in AllModes |-> NoTimer]
  /\ Goto(g, "locked")
  /\ UNCHANGED <<fdVars, flying, envVars>>

(* Mutant: a reference that is not the last one destroys as well.          *)
decrefAlways(g) ==
  LET f == Fd(g)
  IN  /\ At(g, "decref")
      /\ mu' = [mu EXCEPT ![f].refs = @ - 1]
      /\ IF mu[f].closed THEN Goto(g, "pollClose") ELSE Return(g)
      /\ UNCHANGED <<sema, csema, sys, pollVars, envVars>>

decref(g) ==
  LET f == Fd(g)
  IN  /\ At(g, "decref")
      /\ mu' = [mu EXCEPT ![f].refs = @ - 1]
      /\ Drop(g, f)
      /\ UNCHANGED <<sema, csema, sys, pollVars, envVars>>

(* destroy: runtime_pollClose frees the pollDesc, events that the poller   *)
(* has fetched may still come; then the system's close.                    *)
pollClose(g) ==
  /\ At(g, "pollClose")
  /\ pd' = [pd EXCEPT !.fd = None]
  /\ events' \in SUBSET events
  /\ Goto(g, "close")
  /\ UNCHANGED <<fdVars, tm, pl, flying, avail, due, made>>

CloseFunc(g) ==
  /\ At(g, "close")
  /\ sys' = [sys EXCEPT ![Fd(g)] = "closed"]
  /\ csema' = [csema EXCEPT ![Fd(g)] = @ + 1]
  /\ IF Mode(g) = "close" THEN Goto(g, "csema") ELSE Return(g)
  /\ UNCHANGED <<mu, sema, pollVars, envVars>>

WaitClosed(g) ==
  /\ At(g, "csema")
  /\ csema[Fd(g)] > 0
  /\ csema' = [csema EXCEPT ![Fd(g)] = @ - 1]
  /\ Return(g)
  /\ UNCHANGED <<mu, sema, sys, pollVars, envVars>>

----------------------------------------------------------------------------
(* SetDeadline, SetReadDeadline, SetWriteDeadline: incref,                 *)
(* runtime_pollSetDeadline, decref.                                        *)
SetDeadline(g, f, d, ms) ==
  /\ ~mu[f].closed
  /\ mu' = [mu EXCEPT ![f].refs = @ + 1]
  /\ Begin(g, [pc |-> "deadline", fd |-> f, m |-> "deadline", d |-> d, ms |-> ms])
  /\ UNCHANGED <<sema, csema, sys, pollVars, avail, events, due>>

Timer(ms, seq) == [f |-> ms, armed |-> TRUE, seq |-> seq]

(* The timers for the deadlines d: one for both if they are the same.      *)
TimersFor(d, seq) ==
  IF d["r"] > 0 /\ d["r"] = d["w"]
  THEN [m \in AllModes |-> IF m = "r" THEN Timer(AllModes, seq) ELSE NoTimer]
  ELSE [m \in AllModes |-> IF d[m] > 0 THEN Timer({m}, seq) ELSE NoTimer]

pollSetDeadline(g) ==
  LET d == [m \in AllModes |-> IF m \in st[g].ms THEN st[g].d ELSE pd.d[m]]
  IN  /\ At(g, "deadline")
      /\ pl = None
      /\ IF pd.closing THEN Goto(g, "decref") /\ UNCHANGED <<pd, tm, pl, due>>
         ELSE /\ pd' = [pd EXCEPT !.seq = @ + 1, !.d = d]
              /\ tm' = TimersFor(d, pd.seq + 1)
              /\ pl' = [by |-> g, todo |-> {m \in AllModes : d[m] < 0}]
              /\ due' = [m \in AllModes |-> IF m \in st[g].ms THEN st[g].d < 0 ELSE due[m]]
              /\ Goto(g, "locked")
      /\ UNCHANGED <<fdVars, flying, avail, events, made>>

(* A timer's time has come: its function leaves the heap ...               *)
TimerFires(m) ==
  /\ tm[m].armed
  /\ tm' = [tm EXCEPT ![m].armed = FALSE]
  /\ flying' = flying \cup {[seq |-> tm[m].seq, ms |-> tm[m].f]}
  /\ due' = [k \in AllModes |-> due[k] \/ k \in tm[m].f]
  /\ UNCHANGED <<fdVars, pd, pl, avail, events, made, st>>

(* Mutant: the function does not look at seq.                              *)
netpolldeadlineimplStale(x) ==
  /\ x \in flying
  /\ pl = None
  /\ flying' = flying \ {x}
  /\ pd' = [pd EXCEPT !.d = [m \in AllModes |-> IF m \in x.ms THEN -1 ELSE @[m]]]
  /\ tm' = [m \in AllModes |-> IF m \in x.ms THEN [tm[m] EXCEPT !.f = {}] ELSE tm[m]]
  /\ pl' = [by |-> "timer", todo |-> x.ms]
  /\ UNCHANGED <<fdVars, envVars, st>>

(* ... and runs, unless seq says that the deadline or the FD is another.   *)
netpolldeadlineimpl(x) ==
  /\ x \in flying
  /\ pl = None
  /\ flying' = flying \ {x}
  /\ IF x.seq # pd.seq THEN UNCHANGED <<pd, tm, pl>>
     ELSE /\ pd' = [pd EXCEPT !.d = [m \in AllModes |-> IF m \in x.ms THEN -1 ELSE @[m]]]
          /\ tm' = [m \in AllModes |-> IF m \in x.ms THEN [tm[m] EXCEPT !.f = {}] ELSE tm[m]]
          /\ pl' = [by |-> "timer", todo |-> x.ms]
  /\ UNCHANGED <<fdVars, envVars, st>>

TimerUnlocks ==
  /\ pl = [by |-> "timer", todo |-> {}]
  /\ pl' = None
  /\ UNCHANGED <<fdVars, pd, tm, flying, envVars, st>>

----------------------------------------------------------------------------
(* The socket becomes ready: the poller gets one event for it ...          *)
Arrive(m) ==
  /\ pd.fd # None
  /\ m \notin avail
  /\ avail' = avail \cup {m}
  /\ events' = events \cup {m}
  /\ UNCHANGED <<fdVars, pollVars, st, due, made>>

(* ... which netpollready takes to the pollDesc, whosever it is by now.    *)
netpollready(m) ==
  /\ m \in events
  /\ events' = events \ {m}
  /\ netpollunblock(m, TRUE)
  /\ UNCHANGED <<fdVars, tm, pl, flying, avail, due, made>>

----------------------------------------------------------------------------
Step(g) ==
  \/ rwlock(g) \/ Semacquire(g) \/ Prepare(g) \/ pollReset(g) \/ Syscall(g) \/ pollWait(g)
  \/ netpollblock(g) \/ Recheck(g) \/ netpollblockcommit(g) \/ Xchg(g) \/ rwunlock(g)
  \/ pollUnblock(g) \/ Unlock(g) \/ decref(g) \/ pollClose(g) \/ CloseFunc(g) \/ WaitClosed(g)
  \/ pollSetDeadline(g)

Runtime ==
  \/ \E m \in AllModes : Unblock(m)
  \/ TimerUnlocks
  \/ \E m \in Modes : netpollready(m)

Next ==
  \/ \E f \in Fds : Open(f)
  \/ \E g \in G :
       \/ Step(g)
       \/ \E f \in Usable :
            \/ increfAndClose(g, f)
            \/ \E m \in Modes : Call(g, f, m)
            \/ \E d \in Sets, ms \in Both : SetDeadline(g, f, d, ms)
  \/ Runtime
  \/ \E m \in Modes : Arrive(m)
  \/ \E m \in AllModes : TimerFires(m)
  \/ \E x \in flying : netpolldeadlineimpl(x)

Spec == Init /\ [][Next]_vars

----------------------------------------------------------------------------
(* While the lock for a mode is held nobody else waits in rg or wg: these  *)
(* are the throws of netpoll.go and the panics of fd_mutex.go.             *)
NeverThrows ==
  \A g \in G :
    /\ At(g, "block") => pd.g[Mode(g)] \in {"nil", "ready"}
    /\ At(g, "xchg") => pd.g[Mode(g)] \notin G
    /\ At(g, "pollClose") => pd.closing /\ \A m \in AllModes : pd.g[m] \in {"nil", "ready"}
    /\ At(g, "evict") => ~pd.closing
    /\ At(g, "rwunlock") => Mode(g) \in mu[Fd(g)].lock /\ mu[Fd(g)].refs > 0
    /\ At(g, "decref") => mu[Fd(g)].refs > 0
    /\ \A x \in flying : x.seq = pd.seq /\ ~pd.closing =>
         /\ \A m \in x.ms : pd.d[m] > 0
         /\ tm[IF "r" \in x.ms THEN "r" ELSE "w"].f # {}

(* A Read, a Write or a SetDeadline that is past its lock or incref finds  *)
(* the descriptor and the pollDesc of its own FD: they are given up when   *)
(* the last reference is, once ("otherwise fd can be closed under their    *)
(* feet", fd_mutex.go:43-47).                                              *)
DescriptorOutlivesUse ==
  /\ NeverThrows
  /\ \A g \in G : st[g].pc \notin {"idle", "rwlock", "sema", "csema", "close"} =>
       pd.fd = Fd(g) /\ sys[Fd(g)] = "open"
  /\ \A f \in Fds : csema[f] <= 1

(* A goroutine parked for I/O is the one in rg or wg, and what should wake *)
(* it will: data that has come has an event on its way, a close or a       *)
(* deadline that has passed is in the hands of who has pd.lock, and a      *)
(* deadline to come has its timer (netpoll.go:362-364, 405-439).           *)
ParkedWillWake ==
  \A g \in G : Parked(g) =>
    /\ pd.g[Mode(g)] = g
    /\ Mode(g) \in avail => Mode(g) \in events
    /\ Err(Mode(g)) => pl # None /\ Mode(g) \in pl.todo
    /\ pd.d[Mode(g)] > 0 /\ ~pd.closing =>
         \/ \E m \in AllModes : tm[m].armed /\ tm[m].seq = pd.seq /\ Mode(g) \in tm[m].f
         \/ \E x \in flying : x.seq = pd.seq /\ Mode(g) \in x.ms

(* A deadline that was replaced, or set for an FD that is gone, strikes     *)
(* nobody: rd or wd is in the past only if that was asked for, or the time *)
(* of the one last set has come.                                           *)
NoStaleDeadline == \A m \in AllModes : pd.d[m] < 0 => due[m]

(* What a goroutine in a call has to wait for before its next step.        *)
Blocked(g) ==
  \/ At(g, "sema") /\ sema[Fd(g)][Mode(g)] = 0
  \/ At(g, "block") /\ pd.g[Mode(g)] \notin {"nil", "ready"}
  \/ Parked(g)
  \/ st[g].pc \in {"evict", "deadline"} /\ pl # None
  \/ At(g, "locked") /\ pl.todo # {}
  \/ At(g, "csema") /\ csema[Fd(g)] = 0

Calling(g, f) == ~At(g, "idle") /\ Fd(g) = f

(* Once an FD is closed every call on it gets out, Close included ("This   *)
(* should happen fairly quickly", fd_unix.go:91-95): while there is one,   *)
(* one on the same FD can take its next step, or who has pd.lock still has *)
(* netpollunblocks to make, or is a timer's function about to unlock.      *)
CloseUnblocks ==
  \A f \in Fds : mu[f].closed /\ (\E g \in G : Calling(g, f)) =>
    \/ \E h \in G : Calling(h, f) /\ ~Blocked(h)
    \/ pl # None /\ (pl.todo # {} \/ pl.by = "timer")
=============================================================================
