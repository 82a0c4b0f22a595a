------------------------------ MODULE FDProofs ------------------------------
(***************************************************************************)
(* Proofs about module FD, for any set of goroutines, any number of FDs    *)
(* and calls, any deadlines, and both modes.  The invariant has a part on  *)
(* who owns a descriptor, one on who waits in rg and wg, and one on the    *)
(* deadlines; Exits and Held, which come last, are about who wakes the     *)
(* calls on a closed FD.                                                   *)
(***************************************************************************)
EXTENDS FD, FiniteSetTheorems, TLAPS

IO == {"prepare", "reset", "syscall", "wait", "block", "recheck", "commit", "parked", "xchg", "rwunlock"}
Using == IO \cup {"evict", "locked", "decref", "deadline"}
Ending == {"pollClose", "close"}
Waits == {"wait", "block", "recheck", "commit", "parked", "xchg"}

IOCall == [pc : {"rwlock", "sema"} \cup IO \cup Ending, fd : Fds, m : Modes]
CloseCall == [pc : {"evict", "locked", "decref", "csema"} \cup Ending, fd : Fds, m : {"close"}]
DeadlineCall == [pc : {"deadline", "locked", "decref"} \cup Ending, fd : Fds, m : {"deadline"},
                 d : Sets, ms : Both]

FdMutex == [closed : BOOLEAN, lock : SUBSET AllModes, refs : Nat, wait : [AllModes -> Nat]]

PollDesc == [fd : Fds \cup {None}, closing : BOOLEAN, seq : Nat,
             g : [AllModes -> {"nil", "ready", "wait"} \cup G], d : [AllModes -> Int]]

TypeOK ==
  /\ mu \in [Fds -> FdMutex]
  /\ sema \in [Fds -> [AllModes -> Nat]]
  /\ csema \in [Fds -> Nat]
  /\ sys \in [Fds -> {"none", "open", "closed"}]
  /\ pd \in PollDesc
  /\ tm \in [AllModes -> [f : SUBSET AllModes, armed : BOOLEAN, seq : Nat]]
  /\ pl \in {None} \cup [by : G \cup {"timer"}, todo : SUBSET AllModes]
  /\ flying \subseteq [seq : Nat, ms : SUBSET AllModes]
  /\ avail \subseteq AllModes
  /\ events \subseteq AllModes
  /\ st \in [G -> {Idle} \cup IOCall \cup CloseCall \cup DeadlineCall]
  /\ due \in [AllModes -> BOOLEAN]

(* Who has a reference, and who destroys an FD.                            *)
Users(f) == {g \in G : st[g].pc \in Using /\ Fd(g) = f}

Counts == \A f \in Fds : IsFiniteSet(Users(f)) /\ mu[f].refs = Cardinality(Users(f))

Descriptors ==
  \A f \in Fds :
    /\ sys[f] = "none" => ~mu[f].closed
    /\ sys[f] # "none" /\ ~mu[f].closed => pd.fd = f
    /\ pd.fd = f => sys[f] = "open"
    /\ sys[f] # "closed" => csema[f] = 0
    /\ csema[f] <= 1

Callers ==
  \A g \in G :
    /\ ~At(g, "idle") => sys[Fd(g)] # "none"
    /\ st[g].pc \in Using => pd.fd = Fd(g)
    /\ st[g].pc \in Ending => mu[Fd(g)].closed /\ mu[Fd(g)].refs = 0 /\ sys[Fd(g)] = "open"
    /\ At(g, "pollClose") => pd.fd = Fd(g)
    /\ At(g, "close") => pd.fd # Fd(g)
    /\ At(g, "evict") => mu[Fd(g)].closed /\ ~pd.closing

Alone ==
  \A g, h \in G :
    /\ st[g].pc \in Ending /\ st[h].pc \in Ending /\ Fd(g) = Fd(h) => g = h
    /\ At(g, "evict") /\ At(h, "evict") => g = h

Evicted ==
  /\ pd.fd # None /\ mu[pd.fd].closed => pd.closing \/ \E g \in G : At(g, "evict")
  /\ pd.fd # None /\ pd.closing => mu[pd.fd].closed

Owned == Counts /\ Descriptors /\ Callers /\ Alone /\ Evicted

(* rg and wg belong to who has the lock for the mode.                      *)
Locked ==
  /\ \A g \in G : st[g].pc \in IO => Mode(g) \in mu[Fd(g)].lock
  /\ \A g, h \in G : st[g].pc \in IO /\ st[h].pc \in IO /\ Mode(g) = Mode(h) => g = h

Slots ==
  /\ \A m \in AllModes :
       /\ pd.g[m] = "wait" => \E g \in G : st[g].pc \in {"recheck", "commit", "xchg"} /\ Mode(g) = m
       /\ pd.g[m] \in G => Parked(pd.g[m]) /\ Mode(pd.g[m]) = m
  /\ \A g \in G : Parked(g) => pd.g[Mode(g)] = g

Holding == \A g \in G : At(g, "locked") => pl # None /\ pl.by = g

Unblocked ==
  \A g \in G : (Parked(g) \/ (At(g, "commit") /\ pd.g[Mode(g)] = "wait")) /\ Err(Mode(g)) =>
    pl # None /\ Mode(g) \in pl.todo

Notified ==
  \A g \in G : st[g].pc \in Waits /\ Mode(g) \in avail => Mode(g) \in events \/ pd.g[Mode(g)] = "ready"

(* The timers and their functions that are not stale.                      *)
Owner(ms) == IF "r" \in ms THEN "r" ELSE "w"

Disarmed ==
  pd.closing \/ pd.fd = None => /\ tm = [m \in AllModes |-> NoTimer]
                                /\ \A x \in flying : x.seq # pd.seq

Shapes ==
  \A m \in AllModes :
    /\ tm[m].f \in {{}, {m}} \/ (m = "r" /\ tm["r"].f = AllModes /\ tm["w"].f = {})
    /\ tm[m].armed => tm[m].seq = pd.seq /\ tm[m].f # {} /\ \A k \in tm[m].f : pd.d[k] > 0

Pending(m) ==
  \/ \E k \in AllModes : tm[k].armed /\ tm[k].seq = pd.seq /\ m \in tm[k].f
  \/ \E x \in flying : x.seq = pd.seq /\ m \in x.ms

Covered == \A m \in AllModes : pd.d[m] > 0 /\ ~pd.closing /\ pd.fd # None => Pending(m)

Asked == \A m \in AllModes : pd.d[m] < 0 => due[m]

Launched ==
  \A x \in flying :
    /\ x.seq <= pd.seq /\ x.ms # {}
    /\ x.seq = pd.seq => /\ tm[Owner(x.ms)].f = x.ms /\ ~tm[Owner(x.ms)].armed
                         /\ \A k \in x.ms : pd.d[k] > 0 /\ due[k]

Timed == Disarmed /\ Shapes /\ Covered /\ Asked /\ Launched

IInv == TypeOK /\ Owned /\ Locked /\ Slots /\ Holding /\ Unblocked /\ Notified /\ Timed

----------------------------------------------------------------------------
(* A goroutine goes on in its call, begins one, or returns.                *)
Calls == IOCall \cup CloseCall \cup DeadlineCall

Moves(g, l) ==
  /\ \A h \in G \ {g} : st'[h] = st[h]
  /\ st'[g].pc = l /\ st'[g].fd = st[g].fd /\ st'[g].m = st[g].m

Allowed(g, l) ==
  \/ st[g] \in IOCall /\ l \in {"rwlock", "sema"} \cup IO \cup Ending
  \/ st[g] \in CloseCall /\ l \in {"evict", "locked", "decref", "csema"} \cup Ending
  \/ st[g] \in DeadlineCall /\ l \in {"deadline", "locked", "decref"} \cup Ending

LEMMA Kinds ==
  ASSUME TypeOK, NEW g \in G
  PROVE  /\ ~At(g, "idle") => st[g] \in Calls
         /\ st[g].pc \in {"rwlock", "sema"} \cup IO => st[g] \in IOCall
         /\ st[g].pc \in {"evict", "csema"} => st[g] \in CloseCall
         /\ At(g, "deadline") => st[g] \in DeadlineCall
         /\ st[g].pc \in {"locked", "decref"} => st[g] \in CloseCall \cup DeadlineCall
         /\ st[g] \in CloseCall <=> ~At(g, "idle") /\ Mode(g) = "close"
         /\ st[g] \in Calls => Fd(g) \in Fds
         /\ st[g] \in IOCall => Mode(g) \in Modes
         /\ At(g, "idle") => st[g] = Idle
<1>1. st[g] \in {Idle} \cup IOCall \cup CloseCall \cup DeadlineCall
  BY DEF TypeOK
<1>2. CASE st[g] = Idle
  BY <1>2 DEF Idle, At, IO, Ending, IOCall, CloseCall, DeadlineCall, Calls
<1>3. CASE st[g] \in IOCall
  BY <1>3, FDAssumption DEF At, Mode, Fd, IO, Ending, IOCall, CloseCall, DeadlineCall, Calls
<1>4. CASE st[g] \in CloseCall
  BY <1>4, FDAssumption DEF At, Mode, Fd, IO, Ending, IOCall, CloseCall, DeadlineCall, Calls
<1>5. CASE st[g] \in DeadlineCall
  BY <1>5, FDAssumption DEF At, Mode, Fd, IO, Ending, IOCall, CloseCall, DeadlineCall, Calls
<1> QED
  BY <1>1, <1>2, <1>3, <1>4, <1>5

LEMMA Going ==
  ASSUME TypeOK, NEW g \in G, NEW l, Goto(g, l), Allowed(g, l)
  PROVE  /\ Moves(g, l)
         /\ st' \in [G -> {Idle} \cup IOCall \cup CloseCall \cup DeadlineCall]
<1> DEFINE r == [st[g] EXCEPT !.pc = l]
<1>1. st' = [st EXCEPT ![g] = r] /\ st \in [G -> {Idle} \cup IOCall \cup CloseCall \cup DeadlineCall]
  BY DEF Goto, TypeOK
<1>2. r.pc = l /\ r.fd = st[g].fd /\ r.m = st[g].m /\ r \in Calls
  <2>1. CASE st[g] \in IOCall /\ l \in {"rwlock", "sema"} \cup IO \cup Ending
    BY <2>1 DEF IOCall, Calls
  <2>2. CASE st[g] \in CloseCall /\ l \in {"evict", "locked", "decref", "csema"} \cup Ending
    BY <2>2 DEF CloseCall, Calls
  <2>3. CASE st[g] \in DeadlineCall /\ l \in {"deadline", "locked", "decref"} \cup Ending
    BY <2>3 DEF DeadlineCall, Calls
  <2> QED
    BY <2>1, <2>2, <2>3 DEF Allowed
<1> HIDE DEF r
<1> QED
  BY <1>1, <1>2 DEF Moves, Calls

LEMMA Returning ==
  ASSUME TypeOK, NEW g \in G, Return(g)
  PROVE  /\ \A h \in G \ {g} : st'[h] = st[h]
         /\ st'[g] = Idle /\ st'[g].pc = "idle"
         /\ st' \in [G -> {Idle} \cup IOCall \cup CloseCall \cup DeadlineCall]
  BY DEF Return, TypeOK, Idle

(* Who is woken in rg or wg goes on to the exchange.                       *)
LEMMA Waking ==
  ASSUME TypeOK, NEW m \in AllModes, NEW ioready \in BOOLEAN, netpollunblock(m, ioready)
  PROVE  /\ st' \in [G -> {Idle} \cup IOCall \cup CloseCall \cup DeadlineCall]
         /\ \/ pd' = pd /\ st' = st /\ (pd.g[m] = "ready" \/ (pd.g[m] = "nil" /\ ~ioready))
            \/ /\ pd' = [pd EXCEPT !.g[m] = IF ioready THEN "ready" ELSE "nil"]
               /\ \A h \in G : IF pd.g[m] = h /\ Parked(h)
                               THEN st'[h].pc = "xchg" /\ st'[h].fd = st[h].fd /\ st'[h].m = st[h].m
                               ELSE st'[h] = st[h]
<1>1. CASE pd' = pd /\ st' = st /\ (pd.g[m] = "ready" \/ (pd.g[m] = "nil" /\ ~ioready))
  BY <1>1 DEF TypeOK
<1>2. CASE /\ pd' = [pd EXCEPT !.g[m] = IF ioready THEN "ready" ELSE "nil"]
           /\ st' = Woken(pd.g[m])
  <2>1. ASSUME NEW h \in G, Parked(h)
        PROVE  LET r == [st[h] EXCEPT !.pc = "xchg"]
               IN  r \in IOCall /\ r.pc = "xchg" /\ r.fd = st[h].fd /\ r.m = st[h].m
    <3>1. st[h] \in IOCall
      BY <2>1, Kinds DEF Parked, IO
    <3> QED
      BY <3>1 DEF IOCall, IO
  <2>2. st' = [h \in G |-> IF pd.g[m] = h /\ Parked(h) THEN [st[h] EXCEPT !.pc = "xchg"] ELSE st[h]]
    BY <1>2 DEF Woken
  <2>3. \A h \in G : st[h] \in {Idle} \cup IOCall \cup CloseCall \cup DeadlineCall
    BY DEF TypeOK
  <2> QED
    BY <1>2, <2>1, <2>2, <2>3
<1> QED
  BY <1>1, <1>2 DEF netpollunblock

----------------------------------------------------------------------------
(* Types, one step per action.                                             *)
(* Storing in rg or wg.                                                    *)
LEMMA Storing ==
  ASSUME TypeOK, NEW m \in AllModes, NEW x \in {"nil", "ready", "wait"} \cup G,
         pd' = [pd EXCEPT !.g[m] = x]
  PROVE  /\ pd' \in PollDesc
         /\ pd'.fd = pd.fd /\ pd'.closing = pd.closing /\ pd'.seq = pd.seq /\ pd'.d = pd.d
         /\ pd'.g[m] = x /\ \A k \in AllModes \ {m} : pd'.g[k] = pd.g[k]
  BY DEF TypeOK, AllModes, PollDesc

LEMMA Netpoll ==
  ASSUME TypeOK, NEW m \in AllModes, NEW b \in BOOLEAN, netpollunblock(m, b)
  PROVE  pd' \in PollDesc
<1>1. pd' = pd \/ \E x \in {"nil", "ready"} : pd' = [pd EXCEPT !.g[m] = x]
  BY DEF netpollunblock
<1> QED
  BY <1>1, Storing DEF TypeOK

LEMMA Updating ==
  ASSUME TypeOK, NEW s \in Nat, NEW d \in [AllModes -> Int]
  PROVE  /\ LET p == [pd EXCEPT !.closing = TRUE, !.seq = s]
            IN  p \in PollDesc /\ p.fd = pd.fd /\ p.closing /\ p.seq = s /\ p.g = pd.g /\ p.d = pd.d
         /\ LET p == [pd EXCEPT !.seq = s, !.d = d]
            IN  p \in PollDesc /\ p.fd = pd.fd /\ p.closing = pd.closing /\ p.seq = s /\ p.g = pd.g /\ p.d = d
         /\ LET p == [pd EXCEPT !.d = d]
            IN  p \in PollDesc /\ p.fd = pd.fd /\ p.closing = pd.closing /\ p.seq = pd.seq /\ p.g = pd.g
                /\ p.d = d
         /\ LET p == [pd EXCEPT !.fd = None]
            IN  p \in PollDesc /\ p.fd = None /\ p.closing = pd.closing /\ p.seq = pd.seq /\ p.g = pd.g
                /\ p.d = pd.d
         /\ pd.seq + 1 \in Nat
<1>1. /\ pd \in [fd : Fds \cup {None}, closing : BOOLEAN, seq : Nat,
                  g : [AllModes -> {"nil", "ready", "wait"} \cup G], d : [AllModes -> Int]]
      /\ pd.seq + 1 \in Nat
  BY DEF TypeOK, PollDesc
<1>2. LET p == [pd EXCEPT !.closing = TRUE, !.seq = s]
      IN  p \in PollDesc /\ p.fd = pd.fd /\ p.closing /\ p.seq = s /\ p.g = pd.g /\ p.d = pd.d
  BY <1>1 DEF PollDesc
<1>3. LET p == [pd EXCEPT !.seq = s, !.d = d]
      IN  p \in PollDesc /\ p.fd = pd.fd /\ p.closing = pd.closing /\ p.seq = s /\ p.g = pd.g /\ p.d = d
  BY <1>1 DEF PollDesc
<1>4. LET p == [pd EXCEPT !.d = d]
      IN  p \in PollDesc /\ p.fd = pd.fd /\ p.closing = pd.closing /\ p.seq = pd.seq /\ p.g = pd.g
          /\ p.d = d
  BY <1>1 DEF PollDesc
<1>5. LET p == [pd EXCEPT !.fd = None]
      IN  p \in PollDesc /\ p.fd = None /\ p.closing = pd.closing /\ p.seq = pd.seq /\ p.g = pd.g
          /\ p.d = pd.d
  BY <1>1 DEF PollDesc
<1> QED
  BY <1>1, <1>2, <1>3, <1>4, <1>5

(* The steps of a Read or Write between its lock and its unlock.           *)
Inner(g) ==
  \/ Prepare(g) \/ pollReset(g) \/ Syscall(g) \/ pollWait(g) \/ netpollblock(g) \/ Recheck(g)
  \/ netpollblockcommit(g) \/ Xchg(g)

LEMMA InnerMoves ==
  ASSUME TypeOK, NEW g \in G, Inner(g)
  PROVE  /\ st[g] \in IOCall /\ st[g].pc \in IO \ {"rwunlock", "parked"} /\ Mode(g) \in AllModes
         /\ \E l \in IO \ {"prepare"} :
              Moves(g, l) /\ st' \in [G -> {Idle} \cup IOCall \cup CloseCall \cup DeadlineCall]
         /\ pd' = pd \/ \E x \in {"nil", "wait", g} : pd' = [pd EXCEPT !.g[Mode(g)] = x]
         /\ avail' \subseteq avail
         /\ UNCHANGED <<fdVars, tm, pl, flying, events, due>>
<1>1. st[g] \in IOCall /\ st[g].pc \in IO \ {"rwunlock", "parked"}
  <2>1. st[g].pc \in IO \ {"rwunlock", "parked"}
    BY DEF Inner, Prepare, pollReset, Syscall, pollWait, netpollblock, Recheck, netpollblockcommit, Xchg, At, IO
  <2> QED
    BY <2>1, Kinds
<1>2. Mode(g) \in AllModes
  BY <1>1, Kinds, FDAssumption DEF AllModes
<1>3. \E l \in IO \ {"prepare"} : Goto(g, l)
  BY DEF Inner, Prepare, pollReset, Syscall, pollWait, netpollblock, Recheck, netpollblockcommit, Xchg, IO
<1>4. pd' = pd \/ \E x \in {"nil", "wait", g} : pd' = [pd EXCEPT !.g[Mode(g)] = x]
  BY DEF Inner, Prepare, pollReset, Syscall, pollWait, netpollblock, Recheck, netpollblockcommit, Xchg, pollVars
<1>5. avail' \subseteq avail /\ UNCHANGED <<fdVars, tm, pl, flying, events, due>>
  BY DEF Inner, Prepare, pollReset, Syscall, pollWait, netpollblock, Recheck, netpollblockcommit, Xchg,
         pollVars, envVars
<1> QED
  BY <1>1, <1>2, <1>3, <1>4, <1>5, Going DEF Allowed

(* A reference is counted.                                                 *)
LEMMA Referenced ==
  ASSUME TypeOK, Owned, NEW g \in G, st[g].pc \in Using
  PROVE  /\ Fd(g) \in Fds /\ mu[Fd(g)].refs > 0 /\ mu[Fd(g)].refs \in Nat
         /\ pd.fd = Fd(g) /\ sys[Fd(g)] = "open"
<1>1. Fd(g) \in Fds
  <2>1. ~At(g, "idle")
    BY DEF At, Using, IO
  <2> QED
    BY <2>1, Kinds
<1>2. IsFiniteSet(Users(Fd(g))) /\ mu[Fd(g)].refs = Cardinality(Users(Fd(g))) /\ Users(Fd(g)) # {}
  BY <1>1 DEF Owned, Counts, Users
<1>3. mu[Fd(g)].refs # 0 /\ mu[Fd(g)].refs \in Nat
  BY <1>2, FS_EmptySet, FS_CardinalityType
<1>4. pd.fd = Fd(g) /\ sys[Fd(g)] = "open"
  BY <1>1 DEF Owned, Callers, Descriptors
<1> QED
  BY <1>1, <1>3, <1>4

StOK == st' \in [G -> {Idle} \cup IOCall \cup CloseCall \cup DeadlineCall]

(* What rwunlock and decref leave of the goroutine.                        *)
LEMMA Dropping ==
  ASSUME TypeOK, NEW g \in G, st[g].pc \in {"rwunlock", "decref"}, NEW f, Drop(g, f)
  PROVE  /\ StOK
         /\ IF mu'[f].closed /\ mu'[f].refs = 0 THEN Moves(g, "pollClose")
            ELSE IF Mode(g) = "close" THEN Moves(g, "csema")
            ELSE (\A h \in G \ {g} : st'[h] = st[h]) /\ st'[g] = Idle
<1>1. st[g] \in Calls /\ (Mode(g) = "close" => st[g] \in CloseCall)
  <2>1. ~At(g, "idle")
    BY DEF At
  <2> QED
    BY <2>1, Kinds
<1>2. CASE mu'[f].closed /\ mu'[f].refs = 0
  <2>1. Goto(g, "pollClose") /\ Allowed(g, "pollClose")
    BY <1>1, <1>2 DEF Drop, Allowed, Calls, Ending
  <2> QED
    BY <1>2, <2>1, Going DEF StOK
<1>3. CASE ~(mu'[f].closed /\ mu'[f].refs = 0) /\ Mode(g) = "close"
  <2>1. Goto(g, "csema") /\ Allowed(g, "csema")
    BY <1>1, <1>3 DEF Drop, Allowed
  <2> QED
    BY <1>3, <2>1, Going DEF StOK
<1>4. CASE ~(mu'[f].closed /\ mu'[f].refs = 0) /\ Mode(g) # "close"
  <2>1. Return(g)
    BY <1>4 DEF Drop
  <2> QED
    BY <1>4, <2>1, Returning DEF StOK
<1> QED
  BY <1>2, <1>3, <1>4

(* The steps that change fdmu, with what they do to the goroutine.         *)
LEMMA rwlockDoes ==
  ASSUME TypeOK, NEW g \in G, rwlock(g)
  PROVE  /\ st[g] \in IOCall /\ Fd(g) \in Fds /\ Mode(g) \in AllModes
         /\ StOK
         /\ \/ /\ mu[Fd(g)].closed /\ mu' = mu
               /\ (\A h \in G \ {g} : st'[h] = st[h]) /\ st'[g] = Idle
            \/ /\ ~mu[Fd(g)].closed
               /\ mu' = [mu EXCEPT ![Fd(g)] = [mu[Fd(g)] EXCEPT !.wait[Mode(g)] = @ + 1]]
               /\ Moves(g, "sema")
            \/ /\ ~mu[Fd(g)].closed /\ Mode(g) \notin mu[Fd(g)].lock
               /\ mu' = [mu EXCEPT ![Fd(g)] = [mu[Fd(g)] EXCEPT !.lock = @ \cup {Mode(g)}, !.refs = @ + 1]]
               /\ Moves(g, "prepare")
         /\ UNCHANGED <<sema, csema, sys, pollVars, envVars>>
<1>1. st[g] \in IOCall /\ Fd(g) \in Fds /\ Mode(g) \in AllModes
  <2>1. st[g].pc = "rwlock"
    BY DEF rwlock, At
  <2> QED
    BY <2>1, Kinds, FDAssumption DEF Calls, AllModes
<1>2. UNCHANGED <<sema, csema, sys, pollVars, envVars>>
  BY DEF rwlock
<1>3. CASE mu[Fd(g)].closed
  <2>1. Return(g) /\ mu' = mu
    BY <1>3 DEF rwlock
  <2> QED
    BY <1>1, <1>2, <1>3, <2>1, Returning DEF StOK
<1>4. CASE ~mu[Fd(g)].closed /\ Mode(g) \in mu[Fd(g)].lock
  <2>1. /\ Goto(g, "sema")
        /\ mu' = [mu EXCEPT ![Fd(g)] = [mu[Fd(g)] EXCEPT !.wait[Mode(g)] = @ + 1]]
    BY <1>4 DEF rwlock
  <2> QED
    BY <1>1, <1>2, <1>4, <2>1, Going DEF StOK, Allowed
<1>5. CASE ~mu[Fd(g)].closed /\ Mode(g) \notin mu[Fd(g)].lock
  <2>1. /\ Goto(g, "prepare")
        /\ mu' = [mu EXCEPT ![Fd(g)] = [mu[Fd(g)] EXCEPT !.lock = @ \cup {Mode(g)}, !.refs = @ + 1]]
    BY <1>5 DEF rwlock
  <2> QED
    BY <1>1, <1>2, <1>5, <2>1, Going DEF StOK, Allowed, IO
<1> QED
  BY <1>3, <1>4, <1>5

(* Giving up a reference: rwunlock and decref.                             *)
Releases(g) ==
  /\ Fd(g) \in Fds /\ pd.fd = Fd(g) /\ sys[Fd(g)] = "open"
  /\ mu' \in [Fds -> FdMutex]
  /\ \A f \in Fds \ {Fd(g)} : mu'[f] = mu[f]
  /\ mu'[Fd(g)].closed = mu[Fd(g)].closed
  /\ mu'[Fd(g)].refs = mu[Fd(g)].refs - 1
  /\ mu[Fd(g)].refs \in Nat \ {0}
  /\ mu'[Fd(g)].lock = IF At(g, "rwunlock") THEN mu[Fd(g)].lock \ {Mode(g)} ELSE mu[Fd(g)].lock
  /\ IF mu'[Fd(g)].closed /\ mu'[Fd(g)].refs = 0 THEN Moves(g, "pollClose")
     ELSE IF Mode(g) = "close" THEN Moves(g, "csema")
     ELSE (\A h \in G \ {g} : st'[h] = st[h]) /\ st'[g] = Idle
  /\ StOK
  /\ UNCHANGED <<csema, sys, pollVars, envVars>>

LEMMA Releasing ==
  ASSUME TypeOK, Owned, NEW g \in G, rwunlock(g) \/ decref(g)
  PROVE  Releases(g) /\ st[g].pc \in {"rwunlock", "decref"} /\ (At(g, "rwunlock") => st[g] \in IOCall)
<1>1. st[g].pc \in {"rwunlock", "decref"}
  BY DEF rwunlock, decref, At
<1>2. (At(g, "rwunlock") => st[g] \in IOCall /\ Mode(g) \in AllModes)
  BY Kinds, FDAssumption DEF At, IO, AllModes
<1>3. /\ Fd(g) \in Fds /\ pd.fd = Fd(g) /\ sys[Fd(g)] = "open" /\ mu[Fd(g)].refs \in Nat \ {0}
  BY <1>1, Referenced DEF Using, IO
<1>4. UNCHANGED <<csema, sys, pollVars, envVars>> /\ Drop(g, Fd(g))
  BY DEF rwunlock, decref
<1> DEFINE f == Fd(g)
           m == Mode(g)
<1>5. mu[f] \in FdMutex
  BY <1>3 DEF TypeOK
<1>6. PICK x \in FdMutex :
        /\ mu' = [mu EXCEPT ![f] = x]
        /\ x.closed = mu[f].closed /\ x.refs = mu[f].refs - 1
        /\ x.lock = IF At(g, "rwunlock") THEN mu[f].lock \ {m} ELSE mu[f].lock
  <2>1. CASE rwunlock(g)
    <3> DEFINE w == [mu[f].wait EXCEPT ![m] = IF mu[f].wait[m] > 0 THEN @ - 1 ELSE @]
               l == mu[f].lock \ {m}
               r == mu[f].refs - 1
               x == [mu[f] EXCEPT !.lock = l, !.refs = r, !.wait = w]
    <3>1. At(g, "rwunlock") /\ m \in AllModes
      BY <1>2, <2>1 DEF rwunlock
    <3>2. mu' = [mu EXCEPT ![f] = x]
      BY <2>1 DEF rwunlock
    <3>3. x \in FdMutex /\ x.closed = mu[f].closed /\ x.refs = mu[f].refs - 1 /\ x.lock = mu[f].lock \ {m}
      <4>1. mu[f].wait[m] \in Nat /\ (IF mu[f].wait[m] > 0 THEN mu[f].wait[m] - 1 ELSE mu[f].wait[m]) \in Nat
        BY <1>5, <3>1 DEF FdMutex
      <4>a. mu[f].wait \in [AllModes -> Nat] /\ mu[f].lock \in SUBSET AllModes
        BY <1>5 DEF FdMutex
      <4>b. w \in [AllModes -> Nat]
        BY <4>a, <4>1
      <4>c. l \in SUBSET AllModes
        BY <4>a
      <4>2. w \in [AllModes -> Nat] /\ l \in SUBSET AllModes /\ r \in Nat
        BY <1>3, <4>b, <4>c
      <4> HIDE DEF w, l, r
      <4>3. x \in FdMutex /\ x.closed = mu[f].closed /\ x.refs = r /\ x.lock = l
        BY <1>5, <4>2 DEF FdMutex
      <4> QED
        BY <4>3 DEF l, r
    <3> HIDE DEF x
    <3> QED
      BY <3>1, <3>2, <3>3
  <2>2. CASE decref(g)
    <3> DEFINE x == [mu[f] EXCEPT !.refs = @ - 1]
    <3>1. mu' = [mu EXCEPT ![f] = x] /\ ~At(g, "rwunlock")
      BY <2>2 DEF decref, At
    <3>2. x \in FdMutex /\ x.closed = mu[f].closed /\ x.refs = mu[f].refs - 1 /\ x.lock = mu[f].lock
      BY <1>3, <1>5 DEF FdMutex
    <3> HIDE DEF x
    <3> QED
      BY <3>1, <3>2
  <2> QED
    BY <2>1, <2>2
<1>7. /\ StOK
      /\ IF mu'[f].closed /\ mu'[f].refs = 0 THEN Moves(g, "pollClose")
         ELSE IF Mode(g) = "close" THEN Moves(g, "csema")
         ELSE (\A h \in G \ {g} : st'[h] = st[h]) /\ st'[g] = Idle
  BY <1>1, <1>4, Dropping
<1> HIDE DEF f, m
<1>8. /\ mu' \in [Fds -> FdMutex]
      /\ \A e \in Fds \ {f} : mu'[e] = mu[e]
      /\ mu'[f].closed = mu[f].closed /\ mu'[f].refs = mu[f].refs - 1
      /\ mu'[f].lock = IF At(g, "rwunlock") THEN mu[f].lock \ {m} ELSE mu[f].lock
  BY <1>3, <1>6 DEF TypeOK, f
<1> QED
  BY <1>1, <1>2, <1>3, <1>4, <1>7, <1>8 DEF Releases, f, m

(* Taking one: increfAndClose, SetDeadline and, above, rwlock.             *)
Takes(g, f) ==
  /\ At(g, "idle") /\ f \in Usable /\ ~mu[f].closed
  /\ mu' \in [Fds -> FdMutex]
  /\ \A e \in Fds \ {f} : mu'[e] = mu[e]
  /\ mu'[f].refs = mu[f].refs + 1
  /\ mu'[f].lock = mu[f].lock
  /\ \A h \in G \ {g} : st'[h] = st[h]
  /\ StOK /\ st'[g].fd = f
  /\ \/ st'[g].pc = "evict" /\ mu'[f].closed
     \/ st'[g].pc = "deadline" /\ ~mu'[f].closed
  /\ UNCHANGED <<csema, sys, pollVars, avail, events, due>>

LEMMA Taking ==
  ASSUME TypeOK, NEW g \in G, NEW f \in Usable,
         increfAndClose(g, f) \/ \E d \in Sets, ms \in Both : SetDeadline(g, f, d, ms)
  PROVE  Takes(g, f)
<1>1. f \in Fds /\ mu[f] \in FdMutex
  BY DEF Usable, TypeOK
<1>2. CASE increfAndClose(g, f)
  <2> DEFINE w == [m \in AllModes |-> 0]
             r == mu[f].refs + 1
             x == [mu[f] EXCEPT !.closed = TRUE, !.refs = r, !.wait = w]
             call == [pc |-> "evict", fd |-> f, m |-> "close"]
  <2>0. st' = [st EXCEPT ![g] = call]
    BY <1>2 DEF increfAndClose, Begin
  <2>1. mu' = [mu EXCEPT ![f] = x]
    <3>1. [mu[f] EXCEPT !.closed = TRUE, !.refs = @ + 1, !.wait = [m \in AllModes |-> 0]] = x
      BY <1>1 DEF FdMutex
    <3>2. mu' = [mu EXCEPT ![f] = [mu[f] EXCEPT !.closed = TRUE, !.refs = @ + 1,
                                                !.wait = [m \in AllModes |-> 0]]]
      BY <1>2, Zenon DEF increfAndClose
    <3> QED
      BY <3>1, <3>2, Zenon
  <2>2. x \in FdMutex /\ x.closed /\ x.refs = mu[f].refs + 1 /\ x.lock = mu[f].lock
    <3>1. w \in [AllModes -> Nat] /\ r \in Nat
      BY <1>1 DEF FdMutex
    <3> HIDE DEF w, r
    <3>2. x \in FdMutex /\ x.closed /\ x.refs = r /\ x.lock = mu[f].lock
      BY <1>1, <3>1 DEF FdMutex
    <3> QED
      BY <3>2 DEF r
  <2>3. call \in CloseCall /\ call.pc = "evict" /\ call.fd = f
    BY <1>1 DEF CloseCall
  <2>4. At(g, "idle") /\ ~mu[f].closed /\ UNCHANGED <<csema, sys, pollVars, avail, events, due>>
    BY <1>2 DEF increfAndClose, Begin
  <2> HIDE DEF x, call
  <2> QED
    BY <1>1, <2>0, <2>1, <2>2, <2>3, <2>4 DEF TypeOK, Takes, StOK
<1>3. ASSUME NEW d \in Sets, NEW ms \in Both, SetDeadline(g, f, d, ms) PROVE Takes(g, f)
  <2> DEFINE x == [mu[f] EXCEPT !.refs = @ + 1]
             call == [pc |-> "deadline", fd |-> f, m |-> "deadline", d |-> d, ms |-> ms]
  <2>1. mu' = [mu EXCEPT ![f] = x] /\ st' = [st EXCEPT ![g] = call]
    BY <1>3 DEF SetDeadline, Begin
  <2>2. x \in FdMutex /\ x.closed = mu[f].closed /\ x.refs = mu[f].refs + 1 /\ x.lock = mu[f].lock
    BY <1>1 DEF FdMutex
  <2>3. call \in DeadlineCall /\ call.pc = "deadline" /\ call.fd = f
    BY <1>1 DEF DeadlineCall
  <2>4. At(g, "idle") /\ ~mu[f].closed /\ UNCHANGED <<csema, sys, pollVars, avail, events, due>>
    BY <1>3 DEF SetDeadline, Begin
  <2> HIDE DEF x, call
  <2> QED
    BY <1>1, <2>1, <2>2, <2>3, <2>4 DEF TypeOK, Takes, StOK
<1> QED
  BY <1>2, <1>3

(* Types, one step per action.                                             *)
LEMMA TypeStep ==
  ASSUME TypeOK, Owned, [Next]_vars
  PROVE  TypeOK'
<1> DEFINE Timers == [AllModes -> [f : SUBSET AllModes, armed : BOOLEAN, seq : Nat]]
<1>f. ASSUME UNCHANGED <<mu, sema, csema, sys>>, pd' \in PollDesc, tm' \in Timers,
             pl' \in {None} \cup [by : G \cup {"timer"}, todo : SUBSET AllModes],
             flying' \subseteq [seq : Nat, ms : SUBSET AllModes],
             avail' \subseteq AllModes, events' \subseteq AllModes, StOK, due' \in [AllModes -> BOOLEAN]
      PROVE  TypeOK'
  BY <1>f DEF TypeOK, StOK
<1>t. /\ pd \in PollDesc /\ tm \in Timers
      /\ pl \in {None} \cup [by : G \cup {"timer"}, todo : SUBSET AllModes]
      /\ flying \subseteq [seq : Nat, ms : SUBSET AllModes]
      /\ avail \subseteq AllModes /\ events \subseteq AllModes
      /\ st \in [G -> {Idle} \cup IOCall \cup CloseCall \cup DeadlineCall]
      /\ due \in [AllModes -> BOOLEAN]
  BY DEF TypeOK
<1>m. NoTimer \in [f : SUBSET AllModes, armed : BOOLEAN, seq : Nat] /\ Modes \subseteq AllModes
  BY FDAssumption DEF NoTimer, AllModes
<1>0. CASE UNCHANGED vars
  BY <1>0 DEF vars, TypeOK
<1>1. ASSUME NEW f \in Fds, Open(f) PROVE TypeOK'
  <2>1. UNCHANGED <<mu, sema, csema, tm, pl, flying, events, st>> /\ avail' = {}
        /\ sys' = [sys EXCEPT ![f] = "open"] /\ due' = [m \in AllModes |-> FALSE]
    BY <1>1 DEF Open
  <2>2. pd' \in PollDesc
    BY <1>1, <1>t DEF Open, PollDesc
  <2> QED
    BY <2>1, <2>2 DEF TypeOK
<1>2. ASSUME NEW g \in G, Inner(g) PROVE TypeOK'
  <2>1. /\ StOK /\ UNCHANGED <<mu, sema, csema, sys, tm, pl, flying, events, due>> /\ avail' \subseteq avail
    BY <1>2, InnerMoves DEF StOK, fdVars
  <2>2. pd' \in PollDesc
    <3>1. CASE pd' = pd
      BY <3>1, <1>t
    <3>2. CASE pd' # pd
      <4>1. PICK x \in {"nil", "wait", g} : pd' = [pd EXCEPT !.g[Mode(g)] = x]
        BY <3>2, <1>2, InnerMoves
      <4> QED
        BY <4>1, <1>2, InnerMoves, Storing
    <3> QED
      BY <3>1, <3>2
  <2> QED
    BY <2>1, <2>2, <1>t, <1>f
<1>3. ASSUME NEW m \in AllModes, Unblock(m) PROVE TypeOK'
  <2>1. /\ StOK /\ pd' \in PollDesc
    BY <1>3, Netpoll, Waking DEF Unblock, StOK
  <2>2. pl \in [by : G \cup {"timer"}, todo : SUBSET AllModes] /\ pl' = [pl EXCEPT !.todo = @ \ {m}]
    BY <1>3, <1>t DEF Unblock
  <2>3. pl' \in [by : G \cup {"timer"}, todo : SUBSET AllModes]
    BY <2>2
  <2>4. UNCHANGED <<mu, sema, csema, sys, tm, flying, avail, events, due>>
    BY <1>3 DEF Unblock, fdVars, envVars
  <2> QED
    BY <2>1, <2>3, <2>4, <1>t, <1>f
<1>4. ASSUME NEW m \in Modes, netpollready(m) PROVE TypeOK'
  <2>1. /\ StOK /\ pd' \in PollDesc
    BY <1>4, <1>m, Netpoll, Waking DEF netpollready, StOK
  <2>2. events' \subseteq events /\ UNCHANGED <<mu, sema, csema, sys, tm, pl, flying, avail, due>>
    BY <1>4 DEF netpollready, fdVars
  <2> QED
    BY <2>1, <2>2, <1>t, <1>f
<1>5. ASSUME NEW g \in G, Unlock(g) PROVE TypeOK'
  <2>1. st[g] \in CloseCall \cup DeadlineCall
    BY <1>5, Kinds DEF Unlock, At
  <2>2. StOK
    BY <1>5, <2>1, Going DEF Unlock, Allowed, StOK
  <2>3. pl' = None /\ UNCHANGED <<mu, sema, csema, sys, pd, tm, flying, avail, events, due>>
    BY <1>5 DEF Unlock, fdVars, envVars
  <2> QED
    BY <2>2, <2>3, <1>t, <1>f
<1>6. ASSUME NEW g \in G, NEW f \in Usable, NEW m \in Modes, Call(g, f, m) PROVE TypeOK'
  <2>1. [pc |-> "rwlock", fd |-> f, m |-> m] \in IOCall
    BY DEF Usable, IOCall
  <2>2. StOK
    BY <1>6, <2>1, <1>t DEF Call, Begin, StOK
  <2>3. UNCHANGED <<mu, sema, csema, sys, pd, tm, pl, flying, avail, events, due>>
    BY <1>6 DEF Call, fdVars, pollVars
  <2> QED
    BY <2>2, <2>3, <1>t, <1>f
<1>7. ASSUME NEW g \in G, rwlock(g) PROVE TypeOK'
  <2> DEFINE f == Fd(g)
             m == Mode(g)
  <2>1. /\ f \in Fds /\ m \in AllModes /\ StOK
        /\ UNCHANGED <<sema, csema, sys, pd, tm, pl, flying, avail, events, due>>
    BY <1>7, rwlockDoes DEF pollVars, envVars
  <2>2. mu[f] \in FdMutex /\ mu \in [Fds -> FdMutex]
    BY <2>1 DEF TypeOK
  <2>a. [mu[f] EXCEPT !.wait[m] = @ + 1] \in FdMutex
    <3>1. [mu[f].wait EXCEPT ![m] = @ + 1] \in [AllModes -> Nat]
      BY <2>1, <2>2 DEF FdMutex
    <3> QED
      BY <2>2, <3>1 DEF FdMutex
  <2>b. [mu[f] EXCEPT !.lock = @ \cup {m}, !.refs = @ + 1] \in FdMutex
    <3>1. mu[f].lock \cup {m} \in SUBSET AllModes /\ mu[f].refs + 1 \in Nat
      BY <2>1, <2>2 DEF FdMutex
    <3> QED
      BY <2>2, <3>1 DEF FdMutex
  <2>3. /\ [mu[f] EXCEPT !.wait[m] = @ + 1] \in FdMutex
        /\ [mu[f] EXCEPT !.lock = @ \cup {m}, !.refs = @ + 1] \in FdMutex
    BY <2>a, <2>b
  <2>4. \/ mu' = mu
        \/ mu' = [mu EXCEPT ![f] = [mu[f] EXCEPT !.wait[m] = @ + 1]]
        \/ mu' = [mu EXCEPT ![f] = [mu[f] EXCEPT !.lock = @ \cup {m}, !.refs = @ + 1]]
    BY <1>7, rwlockDoes
  <2> HIDE DEF f, m
  <2>5. mu' \in [Fds -> FdMutex]
    BY <2>1, <2>2, <2>3, <2>4
  <2> QED
    BY <2>1, <2>5 DEF TypeOK, StOK
<1>8. ASSUME NEW g \in G, Semacquire(g) PROVE TypeOK'
  <2>1. st[g] \in IOCall /\ Fd(g) \in Fds /\ Mode(g) \in AllModes
    BY <1>8, <1>m, Kinds DEF Semacquire, At, Calls
  <2>2. StOK
    BY <1>8, <2>1, Going DEF Semacquire, Allowed, StOK
  <2>3. sema' \in [Fds -> [AllModes -> Nat]]
    <3>1. sema[Fd(g)] \in [AllModes -> Nat] /\ sema[Fd(g)][Mode(g)] - 1 \in Nat
      BY <1>8, <2>1 DEF Semacquire, TypeOK
    <3> QED
      BY <1>8, <2>1, <3>1 DEF Semacquire, TypeOK
  <2>4. UNCHANGED <<mu, csema, sys, pd, tm, pl, flying, avail, events, due>>
    BY <1>8 DEF Semacquire, pollVars, envVars
  <2> QED
    BY <2>2, <2>3, <2>4 DEF TypeOK, StOK
<1>9. ASSUME NEW g \in G, rwunlock(g) \/ decref(g) PROVE TypeOK'
  <2>1. Releases(g)
    BY <1>9, Releasing
  <2>2. sema' \in [Fds -> [AllModes -> Nat]]
    <3>1. CASE rwunlock(g)
      <4>1. Fd(g) \in Fds /\ Mode(g) \in AllModes
        BY <3>1, <1>m, Kinds DEF rwunlock, At, IO, Calls
      <4>2. sema[Fd(g)] \in [AllModes -> Nat] /\ sema[Fd(g)][Mode(g)] + 1 \in Nat
        BY <4>1 DEF TypeOK
      <4>3. \E x \in Nat : sema' = [sema EXCEPT ![Fd(g)][Mode(g)] = x]
        BY <3>1, <4>1, <4>2 DEF rwunlock, TypeOK
      <4> QED
        BY <4>1, <4>3 DEF TypeOK
    <3>2. CASE decref(g)
      BY <3>2 DEF decref, TypeOK
    <3> QED
      BY <1>9, <3>1, <3>2
  <2> QED
    BY <2>1, <2>2 DEF TypeOK, Releases, StOK, pollVars, envVars
<1>10. ASSUME NEW g \in G, NEW f \in Usable,
              increfAndClose(g, f) \/ \E d \in Sets, ms \in Both : SetDeadline(g, f, d, ms)
       PROVE  TypeOK'
  <2>1. Takes(g, f)
    BY <1>10, Taking
  <2>2. sema' \in [Fds -> [AllModes -> Nat]]
    <3>1. f \in Fds /\ mu[f].wait \in [AllModes -> Nat] /\ sema[f] \in [AllModes -> Nat]
      BY DEF Usable, TypeOK, FdMutex
    <3>2. [m \in AllModes |-> sema[f][m] + mu[f].wait[m]] \in [AllModes -> Nat]
      BY <3>1
    <3>3. sema' = sema \/ sema' = [sema EXCEPT ![f] = [m \in AllModes |-> sema[f][m] + mu[f].wait[m]]]
      BY <1>10 DEF increfAndClose, SetDeadline
    <3> QED
      BY <3>1, <3>2, <3>3 DEF TypeOK
  <2> QED
    BY <2>1, <2>2 DEF TypeOK, Takes, StOK, pollVars
<1>11. ASSUME NEW g \in G, pollUnblock(g) PROVE TypeOK'
  <2>1. StOK
    BY <1>11, Kinds, Going DEF pollUnblock, Allowed, StOK, At
  <2>2. pd' = [pd EXCEPT !.closing = TRUE, !.seq = @ + 1] /\ tm' = [m \in AllModes |-> NoTimer]
        /\ pl' = [by |-> g, todo |-> AllModes]
        /\ UNCHANGED <<mu, sema, csema, sys, flying, avail, events, due>>
    BY <1>11 DEF pollUnblock, fdVars, envVars
  <2>3. pd' \in PollDesc
    <3>1. pd.seq + 1 \in Nat /\ pd.d \in [AllModes -> Int]
      BY <1>t DEF PollDesc
    <3> QED
      BY <2>2, <3>1, Updating
  <2>4. tm' \in Timers /\ pl' \in [by : G \cup {"timer"}, todo : SUBSET AllModes]
    BY <2>2, <1>m
  <2> QED
    BY <2>1, <2>2, <2>3, <2>4, <1>t, <1>f
<1>12. ASSUME NEW g \in G, pollClose(g) PROVE TypeOK'
  <2>1. StOK
    <3>1. st[g] \in Calls
      BY <1>12, Kinds DEF pollClose, At
    <3> QED
      BY <1>12, <3>1, Going DEF pollClose, Allowed, StOK, Ending, Calls
  <2>2. pd' = [pd EXCEPT !.fd = None] /\ events' \subseteq events
        /\ UNCHANGED <<mu, sema, csema, sys, tm, pl, flying, avail, due>>
    BY <1>12 DEF pollClose, fdVars
  <2>3. pd' \in PollDesc
    BY <2>2, <1>t DEF PollDesc
  <2> QED
    BY <2>1, <2>2, <2>3, <1>t, <1>f
<1>13. ASSUME NEW g \in G, CloseFunc(g) \/ WaitClosed(g) PROVE TypeOK'
  <2>1. st[g] \in Calls /\ Fd(g) \in Fds /\ (Mode(g) = "close" => st[g] \in CloseCall)
    <3>1. ~At(g, "idle")
      BY <1>13 DEF CloseFunc, WaitClosed, At
    <3> QED
      BY <3>1, Kinds
  <2>2. StOK
    BY <1>13, <2>1, Going, Returning DEF CloseFunc, WaitClosed, Allowed, StOK
  <2>3. csema' \in [Fds -> Nat]
    BY <1>13, <2>1 DEF CloseFunc, WaitClosed, TypeOK
  <2>4. sys' \in [Fds -> {"none", "open", "closed"}]
    BY <1>13, <2>1 DEF CloseFunc, WaitClosed, TypeOK
  <2>5. UNCHANGED <<mu, sema, pd, tm, pl, flying, avail, events, due>>
    BY <1>13 DEF CloseFunc, WaitClosed, pollVars, envVars
  <2> QED
    BY <2>2, <2>3, <2>4, <2>5 DEF TypeOK, StOK
<1>14. ASSUME NEW g \in G, pollSetDeadline(g) PROVE TypeOK'
  <2>1. st[g] \in DeadlineCall
    BY <1>14, Kinds DEF pollSetDeadline, At
  <2>2. StOK
    BY <1>14, <2>1, Going DEF pollSetDeadline, Allowed, StOK
  <2>3. UNCHANGED <<mu, sema, csema, sys, flying, avail, events>>
    BY <1>14 DEF pollSetDeadline, fdVars
  <2>4. CASE pd.closing
    <3>1. UNCHANGED <<pd, tm, pl, due>>
      BY <1>14, <2>4 DEF pollSetDeadline
    <3> QED
      BY <2>2, <2>3, <3>1, <1>t, <1>f
  <2>5. CASE ~pd.closing
    <3> DEFINE d == [m \in AllModes |-> IF m \in st[g].ms THEN st[g].d ELSE pd.d[m]]
    <3>1. pd' = [pd EXCEPT !.seq = @ + 1, !.d = d] /\ tm' = TimersFor(d, pd.seq + 1)
          /\ pl' = [by |-> g, todo |-> {m \in AllModes : d[m] < 0}]
          /\ due' = [m \in AllModes |-> IF m \in st[g].ms THEN st[g].d < 0 ELSE due[m]]
      BY <1>14, <2>5 DEF pollSetDeadline
    <3>2. d \in [AllModes -> Int] /\ pd.seq + 1 \in Nat
      <4>1. st[g].d \in Int
        BY <2>1, FDAssumption DEF DeadlineCall
      <4>2. pd.d \in [AllModes -> Int] /\ pd.seq + 1 \in Nat
        BY <1>t DEF PollDesc
      <4> QED
        BY <4>1, <4>2
    <3> HIDE DEF d
    <3>3. pd' \in PollDesc
      BY <3>1, <3>2, Updating
    <3>a. {m \in AllModes : d[m] < 0} \in SUBSET AllModes
      OBVIOUS
    <3>b. pl' \in [by : G \cup {"timer"}, todo : SUBSET AllModes]
      BY <3>1, <3>a
    <3>c. \A m \in AllModes : (IF m \in st[g].ms THEN st[g].d < 0 ELSE due[m]) \in BOOLEAN
      <4>1. \A m \in AllModes : due[m] \in BOOLEAN
        BY <1>t
      <4>2. (st[g].d < 0) \in BOOLEAN
        OBVIOUS
      <4> QED
        BY <4>1, <4>2, Zenon
    <3>4. pl' \in [by : G \cup {"timer"}, todo : SUBSET AllModes] /\ due' \in [AllModes -> BOOLEAN]
      BY <3>1, <3>b, <3>c
    <3>5. tm' \in Timers
      <4>1. \A ms \in SUBSET AllModes : Timer(ms, pd.seq + 1) \in [f : SUBSET AllModes, armed : BOOLEAN, seq : Nat]
        BY <1>t DEF Timer, PollDesc
      <4> QED
        BY <3>1, <4>1, <1>m DEF TimersFor, AllModes
    <3> QED
      BY <2>2, <2>3, <3>3, <3>4, <3>5, <1>t, <1>f
  <2> QED
    BY <2>4, <2>5
<1>15. ASSUME NEW m \in AllModes, TimerFires(m) PROVE TypeOK'
  <2>1. /\ tm' = [tm EXCEPT ![m].armed = FALSE]
        /\ flying' = flying \cup {[seq |-> tm[m].seq, ms |-> tm[m].f]}
        /\ due' = [k \in AllModes |-> due[k] \/ k \in tm[m].f]
        /\ UNCHANGED <<mu, sema, csema, sys, pd, pl, avail, events, st>>
    BY <1>15 DEF TimerFires, fdVars
  <2>2. tm' \in Timers
    <3>1. tm[m] \in [f : SUBSET AllModes, armed : BOOLEAN, seq : Nat]
      BY <1>t
    <3>2. [tm[m] EXCEPT !.armed = FALSE] \in [f : SUBSET AllModes, armed : BOOLEAN, seq : Nat]
      BY <3>1
    <3> QED
      BY <2>1, <3>2, <1>t
  <2>3. [seq |-> tm[m].seq, ms |-> tm[m].f] \in [seq : Nat, ms : SUBSET AllModes]
    BY <1>t
  <2>4. due' \in [AllModes -> BOOLEAN]
    BY <2>1, <1>t
  <2> QED
    BY <2>1, <2>2, <2>3, <2>4, <1>t, <1>f DEF StOK
<1>16. ASSUME NEW x \in flying, netpolldeadlineimpl(x) PROVE TypeOK'
  <2>1. flying' \subseteq flying /\ UNCHANGED <<mu, sema, csema, sys, avail, events, due, st>>
    BY <1>16 DEF netpolldeadlineimpl, fdVars, envVars
  <2>2. CASE x.seq # pd.seq
    <3>1. UNCHANGED <<pd, tm, pl>>
      BY <1>16, <2>2 DEF netpolldeadlineimpl
    <3> QED
      BY <2>1, <3>1, <1>t, <1>f DEF StOK
  <2>3. CASE x.seq = pd.seq
    <3> DEFINE d == [m \in AllModes |-> IF m \in x.ms THEN -1 ELSE pd.d[m]]
    <3>1. /\ pd' = [pd EXCEPT !.d = d]
          /\ tm' = [m \in AllModes |-> IF m \in x.ms THEN [tm[m] EXCEPT !.f = {}] ELSE tm[m]]
          /\ pl' = [by |-> "timer", todo |-> x.ms]
      BY <1>16, <2>3 DEF netpolldeadlineimpl
    <3>2. d \in [AllModes -> Int] /\ x.ms \in SUBSET AllModes /\ pd.seq + 1 \in Nat
      BY <1>t DEF PollDesc
    <3> HIDE DEF d
    <3>3. pd' \in PollDesc /\ pl' \in [by : G \cup {"timer"}, todo : SUBSET AllModes]
      BY <3>1, <3>2, Updating
    <3>4. tm' \in Timers
      BY <3>1, <1>t
    <3> QED
      BY <2>1, <3>3, <3>4, <1>t, <1>f DEF StOK
  <2> QED
    BY <2>2, <2>3
<1>17. CASE TimerUnlocks
  BY <1>17, <1>t, <1>f DEF TimerUnlocks, fdVars, envVars, StOK
<1>18. ASSUME NEW m \in Modes, Arrive(m) PROVE TypeOK'
  <2>1. avail' = avail \cup {m} /\ events' = events \cup {m}
        /\ UNCHANGED <<mu, sema, csema, sys, pd, tm, pl, flying, st, due>>
    BY <1>18 DEF Arrive, fdVars, pollVars
  <2> QED
    BY <2>1, <1>m, <1>t, <1>f DEF StOK
<1> QED
  BY <1>0, <1>1, <1>2, <1>3, <1>4, <1>5, <1>6, <1>7, <1>8, <1>9, <1>10, <1>11, <1>12, <1>13, <1>14, <1>15,
     <1>16, <1>17, <1>18 DEF Next, Step, Runtime, Inner

----------------------------------------------------------------------------
(* Who owns the descriptor.  A step inside a call, between its incref and  *)
(* its decref, changes none of it.                                         *)
SameCall(h) ==
  /\ st'[h].pc \in Using <=> st[h].pc \in Using
  /\ \A l \in {"idle", "pollClose", "close", "evict"} : st'[h].pc = l <=> st[h].pc = l
  /\ st[h].pc # "idle" => st'[h].fd = st[h].fd

LEMMA OwnedFrame ==
  ASSUME TypeOK, Owned, UNCHANGED <<mu, sys, csema>>, pd'.fd = pd.fd, pd'.closing = pd.closing,
         \A h \in G : SameCall(h)
  PROVE  Owned'
<1> USE DEF Owned
<1>1. \A h \in G : st[h].pc \in Using \cup Ending => st[h].pc # "idle"
  BY DEF Using, IO, Ending
<1>2. Counts'
  <2>1. \A f \in Fds : Users(f)' = Users(f)
    BY <1>1 DEF Users, SameCall, Fd
  <2> QED
    BY <2>1 DEF Counts
<1>3. Descriptors'
  BY DEF Descriptors
<1>4. Callers'
  BY <1>1 DEF Callers, SameCall, At, Fd, Ending
<1>5. Alone'
  BY <1>1 DEF Alone, SameCall, At, Fd, Ending
<1>6. Evicted'
  BY DEF Evicted, SameCall, At
<1> QED
  BY <1>2, <1>3, <1>4, <1>5, <1>6

LEMMA Added ==
  ASSUME TypeOK, Counts, NEW g \in G, NEW f \in Fds, st[g].pc \notin Using,
         \A h \in G \ {g} : st'[h] = st[h], st'[g].pc \in Using, st'[g].fd = f,
         mu'[f].refs = mu[f].refs + 1, \A e \in Fds \ {f} : mu'[e].refs = mu[e].refs
  PROVE  Counts'
<1>1. \A e \in Fds : Users(e)' = IF e = f THEN Users(e) \cup {g} ELSE Users(e)
  BY DEF Users, Fd
<1>2. g \notin Users(f)
  BY DEF Users
<1>3. ASSUME NEW e \in Fds PROVE IsFiniteSet(Users(e)') /\ mu'[e].refs = Cardinality(Users(e)')
  <2>1. IsFiniteSet(Users(e)) /\ mu[e].refs = Cardinality(Users(e))
    BY DEF Counts
  <2>2. CASE e = f
    <3>1. IsFiniteSet(Users(f) \cup {g}) /\ Cardinality(Users(f) \cup {g}) = Cardinality(Users(f)) + 1
      BY <2>1, <2>2, <1>2, FS_AddElement
    <3> QED
      BY <2>1, <2>2, <3>1, <1>1
  <2>3. CASE e # f
    BY <2>1, <2>3, <1>1
  <2> QED
    BY <2>2, <2>3
<1> QED
  BY <1>3 DEF Counts

LEMMA Removed ==
  ASSUME TypeOK, Counts, NEW g \in G, NEW f \in Fds, st[g].pc \in Using, st[g].fd = f,
         \A h \in G \ {g} : st'[h] = st[h], st'[g].pc \notin Using,
         mu'[f].refs = mu[f].refs - 1, \A e \in Fds \ {f} : mu'[e].refs = mu[e].refs
  PROVE  Counts'
<1>1. \A e \in Fds : Users(e)' = IF e = f THEN Users(e) \ {g} ELSE Users(e)
  BY DEF Users, Fd
<1>2. g \in Users(f)
  BY DEF Users, Fd
<1>3. ASSUME NEW e \in Fds PROVE IsFiniteSet(Users(e)') /\ mu'[e].refs = Cardinality(Users(e)')
  <2>1. IsFiniteSet(Users(e)) /\ mu[e].refs = Cardinality(Users(e))
    BY DEF Counts
  <2>2. CASE e = f
    <3>1. IsFiniteSet(Users(f) \ {g}) /\ Cardinality(Users(f) \ {g}) = Cardinality(Users(f)) - 1
      BY <2>1, <2>2, <1>2, FS_RemoveElement
    <3> QED
      BY <2>1, <2>2, <3>1, <1>1
  <2>3. CASE e # f
    BY <2>1, <2>3, <1>1
  <2> QED
    BY <2>2, <2>3
<1> QED
  BY <1>3 DEF Counts

LEMMA NobodyUses ==
  ASSUME TypeOK, Owned, NEW f \in Fds, mu[f].refs = 0
  PROVE  \A h \in G : st[h].pc \in Using => Fd(h) # f
  BY Referenced

(* The steps that change it, one step per part.                            *)
LEMMA OwnedOpen ==
  ASSUME TypeOK, Owned, NEW f \in Fds, Open(f)
  PROVE  Owned'
<1>1. /\ UNCHANGED <<mu, csema, st>> /\ sys' = [sys EXCEPT ![f] = "open"] /\ sys[f] = "none" /\ pd.fd = None
      /\ pd'.fd = f /\ ~pd'.closing
  BY DEF Open
<1>2. \A g \in G : st[g].pc \notin Using
  <2>1. \A g \in G : st[g].pc \in Using => Fd(g) \in Fds
    BY Referenced
  <2> QED
    BY <1>1, <2>1, FDAssumption DEF Owned, Callers
<1>3. \A g \in G : ~At(g, "idle") => Fd(g) # f /\ Fd(g) \in Fds
  BY <1>1, Kinds DEF Owned, Callers
<1>4. Counts'
  BY <1>1 DEF Owned, Counts, Users, Fd
<1>5. Descriptors'
  BY <1>1, FDAssumption DEF Owned, Descriptors, TypeOK
<1>6. Callers'
  <2>1. \A g \in G : ~At(g, "idle") => sys'[Fd(g)] = sys[Fd(g)]
    BY <1>1, <1>3 DEF TypeOK
  <2>2. \A g \in G : ~At(g, "pollClose") /\ ~At(g, "evict")
    BY <1>1, <1>2, <1>3, FDAssumption DEF Owned, Callers, Using, At
  <2> QED
    BY <1>1, <1>2, <1>3, <2>1, <2>2 DEF Owned, Callers, At, Fd, Ending
<1>7. Alone'
  BY <1>1 DEF Owned, Alone, At, Fd
<1>8. Evicted'
  BY <1>1 DEF Owned, Descriptors, Evicted
<1> QED
  BY <1>4, <1>5, <1>6, <1>7, <1>8 DEF Owned

LEMMA OwnedCall ==
  ASSUME TypeOK, Owned, NEW g \in G, NEW f \in Usable, NEW m \in Modes, Call(g, f, m)
  PROVE  Owned'
<1>1. /\ UNCHANGED <<mu, sys, csema, pd>> /\ \A h \in G \ {g} : st'[h] = st[h]
      /\ st[g].pc = "idle" /\ st'[g].pc = "rwlock" /\ st'[g].fd = f /\ sys[f] # "none"
  BY DEF Call, Begin, fdVars, pollVars, At, TypeOK, Usable
<1>2. \A h \in G : /\ st'[h].pc \in Using <=> st[h].pc \in Using
                   /\ \A l \in {"pollClose", "close", "evict"} : st'[h].pc = l <=> st[h].pc = l
                   /\ st'[h].pc \in Using \cup Ending => st'[h] = st[h]
  BY <1>1 DEF Using, IO, Ending
<1>3. Counts'
  <2>1. \A e \in Fds : Users(e)' = Users(e)
    BY <1>2 DEF Users, Fd
  <2> QED
    BY <1>1, <2>1 DEF Owned, Counts
<1>4. Descriptors'
  BY <1>1 DEF Owned, Descriptors
<1>5. Callers'
  BY <1>1, <1>2 DEF Owned, Callers, At, Fd, Ending, Using
<1>6. Alone'
  BY <1>2 DEF Owned, Alone, At, Fd, Ending, Using
<1>7. Evicted'
  BY <1>1, <1>2 DEF Owned, Evicted, At
<1> QED
  BY <1>3, <1>4, <1>5, <1>6, <1>7 DEF Owned

(* A goroutine that leaves its call without having a reference.            *)
LEMMA OwnedReturn ==
  ASSUME TypeOK, Owned, NEW g \in G, st[g].pc \notin Using \cup Ending,
         UNCHANGED <<mu, sys>>, pd'.fd = pd.fd, pd'.closing = pd.closing,
         \A h \in G \ {g} : st'[h] = st[h], st'[g] = Idle,
         csema' = csema \/ \E f \in Fds : csema[f] > 0 /\ csema' = [csema EXCEPT ![f] = @ - 1]
  PROVE  Owned'
<1>1. \A h \in G : /\ st'[h].pc \in Using <=> st[h].pc \in Using
                   /\ \A l \in {"pollClose", "close", "evict"} : st'[h].pc = l <=> st[h].pc = l
                   /\ st'[h].pc # "idle" => st'[h] = st[h]
                   /\ st'[h].pc \in Using \cup Ending => st'[h] = st[h]
  BY DEF Using, IO, Ending, Idle
<1>2. Counts'
  <2>1. \A e \in Fds : Users(e)' = Users(e)
    BY <1>1 DEF Users, Fd
  <2> QED
    BY <2>1 DEF Owned, Counts
<1>3. Descriptors'
  <2>1. \A f \in Fds : csema[f] \in Nat
    BY DEF TypeOK
  <2>2. \A f \in Fds : csema'[f] \in Nat /\ csema'[f] <= csema[f]
    BY <2>1 DEF TypeOK
  <2> QED
    BY <2>1, <2>2 DEF Owned, Descriptors
<1>4. Callers'
  BY <1>1 DEF Owned, Callers, At, Fd, Ending, Using
<1>5. Alone'
  BY <1>1 DEF Owned, Alone, At, Fd, Ending, Using
<1>6. Evicted'
  BY <1>1 DEF Owned, Evicted, At
<1> QED
  BY <1>2, <1>3, <1>4, <1>5, <1>6 DEF Owned

LEMMA OwnedLock ==
  ASSUME TypeOK, Owned, NEW g \in G, rwlock(g)
  PROVE  Owned'
<1> DEFINE f == Fd(g)
           m == Mode(g)
<1>1. /\ f \in Fds /\ st[g].pc = "rwlock" /\ UNCHANGED <<csema, sys, pd>>
  BY rwlockDoes DEF rwlock, At, pollVars
<1>2. mu[f] \in FdMutex /\ sys[f] # "none"
  BY <1>1 DEF TypeOK, Owned, Callers, At
<1>3. CASE mu' = mu /\ (\A h \in G \ {g} : st'[h] = st[h]) /\ st'[g] = Idle
  BY <1>1, <1>3, OwnedReturn DEF Using, IO, Ending
<1>4. CASE mu' = [mu EXCEPT ![f] = [mu[f] EXCEPT !.wait[m] = @ + 1]] /\ Moves(g, "sema")
  <2>1. \A e \in Fds : mu'[e].refs = mu[e].refs /\ mu'[e].closed = mu[e].closed
    BY <1>1, <1>2, <1>4 DEF TypeOK, FdMutex
  <2>2. \A h \in G : SameCall(h)
    BY <1>1, <1>4 DEF SameCall, Moves, Using, IO
  <2> HIDE DEF f, m
  <2>3. \A h \in G : st[h].pc # "idle" => Fd(h) \in Fds
    BY Kinds DEF At
  <2>4. \A h \in G : st[h].pc \in Using \cup Ending => st[h].pc # "idle"
    BY DEF Using, IO, Ending
  <2>5. Counts'
    <3>1. \A e \in Fds : Users(e)' = Users(e)
      BY <2>2, <2>4 DEF Users, SameCall, Fd
    <3> QED
      BY <2>1, <3>1 DEF Owned, Counts
  <2>6. Descriptors'
    BY <1>1, <2>1 DEF Owned, Descriptors
  <2>7. Callers'
    BY <1>1, <2>1, <2>2, <2>3, <2>4 DEF Owned, Callers, SameCall, At, Fd, Ending
  <2>8. Alone'
    BY <2>2, <2>4 DEF Owned, Alone, SameCall, At, Fd, Ending
  <2>9. Evicted'
    BY <1>1, <2>1, <2>2 DEF Owned, Evicted, SameCall, At, TypeOK, PollDesc
  <2> QED
    BY <2>5, <2>6, <2>7, <2>8, <2>9 DEF Owned
<1>5. CASE /\ ~mu[f].closed
           /\ mu' = [mu EXCEPT ![f] = [mu[f] EXCEPT !.lock = @ \cup {m}, !.refs = @ + 1]]
           /\ Moves(g, "prepare")
  <2>1. /\ \A e \in Fds \ {f} : mu'[e] = mu[e]
        /\ mu'[f].refs = mu[f].refs + 1 /\ mu'[f].closed = mu[f].closed
    BY <1>1, <1>2, <1>5 DEF TypeOK, FdMutex
  <2> HIDE DEF f, m
  <2>2. pd.fd = f /\ sys[f] = "open"
    BY <1>1, <1>2, <1>5 DEF Owned, Descriptors
  <2>3. /\ \A h \in G \ {g} : st'[h] = st[h]
        /\ st'[g].pc = "prepare" /\ st'[g].fd = f
    BY <1>5 DEF Moves, Fd, f
  <2>4. Counts'
    <3>1. /\ st[g].pc \notin Using /\ st'[g].pc \in Using
          /\ \A e \in Fds \ {f} : mu'[e].refs = mu[e].refs
      BY <1>1, <2>1, <2>3 DEF Using, IO
    <3> QED
      BY <1>1, <2>1, <2>3, <3>1, Added DEF Owned
  <2>5. Descriptors'
    BY <1>1, <2>1, <2>2 DEF Owned, Descriptors
  <2>6. Callers'
    <3>1. \A h \in G \ {g} : st[h].pc # "idle" => Fd(h) \in Fds
      BY Kinds DEF At
    <3>2. \A h \in G \ {g} : st[h].pc \in Ending => Fd(h) # f
      BY <1>5 DEF Owned, Callers, f
    <3> QED
      BY <1>1, <2>1, <2>2, <2>3, <3>1, <3>2 DEF Owned, Callers, At, Fd, Ending, Using
  <2>7. Alone'
    BY <2>3 DEF Owned, Alone, At, Fd, Ending
  <2>8. Evicted'
    <3>1. ~At(g, "evict") /\ pd.fd \in Fds
      BY <1>1, <2>2 DEF At
    <3> QED
      BY <1>1, <2>1, <2>2, <2>3, <3>1 DEF Owned, Evicted, At
  <2> QED
    BY <2>4, <2>5, <2>6, <2>7, <2>8 DEF Owned
<1> QED
  BY <1>3, <1>4, <1>5, rwlockDoes

LEMMA OwnedRelease ==
  ASSUME TypeOK, Owned, NEW g \in G, rwunlock(g) \/ decref(g)
  PROVE  Owned'
<1> DEFINE f == Fd(g)
<1>1. Releases(g) /\ st[g].pc \in {"rwunlock", "decref"}
  BY Releasing
<1>2. /\ f \in Fds /\ pd.fd = f /\ sys[f] = "open"
      /\ \A e \in Fds \ {f} : mu'[e] = mu[e]
      /\ mu'[f].closed = mu[f].closed /\ mu'[f].refs = mu[f].refs - 1
      /\ mu[f].refs \in Nat \ {0}
      /\ UNCHANGED <<sys, csema, pd>>
      /\ \A h \in G \ {g} : st'[h] = st[h]
  BY <1>1 DEF Releases, pollVars, Moves
<1>3. /\ st'[g].pc \in {"pollClose", "csema", "idle"} /\ (st'[g].pc # "idle" => st'[g].fd = f)
      /\ st'[g].pc = "pollClose" => mu'[f].closed /\ mu'[f].refs = 0
  BY <1>1 DEF Releases, Moves, Fd, Idle
<1>4. \A h \in G : st[h].pc # "idle" => Fd(h) \in Fds
  BY Kinds DEF At
<1>5. st[g].pc \in Using /\ st'[g].pc \notin Using /\ st[g].pc \notin Ending /\ st[g].pc # "evict"
  BY <1>1, <1>3 DEF Using, IO, Ending
<1>6. \A h \in G : st[h].pc \in Ending => Fd(h) # f
  BY <1>2 DEF Owned, Callers, f
<1> HIDE DEF f
<1>7. Counts'
  <2>1. st[g].fd = f /\ \A e \in Fds \ {f} : mu'[e].refs = mu[e].refs
    BY <1>2 DEF f, Fd
  <2> QED
    BY <1>2, <1>5, <2>1, Removed DEF Owned
<1>8. Descriptors'
  BY <1>2 DEF Owned, Descriptors
<1>9. Callers'
  <2>1. ASSUME NEW h \in G \ {g}
        PROVE  /\ At(h, "idle")' <=> At(h, "idle")
               /\ Fd(h)' = Fd(h) /\ st'[h].pc = st[h].pc
    BY <1>2 DEF At, Fd
  <2>2. ASSUME NEW h \in G \ {g}, st[h].pc \in Ending PROVE mu'[Fd(h)] = mu[Fd(h)]
    BY <1>2, <1>4, <1>6, <2>2 DEF Ending
  <2>3. ASSUME NEW h \in G \ {g}, At(h, "evict") PROVE mu'[Fd(h)].closed
    BY <1>2, <1>4, <2>3 DEF Owned, Callers, At
  <2>4. Fd(g)' = f \/ st'[g].pc = "idle"
    BY <1>3 DEF Fd
  <2> QED
    BY <1>2, <1>3, <1>5, <2>1, <2>2, <2>3, <2>4 DEF Owned, Callers, At, Fd, Ending
<1>10. Alone'
  BY <1>2, <1>3, <1>6 DEF Owned, Alone, At, Fd, Ending
<1>11. Evicted'
  <2>1. pd.fd \in Fds /\ mu'[pd.fd].closed = mu[pd.fd].closed
    BY <1>2
  <2> QED
    BY <1>2, <1>3, <1>5, <2>1 DEF Owned, Evicted, At
<1> QED
  BY <1>7, <1>8, <1>9, <1>10, <1>11 DEF Owned

LEMMA OwnedTake ==
  ASSUME TypeOK, Owned, NEW g \in G, NEW f \in Usable, Takes(g, f)
  PROVE  Owned'
<1>1. /\ f \in Fds /\ sys[f] # "none" /\ ~mu[f].closed /\ st[g].pc = "idle"
      /\ \A e \in Fds \ {f} : mu'[e] = mu[e]
      /\ mu'[f].refs = mu[f].refs + 1
      /\ \A h \in G \ {g} : st'[h] = st[h]
      /\ st'[g].fd = f
      /\ \/ st'[g].pc = "evict" /\ mu'[f].closed
         \/ st'[g].pc = "deadline" /\ ~mu'[f].closed
      /\ UNCHANGED <<sys, csema, pd>>
  BY DEF Takes, Usable, At, pollVars
<1>2. pd.fd = f /\ sys[f] = "open" /\ ~pd.closing
  <2>1. pd.fd = f /\ sys[f] = "open"
    BY <1>1 DEF Owned, Descriptors
  <2> QED
    BY <1>1, <2>1, FDAssumption DEF Owned, Evicted
<1>3. \A h \in G : ~At(h, "evict")
  <2>1. \A h \in G : At(h, "evict") => pd.fd = Fd(h) /\ mu[Fd(h)].closed
    BY DEF Owned, Callers, At, Using
  <2> QED
    BY <1>1, <1>2, <2>1
<1>4. \A h \in G : st[h].pc # "idle" => Fd(h) \in Fds
  BY Kinds DEF At
<1>5. Counts'
  <2>1. /\ st[g].pc \notin Using /\ st'[g].pc \in Using
        /\ \A e \in Fds \ {f} : mu'[e].refs = mu[e].refs
    BY <1>1 DEF Using, IO
  <2> QED
    BY <1>1, <2>1, Added DEF Owned
<1>6. Descriptors'
  BY <1>1, <1>2 DEF Owned, Descriptors
<1>7. Callers'
  <2>1. \A h \in G : st[h].pc \in Ending => Fd(h) # f
    BY <1>1 DEF Owned, Callers
  <2> QED
    BY <1>1, <1>2, <1>3, <1>4, <2>1 DEF Owned, Callers, At, Fd, Ending, Using
<1>8. Alone'
  BY <1>1, <1>3 DEF Owned, Alone, At, Fd, Ending
<1>9. Evicted'
  BY <1>1, <1>2 DEF Evicted, At
<1> QED
  BY <1>5, <1>6, <1>7, <1>8, <1>9 DEF Owned

LEMMA OwnedUnblock ==
  ASSUME TypeOK, Owned, NEW g \in G, pollUnblock(g)
  PROVE  Owned'
<1>1. /\ st[g].pc = "evict" /\ UNCHANGED <<mu, sys, csema>> /\ pd'.fd = pd.fd /\ pd'.closing
      /\ Moves(g, "locked")
  <2>1. Goto(g, "locked") /\ st[g] \in CloseCall
    BY Kinds DEF pollUnblock, At
  <2>2. Moves(g, "locked")
    BY <2>1, Going DEF Allowed
  <2>3. pd.seq + 1 \in Nat /\ pd.d \in [AllModes -> Int] /\ pd' = [pd EXCEPT !.closing = TRUE, !.seq = pd.seq + 1]
    BY DEF pollUnblock, TypeOK, PollDesc
  <2>4. pd'.fd = pd.fd /\ pd'.closing
    <3> DEFINE s == pd.seq + 1
    <3>1. pd' = [pd EXCEPT !.closing = TRUE, !.seq = s] /\ s \in Nat /\ pd.d \in [AllModes -> Int]
      BY <2>3
    <3> HIDE DEF s
    <3> QED
      BY <3>1, Updating
  <2>5. st[g].pc = "evict" /\ UNCHANGED <<mu, sys, csema>>
    BY DEF pollUnblock, At, fdVars
  <2> QED
    BY <2>2, <2>4, <2>5
<1>2. pd.fd = Fd(g) /\ mu[Fd(g)].closed /\ Fd(g) \in Fds
  BY <1>1, Kinds DEF Owned, Callers, At, Using
<1>3. \A h \in G : /\ st'[h].pc \in Using <=> st[h].pc \in Using
                   /\ \A l \in {"idle", "pollClose", "close"} : st'[h].pc = l <=> st[h].pc = l
                   /\ st'[h].fd = st[h].fd /\ st'[h].pc # "evict"
  BY <1>1 DEF Moves, Using, IO, Owned, Alone, At
<1>4. Counts'
  <2>1. \A e \in Fds : Users(e)' = Users(e)
    BY <1>3 DEF Users, Fd
  <2> QED
    BY <1>1, <2>1 DEF Owned, Counts
<1>5. Descriptors'
  BY <1>1 DEF Owned, Descriptors
<1>6. Callers'
  BY <1>1, <1>3 DEF Owned, Callers, At, Fd, Ending
<1>7. Alone'
  BY <1>3 DEF Owned, Alone, At, Fd, Ending
<1>8. Evicted'
  BY <1>1, <1>2 DEF Evicted
<1> QED
  BY <1>4, <1>5, <1>6, <1>7, <1>8 DEF Owned

LEMMA OwnedDestroy ==
  ASSUME TypeOK, Owned, NEW g \in G, pollClose(g)
  PROVE  Owned'
<1>1. /\ st[g].pc = "pollClose" /\ UNCHANGED <<mu, sys, csema>> /\ pd'.fd = None /\ pd'.closing = pd.closing
      /\ Moves(g, "close")
  <2>1. Goto(g, "close") /\ st[g] \in Calls
    BY Kinds DEF pollClose, At
  <2>2. Moves(g, "close")
    BY <2>1, Going DEF Allowed, Calls, Ending
  <2> QED
    BY <2>2 DEF pollClose, At, fdVars, TypeOK, PollDesc
<1>2. pd.fd = Fd(g) /\ mu[Fd(g)].closed /\ mu[Fd(g)].refs = 0 /\ Fd(g) \in Fds
  BY <1>1, Kinds DEF Owned, Callers, At, Ending
<1>3. \A h \in G : st[h].pc \notin Using
  <2>1. \A h \in G : st[h].pc \in Using => pd.fd = Fd(h) /\ Fd(h) # Fd(g)
    BY <1>2, Referenced
  <2> QED
    BY <1>2, <2>1
<1>4. \A h \in G : /\ st'[h].pc \notin Using
                   /\ st'[h].pc \in Ending <=> st[h].pc \in Ending
                   /\ st'[h].pc = "idle" <=> st[h].pc = "idle"
                   /\ st'[h].fd = st[h].fd /\ st'[h].pc # "evict"
  BY <1>1, <1>3 DEF Moves, Using, IO, Ending
<1>5. \A h \in G : st[h].pc # "idle" => Fd(h) \in Fds
  BY Kinds DEF At
<1>6. Counts'
  <2>1. \A e \in Fds : Users(e)' = Users(e)
    BY <1>3, <1>4 DEF Users, Fd
  <2> QED
    BY <1>1, <2>1 DEF Owned, Counts
<1>7. Descriptors'
  <2>1. \A e \in Fds : e # None
    BY FDAssumption
  <2> QED
    BY <1>1, <1>2, <2>1 DEF Owned, Descriptors
<1>8. Callers'
  <2>1. \A h \in G : st'[h].pc # "pollClose"
    <3>1. \A h \in G : st[h].pc = "pollClose" => h = g
      BY <1>1, <1>2 DEF Owned, Callers, Alone, At, Ending
    <3> QED
      BY <1>1, <3>1 DEF Moves
  <2>2. \A h \in G : st[h].pc # "idle" => Fd(h) # None
    BY <1>5, FDAssumption
  <2> QED
    BY <1>1, <1>4, <2>1, <2>2 DEF Owned, Callers, At, Fd, Ending
<1>9. Alone'
  BY <1>4 DEF Owned, Alone, At, Fd
<1>10. Evicted'
  BY <1>1 DEF Evicted
<1> QED
  BY <1>6, <1>7, <1>8, <1>9, <1>10 DEF Owned

LEMMA OwnedFunc ==
  ASSUME TypeOK, Owned, NEW g \in G, CloseFunc(g)
  PROVE  Owned'
<1> DEFINE f == Fd(g)
<1>1. /\ st[g].pc = "close" /\ f \in Fds /\ UNCHANGED <<mu, pd>>
      /\ sys' = [sys EXCEPT ![f] = "closed"] /\ csema' = [csema EXCEPT ![f] = @ + 1]
      /\ \A h \in G \ {g} : st'[h] = st[h]
      /\ st'[g].pc \in {"csema", "idle"} /\ (st'[g].pc # "idle" => st'[g].fd = f)
  <2>1. st[g].pc = "close" /\ st[g] \in Calls /\ f \in Fds /\ (Mode(g) = "close" => st[g] \in CloseCall)
    BY Kinds DEF CloseFunc, At
  <2>2. CASE Mode(g) = "close"
    BY <2>1, <2>2, Going DEF CloseFunc, Allowed, Moves, Fd, pollVars
  <2>3. CASE Mode(g) # "close"
    BY <2>1, <2>3, Returning DEF CloseFunc, pollVars
  <2> QED
    BY <2>2, <2>3
<1>2. pd.fd # f /\ mu[f].closed /\ mu[f].refs = 0 /\ sys[f] = "open" /\ csema[f] = 0
  BY <1>1 DEF Owned, Callers, Descriptors, At, Ending
<1>3. \A h \in G : st[h].pc # "idle" => Fd(h) \in Fds
  BY Kinds DEF At
<1> HIDE DEF f
<1>4. /\ \A h \in G : st'[h].pc \in Using <=> st[h].pc \in Using
      /\ \A h \in G : st'[h].pc \in Using \cup Ending => h # g
      /\ \A h \in G : At(h, "evict") <=> At(h, "evict")'
  BY <1>1 DEF Using, IO, Ending, At
<1>5. Counts'
  <2>1. \A e \in Fds : Users(e)' = Users(e)
    BY <1>1, <1>4 DEF Users, Fd
  <2> QED
    BY <1>1, <2>1 DEF Owned, Counts
<1>6. Descriptors'
  <2>1. /\ \A e \in Fds \ {f} : sys'[e] = sys[e] /\ csema'[e] = csema[e]
        /\ sys'[f] = "closed" /\ csema'[f] = 1
    BY <1>1, <1>2 DEF TypeOK
  <2> QED
    BY <1>1, <1>2, <2>1 DEF Owned, Descriptors
<1>7. Callers'
  <2>1. \A h \in G \ {g} : st[h].pc \in Ending => Fd(h) # f
    BY <1>1 DEF Owned, Alone, Ending, f
  <2>2. \A e \in Fds : sys'[e] = IF e = f THEN "closed" ELSE sys[e]
    BY <1>1 DEF TypeOK
  <2>3. ASSUME NEW h \in G \ {g}
        PROVE  Fd(h)' = Fd(h) /\ st'[h].pc = st[h].pc
    BY <1>1 DEF Fd
  <2> QED
    BY <1>1, <1>3, <1>4, <2>1, <2>2, <2>3 DEF Owned, Callers, At, Fd, Ending, Using
<1>8. Alone'
  BY <1>1, <1>4 DEF Owned, Alone, At, Fd, Ending
<1>9. Evicted'
  BY <1>1, <1>4 DEF Owned, Evicted
<1> QED
  BY <1>5, <1>6, <1>7, <1>8, <1>9 DEF Owned

(* Every step.                                                             *)
LEMMA OwnedStep ==
  ASSUME TypeOK, Owned, [Next]_vars
  PROVE  Owned'
<1>0. CASE UNCHANGED vars
  <2>1. \A h \in G : SameCall(h)
    BY <1>0 DEF vars, SameCall
  <2> QED
    BY <1>0, <2>1, OwnedFrame DEF vars
<1>1. ASSUME NEW g \in G, Inner(g) PROVE Owned'
  <2>1. UNCHANGED <<mu, sys, csema>> /\ pd'.fd = pd.fd /\ pd'.closing = pd.closing
    <3>1. CASE pd' = pd
      BY <3>1, <1>1, InnerMoves DEF fdVars
    <3>2. CASE pd' # pd
      <4>1. PICK x \in {"nil", "wait", g} : pd' = [pd EXCEPT !.g[Mode(g)] = x]
        BY <3>2, <1>1, InnerMoves
      <4> QED
        BY <4>1, <1>1, InnerMoves, Storing DEF fdVars
    <3> QED
      BY <3>1, <3>2
  <2>2. PICK l \in IO \ {"prepare"} : Moves(g, l)
    BY <1>1, InnerMoves
  <2>3. \A h \in G : SameCall(h)
    BY <1>1, <2>2, InnerMoves DEF Moves, SameCall, Using, IO
  <2> QED
    BY <2>1, <2>3, OwnedFrame
<1>2. ASSUME NEW m \in AllModes, NEW b \in BOOLEAN, netpollunblock(m, b), UNCHANGED fdVars
      PROVE  Owned'
  <2>1. pd'.fd = pd.fd /\ pd'.closing = pd.closing
    <3>1. pd' = pd \/ \E x \in {"nil", "ready"} : pd' = [pd EXCEPT !.g[m] = x]
      BY <1>2 DEF netpollunblock
    <3> QED
      BY <3>1, Storing
  <2>2. \A h \in G : \/ st'[h] = st[h]
                     \/ Parked(h) /\ st'[h].pc = "xchg" /\ st'[h].fd = st[h].fd
    BY <1>2, Waking
  <2>3. \A h \in G : SameCall(h)
    BY <2>2 DEF SameCall, Parked, Using, IO
  <2> QED
    BY <1>2, <2>1, <2>3, OwnedFrame DEF fdVars
<1>3. ASSUME NEW g \in G, Unlock(g) PROVE Owned'
  <2>1. UNCHANGED <<mu, sys, csema, pd>> /\ st[g].pc = "locked" /\ Goto(g, "decref")
    BY <1>3 DEF Unlock, fdVars, At
  <2>2. Moves(g, "decref")
    BY <2>1, Kinds, Going DEF Allowed
  <2>3. \A h \in G : SameCall(h)
    BY <2>1, <2>2 DEF Moves, SameCall, Using, IO
  <2> QED
    BY <2>1, <2>3, OwnedFrame
<1>4. ASSUME NEW g \in G, Semacquire(g) PROVE Owned'
  <2>1. UNCHANGED <<mu, sys, csema, pd>> /\ st[g].pc = "sema" /\ Goto(g, "rwlock")
    BY <1>4 DEF Semacquire, pollVars, At
  <2>2. Moves(g, "rwlock")
    BY <2>1, Kinds, Going DEF Allowed
  <2>3. \A h \in G : SameCall(h)
    BY <2>1, <2>2 DEF Moves, SameCall, Using, IO
  <2> QED
    BY <2>1, <2>3, OwnedFrame
<1>5. ASSUME NEW g \in G, pollSetDeadline(g) PROVE Owned'
  <2>1. UNCHANGED <<mu, sys, csema>> /\ st[g].pc = "deadline" /\ \E l \in {"locked", "decref"} : Goto(g, l)
    BY <1>5 DEF pollSetDeadline, fdVars, At
  <2>2. pd'.fd = pd.fd /\ pd'.closing = pd.closing
    <3> DEFINE s == pd.seq + 1
               d == [m \in AllModes |-> IF m \in st[g].ms THEN st[g].d ELSE pd.d[m]]
    <3>1. pd' = pd \/ pd' = [pd EXCEPT !.seq = s, !.d = d]
      BY <1>5 DEF pollSetDeadline
    <3>2. s \in Nat /\ d \in [AllModes -> Int]
      <4>1. st[g].d \in Int
        BY <2>1, Kinds, FDAssumption DEF DeadlineCall, At
      <4>2. pd.d \in [AllModes -> Int] /\ pd.seq \in Nat
        BY DEF TypeOK, PollDesc
      <4> QED
        BY <4>1, <4>2
    <3> HIDE DEF s, d
    <3>3. CASE pd' = [pd EXCEPT !.seq = s, !.d = d]
      BY <3>2, <3>3, Updating
    <3> QED
      BY <3>1, <3>3
  <2>3. PICK l \in {"locked", "decref"} : Moves(g, l)
    BY <2>1, Kinds, Going DEF Allowed, At
  <2>4. \A h \in G : SameCall(h)
    BY <2>1, <2>3 DEF Moves, SameCall, Using, IO
  <2> QED
    BY <2>1, <2>2, <2>4, OwnedFrame
<1>6. ASSUME NEW x \in flying, netpolldeadlineimpl(x) PROVE Owned'
  <2>1. UNCHANGED <<mu, sys, csema, st>>
    BY <1>6 DEF netpolldeadlineimpl, fdVars
  <2>2. pd'.fd = pd.fd /\ pd'.closing = pd.closing
    <3> DEFINE d == [m \in AllModes |-> IF m \in x.ms THEN -1 ELSE pd.d[m]]
    <3>1. pd' = pd \/ pd' = [pd EXCEPT !.d = d]
      BY <1>6 DEF netpolldeadlineimpl
    <3>2. d \in [AllModes -> Int] /\ pd.seq + 1 \in Nat
      BY DEF TypeOK, PollDesc
    <3> HIDE DEF d
    <3>3. CASE pd' = [pd EXCEPT !.d = d]
      BY <3>2, <3>3, Updating
    <3> QED
      BY <3>1, <3>3
  <2>3. \A h \in G : SameCall(h)
    BY <2>1 DEF SameCall
  <2> QED
    BY <2>1, <2>2, <2>3, OwnedFrame
<1>7. ASSUME UNCHANGED <<mu, sys, csema, pd, st>> PROVE Owned'
  <2>1. \A h \in G : SameCall(h)
    BY <1>7 DEF SameCall
  <2> QED
    BY <1>7, <2>1, OwnedFrame
<1>8. ASSUME NEW g \in G, WaitClosed(g) PROVE Owned'
  <2>1. /\ st[g].pc = "csema" /\ UNCHANGED <<mu, sys, pd>> /\ Return(g)
        /\ csema[Fd(g)] > 0 /\ csema' = [csema EXCEPT ![Fd(g)] = @ - 1]
    BY <1>8 DEF WaitClosed, At, pollVars
  <2>2. Fd(g) \in Fds /\ st[g].pc \notin Using \cup Ending
    BY <2>1, Kinds DEF Using, IO, Ending, Calls
  <2> QED
    BY <2>1, <2>2, OwnedReturn, Returning
<1>9. ASSUME NEW m \in AllModes, Unblock(m) PROVE Owned'
  BY <1>9, <1>2 DEF Unblock
<1>10. ASSUME NEW m \in Modes, netpollready(m) PROVE Owned'
  <2>1. m \in AllModes
    BY FDAssumption DEF AllModes
  <2> QED
    BY <1>10, <2>1, <1>2 DEF netpollready
<1>11. CASE TimerUnlocks
  BY <1>11, <1>7 DEF TimerUnlocks, fdVars
<1>12. ASSUME NEW m \in Modes, Arrive(m) PROVE Owned'
  BY <1>12, <1>7 DEF Arrive, fdVars, pollVars
<1>13. ASSUME NEW m \in AllModes, TimerFires(m) PROVE Owned'
  BY <1>13, <1>7 DEF TimerFires, fdVars
<1>14. ASSUME NEW g \in G, NEW f \in Usable,
              increfAndClose(g, f) \/ \E d \in Sets, ms \in Both : SetDeadline(g, f, d, ms)
       PROVE  Owned'
  BY <1>14, Taking, OwnedTake
<1>15. ASSUME NEW g \in G, Step(g) PROVE Owned'
  BY <1>15, <1>1, <1>3, <1>4, <1>5, <1>8, OwnedLock, OwnedRelease, OwnedUnblock, OwnedDestroy, OwnedFunc
  DEF Step, Inner
<1>16. CASE Next
  BY <1>16, <1>6, <1>9, <1>10, <1>11, <1>12, <1>13, <1>14, <1>15, OwnedOpen, OwnedCall DEF Next, Runtime
<1> QED
  BY <1>0, <1>16

----------------------------------------------------------------------------
(* Who waits in rg and wg.  Besides the steps of a Read or Write after its *)
(* lock and the netpollunblocks there are those that have nothing to do    *)
(* with rg and wg, those that take or give up pd.lock, and those at which  *)
(* nobody uses the descriptor.                                             *)
SameWait(h) ==
  /\ st'[h].pc \in Waits <=> st[h].pc \in Waits
  /\ st[h].pc \in Waits => st'[h] = st[h]

Elsewhere ==
  /\ \A h \in G : SameWait(h) /\ (st'[h].pc = "locked" <=> st[h].pc = "locked")
  /\ UNCHANGED <<pd, pl>>
  /\ \A m \in AllModes : m \in avail' /\ m \notin events' => m \in avail /\ m \notin events

Locking ==
  /\ pl = None /\ pl' # None
  /\ \A h \in G : SameWait(h) /\ (st'[h].pc = "locked" => st[h].pc = "locked" \/ pl'.by = h)
  /\ pd'.g = pd.g /\ UNCHANGED <<avail, events>>
  /\ \A m \in AllModes : Err(m)' => Err(m) \/ m \in pl'.todo

Unlocking ==
  /\ pl # None /\ pl.todo = {} /\ pl' = None
  /\ \A h \in G : SameWait(h) /\ (st'[h].pc = "locked" => st[h].pc = "locked" /\ pl.by # h)
  /\ UNCHANGED <<pd, avail, events>>

Nobody ==
  /\ \A h \in G : st[h].pc \notin Using /\ st'[h].pc \notin Using
  /\ pd'.g = pd.g \/ pd'.g = [m \in AllModes |-> "nil"]

WaitStep ==
  \/ Elsewhere \/ Locking \/ Unlocking \/ Nobody
  \/ \E g \in G : Inner(g)
  \/ \E m \in AllModes : Unblock(m) \/ netpollready(m)

(* What a goroutine does outside the waits keeps them.                     *)
LEMMA Outside ==
  ASSUME NEW g \in G, st[g].pc \notin Waits, st'[g].pc \notin Waits,
         \A h \in G \ {g} : st'[h] = st[h]
  PROVE  \A h \in G : SameWait(h)
  BY DEF SameWait

LEMMA ElsewhereBy ==
  ASSUME NEW g \in G, st[g].pc \notin Waits \cup {"locked"}, st'[g].pc \notin Waits \cup {"locked"},
         \A h \in G \ {g} : st'[h] = st[h], UNCHANGED <<pd, pl, avail, events>>
  PROVE  Elsewhere
<1>1. \A h \in G : SameWait(h)
  BY Outside
<1> QED
  BY <1>1 DEF Elsewhere

LEMMA WaitSteps ==
  ASSUME TypeOK, Owned, Holding, [Next]_vars
  PROVE  WaitStep
<1>f. ASSUME UNCHANGED <<st, pd, pl, avail, events>> PROVE WaitStep
  BY <1>f DEF WaitStep, Elsewhere, SameWait
<1>0. CASE UNCHANGED vars
  BY <1>0, <1>f DEF vars
<1>1. ASSUME NEW f \in Fds, Open(f) PROVE WaitStep
  <2>1. pd.fd = None /\ st' = st /\ pd'.g = [m \in AllModes |-> "nil"]
    BY <1>1 DEF Open
  <2>2. \A h \in G : st[h].pc \notin Using
    BY <2>1, Referenced, FDAssumption
  <2> QED
    BY <2>1, <2>2 DEF WaitStep, Nobody
<1>2. ASSUME NEW g \in G, pollClose(g) PROVE WaitStep
  <2>1. st[g].pc = "pollClose" /\ Goto(g, "close") /\ pd' = [pd EXCEPT !.fd = None]
    BY <1>2 DEF pollClose, At
  <2>2. Moves(g, "close") /\ st[g] \in Calls
    BY <2>1, Kinds, Going DEF Allowed, Ending, Calls, At
  <2>3. pd.fd = Fd(g) /\ mu[Fd(g)].refs = 0 /\ Fd(g) \in Fds
    BY <2>1, <2>2, Kinds DEF Owned, Callers, At, Ending
  <2>4. \A h \in G : st[h].pc \notin Using
    BY <2>3, Referenced
  <2>5. \A h \in G : st'[h].pc \notin Using
    BY <2>2, <2>4 DEF Moves, Using, IO
  <2>6. pd'.g = pd.g
    BY <2>1 DEF TypeOK, PollDesc
  <2> QED
    BY <2>4, <2>5, <2>6 DEF WaitStep, Nobody
<1>3. ASSUME NEW g \in G, NEW f \in Usable, NEW m \in Modes, Call(g, f, m) PROVE WaitStep
  <2>1. /\ st[g].pc = "idle" /\ st'[g].pc = "rwlock" /\ \A h \in G \ {g} : st'[h] = st[h]
        /\ UNCHANGED <<pd, pl, avail, events>>
    BY <1>3 DEF Call, Begin, At, pollVars, TypeOK
  <2> QED
    BY <2>1, ElsewhereBy DEF WaitStep, Waits
<1>4. ASSUME NEW g \in G, rwlock(g) PROVE WaitStep
  <2>1. /\ st[g].pc = "rwlock" /\ st'[g].pc \in {"idle", "sema", "prepare"}
        /\ \A h \in G \ {g} : st'[h] = st[h]
        /\ UNCHANGED <<pd, pl, avail, events>>
    <3>1. st[g].pc = "rwlock" /\ UNCHANGED <<pd, pl, avail, events>>
      BY <1>4 DEF rwlock, At, pollVars, envVars
    <3>2. \/ Moves(g, "sema") \/ Moves(g, "prepare")
          \/ (\A h \in G \ {g} : st'[h] = st[h]) /\ st'[g] = Idle
      BY <1>4, rwlockDoes
    <3> QED
      BY <3>1, <3>2 DEF Moves, Idle
  <2> QED
    BY <2>1, ElsewhereBy DEF WaitStep, Waits
<1>5. ASSUME NEW g \in G, Semacquire(g) PROVE WaitStep
  <2>1. st[g].pc = "sema" /\ Goto(g, "rwlock") /\ UNCHANGED <<pd, pl, avail, events>>
    BY <1>5 DEF Semacquire, At, pollVars, envVars
  <2>2. Moves(g, "rwlock")
    BY <2>1, Kinds, Going DEF Allowed
  <2> QED
    BY <2>1, <2>2, ElsewhereBy DEF WaitStep, Waits, Moves
<1>6. ASSUME NEW g \in G, rwunlock(g) \/ decref(g) PROVE WaitStep
  <2>1. Releases(g) /\ st[g].pc \in {"rwunlock", "decref"}
    BY <1>6, Releasing
  <2>2. /\ st'[g].pc \in {"pollClose", "csema", "idle"} /\ \A h \in G \ {g} : st'[h] = st[h]
        /\ UNCHANGED <<pd, pl, avail, events>>
    BY <2>1 DEF Releases, Moves, Idle, pollVars, envVars
  <2> QED
    BY <2>1, <2>2, ElsewhereBy DEF WaitStep, Waits
<1>7. ASSUME NEW g \in G, NEW f \in Usable,
             increfAndClose(g, f) \/ \E d \in Sets, ms \in Both : SetDeadline(g, f, d, ms)
      PROVE  WaitStep
  <2>1. Takes(g, f)
    BY <1>7, Taking
  <2>2. /\ st[g].pc = "idle" /\ st'[g].pc \in {"evict", "deadline"} /\ \A h \in G \ {g} : st'[h] = st[h]
        /\ UNCHANGED <<pd, pl, avail, events>>
    BY <2>1 DEF Takes, At, pollVars
  <2> QED
    BY <2>2, ElsewhereBy DEF WaitStep, Waits
<1>8. ASSUME NEW g \in G, CloseFunc(g) \/ WaitClosed(g) PROVE WaitStep
  <2>1. /\ st[g].pc \in {"close", "csema"} /\ ((Goto(g, "csema") /\ Mode(g) = "close") \/ Return(g))
        /\ UNCHANGED <<pd, pl, avail, events>>
    BY <1>8 DEF CloseFunc, WaitClosed, At, pollVars, envVars
  <2>2. st'[g].pc \in {"csema", "idle"} /\ \A h \in G \ {g} : st'[h] = st[h]
    <3>1. CASE Goto(g, "csema") /\ Mode(g) = "close"
      <4>1. st[g] \in CloseCall
        BY <2>1, <3>1, Kinds DEF At
      <4> QED
        BY <3>1, <4>1, Going DEF Allowed, Moves
    <3>2. CASE Return(g)
      BY <3>2, Returning
    <3> QED
      BY <2>1, <3>1, <3>2
  <2> QED
    BY <2>1, <2>2, ElsewhereBy DEF WaitStep, Waits
<1>9. ASSUME NEW g \in G, pollUnblock(g) PROVE WaitStep
  <2>1. /\ st[g].pc = "evict" /\ Goto(g, "locked") /\ pl = None /\ pl' = [by |-> g, todo |-> AllModes]
        /\ pd' = [pd EXCEPT !.closing = TRUE, !.seq = @ + 1] /\ UNCHANGED <<avail, events>>
    BY <1>9 DEF pollUnblock, At, envVars
  <2>2. Moves(g, "locked")
    BY <2>1, Kinds, Going DEF Allowed
  <2>3. pd'.g = pd.g
    BY <2>1 DEF TypeOK, PollDesc
  <2>4. pl' # None /\ pl'.by = g /\ pl'.todo = AllModes
    BY <2>1, FDAssumption DEF AllModes
  <2>5. \A h \in G : SameWait(h)
    BY <2>1, <2>2, Outside DEF Moves, Waits
  <2>6. \A h \in G : st'[h].pc = "locked" => st[h].pc = "locked" \/ pl'.by = h
    BY <2>2, <2>4 DEF Moves
  <2> QED
    BY <2>1, <2>3, <2>4, <2>5, <2>6 DEF WaitStep, Locking
<1>10. ASSUME NEW g \in G, pollSetDeadline(g) PROVE WaitStep
  <2>1. st[g].pc = "deadline" /\ st[g] \in DeadlineCall /\ pl = None /\ UNCHANGED <<avail, events>>
    BY <1>10, Kinds DEF pollSetDeadline, At
  <2>2. CASE pd.closing
    <3>1. Goto(g, "decref") /\ UNCHANGED <<pd, pl>>
      BY <1>10, <2>2 DEF pollSetDeadline
    <3>2. Moves(g, "decref")
      BY <2>1, <3>1, Going DEF Allowed
    <3> QED
      BY <2>1, <3>1, <3>2, ElsewhereBy DEF WaitStep, Waits, Moves
  <2>3. CASE ~pd.closing
    <3> DEFINE d == [m \in AllModes |-> IF m \in st[g].ms THEN st[g].d ELSE pd.d[m]]
               s == pd.seq + 1
               todo == {m \in AllModes : d[m] < 0}
    <3>1. Goto(g, "locked") /\ pd' = [pd EXCEPT !.seq = s, !.d = d] /\ pl' = [by |-> g, todo |-> todo]
      BY <1>10, <2>3 DEF pollSetDeadline
    <3>2. Moves(g, "locked")
      BY <2>1, <3>1, Going DEF Allowed
    <3>3. pd'.g = pd.g /\ pd'.closing = pd.closing /\ pd'.d = d
      <4> HIDE DEF s, d, todo
      <4> QED
        BY <3>1 DEF TypeOK, PollDesc
    <3>4. \A m \in AllModes : Err(m)' => Err(m) \/ m \in todo
      BY <3>3 DEF Err
    <3>5. pl' # None /\ pl'.by = g /\ pl'.todo = todo
      <4>1. todo \in SUBSET {"r", "w"}
        BY DEF AllModes
      <4> HIDE DEF todo
      <4> QED
        BY <3>1, <4>1, FDAssumption
    <3> HIDE DEF todo, d, s
    <3>6. \A h \in G : SameWait(h)
      BY <2>1, <3>2, Outside DEF Moves, Waits
    <3>7. \A h \in G : st'[h].pc = "locked" => st[h].pc = "locked" \/ pl'.by = h
      BY <3>2, <3>5 DEF Moves
    <3>8. \A m \in AllModes : Err(m)' => Err(m) \/ m \in pl'.todo
      BY <3>4, <3>5
    <3> QED
      BY <2>1, <3>3, <3>5, <3>6, <3>7, <3>8 DEF WaitStep, Locking
  <2> QED
    BY <2>2, <2>3
<1>11. ASSUME NEW x \in flying, netpolldeadlineimpl(x) PROVE WaitStep
  <2>1. pl = None /\ UNCHANGED <<avail, events, st>> /\ x.ms \in SUBSET AllModes
    BY <1>11 DEF netpolldeadlineimpl, envVars, TypeOK
  <2>2. CASE x.seq # pd.seq
    BY <1>11, <2>1, <2>2, <1>f DEF netpolldeadlineimpl
  <2>3. CASE x.seq = pd.seq
    <3> DEFINE d == [m \in AllModes |-> IF m \in x.ms THEN -1 ELSE pd.d[m]]
    <3>1. pd' = [pd EXCEPT !.d = d] /\ pl' = [by |-> "timer", todo |-> x.ms]
      BY <1>11, <2>3 DEF netpolldeadlineimpl
    <3>2. pd'.g = pd.g /\ pd'.closing = pd.closing /\ pd'.d = d
      <4> HIDE DEF d
      <4> QED
        BY <3>1 DEF TypeOK, PollDesc
    <3>3. pl' # None /\ pl'.todo = x.ms
      BY <2>1, <3>1, FDAssumption DEF AllModes
    <3>4. \A m \in AllModes : Err(m)' => Err(m) \/ m \in x.ms
      BY <3>2 DEF Err
    <3>5. \A h \in G : SameWait(h)
      BY <2>1 DEF SameWait
    <3> HIDE DEF d
    <3> QED
      BY <2>1, <3>2, <3>3, <3>4, <3>5 DEF WaitStep, Locking
  <2> QED
    BY <2>2, <2>3
<1>12. CASE TimerUnlocks
  <2>1. /\ pl = [by |-> "timer", todo |-> {}] /\ pl' = None /\ UNCHANGED <<pd, st, avail, events>>
    BY <1>12 DEF TimerUnlocks, envVars
  <2>2. pl # None /\ pl.todo = {} /\ \A h \in G : pl.by # h
    BY <2>1, FDAssumption
  <2> QED
    BY <2>1, <2>2 DEF WaitStep, Unlocking, SameWait
<1>13. ASSUME NEW g \in G, Unlock(g) PROVE WaitStep
  <2>1. /\ st[g].pc = "locked" /\ pl.todo = {} /\ pl' = None /\ Goto(g, "decref")
        /\ UNCHANGED <<pd, avail, events>>
    BY <1>13 DEF Unlock, At, envVars
  <2>2. Moves(g, "decref")
    BY <2>1, Kinds, Going DEF Allowed
  <2>3. pl # None /\ pl.by = g
    BY <2>1 DEF Holding, At
  <2>4. \A h \in G : SameWait(h)
    BY <2>1, <2>2, Outside DEF Moves, Waits
  <2>5. \A h \in G : st'[h].pc = "locked" => st[h].pc = "locked" /\ pl.by # h
    BY <2>2, <2>3 DEF Moves
  <2> QED
    BY <2>1, <2>3, <2>4, <2>5 DEF WaitStep, Unlocking
<1>14. ASSUME NEW m \in AllModes, TimerFires(m) PROVE WaitStep
  BY <1>14, <1>f DEF TimerFires
<1>15. ASSUME NEW m \in Modes, Arrive(m) PROVE WaitStep
  BY <1>15 DEF Arrive, pollVars, WaitStep, Elsewhere, SameWait
<1>16. ASSUME NEW m \in Modes, netpollready(m) PROVE WaitStep
  BY <1>16, FDAssumption DEF WaitStep, AllModes
<1>17. ASSUME NEW g \in G, Step(g) PROVE WaitStep
  BY <1>17, <1>2, <1>4, <1>5, <1>6, <1>8, <1>9, <1>10, <1>13 DEF Step, Inner, WaitStep
<1>18. CASE Next
  BY <1>18, <1>1, <1>3, <1>7, <1>11, <1>12, <1>14, <1>15, <1>16, <1>17 DEF Next, Runtime, WaitStep
<1> QED
  BY <1>0, <1>18

(* The lock for a mode is taken and given up by who does its I/O.          *)
LEMMA LockedFrame ==
  ASSUME TypeOK, Locked,
         \A h \in G : st'[h].pc \in IO => st[h].pc \in IO /\ st'[h].fd = st[h].fd /\ st'[h].m = st[h].m,
         \A f \in Fds : mu[f].lock \subseteq mu'[f].lock
  PROVE  Locked'
<1>1. \A h \in G : st[h].pc \in IO => Fd(h) \in Fds
  BY Kinds DEF Calls
<1> QED
  BY <1>1 DEF Locked, Fd, Mode

LEMMA LockedTaken ==
  ASSUME TypeOK, Owned, Locked, NEW g \in G, rwlock(g)
  PROVE  Locked'
<1> DEFINE f == Fd(g)
           m == Mode(g)
<1>0. f \in Fds /\ m \in AllModes /\ mu[f] \in FdMutex /\ mu[f].wait \in [AllModes -> Nat]
  <2>1. f \in Fds /\ m \in AllModes
    BY rwlockDoes
  <2> QED
    BY <2>1 DEF TypeOK, FdMutex
<1>1. CASE /\ mu' = mu \/ mu' = [mu EXCEPT ![f] = [mu[f] EXCEPT !.wait[m] = @ + 1]]
           /\ Moves(g, "sema") \/ ((\A h \in G \ {g} : st'[h] = st[h]) /\ st'[g] = Idle)
  <2>1. \A h \in G : st'[h].pc \in IO => st'[h] = st[h]
    BY <1>1 DEF Moves, IO, Idle
  <2> HIDE DEF f, m
  <2>2. \A e \in Fds : mu'[e].lock = mu[e].lock
    <3> DEFINE x == [mu[f] EXCEPT !.wait[m] = @ + 1]
    <3>1. x.lock = mu[f].lock
      BY <1>0 DEF FdMutex
    <3>2. mu' = mu \/ mu' = [mu EXCEPT ![f] = x]
      BY <1>1
    <3> HIDE DEF x
    <3> QED
      BY <3>1, <3>2 DEF TypeOK
  <2> QED
    BY <2>1, <2>2, LockedFrame
<1>2. CASE /\ ~mu[f].closed /\ m \notin mu[f].lock
           /\ mu' = [mu EXCEPT ![f] = [mu[f] EXCEPT !.lock = @ \cup {m}, !.refs = @ + 1]]
           /\ Moves(g, "prepare")
  <2>2. pd.fd = f
    <3>1. sys[f] # "none"
      BY DEF rwlock, Owned, Callers, At
    <3> QED
      BY <1>0, <1>2, <3>1 DEF Owned, Descriptors
  <2>3. \A h \in G : st[h].pc \in IO => Fd(h) = f /\ Mode(h) # m
    BY <1>2, <2>2 DEF Locked, Owned, Callers, Using
  <2>4. mu'[f].lock = mu[f].lock \cup {m} /\ \A e \in Fds : mu[e].lock \subseteq mu'[e].lock
    BY <1>0, <1>2 DEF TypeOK, FdMutex
  <2>5. st'[g].pc = "prepare" /\ st'[g].fd = f /\ st'[g].m = m /\ \A h \in G \ {g} : st'[h] = st[h]
    BY <1>2 DEF Moves, Fd, Mode
  <2> HIDE DEF f, m
  <2> QED
    BY <1>0, <2>3, <2>4, <2>5 DEF Locked, Fd, Mode
<1>3. \/ mu' = mu /\ (\A h \in G \ {g} : st'[h] = st[h]) /\ st'[g] = Idle
      \/ mu' = [mu EXCEPT ![f] = [mu[f] EXCEPT !.wait[m] = @ + 1]] /\ Moves(g, "sema")
      \/ /\ ~mu[f].closed /\ m \notin mu[f].lock
         /\ mu' = [mu EXCEPT ![f] = [mu[f] EXCEPT !.lock = @ \cup {m}, !.refs = @ + 1]]
         /\ Moves(g, "prepare")
  BY rwlockDoes
<1> HIDE DEF f, m
<1> QED
  BY <1>1, <1>2, <1>3

LEMMA LockedGiven ==
  ASSUME TypeOK, Owned, Locked, NEW g \in G, rwunlock(g) \/ decref(g)
  PROVE  Locked'
<1> DEFINE f == Fd(g)
           m == Mode(g)
<1>1. Releases(g) /\ st[g].pc \in {"rwunlock", "decref"}
  BY Releasing
<1>2. /\ \A h \in G : st'[h].pc \in IO => h # g /\ st'[h] = st[h]
      /\ \A e \in Fds \ {f} : mu'[e] = mu[e]
      /\ mu'[f].lock = IF At(g, "rwunlock") THEN mu[f].lock \ {m} ELSE mu[f].lock
  BY <1>1 DEF Releases, Moves, Idle, IO
<1>3. \A h \in G : st[h].pc \in IO => Fd(h) \in Fds
  BY Kinds DEF Calls
<1>4. \A h \in G : h # g /\ st[h].pc \in IO /\ At(g, "rwunlock") => Mode(h) # m
  BY DEF Locked, IO, At
<1> HIDE DEF f, m
<1> QED
  BY <1>2, <1>3, <1>4 DEF Locked, Fd, Mode

LEMMA LockedStep ==
  ASSUME TypeOK, Owned, Locked, [Next]_vars
  PROVE  Locked'
<1>f. ASSUME UNCHANGED mu, \A h \in G : st'[h].pc \in IO => st[h].pc \in IO /\ st'[h].fd = st[h].fd
                                                            /\ st'[h].m = st[h].m
      PROVE  Locked'
  BY <1>f, LockedFrame
<1>1. CASE UNCHANGED vars
  BY <1>1, <1>f DEF vars
<1>2. ASSUME NEW g \in G, NEW l, l \notin IO, UNCHANGED mu, Moves(g, l) PROVE Locked'
  BY <1>2, <1>f DEF Moves
<1>3. ASSUME NEW g \in G, UNCHANGED mu, Return(g) PROVE Locked'
  BY <1>3, <1>f, Returning DEF IO
<1>4. ASSUME NEW g \in G, Inner(g) PROVE Locked'
  <2>1. UNCHANGED mu /\ st[g].pc \in IO /\ \E l \in IO : Moves(g, l)
    BY <1>4, InnerMoves DEF fdVars
  <2> QED
    BY <2>1, <1>f DEF Moves
<1>5. ASSUME NEW m \in AllModes, NEW b \in BOOLEAN, netpollunblock(m, b), UNCHANGED fdVars
      PROVE  Locked'
  <2>1. \A h \in G : \/ st'[h] = st[h]
                     \/ Parked(h) /\ st'[h].fd = st[h].fd /\ st'[h].m = st[h].m
    BY <1>5, Waking
  <2> QED
    BY <1>5, <2>1, <1>f DEF Parked, IO, fdVars
<1>6. ASSUME NEW g \in G, Unlock(g) \/ Semacquire(g) \/ pollUnblock(g) \/ pollClose(g) \/ pollSetDeadline(g)
                          \/ CloseFunc(g) \/ WaitClosed(g)
      PROVE  Locked'
  <2>1. UNCHANGED mu
    BY <1>6 DEF Unlock, Semacquire, pollUnblock, pollClose, pollSetDeadline, CloseFunc, WaitClosed, fdVars
  <2>2. CASE Return(g)
    BY <2>1, <2>2, <1>3
  <2>3. CASE ~Return(g)
    <3>1. PICK l \in {"decref", "rwlock", "locked", "close", "csema"} : Goto(g, l) /\ Allowed(g, l)
      <4>1. CASE Unlock(g)
        BY <4>1, Kinds DEF Unlock, Allowed, At
      <4>2. CASE Semacquire(g)
        BY <4>2, Kinds DEF Semacquire, Allowed, At
      <4>3. CASE pollUnblock(g)
        BY <4>3, Kinds DEF pollUnblock, Allowed, At
      <4>4. CASE pollClose(g)
        BY <4>4, Kinds DEF pollClose, Allowed, At, Ending, Calls
      <4>5. CASE pollSetDeadline(g)
        BY <4>5, Kinds DEF pollSetDeadline, Allowed, At
      <4>6. CASE CloseFunc(g)
        BY <4>6, <2>3, Kinds DEF CloseFunc, Allowed, At
      <4>7. CASE WaitClosed(g)
        BY <4>7, <2>3 DEF WaitClosed
      <4> QED
        BY <1>6, <4>1, <4>2, <4>3, <4>4, <4>5, <4>6, <4>7
    <3>2. Moves(g, l) /\ l \notin IO
      BY <3>1, Going DEF IO
    <3> QED
      BY <2>1, <3>2, <1>2
  <2> QED
    BY <2>2, <2>3
<1>7. ASSUME NEW g \in G, NEW f \in Usable, NEW m \in Modes, Call(g, f, m) PROVE Locked'
  <2>1. UNCHANGED mu /\ st'[g].pc = "rwlock" /\ \A h \in G \ {g} : st'[h] = st[h]
    BY <1>7 DEF Call, Begin, fdVars, TypeOK
  <2> QED
    BY <2>1, <1>f DEF IO
<1>8. ASSUME NEW g \in G, NEW f \in Usable,
             increfAndClose(g, f) \/ \E d \in Sets, ms \in Both : SetDeadline(g, f, d, ms)
      PROVE  Locked'
  <2>1. Takes(g, f)
    BY <1>8, Taking
  <2>2. \A e \in Fds : mu'[e].lock = mu[e].lock
    BY <2>1 DEF Takes
  <2>3. \A h \in G : st'[h].pc \in IO => st'[h] = st[h]
    BY <2>1 DEF Takes, IO
  <2> QED
    BY <2>2, <2>3, LockedFrame
<1>9. ASSUME UNCHANGED <<mu, st>> PROVE Locked'
  BY <1>9, <1>f
<1>10. ASSUME NEW g \in G, Step(g) PROVE Locked'
  BY <1>10, <1>4, <1>6, LockedTaken, LockedGiven DEF Step, Inner
<1>11. CASE Runtime
  <2>1. ASSUME NEW m \in AllModes, Unblock(m) PROVE Locked'
    BY <2>1, <1>5 DEF Unblock
  <2>2. ASSUME NEW m \in Modes, netpollready(m) PROVE Locked'
    <3>1. m \in AllModes
      BY FDAssumption DEF AllModes
    <3> QED
      BY <2>2, <3>1, <1>5 DEF netpollready
  <2>3. CASE TimerUnlocks
    BY <2>3, <1>9 DEF TimerUnlocks, fdVars
  <2> QED
    BY <1>11, <2>1, <2>2, <2>3 DEF Runtime
<1>12. CASE Next
  <2>1. ASSUME NEW f \in Fds, Open(f) PROVE Locked'
    BY <2>1, <1>9 DEF Open
  <2>2. ASSUME NEW m \in Modes, Arrive(m) PROVE Locked'
    BY <2>2, <1>9 DEF Arrive, fdVars
  <2>3. ASSUME NEW m \in AllModes, TimerFires(m) PROVE Locked'
    BY <2>3, <1>9 DEF TimerFires, fdVars
  <2>4. ASSUME NEW x \in flying, netpolldeadlineimpl(x) PROVE Locked'
    BY <2>4, <1>9 DEF netpolldeadlineimpl, fdVars
  <2> QED
    BY <1>12, <1>7, <1>8, <1>10, <1>11, <2>1, <2>2, <2>3, <2>4 DEF Next
<1> QED
  BY <1>1, <1>12

(* What rg or wg is while g has the lock for the mode, and what the steps  *)
(* of g and the netpollunblocks make of it.                                *)
LEMMA Slot ==
  ASSUME TypeOK, Locked, Slots, NEW g \in G, st[g].pc \in IO
  PROVE  /\ Mode(g) \in AllModes
         /\ \/ pd.g[Mode(g)] \in {"nil", "ready"} /\ st[g].pc # "parked"
            \/ pd.g[Mode(g)] = "wait" /\ st[g].pc \in {"recheck", "commit", "xchg"}
            \/ pd.g[Mode(g)] = g /\ st[g].pc = "parked"
<1>1. Mode(g) \in AllModes
  BY Kinds, FDAssumption DEF AllModes
<1>2. pd.g[Mode(g)] \in {"nil", "ready", "wait"} \cup G
  BY <1>1 DEF TypeOK, PollDesc
<1>3. st[g].pc = "parked" => pd.g[Mode(g)] = g
  BY DEF Slots, Parked
<1>4. pd.g[Mode(g)] = "wait" => st[g].pc \in {"recheck", "commit", "xchg"}
  BY <1>1 DEF Slots, Locked, IO
<1>5. pd.g[Mode(g)] \in G => pd.g[Mode(g)] = g /\ st[g].pc = "parked"
  <2>1. pd.g[Mode(g)] \in G => Parked(pd.g[Mode(g)]) /\ Mode(pd.g[Mode(g)]) = Mode(g)
    BY <1>1 DEF Slots
  <2> QED
    BY <2>1 DEF Locked, Parked, IO
<1> QED
  BY <1>1, <1>2, <1>3, <1>4, <1>5, FDAssumption

Turn(g, p, q, x, y) ==
  \/ p = "prepare" /\ q \in {"rwunlock", "reset"} /\ y = x
  \/ p = "reset" /\ q = "syscall" /\ y = "nil"
  \/ p = "syscall" /\ q \in {"rwunlock", "wait"} /\ y = x
  \/ p = "wait" /\ q \in {"rwunlock", "block"} /\ y = x
  \/ p = "block" /\ x = "ready" /\ q = "syscall" /\ y = "nil"
  \/ p = "block" /\ x = "nil" /\ q = "recheck" /\ y = "wait"
  \/ p = "recheck" /\ q \in {"commit", "xchg"} /\ y = x
  \/ p = "commit" /\ x = "wait" /\ q = "parked" /\ y = g
  \/ p = "commit" /\ x # "wait" /\ q = "xchg" /\ y = x
  \/ p = "xchg" /\ y = "nil" /\ q = IF x = "ready" THEN "syscall" ELSE "wait"

Turns(g, m) ==
  /\ st[g].pc \in IO /\ st'[g].pc \in IO /\ st[g].m = m /\ st'[g].m = m /\ m \in AllModes
  /\ \A h \in G \ {g} : st'[h] = st[h]
  /\ \A k \in AllModes \ {m} : pd'.g[k] = pd.g[k]
  /\ pd'.closing = pd.closing /\ pd'.d = pd.d
  /\ avail' \subseteq avail /\ UNCHANGED <<pl, events>>
  /\ Turn(g, st[g].pc, st'[g].pc, pd.g[m], pd'.g[m])
  /\ st'[g].pc = "wait" /\ st[g].pc = "syscall" => m \notin avail
  /\ st'[g].pc = "commit" => ~Err(m)

LEMMA Turning ==
  ASSUME TypeOK, NEW g \in G, Inner(g)
  PROVE  Turns(g, Mode(g))
<1> DEFINE m == Mode(g)
<1>1. /\ st[g].pc \in IO /\ m \in AllModes /\ avail' \subseteq avail /\ UNCHANGED <<pl, events>>
      /\ \E l \in IO : Moves(g, l)
  BY InnerMoves
<1>2. \A h \in G \ {g} : st'[h] = st[h]
  BY <1>1 DEF Moves
<1>3. st'[g].pc \in IO /\ st'[g].m = m /\ st[g].m = m
  BY <1>1 DEF Moves, Mode
<1>4. /\ \A k \in AllModes \ {m} : pd'.g[k] = pd.g[k]
      /\ pd'.closing = pd.closing /\ pd'.d = pd.d
  <2>1. CASE pd' = pd
    BY <2>1
  <2>2. CASE pd' # pd
    <3>1. PICK x \in {"nil", "wait", g} : pd' = [pd EXCEPT !.g[m] = x]
      BY <2>2, InnerMoves
    <3> HIDE DEF m
    <3> QED
      BY <1>1, <3>1, Storing
  <2> QED
    BY <2>1, <2>2
<1>5. /\ Turn(g, st[g].pc, st'[g].pc, pd.g[m], pd'.g[m])
      /\ st'[g].pc = "wait" /\ st[g].pc = "syscall" => m \notin avail
      /\ st'[g].pc = "commit" => ~Err(m)
  <2>p. \A x \in {"nil", "wait", g} : pd' = [pd EXCEPT !.g[m] = x] => pd'.g[m] = x
    <3> HIDE DEF m
    <3> QED
      BY <1>1, Storing
  <2>s. \A l : Goto(g, l) => st'[g].pc = l
    <3>1. st[g] \in IOCall /\ st \in [G -> {Idle} \cup IOCall \cup CloseCall \cup DeadlineCall]
      BY InnerMoves DEF TypeOK
    <3>2. \A l : [st[g] EXCEPT !.pc = l].pc = l
      BY <3>1 DEF IOCall
    <3> QED
      BY <3>1, <3>2 DEF Goto
  <2> HIDE DEF m
  <2>1. CASE Prepare(g)
    BY <2>1, <2>s DEF Prepare, Turn, At, m, pollVars
  <2>2. CASE pollReset(g)
    BY <2>2, <2>s, <2>p DEF pollReset, Turn, At, m
  <2>3. CASE Syscall(g)
    BY <2>3, <2>s DEF Syscall, Turn, At, m, pollVars
  <2>4. CASE pollWait(g)
    BY <2>4, <2>s DEF pollWait, Turn, At, m, pollVars
  <2>5. CASE netpollblock(g)
    BY <2>5, <2>s, <2>p DEF netpollblock, Turn, At, m
  <2>6. CASE Recheck(g)
    BY <2>6, <2>s DEF Recheck, Turn, At, m, pollVars
  <2>7. CASE netpollblockcommit(g)
    BY <2>7, <2>s, <2>p DEF netpollblockcommit, Turn, At, m
  <2>8. CASE Xchg(g)
    BY <2>8, <2>s, <2>p DEF Xchg, Turn, At, m
  <2> QED
    BY <2>1, <2>2, <2>3, <2>4, <2>5, <2>6, <2>7, <2>8 DEF Inner
<1> HIDE DEF m
<1>6. Turns(g, m)
  BY <1>1, <1>2, <1>3, <1>4, <1>5 DEF Turns
<1> QED
  BY <1>6 DEF m

Unblocks(m, b) ==
  /\ m \in AllModes
  /\ \A h \in G : \/ st'[h] = st[h] /\ ~(st[h].pc = "parked" /\ pd.g[m] = h)
                  \/ /\ st[h].pc = "parked" /\ pd.g[m] = h
                     /\ st'[h].pc = "xchg" /\ st'[h].fd = st[h].fd /\ st'[h].m = st[h].m
  /\ \A k \in AllModes \ {m} : pd'.g[k] = pd.g[k]
  /\ pd'.closing = pd.closing /\ pd'.d = pd.d
  /\ pd'.g[m] \in {"nil", "ready"}
  /\ IF b THEN pd'.g[m] = "ready" ELSE pd.g[m] = "ready" => pd'.g[m] = "ready"

LEMMA Unblocking ==
  ASSUME TypeOK, NEW m \in AllModes, NEW b \in BOOLEAN, netpollunblock(m, b)
  PROVE  Unblocks(m, b)
<1>1. CASE pd' = pd /\ st' = st /\ (pd.g[m] = "ready" \/ (pd.g[m] = "nil" /\ ~b))
  BY <1>1, FDAssumption DEF Unblocks
<1>2. CASE /\ pd' = [pd EXCEPT !.g[m] = IF b THEN "ready" ELSE "nil"]
           /\ ~(pd.g[m] = "ready" \/ (pd.g[m] = "nil" /\ ~b))
           /\ \A h \in G : IF pd.g[m] = h /\ Parked(h)
                           THEN st'[h].pc = "xchg" /\ st'[h].fd = st[h].fd /\ st'[h].m = st[h].m
                           ELSE st'[h] = st[h]
  <2> DEFINE x == IF b THEN "ready" ELSE "nil"
  <2>1. x \in {"nil", "ready"} /\ pd' = [pd EXCEPT !.g[m] = x] /\ (b => x = "ready")
    BY <1>2
  <2> HIDE DEF x
  <2>2. /\ \A k \in AllModes \ {m} : pd'.g[k] = pd.g[k]
        /\ pd'.closing = pd.closing /\ pd'.d = pd.d /\ pd'.g[m] = x
    BY <2>1, Storing
  <2> QED
    BY <1>2, <2>1, <2>2 DEF Unblocks, Parked
<1>3. CASE pd.g[m] = "ready" \/ (pd.g[m] = "nil" /\ ~b)
  BY <1>1, <1>3 DEF netpollunblock
<1>4. CASE ~(pd.g[m] = "ready" \/ (pd.g[m] = "nil" /\ ~b))
  BY <1>2, <1>4, Waking
<1> QED
  BY <1>3, <1>4

(* The parts of the invariant on who waits, over the kinds of step.        *)
LEMMA SlotsStep ==
  ASSUME TypeOK, Locked, Slots, WaitStep
  PROVE  Slots'
<1>1. ASSUME \A h \in G : SameWait(h), pd'.g = pd.g PROVE Slots'
  <2>1. \A h \in G : /\ st[h].pc \in {"recheck", "commit", "xchg", "parked"} => st'[h] = st[h]
                     /\ st'[h].pc \in {"recheck", "commit", "xchg", "parked"} => st'[h] = st[h]
    BY <1>1 DEF SameWait, Waits
  <2> QED
    BY <1>1, <2>1 DEF Slots, Parked, Mode
<1>2. CASE Nobody
  <2>1. \A h \in G : st[h].pc \notin {"recheck", "commit", "xchg", "parked"}
                     /\ st'[h].pc \notin {"recheck", "commit", "xchg", "parked"}
    BY <1>2 DEF Nobody, Using, IO
  <2>2. \A m \in AllModes : pd'.g[m] = pd.g[m] \/ pd'.g[m] = "nil"
    BY <1>2 DEF Nobody
  <2> QED
    BY <2>1, <2>2, FDAssumption DEF Slots, Parked, Mode
<1>3. ASSUME NEW g \in G, Inner(g) PROVE Slots'
  <2> DEFINE m == Mode(g)
  <2>1. Turns(g, m)
    BY <1>3, Turning
  <2> HIDE DEF m
  <2>2. /\ \/ pd.g[m] \in {"nil", "ready"} /\ st[g].pc # "parked"
           \/ pd.g[m] = "wait" /\ st[g].pc \in {"recheck", "commit", "xchg"}
           \/ pd.g[m] = g /\ st[g].pc = "parked"
    BY <2>1, Slot DEF Turns, m
  <2>3. /\ pd'.g[m] = "wait" => st'[g].pc \in {"recheck", "commit", "xchg"}
        /\ pd'.g[m] \in G => pd'.g[m] = g /\ st'[g].pc = "parked"
        /\ st'[g].pc = "parked" => pd'.g[m] = g
    BY <2>1, <2>2, FDAssumption DEF Turns, Turn
  <2>4. \A h \in G \ {g} : st[h].pc \in IO => st[h].m # m
    BY <2>1 DEF Turns, Locked, Mode
  <2>5. \A h \in G \ {g} : st'[h].pc = "parked" => pd'.g[st'[h].m] = h
    <3>1. \A h \in G \ {g} : st[h].pc = "parked" => st[h].m \in AllModes \ {m} /\ pd.g[st[h].m] = h
      BY <2>4, Slot DEF Slots, Parked, Mode, IO
    <3> QED
      BY <2>1, <3>1 DEF Turns
  <2>6. ASSUME NEW k \in AllModes
        PROVE  /\ pd'.g[k] = "wait" =>
                    \E h \in G : st'[h].pc \in {"recheck", "commit", "xchg"} /\ st'[h].m = k
               /\ pd'.g[k] \in G => st'[pd'.g[k]].pc = "parked" /\ st'[pd'.g[k]].m = k
    <3>1. CASE k = m
      BY <2>1, <2>3, <3>1 DEF Turns
    <3>2. CASE k # m
      <4>1. pd'.g[k] = pd.g[k] /\ st[g].m = m /\ \A h \in G \ {g} : st'[h] = st[h]
        BY <2>1, <3>2 DEF Turns
      <4>2. \A h \in G : st[h].m = k => h # g
        BY <3>2, <4>1
      <4> QED
        BY <4>1, <4>2 DEF Slots, Parked, Mode
    <3> QED
      BY <3>1, <3>2
  <2> QED
    BY <2>1, <2>3, <2>5, <2>6 DEF Slots, Parked, Mode, Turns
<1>4. ASSUME NEW m \in AllModes, NEW b \in BOOLEAN, netpollunblock(m, b) PROVE Slots'
  <2>1. Unblocks(m, b)
    BY <1>4, Unblocking
  <2>2. \A h \in G : st'[h].m = st[h].m
    BY <2>1 DEF Unblocks
  <2>3. \A h \in G : st'[h].pc = "parked" => st[h].pc = "parked" /\ st[h].m \in AllModes \ {m}
    <3>1. \A h \in G : st[h].pc = "parked" => st[h].m \in AllModes /\ pd.g[st[h].m] = h
      BY Slot DEF Slots, Parked, Mode, IO
    <3> QED
      BY <2>1, <3>1 DEF Unblocks
  <2>4. \A h \in G : st'[h].pc = "parked" => pd'.g[st'[h].m] = h
    BY <2>1, <2>2, <2>3 DEF Unblocks, Slots, Parked, Mode
  <2>5. ASSUME NEW k \in AllModes
        PROVE  /\ pd'.g[k] = "wait" =>
                    \E h \in G : st'[h].pc \in {"recheck", "commit", "xchg"} /\ st'[h].m = k
               /\ pd'.g[k] \in G => st'[pd'.g[k]].pc = "parked" /\ st'[pd'.g[k]].m = k
    <3>1. CASE k = m
      BY <2>1, <3>1, FDAssumption DEF Unblocks
    <3>2. CASE k # m
      <4>1. pd'.g[k] = pd.g[k]
        BY <2>1, <3>2 DEF Unblocks
      <4>2. \A h \in G : st[h].pc \in {"recheck", "commit", "xchg"} => st'[h] = st[h]
        BY <2>1 DEF Unblocks
      <4>3. \A h \in G : st[h].pc = "parked" /\ st[h].m = k => st'[h] = st[h]
        <5>1. \A h \in G : st[h].pc = "parked" /\ st[h].m = k => pd.g[k] = h
          BY DEF Slots, Parked, Mode
        <5>2. \A h \in G : pd.g[m] = h => st[h].m = m
          BY DEF Slots, Mode
        <5> QED
          BY <2>1, <3>2, <5>2 DEF Unblocks
      <4> QED
        BY <4>1, <4>2, <4>3 DEF Slots, Parked, Mode
    <3> QED
      BY <3>1, <3>2
  <2> QED
    BY <2>4, <2>5 DEF Slots, Parked, Mode
<1> QED
  BY <1>1, <1>2, <1>3, <1>4
  DEF WaitStep, Elsewhere, Locking, Unlocking, Unblock, netpollready

LEMMA HoldingStep ==
  ASSUME TypeOK, Owned, Holding, WaitStep
  PROVE  Holding'
<1>1. CASE Elsewhere
  BY <1>1 DEF Elsewhere, Holding, At
<1>2. CASE Locking
  BY <1>2 DEF Locking, Holding, At
<1>3. CASE Unlocking
  BY <1>3 DEF Unlocking, Holding, At
<1>4. CASE Nobody
  BY <1>4 DEF Nobody, Holding, At, Using
<1>5. ASSUME NEW g \in G, Inner(g) PROVE Holding'
  <2>1. Turns(g, Mode(g))
    BY <1>5, Turning
  <2> QED
    BY <2>1 DEF Turns, Holding, At, IO
<1>6. ASSUME NEW m \in AllModes, NEW b \in BOOLEAN, netpollunblock(m, b),
             pl # None => pl' # None /\ pl'.by = pl.by
      PROVE  Holding'
  <2>1. Unblocks(m, b)
    BY <1>6, Unblocking
  <2>2. \A h \in G : st'[h].pc = "locked" => st[h].pc = "locked"
    BY <2>1 DEF Unblocks
  <2> QED
    BY <1>6, <2>2 DEF Holding, At
<1>7. ASSUME NEW m \in AllModes, Unblock(m) PROVE Holding'
  <2>1. pl \in [by : G \cup {"timer"}, todo : SUBSET AllModes] /\ pl' = [pl EXCEPT !.todo = @ \ {m}]
    BY <1>7 DEF Unblock, TypeOK
  <2>2. pl' \in [by : G \cup {"timer"}, todo : SUBSET AllModes] /\ pl'.by = pl.by
    BY <2>1
  <2> QED
    BY <1>6, <1>7, <2>2, FDAssumption DEF Unblock, AllModes
<1>8. ASSUME NEW m \in AllModes, netpollready(m) PROVE Holding'
  BY <1>6, <1>8 DEF netpollready
<1> QED
  BY <1>1, <1>2, <1>3, <1>4, <1>5, <1>7, <1>8 DEF WaitStep

(* Who is to be woken: Asleep(h) as in Unblocked.                          *)
Asleep(h) == Parked(h) \/ (At(h, "commit") /\ pd.g[Mode(h)] = "wait")

LEMMA UnblockedStep ==
  ASSUME TypeOK, Locked, Slots, Unblocked, WaitStep
  PROVE  Unblocked'
<1>0. Unblocked <=> \A h \in G : Asleep(h) /\ Err(Mode(h)) => pl # None /\ Mode(h) \in pl.todo
  BY DEF Unblocked, Asleep
<1>a. \A h \in G : Asleep(h) => Mode(h) \in AllModes
  BY Slot DEF Asleep, Parked, At, IO
<1>b. Unblocked' <=> \A h \in G : Asleep(h)' /\ Err(Mode(h))' => pl' # None /\ Mode(h)' \in pl'.todo
  BY DEF Unblocked, Asleep
<1>1. ASSUME \A h \in G : SameWait(h), pd'.g = pd.g
      PROVE  \A h \in G : Asleep(h)' => Asleep(h) /\ st'[h] = st[h]
  BY <1>1 DEF SameWait, Waits, Asleep, Parked, At, Mode
<1>2. CASE Elsewhere
  <2>1. \A h \in G : Asleep(h)' => Asleep(h) /\ st'[h] = st[h]
    BY <1>1, <1>2 DEF Elsewhere
  <2> QED
    BY <1>0, <1>2, <1>b, <2>1 DEF Elsewhere, Err, Mode
<1>3. CASE Locking
  <2>1. \A h \in G : Asleep(h)' => Asleep(h) /\ st'[h] = st[h]
    BY <1>1, <1>3 DEF Locking
  <2>2. \A h \in G : Asleep(h) => ~Err(Mode(h))
    BY <1>0, <1>3 DEF Locking
  <2>3. ASSUME NEW h \in G, Asleep(h)', Err(Mode(h))' PROVE pl' # None /\ Mode(h)' \in pl'.todo
    <3>1. Asleep(h) /\ st'[h] = st[h] /\ Mode(h) \in AllModes /\ ~Err(Mode(h))
      BY <2>1, <2>2, <2>3, <1>a
    <3> DEFINE k == Mode(h)
    <3>2. Mode(h)' = k /\ k \in AllModes /\ ~Err(k)
      BY <3>1 DEF Mode
    <3>3. pd'.closing \/ pd'.d[st[h].m] < 0
      BY <2>3, <3>1 DEF Err, Mode
    <3>4. \A m \in AllModes : pd'.closing \/ pd'.d[m] < 0 => Err(m) \/ m \in pl'.todo
      BY <1>3 DEF Locking, Err
    <3> QED
      BY <1>3, <3>2, <3>3, <3>4 DEF Locking, Mode
  <2> QED
    BY <1>b, <2>3
<1>4. CASE Unlocking
  <2>1. \A h \in G : Asleep(h)' => Asleep(h) /\ st'[h] = st[h]
    BY <1>1, <1>4 DEF Unlocking
  <2>2. \A h \in G : Asleep(h) => ~Err(Mode(h))
    BY <1>0, <1>4 DEF Unlocking
  <2> QED
    BY <1>4, <1>b, <2>1, <2>2 DEF Unlocking, Err, Mode
<1>5. CASE Nobody
  <2>1. \A h \in G : st'[h].pc \notin {"parked", "commit"}
    BY <1>5 DEF Nobody, Using, IO
  <2> QED
    BY <1>b, <2>1 DEF Asleep, Parked, At
<1>6. ASSUME NEW g \in G, Inner(g) PROVE Unblocked'
  <2> DEFINE m == Mode(g)
  <2>1. Turns(g, m)
    BY <1>6, Turning
  <2>2. \A h \in G \ {g} : st[h].pc \in IO => st[h].m # m /\ st[h].m \in AllModes
    BY <2>1, Slot DEF Turns, Locked, Mode
  <2> HIDE DEF m
  <2>3. pd'.closing = pd.closing /\ pd'.d = pd.d /\ pl' = pl
    BY <2>1 DEF Turns
  <2>4. ASSUME NEW h \in G \ {g}, Asleep(h)' PROVE Asleep(h) /\ Mode(h)' = Mode(h)
    <3>1. st'[h] = st[h] /\ st[h].pc \in {"parked", "commit"}
      BY <2>1, <2>4 DEF Turns, Asleep, Parked, At
    <3>2. pd'.g[st[h].m] = pd.g[st[h].m]
      BY <2>1, <2>2, <3>1 DEF Turns, IO
    <3> QED
      BY <2>4, <3>1, <3>2 DEF Asleep, Parked, At, Mode
  <2>5. ASSUME Asleep(g)', Err(Mode(g))' PROVE pl # None /\ m \in pl.todo
    <3>1. st'[g].m = m /\ (pd.closing \/ pd.d[m] < 0)
      BY <2>1, <2>3, <2>5 DEF Turns, Err, Mode
    <3>2. st'[g].pc = "parked" /\ st[g].pc = "commit" /\ pd.g[m] = "wait"
      BY <2>1, <2>5, <3>1 DEF Turns, Turn, Asleep, Parked, At, Err
    <3> QED
      BY <1>0, <3>1, <3>2 DEF Asleep, At, Err, m
  <2>6. Mode(g)' = m
    BY <2>1 DEF Turns, Mode
  <2> QED
    BY <1>0, <1>b, <2>3, <2>4, <2>5, <2>6 DEF Err
<1>7. ASSUME NEW m \in AllModes, NEW b \in BOOLEAN, netpollunblock(m, b)
      PROVE  /\ pd'.closing = pd.closing /\ pd'.d = pd.d
             /\ \A h \in G : Asleep(h)' => Asleep(h) /\ Mode(h)' = Mode(h) /\ Mode(h) # m
  <2>1. Unblocks(m, b)
    BY <1>7, Unblocking
  <2>2. ASSUME NEW h \in G, Asleep(h)' PROVE Asleep(h) /\ Mode(h)' = Mode(h) /\ Mode(h) # m
    <3>1. st'[h].pc \in {"parked", "commit"} /\ st'[h].m = st[h].m
          /\ (st'[h].pc = "parked" \/ pd'.g[st[h].m] = "wait")
      BY <2>1, <2>2 DEF Unblocks, Asleep, Parked, At, Mode
    <3>2. st'[h] = st[h] /\ ~(st[h].pc = "parked" /\ pd.g[m] = h)
      BY <2>1, <3>1 DEF Unblocks
    <3>3. st[h].m \in AllModes /\ (st[h].pc = "parked" => pd.g[st[h].m] = h)
      BY <3>1, <3>2, Slot DEF Slots, Parked, Mode, IO
    <3>4. st[h].m # m
      BY <2>1, <3>1, <3>2, <3>3 DEF Unblocks
    <3>5. pd'.g[st[h].m] = pd.g[st[h].m]
      BY <2>1, <3>3, <3>4 DEF Unblocks
    <3> QED
      BY <2>2, <3>2, <3>4, <3>5 DEF Asleep, Parked, At, Mode
  <2> QED
    BY <2>1, <2>2 DEF Unblocks
<1>8. ASSUME NEW m \in AllModes, Unblock(m) PROVE Unblocked'
  <2>1. pl \in [by : G \cup {"timer"}, todo : SUBSET AllModes] /\ pl' = [pl EXCEPT !.todo = @ \ {m}]
    BY <1>8 DEF Unblock, TypeOK
  <2>2. pl' # None /\ pl'.todo = pl.todo \ {m}
    <3>1. pl' \in [by : G \cup {"timer"}, todo : SUBSET AllModes] /\ pl'.todo = pl.todo \ {m}
      BY <2>1
    <3> QED
      BY <3>1, FDAssumption DEF AllModes
  <2> QED
    BY <1>0, <1>7, <1>8, <1>b, <2>2 DEF Unblock, Err
<1>9. ASSUME NEW m \in AllModes, netpollready(m) PROVE Unblocked'
  BY <1>0, <1>7, <1>9, <1>b DEF netpollready, Err
<1> QED
  BY <1>2, <1>3, <1>4, <1>5, <1>6, <1>8, <1>9 DEF WaitStep

LEMMA NotifiedStep ==
  ASSUME TypeOK, Locked, Slots, Notified, WaitStep
  PROVE  Notified'
<1>1. ASSUME \A h \in G : SameWait(h), pd'.g = pd.g,
             \A m \in AllModes : m \in avail' /\ m \notin events' => m \in avail /\ m \notin events
      PROVE  Notified'
  <2>1. \A h \in G : st'[h].pc \in Waits => st[h].pc \in Waits /\ st'[h] = st[h] /\ Mode(h) \in AllModes
    BY <1>1, Slot DEF SameWait, Waits, IO
  <2> QED
    BY <1>1, <2>1 DEF Notified, Mode
<1>2. CASE Nobody
  BY <1>2 DEF Nobody, Notified, Using, IO, Waits
<1>3. ASSUME NEW g \in G, Inner(g) PROVE Notified'
  <2> DEFINE m == Mode(g)
  <2>1. Turns(g, m)
    BY <1>3, Turning
  <2>2. \A h \in G \ {g} : st[h].pc \in IO => st[h].m # m /\ st[h].m \in AllModes
    BY <2>1, Slot DEF Turns, Locked, Mode
  <2> HIDE DEF m
  <2>3. ASSUME NEW h \in G \ {g}, st'[h].pc \in Waits, st'[h].m \in avail'
        PROVE  st'[h].m \in events' \/ pd'.g[st'[h].m] = "ready"
    <3>1. st'[h] = st[h] /\ st[h].pc \in IO
      BY <2>1, <2>3 DEF Turns, Waits, IO
    <3>2. pd'.g[st[h].m] = pd.g[st[h].m] /\ st[h].m \in avail /\ events' = events
      BY <2>1, <2>2, <2>3, <3>1 DEF Turns
    <3> QED
      BY <2>3, <3>1, <3>2 DEF Notified, Mode
  <2>4. ASSUME st'[g].pc \in Waits, m \in avail' PROVE m \in events' \/ pd'.g[m] = "ready"
    <3>1. m \in avail /\ events' = events
      BY <2>1, <2>4 DEF Turns
    <3>2. st[g].pc \in Waits => m \in events \/ pd.g[m] = "ready"
      BY <3>1 DEF Notified, m
    <3>3. st[g].pc \in Waits
      BY <2>1, <2>4, <3>1 DEF Turns, Turn, Waits
    <3> QED
      BY <2>1, <2>4, <3>1, <3>2, <3>3 DEF Turns, Turn, Waits
  <2>5. st'[g].m = m
    BY <2>1 DEF Turns
  <2> QED
    BY <2>3, <2>4, <2>5 DEF Notified, Mode
<1>4. ASSUME NEW m \in AllModes, NEW b \in BOOLEAN, netpollunblock(m, b), avail' = avail,
             IF b THEN events' = events \ {m} ELSE events' = events
      PROVE  Notified'
  <2>1. Unblocks(m, b)
    BY <1>4, Unblocking
  <2>2. \A h \in G : st'[h].pc \in Waits => st[h].pc \in Waits /\ st'[h].m = st[h].m
    BY <2>1 DEF Unblocks, Waits
  <2>3. \A h \in G : st[h].pc \in Waits => st[h].m \in AllModes
    BY Slot DEF Waits, IO, Mode
  <2>4. ASSUME NEW h \in G, st'[h].pc \in Waits, st[h].m \in avail
        PROVE  st[h].m \in events' \/ pd'.g[st[h].m] = "ready"
    <3>1. st[h].m \in AllModes /\ (st[h].m \in events \/ pd.g[st[h].m] = "ready")
      BY <2>2, <2>3, <2>4 DEF Notified, Mode
    <3>2. CASE st[h].m = m
      BY <1>4, <2>1, <3>1, <3>2 DEF Unblocks
    <3>3. CASE st[h].m # m
      BY <1>4, <2>1, <3>1, <3>3 DEF Unblocks
    <3> QED
      BY <3>2, <3>3
  <2> QED
    BY <1>4, <2>2, <2>4 DEF Notified, Mode
<1>5. ASSUME NEW m \in AllModes, Unblock(m) PROVE Notified'
  BY <1>4, <1>5 DEF Unblock, envVars
<1>6. ASSUME NEW m \in AllModes, netpollready(m) PROVE Notified'
  BY <1>4, <1>6 DEF netpollready
<1>7. CASE Elsewhere
  BY <1>1, <1>7 DEF Elsewhere
<1>8. CASE Locking \/ Unlocking
  BY <1>1, <1>8 DEF Locking, Unlocking
<1> QED
  BY <1>2, <1>3, <1>5, <1>6, <1>7, <1>8 DEF WaitStep

----------------------------------------------------------------------------
(* The deadlines and their timers.                                         *)
TimerSet == [f : SUBSET AllModes, armed : BOOLEAN, seq : Nat]

LEMMA TimedFrame ==
  ASSUME Timed, UNCHANGED <<tm, flying, due>>,
         pd'.closing = pd.closing, pd'.seq = pd.seq, pd'.d = pd.d,
         pd'.fd = pd.fd \/ (pd.closing /\ pd'.fd = None)
  PROVE  Timed'
<1>1. Disarmed'
  BY DEF Timed, Disarmed
<1>2. Shapes'
  BY DEF Timed, Shapes
<1>3. Covered'
  BY DEF Timed, Covered, Pending
<1>4. Asked' /\ Launched'
  BY DEF Timed, Asked, Launched, Owner
<1> QED
  BY <1>1, <1>2, <1>3, <1>4 DEF Timed

LEMMA TimedOpen ==
  ASSUME TypeOK, Timed, NEW f \in Fds, Open(f)
  PROVE  Timed'
<1>1. /\ UNCHANGED <<tm, flying>> /\ pd.fd = None
      /\ ~pd'.closing /\ pd'.fd = f /\ pd'.seq = pd.seq + 1 /\ pd'.d = [m \in AllModes |-> 0]
  BY DEF Open
<1>2. /\ f # None /\ pd.seq \in Nat /\ flying \subseteq [seq : Nat, ms : SUBSET AllModes]
      /\ tm = [m \in AllModes |-> NoTimer]
  BY <1>1, FDAssumption DEF TypeOK, PollDesc, Timed, Disarmed
<1>3. \A m \in AllModes : tm[m].f = {} /\ ~tm[m].armed /\ pd'.d[m] = 0
  BY <1>1, <1>2 DEF NoTimer
<1>4. Disarmed'
  BY <1>1, <1>2 DEF Disarmed
<1>5. Shapes'
  BY <1>1, <1>3 DEF Shapes
<1>6. Covered' /\ Asked'
  BY <1>3 DEF Covered, Asked
<1>7. Launched'
  <2>1. \A x \in flying : x.seq \in Nat /\ x.seq <= pd.seq /\ x.ms # {}
    BY <1>2 DEF Timed, Launched
  <2> QED
    BY <1>1, <1>2, <2>1 DEF Launched
<1> QED
  BY <1>4, <1>5, <1>6, <1>7 DEF Timed

LEMMA TimedUnblock ==
  ASSUME TypeOK, Timed, NEW g \in G, pollUnblock(g)
  PROVE  Timed'
<1> DEFINE s == pd.seq + 1
<1>1. /\ UNCHANGED <<flying, due>> /\ tm' = [m \in AllModes |-> NoTimer]
      /\ pd' = [pd EXCEPT !.closing = TRUE, !.seq = s]
  BY DEF pollUnblock, envVars
<1>2. pd.seq \in Nat /\ s \in Nat /\ flying \subseteq [seq : Nat, ms : SUBSET AllModes]
      /\ pd.d \in [AllModes -> Int]
  BY DEF TypeOK, PollDesc
<1>3. \A x \in flying : x.seq \in Nat /\ x.seq < s /\ x.ms # {}
  <2>1. \A x \in flying : x.seq \in Nat /\ x.seq <= pd.seq /\ x.ms # {}
    BY <1>2 DEF Timed, Launched
  <2> QED
    BY <1>2, <2>1
<1> HIDE DEF s
<1>4. pd'.closing /\ pd'.seq = s /\ pd'.d = pd.d
  BY <1>1, <1>2, Updating
<1>5. \A m \in AllModes : tm'[m].f = {} /\ ~tm'[m].armed
  BY <1>1 DEF NoTimer
<1>6. Disarmed'
  BY <1>1, <1>2, <1>3, <1>4 DEF Disarmed
<1>7. Shapes'
  BY <1>5 DEF Shapes
<1>8. Covered' /\ Asked'
  BY <1>1, <1>4 DEF Covered, Asked, Timed
<1>9. Launched'
  BY <1>1, <1>2, <1>3, <1>4 DEF Launched
<1> QED
  BY <1>6, <1>7, <1>8, <1>9 DEF Timed

LEMMA TimedSet ==
  ASSUME TypeOK, Owned, Timed, NEW g \in G, pollSetDeadline(g)
  PROVE  Timed'
<1> DEFINE s == pd.seq + 1
           d == [m \in AllModes |-> IF m \in st[g].ms THEN st[g].d ELSE pd.d[m]]
<1>1. st[g].pc = "deadline" /\ st[g] \in DeadlineCall
  BY Kinds DEF pollSetDeadline, At
<1>2. CASE pd.closing
  <2>1. UNCHANGED <<pd, tm, flying, due>>
    BY <1>2 DEF pollSetDeadline
  <2> QED
    BY <2>1, TimedFrame
<1>3. CASE ~pd.closing
  <2>1. /\ UNCHANGED flying /\ tm' = TimersFor(d, s)
        /\ pd' = [pd EXCEPT !.seq = s, !.d = d]
        /\ due' = [m \in AllModes |-> IF m \in st[g].ms THEN st[g].d < 0 ELSE due[m]]
    BY <1>3 DEF pollSetDeadline
  <2>2. /\ pd.seq \in Nat /\ s \in Nat /\ flying \subseteq [seq : Nat, ms : SUBSET AllModes]
        /\ d \in [AllModes -> Int]
    <3>1. st[g].d \in Int
      BY <1>1, FDAssumption DEF DeadlineCall
    <3> QED
      BY <3>1 DEF TypeOK, PollDesc
  <2>3. \A x \in flying : x.seq \in Nat /\ x.seq < s /\ x.ms # {}
    <3>1. \A x \in flying : x.seq \in Nat /\ x.seq <= pd.seq /\ x.ms # {}
      BY <2>2 DEF Timed, Launched
    <3> HIDE DEF d
    <3> QED
      BY <2>2, <3>1
  <2>4. \A m \in AllModes : d[m] < 0 => due'[m]
    BY <2>1, <2>2 DEF Timed, Asked
  <2> HIDE DEF s, d
  <2>5. pd'.fd = pd.fd /\ ~pd'.closing /\ pd'.seq = s /\ pd'.d = d
    BY <1>3, <2>1, <2>2, Updating, ZenonT(60)
  <2>6. pd.fd # None
    BY <1>1, Referenced, FDAssumption DEF Using
  <2>7. Disarmed'
    BY <2>5, <2>6 DEF Disarmed
  <2>t. \A ms \in SUBSET AllModes : /\ Timer(ms, s).f = ms /\ Timer(ms, s).armed /\ Timer(ms, s).seq = s
                                    /\ NoTimer.f = {} /\ ~NoTimer.armed
    BY DEF Timer, NoTimer
  <2>8. Shapes' /\ Covered'
    <3>1. CASE d["r"] > 0 /\ d["r"] = d["w"]
      <4>1. /\ tm'["r"] = Timer(AllModes, s) /\ tm'["w"] = NoTimer
        BY <2>1, <3>1 DEF TimersFor, AllModes
      <4>2. /\ tm'["r"].f = AllModes /\ tm'["r"].armed /\ tm'["r"].seq = s
            /\ tm'["w"].f = {} /\ ~tm'["w"].armed
        BY <4>1, <2>t
      <4>3. \A m \in AllModes : m = "r" \/ m = "w"
        BY DEF AllModes
      <4>4. Shapes'
        BY <2>5, <3>1, <4>2, <4>3 DEF Shapes, AllModes
      <4>5. \A m \in AllModes : Pending(m)'
        BY <2>5, <4>2 DEF Pending, AllModes
      <4> QED
        BY <4>4, <4>5 DEF Covered
    <3>2. CASE ~(d["r"] > 0 /\ d["r"] = d["w"])
      <4>1. \A m \in AllModes : tm'[m] = IF d[m] > 0 THEN Timer({m}, s) ELSE NoTimer
        BY <2>1, <3>2 DEF TimersFor
      <4>2. \A m \in AllModes : IF d[m] > 0 THEN tm'[m].f = {m} /\ tm'[m].armed /\ tm'[m].seq = s
                                            ELSE tm'[m].f = {} /\ ~tm'[m].armed
        <5>1. \A m \in AllModes : Timer({m}, s).f = {m} /\ Timer({m}, s).armed /\ Timer({m}, s).seq = s
          BY DEF Timer
        <5> QED
          BY <4>1, <5>1, <2>t, ZenonT(60)
      <4>4. Shapes'
        BY <2>5, <4>2 DEF Shapes
      <4>5. \A m \in AllModes : d[m] > 0 => Pending(m)'
        BY <2>5, <4>2 DEF Pending
      <4> QED
        BY <2>5, <4>4, <4>5 DEF Covered
    <3> QED
      BY <3>1, <3>2
  <2>9. Asked'
    BY <2>4, <2>5 DEF Asked
  <2>10. Launched'
    BY <2>1, <2>2, <2>3, <2>5 DEF Launched
  <2> QED
    BY <2>7, <2>8, <2>9, <2>10 DEF Timed
<1> QED
  BY <1>2, <1>3

LEMMA TimedFires ==
  ASSUME TypeOK, Timed, NEW m \in AllModes, TimerFires(m)
  PROVE  Timed'
<1> DEFINE y == [seq |-> tm[m].seq, ms |-> tm[m].f]
<1>1. /\ tm[m].armed /\ tm' = [tm EXCEPT ![m].armed = FALSE] /\ flying' = flying \cup {y}
      /\ due' = [k \in AllModes |-> due[k] \/ k \in tm[m].f] /\ UNCHANGED pd
  BY DEF TimerFires
<1>2. /\ tm[m] \in TimerSet /\ flying \subseteq [seq : Nat, ms : SUBSET AllModes]
      /\ pd.seq \in Nat /\ tm \in [AllModes -> TimerSet]
  BY DEF TypeOK, PollDesc, TimerSet
<1>3. /\ tm'[m].f = tm[m].f /\ ~tm'[m].armed /\ tm'[m].seq = tm[m].seq
      /\ \A k \in AllModes \ {m} : tm'[k] = tm[k]
  BY <1>1, <1>2 DEF TimerSet
<1>4. /\ tm[m].seq = pd.seq /\ tm[m].f # {} /\ \A k \in tm[m].f : pd.d[k] > 0
      /\ tm[m].f = {m} \/ (m = "r" /\ tm["r"].f = AllModes)
  BY <1>1 DEF Timed, Shapes
<1>5. ~pd.closing /\ pd.fd # None
  BY <1>1 DEF Timed, Disarmed, NoTimer
<1>6. y.seq = pd.seq /\ y.ms = tm[m].f /\ Owner(y.ms) = m
  <2>1. Owner(tm[m].f) = m
    BY <1>4 DEF Owner, AllModes
  <2> QED
    BY <1>4, <2>1
<1> HIDE DEF y
<1>7. /\ \A k \in AllModes : tm'[k].f = tm[k].f /\ tm'[k].seq = tm[k].seq /\ (tm'[k].armed => tm[k].armed)
      /\ \A k \in AllModes : k # m => tm'[k].armed = tm[k].armed
  BY <1>3
<1>8. Disarmed'
  BY <1>1, <1>5 DEF Disarmed
<1>9. Shapes'
  BY <1>1, <1>7 DEF Timed, Shapes, AllModes
<1>10. Covered'
  <2>1. ASSUME NEW k \in AllModes, Pending(k) PROVE Pending(k)'
    <3>1. CASE \E j \in AllModes : tm[j].armed /\ tm[j].seq = pd.seq /\ k \in tm[j].f
      <4>1. PICK j \in AllModes : tm[j].armed /\ tm[j].seq = pd.seq /\ k \in tm[j].f
        BY <3>1
      <4>2. CASE j = m
        BY <1>1, <1>6, <4>1, <4>2 DEF Pending
      <4>3. CASE j # m
        BY <1>1, <1>7, <4>1, <4>3 DEF Pending
      <4> QED
        BY <4>2, <4>3
    <3>2. CASE \E x \in flying : x.seq = pd.seq /\ k \in x.ms
      BY <1>1, <3>2 DEF Pending
    <3> QED
      BY <2>1, <3>1, <3>2 DEF Pending
  <2> QED
    BY <1>1, <2>1 DEF Timed, Covered
<1>11. \A k \in AllModes : due[k] => due'[k]
  BY <1>1
<1>12. Asked'
  BY <1>1, <1>11 DEF Timed, Asked
<1>13. Launched'
  <2>1. ASSUME NEW x \in flying
        PROVE  /\ x.seq <= pd.seq /\ x.ms # {}
               /\ x.seq = pd.seq => /\ tm'[Owner(x.ms)].f = x.ms /\ ~tm'[Owner(x.ms)].armed
                                    /\ \A k \in x.ms : pd.d[k] > 0 /\ due'[k]
    <3>1. x.seq <= pd.seq /\ x.ms # {} /\ x.ms \in SUBSET AllModes
      BY <1>2 DEF Timed, Launched
    <3>2. CASE x.seq = pd.seq
      <4>1. /\ tm[Owner(x.ms)].f = x.ms /\ ~tm[Owner(x.ms)].armed
            /\ \A k \in x.ms : pd.d[k] > 0 /\ due[k]
        BY <3>2 DEF Timed, Launched
      <4>2. Owner(x.ms) \in AllModes /\ Owner(x.ms) # m
        BY <1>1, <4>1 DEF Owner, AllModes
      <4> QED
        BY <3>1, <4>1, <4>2, <1>3, <1>11
    <3> QED
      BY <3>1, <3>2
  <2>2. /\ y.seq <= pd.seq /\ y.ms # {}
        /\ tm'[Owner(y.ms)].f = y.ms /\ ~tm'[Owner(y.ms)].armed
        /\ \A k \in y.ms : pd.d[k] > 0 /\ due'[k]
    <3>1. \A k \in tm[m].f : k \in AllModes /\ due'[k]
      BY <1>1, <1>2 DEF TimerSet
    <3> QED
      BY <1>2, <1>3, <1>4, <1>6, <3>1
  <2>3. Launched' <=> \A x \in flying' :
          /\ x.seq <= pd.seq /\ x.ms # {}
          /\ x.seq = pd.seq => /\ tm'[Owner(x.ms)].f = x.ms /\ ~tm'[Owner(x.ms)].armed
                               /\ \A k \in x.ms : pd.d[k] > 0 /\ due'[k]
    BY <1>1 DEF Launched, Owner
  <2> QED
    BY <1>1, <2>1, <2>2, <2>3
<1> QED
  BY <1>8, <1>9, <1>10, <1>12, <1>13 DEF Timed

(* Functions that are not stale are for different modes.                   *)
LEMMA Apart ==
  ASSUME TypeOK, Timed, NEW x \in flying, NEW y \in flying, x.seq = pd.seq, y.seq = pd.seq, x # y
  PROVE  x.ms \cap y.ms = {} /\ Owner(y.ms) \notin x.ms
<1>1. /\ x \in [seq : Nat, ms : SUBSET AllModes] /\ y \in [seq : Nat, ms : SUBSET AllModes]
      /\ tm[Owner(x.ms)].f = x.ms /\ tm[Owner(y.ms)].f = y.ms
      /\ x.ms # {} /\ y.ms # {}
  <2>1. x \in [seq : Nat, ms : SUBSET AllModes] /\ y \in [seq : Nat, ms : SUBSET AllModes]
    BY DEF TypeOK
  <2>2. \A z \in flying : z.seq = pd.seq =>
          z.ms # {} /\ tm[Owner(z.ms)].f = z.ms /\ ~tm[Owner(z.ms)].armed
    BY DEF Timed, Launched
  <2> QED
    BY <2>1, <2>2
<1>2. x.ms # y.ms
  BY <1>1
<1>3. Owner(x.ms) # Owner(y.ms)
  BY <1>1, <1>2
<1>4. \A S \in SUBSET AllModes : S # {} => (Owner(S) = "r" <=> "r" \in S) /\ (Owner(S) = "w" <=> S = {"w"})
                                         /\ Owner(S) \in {"r", "w"}
  BY DEF Owner, AllModes
<1>5. \A S \in SUBSET AllModes : "r" \in S => S = {"r"} \/ S = AllModes
  BY DEF AllModes
<1>6. tm["w"].f = {"w"} => tm["r"].f # AllModes
  BY DEF Timed, Shapes, AllModes
<1>7. (x.ms = {"r"} /\ y.ms = {"w"}) \/ (x.ms = {"w"} /\ y.ms = {"r"})
  <2>1. x.ms \in SUBSET AllModes /\ y.ms \in SUBSET AllModes
    BY <1>1
  <2>2. CASE Owner(x.ms) = "r"
    BY <1>1, <1>3, <1>4, <1>5, <1>6, <2>1, <2>2
  <2>3. CASE Owner(x.ms) = "w"
    BY <1>1, <1>3, <1>4, <1>5, <1>6, <2>1, <2>3
  <2> QED
    BY <1>1, <1>4, <2>1, <2>2, <2>3
<1> QED
  BY <1>7 DEF Owner

LEMMA TimedRuns ==
  ASSUME TypeOK, Timed, NEW x \in flying, netpolldeadlineimpl(x)
  PROVE  Timed'
<1>1. flying' = flying \ {x} /\ UNCHANGED due
  BY DEF netpolldeadlineimpl, envVars
<1>2. CASE x.seq # pd.seq
  <2>1. UNCHANGED <<pd, tm>>
    BY <1>2 DEF netpolldeadlineimpl
  <2>2. Disarmed' /\ Shapes' /\ Asked'
    BY <1>1, <2>1 DEF Timed, Disarmed, Shapes, Asked
  <2>3. Covered'
    BY <1>1, <1>2, <2>1 DEF Timed, Covered, Pending
  <2>4. Launched'
    BY <1>1, <2>1 DEF Timed, Launched, Owner
  <2> QED
    BY <2>2, <2>3, <2>4 DEF Timed
<1>3. CASE x.seq = pd.seq
  <2> DEFINE d == [m \in AllModes |-> IF m \in x.ms THEN -1 ELSE pd.d[m]]
  <2>1. /\ pd' = [pd EXCEPT !.d = d]
        /\ tm' = [m \in AllModes |-> IF m \in x.ms THEN [tm[m] EXCEPT !.f = {}] ELSE tm[m]]
    BY <1>3 DEF netpolldeadlineimpl
  <2>2. /\ d \in [AllModes -> Int] /\ pd.seq \in Nat /\ tm \in [AllModes -> TimerSet]
        /\ x.ms \in SUBSET AllModes /\ x.ms # {} /\ flying \subseteq [seq : Nat, ms : SUBSET AllModes]
    <3>1. pd.d \in [AllModes -> Int] /\ pd.seq \in Nat
      BY DEF TypeOK, PollDesc
    <3>2. d \in [AllModes -> Int]
      BY <3>1
    <3>3. /\ tm \in [AllModes -> TimerSet] /\ flying \subseteq [seq : Nat, ms : SUBSET AllModes]
      BY DEF TypeOK, TimerSet
    <3>4. x.ms \in SUBSET AllModes /\ x.ms # {}
      BY <3>3 DEF Timed, Launched
    <3> QED
      BY <3>1, <3>2, <3>3, <3>4
  <2>3. \A m \in AllModes : d[m] = IF m \in x.ms THEN -1 ELSE pd.d[m]
    OBVIOUS
  <2> HIDE DEF d
  <2>4. pd'.fd = pd.fd /\ pd'.closing = pd.closing /\ pd'.seq = pd.seq /\ pd'.d = d
    BY <2>1, <2>2, Updating
  <2>5. \A m \in AllModes : /\ tm'[m].armed = tm[m].armed /\ tm'[m].seq = tm[m].seq
                            /\ tm'[m].f = IF m \in x.ms THEN {} ELSE tm[m].f
                            /\ m \notin x.ms => tm'[m] = tm[m]
    BY <2>1, <2>2 DEF TimerSet
  <2>6. ~pd.closing /\ pd.fd # None
    BY <1>3 DEF Timed, Disarmed
  <2>7. /\ tm[Owner(x.ms)].f = x.ms /\ ~tm[Owner(x.ms)].armed /\ \A k \in x.ms : due[k]
    BY <1>3 DEF Timed, Launched
  <2>8. x.ms = {"r"} \/ x.ms = {"w"} \/ x.ms = AllModes
    BY <2>2 DEF AllModes
  <2>9. \A m \in AllModes : tm[m].armed => m \notin x.ms /\ tm[m].f \cap x.ms = {}
    <3>1. CASE x.ms = {"r"}
      BY <2>7, <3>1 DEF Timed, Shapes, Owner, AllModes
    <3>2. CASE x.ms = {"w"}
      BY <2>7, <3>2 DEF Timed, Shapes, Owner, AllModes
    <3>3. CASE x.ms = AllModes
      BY <2>7, <3>3 DEF Timed, Shapes, Owner, AllModes
    <3> QED
      BY <2>8, <3>1, <3>2, <3>3
  <2>10. Disarmed'
    BY <2>4, <2>6 DEF Disarmed
  <2>11. Shapes'
    <3>1. ASSUME NEW m \in AllModes
          PROVE  tm'[m].f \in {{}, {m}} \/ (m = "r" /\ tm'["r"].f = AllModes /\ tm'["w"].f = {})
      BY <2>5 DEF Timed, Shapes, AllModes
    <3>2. ASSUME NEW m \in AllModes, tm'[m].armed
          PROVE  tm'[m].seq = pd'.seq /\ tm'[m].f # {} /\ \A k \in tm'[m].f : pd'.d[k] > 0
      <4>1. /\ tm[m].seq = pd.seq /\ tm[m].f # {} /\ tm'[m].f = tm[m].f /\ tm[m].f \cap x.ms = {}
            /\ tm'[m].seq = tm[m].seq
            /\ \A k \in tm[m].f : pd.d[k] > 0 /\ k \in AllModes
        BY <2>2, <2>5, <2>9, <3>2 DEF Timed, Shapes, TimerSet
      <4> QED
        BY <2>3, <2>4, <4>1
    <3> QED
      BY <3>1, <3>2 DEF Shapes
  <2>12. Covered'
    <3>1. ASSUME NEW k \in AllModes, d[k] > 0 PROVE Pending(k)'
      <4>1. k \notin x.ms /\ pd.d[k] > 0
        BY <2>3, <3>1
      <4>2. Pending(k)
        BY <2>6, <4>1 DEF Timed, Covered
      <4>3. CASE \E j \in AllModes : tm[j].armed /\ tm[j].seq = pd.seq /\ k \in tm[j].f
        BY <2>4, <2>5, <2>9, <4>3 DEF Pending
      <4>4. CASE \E y \in flying : y.seq = pd.seq /\ k \in y.ms
        BY <1>1, <2>4, <4>1, <4>4 DEF Pending
      <4> QED
        BY <4>2, <4>3, <4>4 DEF Pending
    <3> QED
      BY <2>4, <3>1 DEF Covered
  <2>13. Asked'
    BY <1>1, <2>3, <2>4, <2>7 DEF Timed, Asked
  <2>14. Launched'
    <3>1. ASSUME NEW y \in flying, y # x
          PROVE  /\ y.seq <= pd.seq /\ y.ms # {}
                 /\ y.seq = pd.seq => /\ tm'[Owner(y.ms)].f = y.ms /\ ~tm'[Owner(y.ms)].armed
                                      /\ \A k \in y.ms : d[k] > 0 /\ due[k]
      <4>1. y.seq <= pd.seq /\ y.ms # {} /\ y.ms \in SUBSET AllModes
        BY <2>2 DEF Timed, Launched
      <4>2. CASE y.seq = pd.seq
        <5>1. /\ tm[Owner(y.ms)].f = y.ms /\ ~tm[Owner(y.ms)].armed
              /\ \A k \in y.ms : pd.d[k] > 0 /\ due[k]
          BY <4>2 DEF Timed, Launched
        <5>2. x.ms \cap y.ms = {} /\ Owner(y.ms) \notin x.ms /\ Owner(y.ms) \in AllModes
          BY <1>3, <3>1, <4>2, Apart DEF Owner, AllModes
        <5> QED
          BY <2>3, <2>5, <4>1, <5>1, <5>2
      <4> QED
        BY <4>1, <4>2
    <3>2. Launched' <=> \A y \in flying' :
            /\ y.seq <= pd'.seq /\ y.ms # {}
            /\ y.seq = pd'.seq => /\ tm'[Owner(y.ms)].f = y.ms /\ ~tm'[Owner(y.ms)].armed
                                  /\ \A k \in y.ms : pd'.d[k] > 0 /\ due'[k]
      BY DEF Launched, Owner
    <3> QED
      BY <1>1, <2>4, <3>1, <3>2
  <2> QED
    BY <2>10, <2>11, <2>12, <2>13, <2>14 DEF Timed
<1> QED
  BY <1>2, <1>3

LEMMA TimedStep ==
  ASSUME TypeOK, Owned, Timed, [Next]_vars
  PROVE  Timed'
<1>1. ASSUME UNCHANGED <<tm, flying, due, pd>> PROVE Timed'
  BY <1>1, TimedFrame
<1>2. CASE UNCHANGED vars
  BY <1>1, <1>2 DEF vars
<1>3. ASSUME NEW g \in G, Inner(g) PROVE Timed'
  <2>1. UNCHANGED <<tm, flying, due>> /\ Mode(g) \in AllModes
    BY <1>3, InnerMoves
  <2>2. pd' = pd \/ \E x \in {"nil", "wait", g} : pd' = [pd EXCEPT !.g[Mode(g)] = x]
    BY <1>3, InnerMoves
  <2>3. pd'.fd = pd.fd /\ pd'.closing = pd.closing /\ pd'.seq = pd.seq /\ pd'.d = pd.d
    BY <2>1, <2>2, Storing
  <2> QED
    BY <2>1, <2>3, TimedFrame
<1>4. ASSUME NEW m \in AllModes, NEW b \in BOOLEAN, netpollunblock(m, b), UNCHANGED <<tm, flying, due>>
      PROVE  Timed'
  <2>1. pd' = pd \/ \E x \in {"nil", "ready"} : pd' = [pd EXCEPT !.g[m] = x]
    BY <1>4 DEF netpollunblock
  <2>2. pd'.fd = pd.fd /\ pd'.closing = pd.closing /\ pd'.seq = pd.seq /\ pd'.d = pd.d
    BY <2>1, Storing
  <2> QED
    BY <1>4, <2>2, TimedFrame
<1>5. ASSUME NEW g \in G, pollClose(g) PROVE Timed'
  <2>1. UNCHANGED <<tm, flying, due>> /\ pd' = [pd EXCEPT !.fd = None]
    BY <1>5 DEF pollClose
  <2>2. pd'.fd = None /\ pd'.closing = pd.closing /\ pd'.seq = pd.seq /\ pd'.d = pd.d
    BY <2>1 DEF TypeOK, PollDesc
  <2>3. pd.closing
    <3>1. /\ Fd(g) \in Fds /\ pd.fd = Fd(g) /\ mu[Fd(g)].closed /\ mu[Fd(g)].refs = 0
      BY <1>5, Kinds DEF pollClose, Owned, Callers, At, Ending
    <3>2. \A h \in G : ~At(h, "evict")
      BY <3>1, NobodyUses DEF Owned, Callers, At, Using
    <3> QED
      BY <3>1, <3>2, FDAssumption DEF Owned, Evicted
  <2> QED
    BY <2>1, <2>2, <2>3, TimedFrame
<1>6. ASSUME NEW g \in G, Step(g) PROVE Timed'
  <2>1. CASE rwlock(g) \/ Semacquire(g)
    BY <1>1, <2>1 DEF rwlock, Semacquire, pollVars, envVars
  <2>2. CASE rwunlock(g) \/ Unlock(g) \/ decref(g)
    BY <1>1, <2>2 DEF rwunlock, Unlock, decref, pollVars, envVars
  <2>3. CASE CloseFunc(g) \/ WaitClosed(g)
    BY <1>1, <2>3 DEF CloseFunc, WaitClosed, pollVars, envVars
  <2> QED
    BY <1>3, <1>5, <1>6, <2>1, <2>2, <2>3, TimedUnblock, TimedSet DEF Step, Inner
<1>7. CASE Runtime
  <2>1. ASSUME NEW m \in AllModes, Unblock(m) PROVE Timed'
    BY <1>4, <2>1 DEF Unblock, envVars
  <2>2. ASSUME NEW m \in Modes, netpollready(m) PROVE Timed'
    <3>1. m \in AllModes
      BY FDAssumption DEF AllModes
    <3> QED
      BY <1>4, <2>2, <3>1 DEF netpollready
  <2>3. CASE TimerUnlocks
    BY <1>1, <2>3 DEF TimerUnlocks, envVars
  <2> QED
    BY <1>7, <2>1, <2>2, <2>3 DEF Runtime
<1>8. ASSUME NEW g \in G, NEW f \in Usable,
             \/ increfAndClose(g, f)
             \/ \E m \in Modes : Call(g, f, m)
             \/ \E d \in Sets, ms \in Both : SetDeadline(g, f, d, ms)
      PROVE  Timed'
  BY <1>1, <1>8 DEF increfAndClose, Call, SetDeadline, pollVars
<1>9. ASSUME NEW m \in Modes, Arrive(m) PROVE Timed'
  BY <1>1, <1>9 DEF Arrive, pollVars
<1>10. CASE Next
  BY <1>6, <1>7, <1>8, <1>9, <1>10, TimedOpen, TimedFires, TimedRuns DEF Next
<1> QED
  BY <1>2, <1>10

----------------------------------------------------------------------------
LEMMA InitInv == Init => IInv
<1> SUFFICES ASSUME Init PROVE IInv
  OBVIOUS
<1>1. \A g \in G : st[g] = Idle /\ st[g].pc = "idle" /\ st[g].pc \notin Using \cup Ending \cup Waits
  BY DEF Init, Idle, Using, IO, Ending, Waits
<1>2. TypeOK
  <2>1. pd \in PollDesc
    BY DEF Init, PollDesc
  <2>2. tm \in [AllModes -> [f : SUBSET AllModes, armed : BOOLEAN, seq : Nat]]
    BY DEF Init, NoTimer
  <2>3. mu \in [Fds -> FdMutex]
    BY DEF Init, FdMutex
  <2>4. /\ sema \in [Fds -> [AllModes -> Nat]] /\ csema \in [Fds -> Nat]
        /\ sys \in [Fds -> {"none", "open", "closed"}]
        /\ due \in [AllModes -> BOOLEAN]
    BY DEF Init
  <2>5. /\ pl = None /\ flying = {} /\ avail = {} /\ events = {}
        /\ st \in [G -> {Idle} \cup IOCall \cup CloseCall \cup DeadlineCall]
    BY DEF Init
  <2> QED
    BY <2>1, <2>2, <2>3, <2>4, <2>5 DEF TypeOK
<1>3. Owned
  <2>1. \A f \in Fds : Users(f) = {}
    BY <1>1 DEF Users
  <2>2. Counts
    BY <2>1, FS_EmptySet DEF Counts, Init
  <2>3. pd.fd = None /\ ~pd.closing
    BY DEF Init
  <2>4. Descriptors
    BY <2>3, FDAssumption DEF Descriptors, Init
  <2>5. Callers /\ Alone
    BY <1>1 DEF Callers, Alone, At
  <2> QED
    BY <2>2, <2>3, <2>4, <2>5 DEF Owned, Evicted
<1>4. Locked
  BY <1>1 DEF Locked, Using
<1>5. Slots
  <2>1. \A m \in AllModes : pd.g[m] = "nil"
    BY DEF Init
  <2> QED
    BY <1>1, <2>1, FDAssumption DEF Slots, Parked
<1>6. Holding /\ Unblocked /\ Notified
  BY <1>1 DEF Holding, Unblocked, Notified, At, Parked
<1>7. Timed
  <2>1. /\ tm = [m \in AllModes |-> NoTimer] /\ flying = {} /\ pd.fd = None
        /\ \A m \in AllModes : pd.d[m] = 0
    BY DEF Init
  <2>2. \A m \in AllModes : tm[m].f = {} /\ ~tm[m].armed
    BY <2>1 DEF NoTimer
  <2> QED
    BY <2>1, <2>2 DEF Timed, Disarmed, Shapes, Covered, Asked, Launched
<1> QED
  BY <1>2, <1>3, <1>4, <1>5, <1>6, <1>7 DEF IInv

(* The invariant holds in every reachable state: the reference count is    *)
(* the number of calls past their lock or incref and before their unlock   *)
(* or decref, rg and wg belong to who has the lock for the mode, and every *)
(* deadline to come has a timer that is not stale.                         *)
THEOREM Invariance == Spec => []IInv
<1>1. IInv /\ [Next]_vars => IInv'
  <2> SUFFICES ASSUME IInv, [Next]_vars PROVE IInv'
    OBVIOUS
  <2>1. TypeOK' /\ Owned'
    BY TypeStep, OwnedStep DEF IInv
  <2>2. Locked' /\ Timed'
    BY LockedStep, TimedStep DEF IInv
  <2>3. WaitStep
    BY WaitSteps DEF IInv
  <2>4. Slots' /\ Holding' /\ Unblocked' /\ Notified'
    BY <2>3, SlotsStep, HoldingStep, UnblockedStep, NotifiedStep DEF IInv
  <2> QED
    BY <2>1, <2>2, <2>4 DEF IInv
<1> QED
  BY <1>1, InitInv, PTL DEF Spec

(* A deadline that was replaced, or set for an FD that is gone, strikes    *)
(* nobody (seq in netpolldeadlineimpl, netpoll.go:405-439).                *)
THEOREM NothingStale == Spec => []NoStaleDeadline
<1>1. IInv => NoStaleDeadline
  BY DEF IInv, Timed, Asked, NoStaleDeadline
<1> QED
  BY <1>1, Invariance, PTL

(* No throw of netpoll.go and no panic of fd_mutex.go is reached, and a    *)
(* call that has a reference finds the descriptor and the pollDesc of its  *)
(* own FD, which is destroyed once.                                        *)
THEOREM Outlives == Spec => []DescriptorOutlivesUse
<1>1. IInv => DescriptorOutlivesUse
  <2> SUFFICES ASSUME IInv PROVE DescriptorOutlivesUse
    OBVIOUS
  <2>1. TypeOK /\ Owned /\ Locked /\ Slots /\ Timed
    BY DEF IInv
  <2>2. ASSUME NEW g \in G
        PROVE  /\ At(g, "block") => pd.g[Mode(g)] \in {"nil", "ready"}
               /\ At(g, "xchg") => pd.g[Mode(g)] \notin G
    BY <2>1, Slot, FDAssumption DEF At, IO
  <2>3. ASSUME NEW g \in G, At(g, "pollClose")
        PROVE  pd.closing /\ \A m \in AllModes : pd.g[m] \in {"nil", "ready"}
    <3>1. /\ Fd(g) \in Fds /\ pd.fd = Fd(g) /\ mu[Fd(g)].closed /\ mu[Fd(g)].refs = 0
      BY <2>1, <2>3, Kinds DEF Owned, Callers, At, Ending
    <3>2. \A h \in G : st[h].pc \notin Using
      BY <2>1, <3>1, Referenced
    <3>3. pd.closing
      BY <2>1, <3>1, <3>2, FDAssumption DEF Owned, Evicted, At, Using
    <3>4. ASSUME NEW m \in AllModes PROVE pd.g[m] \in {"nil", "ready"}
      <4>1. pd.g[m] \in {"nil", "ready", "wait"} \cup G
        BY <2>1 DEF TypeOK, PollDesc
      <4> QED
        BY <2>1, <3>2, <4>1 DEF Slots, Parked, Using, IO
    <3> QED
      BY <3>3, <3>4
  <2>4. ASSUME NEW g \in G
        PROVE  /\ At(g, "evict") => ~pd.closing
               /\ At(g, "rwunlock") => Mode(g) \in mu[Fd(g)].lock /\ mu[Fd(g)].refs > 0
               /\ At(g, "decref") => mu[Fd(g)].refs > 0
    BY <2>1, Referenced DEF Owned, Callers, Locked, At, Using, IO
  <2>5. ASSUME NEW x \in flying, x.seq = pd.seq
        PROVE  /\ \A m \in x.ms : pd.d[m] > 0
               /\ tm[IF "r" \in x.ms THEN "r" ELSE "w"].f # {}
    BY <2>1, <2>5 DEF Timed, Launched, Owner
  <2>6. ASSUME NEW g \in G, st[g].pc \notin {"idle", "rwlock", "sema", "csema", "close"}
        PROVE  pd.fd = Fd(g) /\ sys[Fd(g)] = "open"
    <3>1. st[g].pc \in Using \cup {"pollClose"}
      BY <2>1, <2>6, Kinds DEF Calls, IOCall, CloseCall, DeadlineCall, Using, Ending, At
    <3>2. CASE st[g].pc \in Using
      BY <2>1, <3>2, Referenced
    <3>3. CASE st[g].pc = "pollClose"
      BY <2>1, <3>3 DEF Owned, Callers, At, Ending
    <3> QED
      BY <3>1, <3>2, <3>3
  <2>7. \A f \in Fds : csema[f] <= 1
    BY <2>1 DEF Owned, Descriptors
  <2>8. NeverThrows
    BY <2>2, <2>3, <2>4, <2>5 DEF NeverThrows
  <2> QED
    BY <2>6, <2>7, <2>8 DEF DescriptorOutlivesUse
<1> QED
  BY <1>1, Invariance, PTL

(* What should wake a goroutine that is parked for I/O will: no event, no  *)
(* close and no deadline is lost between the checks and the park           *)
(* (netpoll.go:362-364, 405-439).                                          *)
THEOREM ParkedIsOwed == Spec => []ParkedWillWake
<1>1. IInv => ParkedWillWake
  <2> SUFFICES ASSUME IInv, NEW g \in G, Parked(g)
               PROVE  /\ pd.g[Mode(g)] = g
                      /\ Mode(g) \in avail => Mode(g) \in events
                      /\ Err(Mode(g)) => pl # None /\ Mode(g) \in pl.todo
                      /\ pd.d[Mode(g)] > 0 /\ ~pd.closing => Pending(Mode(g))
    BY DEF ParkedWillWake, Pending
  <2>1. pd.g[Mode(g)] = g
    BY DEF IInv, Slots
  <2>2. Mode(g) \in avail => Mode(g) \in events
    BY <2>1, FDAssumption DEF IInv, Notified, Parked, Waits
  <2>3. Err(Mode(g)) => pl # None /\ Mode(g) \in pl.todo
    BY DEF IInv, Unblocked
  <2>4. Mode(g) \in AllModes /\ pd.fd # None
    BY Slot, Referenced, FDAssumption DEF IInv, Parked, Using, IO
  <2>5. pd.d[Mode(g)] > 0 /\ ~pd.closing => Pending(Mode(g))
    BY <2>4 DEF IInv, Timed, Covered
  <2> QED
    BY <2>1, <2>2, <2>3, <2>5
<1> QED
  BY <1>1, Invariance, PTL
----------------------------------------------------------------------------
(* How calls on a closed FD get out.  Who sleeps for a lock has been       *)
(* counted; a closed FD without references is being destroyed; one call    *)
(* waits for that; and pd.lock is held by a goroutine or a timer.          *)
Sleepers(f, m) == {g \in G : At(g, "sema") /\ Fd(g) = f /\ Mode(g) = m}

SleepersCounted ==
  \A f \in Fds, m \in AllModes :
    /\ IsFiniteSet(Sleepers(f, m))
    /\ Cardinality(Sleepers(f, m)) = sema[f][m] + mu[f].wait[m]
    /\ mu[f].closed => mu[f].wait[m] = 0

Destroyed ==
  \A f \in Fds : mu[f].closed /\ mu[f].refs = 0 /\ sys[f] = "open" =>
    \E g \in G : st[g].pc \in Ending /\ Fd(g) = f

Closing(g) == ~At(g, "idle") /\ Mode(g) = "close"

Closers ==
  /\ \A g \in G : Closing(g) => mu[Fd(g)].closed
  /\ \A g, h \in G : Closing(g) /\ Closing(h) /\ Fd(g) = Fd(h) => g = h
  /\ \A g \in G : At(g, "csema") => csema[Fd(g)] > 0 \/ sys[Fd(g)] = "open"

Held == pl # None => pl.by = "timer" \/ (pl.by \in G /\ At(pl.by, "locked"))

Exits == SleepersCounted /\ Destroyed /\ Closers

(* Steps that leave fdmu, the semaphores and the descriptor alone.         *)
SamePlace(h) ==
  /\ \A l \in {"idle", "sema", "csema"} : st'[h].pc = l <=> st[h].pc = l
  /\ st'[h].pc \in Ending <=> st[h].pc \in Ending
  /\ st[h].pc # "idle" => st'[h].fd = st[h].fd /\ st'[h].m = st[h].m

Plain == UNCHANGED fdVars /\ \A h \in G : SamePlace(h)

LEMMA PlainKeeps ==
  ASSUME Exits, Plain
  PROVE  Exits'
<1>1. SleepersCounted'
  <2>1. \A f \in Fds, m \in AllModes : Sleepers(f, m)' = Sleepers(f, m)
    BY DEF Sleepers, Plain, SamePlace, At, Fd, Mode
  <2> QED
    BY <2>1 DEF Exits, SleepersCounted, Plain, fdVars
<1>2. Destroyed'
  <2>1. \A h \in G : st[h].pc \in Ending => st'[h].pc \in Ending /\ Fd(h)' = Fd(h)
    BY DEF Plain, SamePlace, Ending, Fd
  <2> QED
    BY <2>1 DEF Exits, Destroyed, Plain, fdVars
<1>3. Closers'
  <2>1. \A h \in G : /\ Closing(h)' <=> Closing(h)
                     /\ At(h, "csema")' <=> At(h, "csema")
                     /\ Closing(h) \/ At(h, "csema") => Fd(h)' = Fd(h)
    BY DEF Plain, SamePlace, Closing, At, Fd, Mode
  <2> QED
    BY <2>1 DEF Exits, Closers, Plain, fdVars
<1> QED
  BY <1>1, <1>2, <1>3 DEF Exits

(* What one goroutine does on its own.                                     *)
LEMMA PlainBy ==
  ASSUME NEW g \in G, NEW l, Moves(g, l), UNCHANGED fdVars,
         st[g].pc \notin {"idle", "sema", "csema"}, l \notin {"idle", "sema", "csema"},
         st[g].pc \in Ending <=> l \in Ending
  PROVE  Plain
  BY DEF Moves, Plain, SamePlace

LEMMA PlainWake ==
  ASSUME TypeOK, NEW m \in AllModes, NEW b \in BOOLEAN, netpollunblock(m, b), UNCHANGED fdVars
  PROVE  Plain
<1>1. \A h \in G : \/ st'[h] = st[h]
                   \/ Parked(h) /\ st'[h].pc = "xchg" /\ st'[h].fd = st[h].fd /\ st'[h].m = st[h].m
  BY Waking
<1> QED
  BY <1>1 DEF Plain, SamePlace, Parked, Ending

LEMMA PlainStays ==
  ASSUME UNCHANGED <<fdVars, st>>
  PROVE  Plain
  BY DEF Plain, SamePlace, fdVars

LEMMA PlainInner ==
  ASSUME TypeOK, NEW g \in G, Inner(g)
  PROVE  Plain
<1>1. PICK l \in IO \ {"prepare"} : Moves(g, l)
  BY InnerMoves
<1>2. UNCHANGED fdVars /\ st[g].pc \in IO
  BY InnerMoves
<1>3. st[g].pc \notin {"idle", "sema", "csema"} \cup Ending /\ l \notin {"idle", "sema", "csema"} \cup Ending
  BY <1>1, <1>2 DEF IO, Ending
<1> QED
  BY <1>1, <1>2, <1>3, PlainBy

LEMMA PlainCalls ==
  ASSUME TypeOK, NEW g \in G, Unlock(g) \/ pollUnblock(g) \/ pollSetDeadline(g) \/ pollClose(g)
  PROVE  Plain
<1>1. UNCHANGED fdVars
  BY DEF Unlock, pollUnblock, pollSetDeadline, pollClose
<1>2. CASE Unlock(g)
  <2>1. st[g].pc = "locked" /\ Goto(g, "decref")
    BY <1>2 DEF Unlock, At
  <2>2. Moves(g, "decref")
    BY <2>1, Kinds, Going DEF Allowed
  <2> QED
    BY <1>1, <2>1, <2>2, PlainBy DEF Ending
<1>3. CASE pollUnblock(g)
  <2>1. st[g].pc = "evict" /\ Goto(g, "locked")
    BY <1>3 DEF pollUnblock, At
  <2>2. Moves(g, "locked")
    BY <2>1, Kinds, Going DEF Allowed
  <2> QED
    BY <1>1, <2>1, <2>2, PlainBy DEF Ending
<1>4. CASE pollSetDeadline(g)
  <2>1. st[g].pc = "deadline" /\ \E l \in {"locked", "decref"} : Goto(g, l)
    BY <1>4 DEF pollSetDeadline, At
  <2>2. PICK l \in {"locked", "decref"} : Moves(g, l)
    BY <2>1, Kinds, Going DEF Allowed, At
  <2> QED
    BY <1>1, <2>1, <2>2, PlainBy DEF Ending
<1>5. CASE pollClose(g)
  <2>1. st[g].pc = "pollClose" /\ Goto(g, "close") /\ st[g] \in Calls
    BY <1>5, Kinds DEF pollClose, At
  <2>2. Moves(g, "close")
    BY <2>1, Going DEF Allowed, Calls, Ending
  <2> QED
    BY <1>1, <2>1, <2>2, PlainBy DEF Ending
<1> QED
  BY <1>2, <1>3, <1>4, <1>5

----------------------------------------------------------------------------
(* The counts of the sleepers.                                             *)
SameSleep(h) ==
  /\ st'[h].pc = "sema" <=> st[h].pc = "sema"
  /\ st[h].pc = "sema" => st'[h].fd = st[h].fd /\ st'[h].m = st[h].m

LEMMA AsleepSame ==
  ASSUME SleepersCounted, \A h \in G : SameSleep(h),
         \A f \in Fds, m \in AllModes :
           /\ sema'[f][m] + mu'[f].wait[m] = sema[f][m] + mu[f].wait[m]
           /\ mu'[f].closed => mu'[f].wait[m] = 0
  PROVE  SleepersCounted'
<1>1. \A f \in Fds, m \in AllModes : Sleepers(f, m)' = Sleepers(f, m)
  BY DEF Sleepers, SameSleep, At, Fd, Mode
<1> QED
  BY <1>1 DEF SleepersCounted

LEMMA SleepersOf ==
  ASSUME TypeOK, NEW g \in G, NEW f \in Fds, NEW m \in AllModes,
         \A h \in G \ {g} : st'[h] = st[h]
  PROVE  /\ st[g].pc # "sema" /\ st'[g].pc = "sema" /\ st'[g].fd = f /\ st'[g].m = m =>
              /\ g \notin Sleepers(f, m)
              /\ \A e \in Fds, k \in AllModes : Sleepers(e, k)' =
                   IF e = f /\ k = m THEN Sleepers(e, k) \cup {g} ELSE Sleepers(e, k)
         /\ st[g].pc = "sema" /\ st'[g].pc # "sema" /\ st[g].fd = f /\ st[g].m = m =>
              /\ g \in Sleepers(f, m)
              /\ \A e \in Fds, k \in AllModes : Sleepers(e, k)' =
                   IF e = f /\ k = m THEN Sleepers(e, k) \ {g} ELSE Sleepers(e, k)
  BY DEF Sleepers, At, Fd, Mode

LEMMA SleepersLock ==
  ASSUME TypeOK, SleepersCounted, NEW g \in G, rwlock(g)
  PROVE  SleepersCounted'
<1> DEFINE f == Fd(g)
           m == Mode(g)
<1>1. /\ f \in Fds /\ m \in AllModes /\ st[g].pc = "rwlock" /\ sema' = sema
      /\ mu[f] \in FdMutex /\ mu \in [Fds -> FdMutex]
  BY rwlockDoes DEF rwlock, At, TypeOK
<1>2. CASE mu' = mu /\ (\A h \in G \ {g} : st'[h] = st[h]) /\ st'[g] = Idle
  <2>1. \A h \in G : SameSleep(h)
    BY <1>1, <1>2 DEF SameSleep, Idle
  <2> QED
    BY <1>1, <1>2, <2>1, AsleepSame DEF SleepersCounted
<1>3. CASE /\ ~mu[f].closed
           /\ mu' = [mu EXCEPT ![f] = [mu[f] EXCEPT !.wait[m] = @ + 1]]
           /\ Moves(g, "sema")
  <2>1. /\ \A e \in Fds \ {f} : mu'[e] = mu[e]
        /\ ~mu'[f].closed /\ mu'[f].wait = [mu[f].wait EXCEPT ![m] = @ + 1]
        /\ mu[f].wait \in [AllModes -> Nat]
    BY <1>1, <1>3 DEF FdMutex
  <2>2. /\ g \notin Sleepers(f, m)
        /\ \A e \in Fds, k \in AllModes : Sleepers(e, k)' =
             IF e = f /\ k = m THEN Sleepers(e, k) \cup {g} ELSE Sleepers(e, k)
    BY <1>1, <1>3, SleepersOf DEF Moves, Fd, Mode
  <2>3. IsFiniteSet(Sleepers(f, m)) /\ Cardinality(Sleepers(f, m)) = sema[f][m] + mu[f].wait[m]
    BY <1>1 DEF SleepersCounted
  <2>4. /\ IsFiniteSet(Sleepers(f, m) \cup {g})
        /\ Cardinality(Sleepers(f, m) \cup {g}) = Cardinality(Sleepers(f, m)) + 1
    BY <2>2, <2>3, FS_AddElement
  <2>5. sema[f][m] \in Nat /\ mu[f].wait[m] \in Nat
    BY <1>1, <2>1 DEF TypeOK
  <2> HIDE DEF f, m
  <2>6. ASSUME NEW e \in Fds, NEW k \in AllModes
        PROVE  /\ IsFiniteSet(Sleepers(e, k)')
               /\ Cardinality(Sleepers(e, k)') = sema'[e][k] + mu'[e].wait[k]
               /\ mu'[e].closed => mu'[e].wait[k] = 0
    <3>1. CASE e = f /\ k = m
      <4>1. Sleepers(e, k)' = Sleepers(f, m) \cup {g}
        BY <1>1, <2>2, <3>1
      <4>2. mu'[e].wait[k] = mu[f].wait[m] + 1 /\ sema'[e][k] = sema[f][m] /\ ~mu'[e].closed
        BY <1>1, <2>1, <3>1
      <4>3. Cardinality(Sleepers(f, m) \cup {g}) = sema[f][m] + (mu[f].wait[m] + 1)
        BY <2>3, <2>4, <2>5
      <4> QED
        BY <2>4, <4>1, <4>2, <4>3
    <3>2. CASE ~(e = f /\ k = m)
      <4>1. Sleepers(e, k)' = Sleepers(e, k) /\ mu'[e].wait[k] = mu[e].wait[k] /\ mu'[e].closed = mu[e].closed
        BY <1>3, <2>1, <2>2, <3>2
      <4> QED
        BY <1>1, <4>1 DEF SleepersCounted
    <3> QED
      BY <3>1, <3>2
  <2> QED
    BY <2>6 DEF SleepersCounted
<1>4. CASE /\ ~mu[f].closed
           /\ mu' = [mu EXCEPT ![f] = [mu[f] EXCEPT !.lock = @ \cup {m}, !.refs = @ + 1]]
           /\ Moves(g, "prepare")
  <2>1. \A e \in Fds : mu'[e].wait = mu[e].wait /\ mu'[e].closed = mu[e].closed
    BY <1>1, <1>4 DEF FdMutex
  <2>2. \A h \in G : SameSleep(h)
    BY <1>1, <1>4 DEF SameSleep, Moves
  <2> QED
    BY <1>1, <2>1, <2>2, AsleepSame DEF SleepersCounted
<1> QED
  BY <1>2, <1>3, <1>4, rwlockDoes

LEMMA SleepersAcquire ==
  ASSUME TypeOK, SleepersCounted, NEW g \in G, Semacquire(g)
  PROVE  SleepersCounted' /\ Moves(g, "rwlock") /\ st[g].pc = "sema" /\ UNCHANGED <<mu, csema, sys>>
<1> DEFINE f == Fd(g)
           m == Mode(g)
<1>1. /\ st[g].pc = "sema" /\ sema[f][m] > 0 /\ Goto(g, "rwlock") /\ UNCHANGED <<mu, csema, sys>>
      /\ sema' = [sema EXCEPT ![f][m] = @ - 1]
  BY DEF Semacquire, At
<1>2. f \in Fds /\ m \in AllModes
  BY <1>1, Kinds, FDAssumption DEF Calls, AllModes
<1>3. Moves(g, "rwlock")
  BY <1>1, Kinds, Going DEF Allowed
<1>4. /\ g \in Sleepers(f, m)
      /\ \A e \in Fds, k \in AllModes : Sleepers(e, k)' =
           IF e = f /\ k = m THEN Sleepers(e, k) \ {g} ELSE Sleepers(e, k)
  BY <1>1, <1>2, <1>3, SleepersOf DEF Moves, Fd, Mode
<1>5. /\ IsFiniteSet(Sleepers(f, m)) /\ Cardinality(Sleepers(f, m)) = sema[f][m] + mu[f].wait[m]
      /\ sema[f][m] \in Nat /\ mu[f].wait[m] \in Nat
  BY <1>2 DEF SleepersCounted, TypeOK, FdMutex
<1>6. /\ IsFiniteSet(Sleepers(f, m) \ {g})
      /\ Cardinality(Sleepers(f, m) \ {g}) = Cardinality(Sleepers(f, m)) - 1
  BY <1>4, <1>5, FS_RemoveElement
<1>7. /\ sema'[f][m] = sema[f][m] - 1
      /\ \A e \in Fds, k \in AllModes : ~(e = f /\ k = m) => sema'[e][k] = sema[e][k]
  BY <1>1, <1>2 DEF TypeOK
<1> HIDE DEF f, m
<1>8. ASSUME NEW e \in Fds, NEW k \in AllModes
      PROVE  /\ IsFiniteSet(Sleepers(e, k)')
             /\ Cardinality(Sleepers(e, k)') = sema'[e][k] + mu'[e].wait[k]
             /\ mu'[e].closed => mu'[e].wait[k] = 0
  <2>1. mu'[e].closed => mu'[e].wait[k] = 0
    BY <1>1 DEF SleepersCounted
  <2>2. CASE e = f /\ k = m
    <3>1. Sleepers(e, k)' = Sleepers(f, m) \ {g}
      BY <1>2, <1>4, <2>2
    <3>2. sema'[e][k] = sema[f][m] - 1 /\ mu'[e].wait[k] = mu[f].wait[m]
      BY <1>1, <1>7, <2>2
    <3>3. Cardinality(Sleepers(f, m) \ {g}) = (sema[f][m] - 1) + mu[f].wait[m]
      BY <1>5, <1>6
    <3> QED
      BY <1>6, <2>1, <3>1, <3>2, <3>3
  <2>3. CASE ~(e = f /\ k = m)
    <3>1. Sleepers(e, k)' = Sleepers(e, k) /\ sema'[e][k] = sema[e][k]
      BY <1>4, <1>7, <2>3
    <3> QED
      BY <1>1, <2>1, <3>1 DEF SleepersCounted
  <2> QED
    BY <2>2, <2>3
<1> QED
  BY <1>1, <1>3, <1>8 DEF SleepersCounted

LEMMA SleepersRelease ==
  ASSUME TypeOK, Owned, SleepersCounted, NEW g \in G, rwunlock(g) \/ decref(g)
  PROVE  SleepersCounted'
<1> DEFINE f == Fd(g)
           m == Mode(g)
<1>1. Releases(g) /\ st[g].pc \in {"rwunlock", "decref"} /\ (At(g, "rwunlock") => m \in AllModes)
  BY Releasing, Kinds, FDAssumption DEF AllModes, At, IO
<1>2. f \in Fds /\ mu[f] \in FdMutex /\ \A e \in Fds \ {f} : mu'[e] = mu[e]
  BY <1>1 DEF Releases, TypeOK
<1>3. \A h \in G : SameSleep(h)
  BY <1>1 DEF Releases, Moves, SameSleep, Idle
<1>4. CASE rwunlock(g)
  <2> DEFINE wakes == mu[f].wait[m] > 0
             w == [mu[f].wait EXCEPT ![m] = IF wakes THEN @ - 1 ELSE @]
  <2>1. /\ mu' = [mu EXCEPT ![f] = [mu[f] EXCEPT !.lock = @ \ {m}, !.refs = @ - 1, !.wait = w]]
        /\ sema' = [sema EXCEPT ![f][m] = IF wakes THEN @ + 1 ELSE @]
        /\ m \in AllModes
    BY <1>1, <1>4 DEF rwunlock
  <2>2. mu'[f].wait = w /\ mu'[f].closed = mu[f].closed
    <3> HIDE DEF w
    <3> QED
      BY <1>2, <2>1 DEF TypeOK, FdMutex
  <2>3. mu[f].wait \in [AllModes -> Nat] /\ \A e \in Fds, k \in AllModes : sema[e][k] \in Nat
    BY <1>2 DEF FdMutex, TypeOK
  <2>4. /\ \A e \in Fds, k \in AllModes : ~(e = f /\ k = m) => sema'[e][k] = sema[e][k]
        /\ sema'[f][m] = IF wakes THEN sema[f][m] + 1 ELSE sema[f][m]
    BY <1>2, <2>1 DEF TypeOK
  <2>5. ASSUME NEW e \in Fds, NEW k \in AllModes
        PROVE  /\ sema'[e][k] + mu'[e].wait[k] = sema[e][k] + mu[e].wait[k]
               /\ mu'[e].closed => mu'[e].wait[k] = 0
    <3>1. mu[e].closed => mu[e].wait[k] = 0
      BY DEF SleepersCounted
    <3>2. CASE e = f /\ k = m
      <4>1. mu[f].wait[m] \in Nat /\ sema[f][m] \in Nat
        BY <2>1, <2>3, <1>2
      <4>2. w[m] = IF wakes THEN mu[f].wait[m] - 1 ELSE mu[f].wait[m]
        BY <2>1, <2>3
      <4> HIDE DEF w, f, m
      <4> QED
        BY <2>2, <2>4, <3>1, <3>2, <4>1, <4>2
    <3>3. CASE e = f /\ k # m
      <4>1. w[k] = mu[f].wait[k]
        BY <2>3, <3>3
      <4> HIDE DEF w, f, m
      <4> QED
        BY <2>2, <2>4, <3>1, <3>3, <4>1
    <3>4. CASE e # f
      <4> HIDE DEF w, f, m
      <4> QED
        BY <1>2, <2>4, <3>1, <3>4
    <3> QED
      BY <3>2, <3>3, <3>4
  <2> QED
    BY <1>3, <2>5, AsleepSame
<1>5. CASE decref(g)
  <2>1. mu' = [mu EXCEPT ![f] = [mu[f] EXCEPT !.refs = @ - 1]] /\ sema' = sema
    BY <1>5 DEF decref
  <2>2. \A e \in Fds : mu'[e].wait = mu[e].wait /\ mu'[e].closed = mu[e].closed
    BY <1>2, <2>1 DEF TypeOK, FdMutex
  <2> QED
    BY <1>3, <2>1, <2>2, AsleepSame DEF SleepersCounted
<1> QED
  BY <1>4, <1>5

LEMMA SleepersTake ==
  ASSUME TypeOK, SleepersCounted, NEW g \in G, NEW f \in Usable,
         increfAndClose(g, f) \/ \E d \in Sets, ms \in Both : SetDeadline(g, f, d, ms)
  PROVE  SleepersCounted'
<1>1. Takes(g, f) /\ f \in Fds /\ mu[f] \in FdMutex /\ mu \in [Fds -> FdMutex]
  BY Taking DEF Usable, TypeOK
<1>2. \A h \in G : SameSleep(h)
  BY <1>1 DEF Takes, SameSleep, At
<1>3. CASE increfAndClose(g, f)
  <2> DEFINE w == [m \in AllModes |-> 0]
             s == [m \in AllModes |-> sema[f][m] + mu[f].wait[m]]
  <2>1. /\ mu' = [mu EXCEPT ![f] = [mu[f] EXCEPT !.closed = TRUE, !.refs = @ + 1, !.wait = w]]
        /\ sema' = [sema EXCEPT ![f] = s]
    BY <1>1, <1>3 DEF increfAndClose
  <2>2. mu'[f].wait = w /\ \A e \in Fds \ {f} : mu'[e] = mu[e]
    <3> HIDE DEF w
    <3> QED
      BY <1>1, <2>1 DEF FdMutex
  <2>3. sema'[f] = s /\ \A e \in Fds \ {f} : sema'[e] = sema[e]
    <3> HIDE DEF s
    <3> QED
      BY <1>1, <2>1 DEF TypeOK
  <2>4. \A m \in AllModes : w[m] = 0 /\ s[m] = sema[f][m] + mu[f].wait[m] /\ s[m] \in Nat
    BY <1>1 DEF FdMutex, TypeOK
  <2> HIDE DEF w, s
  <2>5. ASSUME NEW e \in Fds, NEW m \in AllModes
        PROVE  /\ sema'[e][m] + mu'[e].wait[m] = sema[e][m] + mu[e].wait[m]
               /\ mu'[e].closed => mu'[e].wait[m] = 0
    BY <2>2, <2>3, <2>4 DEF SleepersCounted
  <2> QED
    BY <1>2, <2>5, AsleepSame
<1>4. ASSUME NEW d \in Sets, NEW ms \in Both, SetDeadline(g, f, d, ms) PROVE SleepersCounted'
  <2>1. mu' = [mu EXCEPT ![f] = [mu[f] EXCEPT !.refs = @ + 1]] /\ sema' = sema
    BY <1>4 DEF SetDeadline
  <2>2. \A e \in Fds : mu'[e].wait = mu[e].wait /\ mu'[e].closed = mu[e].closed
    BY <1>1, <2>1 DEF FdMutex
  <2> QED
    BY <1>2, <2>1, <2>2, AsleepSame DEF SleepersCounted
<1> QED
  BY <1>3, <1>4

----------------------------------------------------------------------------
(* Who destroys an FD, and who waits for it, in the steps that are not     *)
(* plain.                                                                  *)
LEMMA ExitsOpen ==
  ASSUME TypeOK, Owned, Exits, NEW f \in Fds, Open(f)
  PROVE  Exits'
<1>1. /\ UNCHANGED <<mu, sema, csema, st>> /\ sys' = [sys EXCEPT ![f] = "open"] /\ sys[f] = "none"
  BY DEF Open
<1>2. \A e \in Fds : sys'[e] = IF e = f THEN "open" ELSE sys[e]
  BY <1>1 DEF TypeOK
<1>3. ~mu[f].closed
  BY <1>1 DEF Owned, Descriptors
<1>4. SleepersCounted'
  <2>1. \A h \in G : SameSleep(h)
    BY <1>1 DEF SameSleep
  <2> QED
    BY <1>1, <2>1, AsleepSame DEF Exits, SleepersCounted
<1>5. Destroyed'
  BY <1>1, <1>2, <1>3 DEF Exits, Destroyed, Fd
<1>6. Closers'
  <2>1. \A h \in G : At(h, "csema") => Fd(h) \in Fds
    BY Kinds DEF At
  <2> QED
    BY <1>1, <1>2, <2>1 DEF Exits, Closers, Closing, At, Fd, Mode
<1> QED
  BY <1>4, <1>5, <1>6 DEF Exits

LEMMA ExitsCall ==
  ASSUME TypeOK, Exits, NEW g \in G, NEW f \in Usable, NEW m \in Modes, Call(g, f, m)
  PROVE  Exits'
<1>1. /\ UNCHANGED <<mu, sema, csema, sys>> /\ \A h \in G \ {g} : st'[h] = st[h]
      /\ st[g].pc = "idle" /\ st'[g].pc = "rwlock" /\ st'[g].m = m /\ m # "close"
  BY FDAssumption DEF Call, Begin, fdVars, At, TypeOK
<1>2. SleepersCounted'
  <2>1. \A h \in G : SameSleep(h)
    BY <1>1 DEF SameSleep
  <2> QED
    BY <1>1, <2>1, AsleepSame DEF Exits, SleepersCounted
<1>3. Destroyed'
  BY <1>1 DEF Exits, Destroyed, Fd, Ending
<1>4. Closers'
  BY <1>1 DEF Exits, Closers, Closing, At, Fd, Mode
<1> QED
  BY <1>2, <1>3, <1>4 DEF Exits

LEMMA ExitsLock ==
  ASSUME TypeOK, Owned, Exits, NEW g \in G, rwlock(g)
  PROVE  Exits'
<1> DEFINE f == Fd(g)
<1>1. /\ f \in Fds /\ st[g].pc = "rwlock" /\ UNCHANGED <<csema, sys>>
      /\ mu[f] \in FdMutex /\ mu \in [Fds -> FdMutex]
      /\ st[g].m # "close" /\ SleepersCounted'
  <2>1. st[g].m # "close"
    BY rwlockDoes, FDAssumption DEF IOCall
  <2> QED
    BY <2>1, rwlockDoes, SleepersLock DEF rwlock, At, TypeOK, Exits
<1>2. /\ \A h \in G \ {g} : st'[h] = st[h]
      /\ st'[g].pc \in {"idle", "sema", "prepare"}
      /\ st'[g].pc = "idle" \/ st'[g].m = st[g].m
      /\ \A e \in Fds : mu'[e].closed = mu[e].closed /\ (mu[e].closed => mu'[e] = mu[e])
  <2>1. CASE mu' = mu /\ (\A h \in G \ {g} : st'[h] = st[h]) /\ st'[g] = Idle
    BY <2>1 DEF Idle
  <2>2. CASE /\ ~mu[f].closed
             /\ mu' = [mu EXCEPT ![f] = [mu[f] EXCEPT !.wait[Mode(g)] = @ + 1]]
             /\ Moves(g, "sema")
    BY <1>1, <2>2 DEF Moves, FdMutex
  <2>3. CASE /\ ~mu[f].closed
             /\ mu' = [mu EXCEPT ![f] = [mu[f] EXCEPT !.lock = @ \cup {Mode(g)}, !.refs = @ + 1]]
             /\ Moves(g, "prepare")
    BY <1>1, <2>3 DEF Moves, FdMutex
  <2> QED
    BY <2>1, <2>2, <2>3, rwlockDoes
<1>4. Destroyed'
  BY <1>1, <1>2 DEF Exits, Destroyed, Fd, Ending
<1>5. Closers'
  <2>1. \A h \in G : /\ Closing(h)' <=> Closing(h)
                     /\ At(h, "csema")' <=> At(h, "csema")
                     /\ Closing(h) \/ At(h, "csema") => Fd(h)' = Fd(h) /\ Fd(h) \in Fds
    BY <1>1, <1>2, Kinds DEF Closing, At, Fd, Mode
  <2> QED
    BY <1>1, <1>2, <2>1 DEF Exits, Closers
<1> QED
  BY <1>1, <1>4, <1>5 DEF Exits

LEMMA ExitsAcquire ==
  ASSUME TypeOK, Exits, NEW g \in G, Semacquire(g)
  PROVE  Exits'
<1>1. SleepersCounted' /\ Moves(g, "rwlock") /\ st[g].pc = "sema" /\ UNCHANGED <<mu, csema, sys>>
  BY SleepersAcquire DEF Exits
<1>2. Destroyed'
  BY <1>1 DEF Exits, Destroyed, Moves, Fd, Ending
<1>3. Closers'
  BY <1>1 DEF Exits, Closers, Closing, Moves, At, Fd, Mode
<1> QED
  BY <1>1, <1>2, <1>3 DEF Exits

(* The last reference of a closed FD goes to the one who destroys it.      *)
LEMMA ExitsRelease ==
  ASSUME TypeOK, Owned, Exits, NEW g \in G, rwunlock(g) \/ decref(g)
  PROVE  Exits'
<1> DEFINE f == Fd(g)
<1>1. Releases(g) /\ st[g].pc \in {"rwunlock", "decref"}
  BY Releasing
<1>2. /\ f \in Fds /\ sys[f] = "open" /\ UNCHANGED <<csema, sys>>
      /\ \A e \in Fds : mu'[e].closed = mu[e].closed
      /\ \A e \in Fds \ {f} : mu'[e] = mu[e]
  BY <1>1 DEF Releases
<1>3. /\ \A h \in G \ {g} : st'[h] = st[h]
      /\ st'[g].pc \in {"pollClose", "csema", "idle"}
      /\ st'[g].pc # "idle" => st'[g].fd = f /\ st'[g].m = st[g].m
      /\ mu'[f].closed /\ mu'[f].refs = 0 => st'[g].pc = "pollClose"
  BY <1>1 DEF Releases, Moves, Idle, Fd
<1> HIDE DEF f
<1>4. SleepersCounted'
  BY SleepersRelease DEF Exits
<1>5. Destroyed'
  BY <1>1, <1>2, <1>3 DEF Exits, Destroyed, Fd, Ending
<1>6. Closers'
  <2>1. \A h \in G : /\ Closing(h)' => Closing(h)
                     /\ Closing(h)' \/ At(h, "csema")' => Fd(h)' = Fd(h) /\ Fd(h) \in Fds
    BY <1>1, <1>2, <1>3, Kinds DEF Closing, At, Fd, Mode, f
  <2>2. \A h \in G : At(h, "csema")' => At(h, "csema") \/ (h = g /\ Fd(h)' = f)
    BY <1>3 DEF At, Fd
  <2> QED
    BY <1>2, <2>1, <2>2 DEF Exits, Closers
<1> QED
  BY <1>4, <1>5, <1>6 DEF Exits

LEMMA ExitsTake ==
  ASSUME TypeOK, Owned, Exits, NEW g \in G, NEW f \in Usable,
         increfAndClose(g, f) \/ \E d \in Sets, ms \in Both : SetDeadline(g, f, d, ms)
  PROVE  Exits'
<1>1. /\ Takes(g, f) /\ f \in Fds /\ mu[f].refs \in Nat
  BY Taking DEF Usable, TypeOK, FdMutex
<1>2. /\ ~mu[f].closed /\ st[g].pc = "idle" /\ UNCHANGED <<csema, sys>>
      /\ \A e \in Fds \ {f} : mu'[e] = mu[e]
      /\ mu'[f].refs # 0
      /\ \A h \in G \ {g} : st'[h] = st[h]
      /\ st'[g].fd = f
  BY <1>1 DEF Takes, At
<1>3. \/ st'[g].pc = "evict" /\ mu'[f].closed /\ st'[g].m = "close"
      \/ st'[g].pc = "deadline" /\ st'[g].m = "deadline"
  <2>1. CASE increfAndClose(g, f)
    <3>1. st'[g] = [pc |-> "evict", fd |-> f, m |-> "close"]
      BY <2>1 DEF increfAndClose, Begin, TypeOK
    <3> QED
      BY <1>1, <3>1 DEF Takes
  <2>2. ASSUME NEW d \in Sets, NEW ms \in Both, SetDeadline(g, f, d, ms)
        PROVE  st'[g].pc = "deadline" /\ st'[g].m = "deadline"
    <3>1. st'[g] = [pc |-> "deadline", fd |-> f, m |-> "deadline", d |-> d, ms |-> ms]
      BY <2>2 DEF SetDeadline, Begin, TypeOK
    <3> QED
      BY <3>1
  <2> QED
    BY <2>1, <2>2
<1>4. SleepersCounted'
  BY SleepersTake DEF Exits
<1>5. Destroyed'
  BY <1>1, <1>2, <1>3 DEF Exits, Destroyed, Fd, Ending
<1>6. Closers'
  <2>1. \A h \in G \ {g} : /\ Closing(h)' <=> Closing(h)
                           /\ At(h, "csema")' <=> At(h, "csema")
                           /\ Fd(h)' = Fd(h)
                           /\ Closing(h) => Fd(h) \in Fds /\ Fd(h) # f
    BY <1>2, Kinds DEF Exits, Closers, Closing, At, Fd, Mode
  <2>2. ~At(g, "csema")' /\ (Closing(g)' => mu'[f].closed) /\ Fd(g)' = f
    BY <1>2, <1>3 DEF Closing, At, Fd, Mode
  <2> QED
    BY <1>2, <2>1, <2>2 DEF Exits, Closers
<1> QED
  BY <1>4, <1>5, <1>6 DEF Exits

LEMMA ExitsFunc ==
  ASSUME TypeOK, Owned, Exits, NEW g \in G, CloseFunc(g)
  PROVE  Exits'
<1> DEFINE f == Fd(g)
<1>1. /\ st[g].pc = "close" /\ st[g] \in Calls /\ f \in Fds /\ UNCHANGED <<mu, sema>>
      /\ (Mode(g) = "close" => st[g] \in CloseCall)
      /\ sys' = [sys EXCEPT ![f] = "closed"] /\ csema' = [csema EXCEPT ![f] = @ + 1]
  BY Kinds DEF CloseFunc, At
<1>2. \/ Mode(g) = "close" /\ Moves(g, "csema")
      \/ Mode(g) # "close" /\ (\A h \in G \ {g} : st'[h] = st[h]) /\ st'[g] = Idle
  BY <1>1, Going, Returning DEF CloseFunc, Allowed
<1>3. /\ \A e \in Fds : sys'[e] = IF e = f THEN "closed" ELSE sys[e]
      /\ \A e \in Fds : csema'[e] = IF e = f THEN csema[f] + 1 ELSE csema[e]
      /\ csema[f] \in Nat
  BY <1>1 DEF TypeOK
<1>4. /\ \A h \in G \ {g} : st'[h] = st[h]
      /\ st'[g].pc \in {"csema", "idle"}
      /\ st'[g].pc # "idle" => st'[g].fd = f /\ st'[g].m = st[g].m
  BY <1>2 DEF Moves, Idle, Fd
<1> HIDE DEF f
<1>5. SleepersCounted'
  <2>1. \A h \in G : SameSleep(h)
    BY <1>1, <1>4 DEF SameSleep
  <2> QED
    BY <1>1, <2>1, AsleepSame DEF Exits, SleepersCounted
<1>6. Destroyed'
  <2>1. \A h \in G : st[h].pc \in Ending /\ Fd(h) # f => st'[h].pc \in Ending /\ Fd(h)' = Fd(h)
    BY <1>4 DEF Fd, f
  <2> QED
    BY <1>1, <1>3, <2>1 DEF Exits, Destroyed
<1>7. Closers'
  <2>1. \A h \in G : /\ Closing(h)' => Closing(h)
                     /\ Closing(h)' \/ At(h, "csema")' => Fd(h)' = Fd(h) /\ Fd(h) \in Fds
    BY <1>1, <1>4, Kinds DEF Closing, At, Fd, Mode, f
  <2>2. \A h \in G : At(h, "csema")' => At(h, "csema") \/ (h = g /\ Fd(h)' = f)
    BY <1>4 DEF At, Fd
  <2>3. csema'[f] > 0
    BY <1>1, <1>3
  <2> QED
    BY <1>1, <1>3, <2>1, <2>2, <2>3 DEF Exits, Closers
<1> QED
  BY <1>5, <1>6, <1>7 DEF Exits

(* The one call that waits for the FD to be destroyed takes the unit.      *)
LEMMA ExitsWait ==
  ASSUME TypeOK, Exits, NEW g \in G, WaitClosed(g)
  PROVE  Exits'
<1> DEFINE f == Fd(g)
<1>1. /\ st[g].pc = "csema" /\ f \in Fds /\ UNCHANGED <<mu, sema, sys>> /\ Mode(g) = "close"
      /\ csema' = [csema EXCEPT ![f] = @ - 1]
  BY Kinds DEF WaitClosed, At, Calls, CloseCall
<1>2. (\A h \in G \ {g} : st'[h] = st[h]) /\ st'[g] = Idle /\ st'[g].pc = "idle"
  BY Returning DEF WaitClosed
<1>3. SleepersCounted'
  <2>1. \A h \in G : SameSleep(h)
    BY <1>1, <1>2 DEF SameSleep
  <2> QED
    BY <1>1, <2>1, AsleepSame DEF Exits, SleepersCounted
<1>4. Destroyed'
  BY <1>1, <1>2 DEF Exits, Destroyed, Fd, Ending
<1>5. Closers'
  <2>1. \A h \in G \ {g} : At(h, "csema") => Closing(h) /\ Fd(h) \in Fds /\ Fd(h) # f
    <3>1. \A h \in G : At(h, "csema") => Closing(h) /\ Fd(h) \in Fds
      BY Kinds DEF At, Closing, CloseCall, Mode
    <3>2. At(g, "csema")
      BY <1>1 DEF At
    <3> QED
      BY <3>1, <3>2 DEF Exits, Closers
  <2>2. \A e \in Fds : e # f => csema'[e] = csema[e]
    BY <1>1 DEF TypeOK
  <2>3. \A h \in G \ {g} : /\ Closing(h)' <=> Closing(h)
                           /\ At(h, "csema")' <=> At(h, "csema")
                           /\ Fd(h)' = Fd(h)
    BY <1>2 DEF Closing, At, Fd, Mode
  <2>4. ~Closing(g)' /\ ~At(g, "csema")'
    BY <1>2 DEF Closing, At
  <2> HIDE DEF f
  <2> QED
    BY <1>1, <2>1, <2>2, <2>3, <2>4 DEF Exits, Closers
<1> QED
  BY <1>3, <1>4, <1>5 DEF Exits

LEMMA ExitsStep ==
  ASSUME TypeOK, Owned, Exits, [Next]_vars
  PROVE  Exits'
<1>0. CASE UNCHANGED <<fdVars, st>>
  BY <1>0, PlainStays, PlainKeeps
<1>1. CASE UNCHANGED vars
  BY <1>0, <1>1 DEF vars, fdVars
<1>2. ASSUME NEW m \in AllModes, NEW b \in BOOLEAN, netpollunblock(m, b), UNCHANGED fdVars
      PROVE  Exits'
  BY <1>2, PlainWake, PlainKeeps
<1>3. ASSUME NEW m \in AllModes, Unblock(m) PROVE Exits'
  BY <1>2, <1>3 DEF Unblock
<1>4. ASSUME NEW m \in Modes, netpollready(m) PROVE Exits'
  BY <1>2, <1>4, FDAssumption DEF netpollready, AllModes
<1>5. CASE TimerUnlocks
  BY <1>0, <1>5 DEF TimerUnlocks
<1>6. ASSUME NEW m \in Modes, Arrive(m) PROVE Exits'
  BY <1>0, <1>6 DEF Arrive
<1>7. ASSUME NEW m \in AllModes, TimerFires(m) PROVE Exits'
  BY <1>0, <1>7 DEF TimerFires
<1>8. ASSUME NEW x \in flying, netpolldeadlineimpl(x) PROVE Exits'
  BY <1>0, <1>8 DEF netpolldeadlineimpl
<1>9. ASSUME NEW g \in G, Step(g) PROVE Exits'
  <2>1. CASE Inner(g)
    BY <2>1, PlainInner, PlainKeeps
  <2>2. CASE Unlock(g) \/ pollUnblock(g) \/ pollSetDeadline(g) \/ pollClose(g)
    BY <2>2, PlainCalls, PlainKeeps
  <2> QED
    BY <1>9, <2>1, <2>2, ExitsLock, ExitsAcquire, ExitsRelease, ExitsFunc, ExitsWait DEF Step, Inner
<1>10. CASE Next
  BY <1>3, <1>4, <1>5, <1>6, <1>7, <1>8, <1>9, <1>10, ExitsOpen, ExitsCall, ExitsTake DEF Next, Runtime
<1> QED
  BY <1>1, <1>10

(* Who holds pd.lock.                                                      *)
LEMMA HeldSame ==
  ASSUME Held, pl' = pl \/ (pl # None /\ pl' # None /\ pl'.by = pl.by),
         \A h \in G : st[h].pc = "locked" => st'[h].pc = "locked"
  PROVE  Held'
  BY DEF Held, At

LEMMA HeldBy ==
  ASSUME Held, NEW g \in G, st[g].pc # "locked", \A h \in G \ {g} : st'[h] = st[h], pl' = pl
  PROVE  Held'
  BY HeldSame

LEMMA HeldStep ==
  ASSUME TypeOK, Owned, Held, [Next]_vars
  PROVE  Held'
<1>1. CASE UNCHANGED <<pl, st>>
  BY <1>1, HeldSame
<1>2. CASE UNCHANGED vars
  BY <1>1, <1>2 DEF vars
<1>3. ASSUME NEW f \in Fds, Open(f) PROVE Held'
  BY <1>1, <1>3 DEF Open
<1>4. ASSUME NEW g \in G, NEW f \in Usable, NEW m \in Modes, Call(g, f, m) PROVE Held'
  BY <1>4, HeldBy DEF Call, Begin, pollVars, At, TypeOK
<1>5. ASSUME NEW m \in AllModes, NEW b \in BOOLEAN, netpollunblock(m, b)
      PROVE  \A h \in G : st[h].pc = "locked" => st'[h].pc = "locked"
  BY <1>5, Waking DEF Parked
<1>6. ASSUME NEW m \in AllModes, Unblock(m) PROVE Held'
  <2>1. pl # None /\ pl' = [pl EXCEPT !.todo = @ \ {m}] /\ netpollunblock(m, FALSE)
    BY <1>6 DEF Unblock
  <2>2. pl \in [by : G \cup {"timer"}, todo : SUBSET AllModes]
    BY <2>1 DEF TypeOK
  <2>3. pl'.by = pl.by /\ pl' \in [by : G \cup {"timer"}, todo : SUBSET {"r", "w"}]
    BY <2>1, <2>2 DEF AllModes
  <2>4. pl' # None
    BY <2>3, FDAssumption
  <2> QED
    BY <1>5, <2>1, <2>3, <2>4, HeldSame
<1>7. ASSUME NEW m \in Modes, netpollready(m) PROVE Held'
  <2>1. m \in AllModes /\ netpollunblock(m, TRUE) /\ pl' = pl
    BY <1>7, FDAssumption DEF netpollready, AllModes
  <2> QED
    BY <1>5, <2>1, HeldSame
<1>8. CASE TimerUnlocks
  BY <1>8 DEF TimerUnlocks, Held
<1>9. ASSUME NEW m \in Modes, Arrive(m) PROVE Held'
  BY <1>1, <1>9 DEF Arrive, pollVars
<1>10. ASSUME NEW m \in AllModes, TimerFires(m) PROVE Held'
  BY <1>1, <1>10 DEF TimerFires
<1>11. ASSUME NEW x \in flying, netpolldeadlineimpl(x) PROVE Held'
  <2>1. UNCHANGED st /\ (pl' = pl \/ pl' = [by |-> "timer", todo |-> x.ms])
    BY <1>11 DEF netpolldeadlineimpl
  <2> QED
    BY <1>1, <2>1 DEF Held
<1>12. ASSUME NEW g \in G, NEW f \in Usable,
              increfAndClose(g, f) \/ \E d \in Sets, ms \in Both : SetDeadline(g, f, d, ms)
       PROVE  Held'
  <2>1. Takes(g, f)
    BY <1>12, Taking
  <2> QED
    BY <2>1, HeldBy DEF Takes, pollVars, At
<1>13. ASSUME NEW g \in G, Step(g) PROVE Held'
  <2>1. CASE Inner(g)
    <3>1. PICK l \in IO \ {"prepare"} : Moves(g, l)
      BY <2>1, InnerMoves
    <3>2. pl' = pl /\ st[g].pc # "locked"
      BY <2>1, InnerMoves DEF IO
    <3> QED
      BY <3>1, <3>2, HeldBy DEF Moves
  <2>2. CASE rwlock(g)
    <3>1. pl' = pl /\ st[g].pc # "locked" /\ \A h \in G \ {g} : st'[h] = st[h]
      BY <2>2, rwlockDoes DEF rwlock, At, pollVars, Moves
    <3> QED
      BY <3>1, HeldBy
  <2>3. CASE Semacquire(g)
    <3>1. pl' = pl /\ st[g].pc = "sema" /\ Goto(g, "rwlock")
      BY <2>3 DEF Semacquire, At, pollVars
    <3>2. Moves(g, "rwlock")
      BY <3>1, Kinds, Going DEF Allowed
    <3> QED
      BY <3>1, <3>2, HeldBy DEF Moves
  <2>4. CASE rwunlock(g) \/ decref(g)
    <3>1. Releases(g) /\ st[g].pc # "locked"
      BY <2>4, Releasing
    <3> QED
      BY <3>1, HeldBy DEF Releases, Moves, pollVars
  <2>5. CASE Unlock(g)
    BY <2>5 DEF Unlock, Held
  <2>6. CASE pollUnblock(g)
    <3>1. st[g].pc = "evict" /\ Goto(g, "locked") /\ pl' = [by |-> g, todo |-> AllModes]
      BY <2>6 DEF pollUnblock, At
    <3>2. Moves(g, "locked")
      BY <3>1, Kinds, Going DEF Allowed
    <3> QED
      BY <3>1, <3>2 DEF Held, Moves, At
  <2>7. CASE pollSetDeadline(g)
    <3>1. st[g].pc = "deadline"
      BY <2>7 DEF pollSetDeadline, At
    <3>2. CASE pl' = pl /\ Goto(g, "decref")
      <4>1. Moves(g, "decref")
        BY <3>1, <3>2, Kinds, Going DEF Allowed, At
      <4> QED
        BY <3>1, <3>2, <4>1, HeldBy DEF Moves
    <3>3. ASSUME NEW t, pl' = [by |-> g, todo |-> t], Goto(g, "locked") PROVE Held'
      <4>1. Moves(g, "locked")
        BY <3>1, <3>3, Kinds, Going DEF Allowed, At
      <4> QED
        BY <3>3, <4>1 DEF Held, Moves, At
    <3> QED
      BY <2>7, <3>2, <3>3 DEF pollSetDeadline
  <2>8. CASE pollClose(g)
    <3>1. pl' = pl /\ st[g].pc = "pollClose" /\ Goto(g, "close") /\ st[g] \in Calls
      BY <2>8, Kinds DEF pollClose, At
    <3>2. Moves(g, "close")
      BY <3>1, Going DEF Allowed, Calls, Ending
    <3> QED
      BY <3>1, <3>2, HeldBy DEF Moves
  <2>9. CASE CloseFunc(g)
    <3>1. /\ pl' = pl /\ st[g].pc = "close" /\ st[g] \in Calls
          /\ (Mode(g) = "close" => st[g] \in CloseCall)
      BY <2>9, Kinds DEF CloseFunc, At, pollVars
    <3>2. \A h \in G \ {g} : st'[h] = st[h]
      BY <2>9, <3>1, Going, Returning DEF CloseFunc, Allowed, Moves
    <3> QED
      BY <3>1, <3>2, HeldBy
  <2>10. CASE WaitClosed(g)
    <3>1. pl' = pl /\ st[g].pc = "csema" /\ \A h \in G \ {g} : st'[h] = st[h]
      BY <2>10, Returning DEF WaitClosed, At, pollVars
    <3> QED
      BY <3>1, HeldBy
  <2> QED
    BY <1>13, <2>1, <2>2, <2>3, <2>4, <2>5, <2>6, <2>7, <2>8, <2>9, <2>10 DEF Step, Inner
<1>14. CASE Next
  BY <1>3, <1>4, <1>6, <1>7, <1>8, <1>9, <1>10, <1>11, <1>12, <1>13, <1>14 DEF Next, Runtime
<1> QED
  BY <1>2, <1>14

LEMMA InitExits == Init => Exits /\ Held
<1> SUFFICES ASSUME Init PROVE Exits /\ Held
  OBVIOUS
<1>1. \A g \in G : st[g].pc = "idle"
  BY DEF Init, Idle
<1>2. SleepersCounted
  <2>1. \A f \in Fds, m \in AllModes : Sleepers(f, m) = {}
    BY <1>1 DEF Sleepers, At
  <2>2. \A f \in Fds, m \in AllModes : sema[f][m] = 0 /\ mu[f].wait[m] = 0
    BY DEF Init
  <2> QED
    BY <2>1, <2>2, FS_EmptySet DEF SleepersCounted
<1>3. Destroyed /\ Closers /\ Held
  BY <1>1 DEF Init, Destroyed, Closers, Closing, Held, At
<1> QED
  BY <1>2, <1>3 DEF Exits

(* Who sleeps in rwlock is counted in fdmu or has a unit of the semaphore, *)
(* the last reference is in the hands of one who destroys the FD, and one  *)
(* Close waits for that, which has its unit or will get it (fd_mutex.go:   *)
(* 77-205, fd_unix.go:74-96).                                              *)
THEOREM ExitsAreKept == Spec => [](Exits /\ Held)
<1>1. IInv /\ Exits /\ Held /\ [Next]_vars => Exits' /\ Held'
  BY ExitsStep, HeldStep DEF IInv
<1> QED
  BY <1>1, InitExits, Invariance, PTL DEF Spec

(* While a call on a closed FD is under way, one on the same FD can take   *)
(* its next step, or who has pd.lock still wakes those parked: nobody is   *)
(* left asleep by increfAndClose, evict and the last decref (fd_unix.go:   *)
(* 74-96).                                                                 *)
THEOREM CloseGetsThrough == Spec => []CloseUnblocks
<1>1. IInv /\ Exits /\ Held => CloseUnblocks
  <2> SUFFICES ASSUME IInv, Exits, Held, NEW f \in Fds, mu[f].closed, NEW g \in G, Calling(g, f),
                      ~(pl # None /\ (pl.todo # {} \/ pl.by = "timer"))
               PROVE  \E h \in G : Calling(h, f) /\ ~Blocked(h)
    BY DEF CloseUnblocks
  <2>0. TypeOK /\ Owned /\ Slots /\ Unblocked
    BY DEF IInv
  <2>1. ASSUME pl # None PROVE pl.by \in G /\ At(pl.by, "locked") /\ pl.todo = {}
    BY <2>1 DEF Held
  <2>2. ASSUME NEW u \in G, st[u].pc \in Using, Fd(u) = f
        PROVE  \E h \in G : Calling(h, f) /\ ~Blocked(h)
    <3>1. pd.fd = f /\ \A h \in G : st[h].pc \in Using => Calling(h, f)
      BY <2>0, <2>2, Referenced DEF Calling, At, Using, IO
    <3>2. CASE pl # None
      <4>1. st[pl.by].pc = "locked" /\ st[pl.by].pc \in Using /\ pl.by \in G
        BY <2>1, <3>2 DEF At, Using
      <4>2. ~Blocked(pl.by)
        BY <2>1, <3>2, <4>1 DEF Blocked, At, Parked
      <4> QED
        BY <3>1, <4>1, <4>2
    <3>3. CASE pl = None /\ ~Blocked(u)
      BY <2>2, <3>1, <3>3
    <3>4. CASE pl = None /\ Blocked(u)
      <4>1. st[u].pc # "block" \/ pd.g[Mode(u)] \in {"nil", "ready"}
        BY <2>0, <2>2, Slot, FDAssumption DEF IInv, At, IO
      <4>2. Parked(u)
        <5>1. At(u, "locked") => FALSE
          BY <3>4 DEF IInv, Holding
        <5> QED
          BY <2>2, <3>4, <4>1, <5>1 DEF Blocked, At, Using, IO
      <4>3. ~pd.closing
        BY <2>0, <3>4, <4>2 DEF Unblocked, Err
      <4>4. PICK h \in G : At(h, "evict")
        BY <2>0, <3>1, <4>3, FDAssumption DEF Owned, Evicted
      <4>5. ~Blocked(h) /\ st[h].pc \in Using
        BY <3>4, <4>4 DEF Blocked, At, Parked, Using
      <4> QED
        BY <3>1, <4>5
    <3> QED
      BY <3>2, <3>3, <3>4
  <2>3. ASSUME NEW h \in G, st[h].pc \in Ending, Fd(h) = f
        PROVE  Calling(h, f) /\ ~Blocked(h)
    BY <2>3 DEF Calling, Blocked, At, Parked, Ending
  <2>4. st[g].pc \in Using \cup Ending \cup {"rwlock", "sema", "csema"} /\ Fd(g) = f
    BY <2>0, Kinds DEF Calling, Calls, IOCall, CloseCall, DeadlineCall, Using, Ending
  <2>5. CASE st[g].pc = "rwlock"
    BY <2>5 DEF Calling, Blocked, At, Parked
  <2>6. CASE st[g].pc = "sema"
    <3> DEFINE m == Mode(g)
    <3>1. m \in AllModes /\ g \in Sleepers(f, m)
      BY <2>0, <2>4, <2>6, Kinds, FDAssumption DEF AllModes, Sleepers, At
    <3>2. /\ IsFiniteSet(Sleepers(f, m)) /\ Cardinality(Sleepers(f, m)) = sema[f][m] + mu[f].wait[m]
          /\ mu[f].wait[m] = 0 /\ sema[f][m] \in Nat
      BY <2>0, <3>1 DEF Exits, SleepersCounted, TypeOK
    <3>3. Cardinality(Sleepers(f, m)) # 0
      BY <3>1, <3>2, FS_EmptySet
    <3>4. sema[f][m] # 0
      BY <3>2, <3>3
    <3> QED
      BY <2>4, <2>6, <3>4 DEF Calling, Blocked, At, Parked
  <2>7. CASE st[g].pc = "csema"
    <3>1. CASE csema[f] # 0
      BY <2>4, <2>7, <3>1 DEF Calling, Blocked, At, Parked
    <3>2. CASE csema[f] = 0
      <4>1. sys[f] = "open"
        BY <2>4, <2>7, <3>2 DEF Exits, Closers, At
      <4>2. CASE mu[f].refs = 0
        BY <2>3, <4>1, <4>2 DEF Exits, Destroyed
      <4>3. CASE mu[f].refs # 0
        <5>1. Users(f) # {}
          BY <2>0, <4>3, FS_EmptySet DEF Owned, Counts
        <5> QED
          BY <2>2, <5>1 DEF Users
      <4> QED
        BY <4>2, <4>3
    <3> QED
      BY <3>1, <3>2
  <2> QED
    BY <2>2, <2>3, <2>4, <2>5, <2>6, <2>7
<1> QED
  BY <1>1, Invariance, ExitsAreKept, PTL
=============================================================================
