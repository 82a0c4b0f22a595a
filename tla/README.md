# Go's concurrency core in TLA+

This directory specifies, checks and proves parts of the Go 1.11 tree under
`src/go-go1.11/`: the scheduler, the primitives with which goroutines wait for
each other, and what is built on them. Paths below are relative to
`src/go-go1.11/src/`.

The tree is a whole language distribution (8,100 files, 1.7 million lines of
Go). Most of it is sequential: a compiler, parsers, formatters, codecs, and
rewrite rules and tables generated for them. What tests reach badly is a core of
the runtime, of package `sync` and of `internal/poll` on which everything else
rests, some thousands of lines in which a lock is not taken, a word is read
twice, or a goroutine is woken by somebody who has looked at an old value. That
core is the subject.

## 1. The system

### Components, their state and operations

| component | source | state | operations |
|---|---|---|---|
| semaphores | `runtime/sema.go` | a count per address; per root a lock, `nwait`, a treap of sudogs | `semacquire1`, `semrelease1` (lifo, handoff) |
| Mutex | `sync/mutex.go` | a word: locked, woken, starving, waiter count; a semaphore | `Lock`, `Unlock` |
| RWMutex | `sync/rwmutex.go` | a Mutex, two counters, two semaphores | `RLock`, `RUnlock`, `Lock`, `Unlock` |
| WaitGroup | `sync/waitgroup.go` | a word: counter and waiters; a semaphore | `Add`, `Done`, `Wait` |
| notifyList | `runtime/sema.go` 443-601 | tickets `wait` and `notify`, a list, a lock | add, wait, notifyAll, notifyOne |
| Cond | `sync/cond.go` | a notifyList, the client's lock | `Wait`, `Signal`, `Broadcast` |
| Once | `sync/once.go` | `done`, a Mutex | `Do` |
| channels, select | `runtime/chan.go`, `runtime/select.go` | a ring buffer, two wait queues, `closed`, a lock; `selectDone` and `param` of a goroutine | `chansend`, `chanrecv`, `closechan`, `selectgo` |
| sync.Map | `sync/map.go` | an immutable read map, a dirty map, entries shared by both, a miss count, a lock | `Load`, `Store`, `LoadOrStore`, `Delete`, `Range` |
| io.Pipe | `io/pipe.go` | two unbuffered channels, a lock, `done` with a Once, two errors | `Read`, `Write`, `CloseRead`, `CloseWrite` |
| descriptors | `internal/poll/fd_mutex.go`, `fd_unix.go`, `fd_poll_runtime.go`, `runtime/netpoll.go` | a word with closed bit, two locks, references and waiters; a pollDesc with `rg`, `wg`, deadlines, two timers and `seq` | `Read`, `Write`, `Close`, `SetDeadline`; readiness, expiry |
| run queues | `runtime/proc.go` 4660-4980 | per P a ring, head, tail and `runnext`; the global queue | put, get, steal, `runqempty` |
| scheduler | `runtime/proc.go` | the states of threads (M) and Ps, idle lists, `nmspinning`, `lastpoll`, `nmidlelocked` | `ready`, `schedule`, `findrunnable`, `startm`, `handoffp`, system calls, `sysmon`, `checkdead` |
| timers | `runtime/time.go`, `time/sleep.go`, `time/tick.go` | per bucket a 4-ary heap, a lock, flags, a note; a goroutine `timerproc` | add, delete, fire; `Stop`, `Reset` |

How they interact: Mutex, RWMutex, WaitGroup and fdMutex sleep on semaphores;
Cond on a notifyList; Once, RWMutex and sync.Map use a Mutex; a pipe uses Once
and channels; a timer sends on a buffered channel or makes a deadline of a
descriptor pass. Semaphores, notifyList, channels and the poller put goroutines
to sleep (`gopark`) and make them runnable (`goready`) through the scheduler.
Everything is shared memory; there are no messages, crashes or persistent state
in this part of the tree, so no model has any. What comes from outside, at any
time, is the readiness of descriptors, the passing of time and the end of a
system call.

### What is hard

* *Fast paths without the lock.* `semrelease1` reads `nwait`, the notify calls
  read two tickets, a non-blocking channel operation reads two words, `Once`
  reads `done`. Each read may be stale when it is used.
* *Lost wakeups.* Every component has a waker that looks for sleepers and a
  sleeper that looks for a reason not to sleep.
* *Wakeups that decide nothing.* A woken goroutine may find its unit taken by a
  newcomer, or its select served elsewhere.
* *Things that were replaced meanwhile*: a deadline timer of a descriptor that was
  closed and used again, an entry of a map that is no longer the map, a slot of
  a ring that a thief has taken, a P that sysmon has retaken.
* *Counting those who look for work*: a thread may go to sleep because another
  one looks, which must then not go to sleep because of the first.
* *Arithmetic on packed words*: the handoff of Mutex, the negative counters of
  RWMutex, tickets that wrap around.
* *Lock drops in the middle of an operation*: `closechan` readies after the
  unlock, `timerproc` calls `f` without its lock.
* *Lock order*: a select locks many channels.

`PROJECT.json` lists these hazards at their lines, with the properties that
would catch each of them going wrong, or the reason why none does.

### What makes each component correct

| component | correctness |
|---|---|
| semaphores | a unit is taken once; no unit lies beside a sleeper that nobody will wake |
| Mutex | mutual exclusion; the word says the truth; sleepers are not forgotten; the lock is granted |
| RWMutex | exclusion; sleepers are owed exactly one unit; a writer is not starved by readers |
| WaitGroup | Wait returns at zero and not before; all waiters are released; no panic for clients that keep the rules |
| notifyList, Cond | waiters are notified once, in the order of their tickets; a notification is not lost before the sleep |
| Once | one call of f, finished before any Do returns; Do returns though f panics |
| channels | FIFO of bounded capacity; one case of a select happens; nobody sleeps who could go on |
| sync.Map | every call takes effect at one instant; no value is written to an entry that is lost |
| io.Pipe | the stream is whole and in order; after a close every call ends, with an error that is due |
| descriptors | destroyed once, when unused; nobody stays parked past data, close or deadline; a stale deadline strikes nobody |
| run queues | a goroutine is in one place; `runqempty` does not err |
| scheduler | no runnable goroutine and no network event without a thread; a deadlock is reported only if it is one; no throw |
| timers | fired once, not early, unless stopped; no deadline overslept; Stop tells the truth |

## 2. Modules

Abstract specifications state a promise; detailed modules translate the code.

| module | what | extends or instantiates |
|---|---|---|
| `Semaphore` | promise of the semaphores | |
| `Sema` | `semacquire1`, `semrelease1` | implements `Semaphore` |
| `SemaProofs` | theorems about `Sema` | `Sema` |
| `Goroutines` | where the goroutines are: `G`, `pc` and how it changes | |
| `Mutex` | `sync.Mutex` on an abstract semaphore | `Goroutines` |
| `RWMutex` | `sync.RWMutex` | `Goroutines` |
| `WaitGroup` | `sync.WaitGroup` | `Goroutines` |
| `SyncProofs` | theorems about the three of them | `Mutex`, `RWMutex`, `WaitGroup` |
| `Notifications` | promise of a notification list | |
| `NotifyList` | `notifyList` | implements `Notifications` |
| `Cond` | `sync.Cond` with its clients | extends `NotifyList` |
| `CondProofs` | theorems about `NotifyList` and `Cond` | `Cond` |
| `AtomicMap` | promise of `sync.Map` | |
| `SyncMap` | `sync.Map` | implements `AtomicMap` |
| `SyncMapProofs` | theorems about `SyncMap` | `SyncMap` |
| `FD` | `poll.FD`, `fdMutex`, `pollDesc` | |
| `FDProofs` | theorems about `FD` | `FD` |
| `RunQueue` | the queues of `proc.go` | |
| `Sched` | threads and Ps of `proc.go` | |
| `SchedProofs` | theorems about `Sched` | `Sched` |
| `Once` | `sync.Once` | |
| `Pipe` | `io.Pipe` | extends `Once` |
| `PipeProofs` | theorems about `Once` and `Pipe` | `Pipe` |
| `Channels` | promise of channels and select | |
| `Chan` | `chan.go`, `select.go` | implements `Channels` |
| `ChanProofs` | theorems about `Chan` | `Chan` |
| `TimerHeap` | the heap of a bucket, as operators | |
| `Timers` | `timerproc` and the owners of timers | extends `TimerHeap` |

`MC*` modules give values and symmetry sets to the constants that a `.cfg`
cannot express.

### How state and actions correspond to the code

*Granularity.* A step is one access to memory that others see without a lock,
or one critical section of a lock. A critical section is split where the code's
steps inside it are seen by unlocked reads (`AllPull`/`AllStore`,
`CloseMark`/`CloseDrain`). `pc` (or `spc`, `npc`, `cpc`, `proc`) is the place
of a goroutine in its function; local variables are variables only while they
are used again. A goroutine that unlocks and parks does both in one step, as
`goparkunlock` does.

* **Sema.** `sem[a]` is the word at an address, `queue[a]` the sudogs the treap
  holds for it, `ticket` the goroutines whose `s.ticket` was set. All addresses
  share one root: its lock and `nwait` are then shared by addresses that have
  nothing to do with each other. `semacquire1` is `AcquireEasy` (line 104),
  `AcquireLock` (131), `AcquireRecheck` and `AcquireUndo` (135-144),
  `AcquireWoken` (145); `semrelease1` is `ReleaseXadd` (161), `ReleaseLoad`
  (166), `ReleaseDequeue` (171-181), `ReleaseReady` (183-195).
* **Mutex.** The word is a record of a set of bits and a count. `LockFast`,
  `Reload`, `SpinRound`, `LockSwap`, `SemAcquire`, `Awake`, `TakeHandoff` are
  the atomic operations of `Lock` in the order of the source; `UnlockDrop`,
  `UnlockWake`, `UnlockReload`, `SemRelease` those of `Unlock`. The clock is a
  choice: a wait may be found too long whenever it is measured. `canSpin` may
  say no at any round. Goroutines unlock what they locked.
* **RWMutex.** `w` is `rw.w` as a lock with one holder. The semaphores are
  counts from which any sleeper may take. `r` is the local of `Lock` and counts
  the loop of `Unlock`. `RLocker` calls the same functions.
* **WaitGroup.** The two halves of the word change together; the plain read
  (line 87) and the plain store (91) are steps of their own. `owed` and `holds`
  are the clients' side: units whose `Done` is still to come. `Careful` says how
  they keep the rule about `Add` at a positive counter, see section 5.
* **NotifyList, Cond.** Counters wrap around at `2 * Half`. A waiter has its ticket from
  `NotifyListAdd` and looks at it in `NotifyListWait`. `before` and `order` are
  history variables. `Cond` adds `c.L`, a
  consumer that waits in a loop and a producer that calls Signal or Broadcast
  with or without the lock.
* **Once.** `calls` is a history variable. `f` returns or panics: both run the
  deferred calls.
* **Pipe.** A rendezvous is one step of two goroutines: `Transfer` on `wrCh`, with
  the copy the Read makes, and `Count` on `rdCh`. `SeesDone` is the other case
  of each select; `LoadOwn` and `LoadOther` read the two errors one after the
  other. A close runs the actions of `Once`, whose `f` closes `done`. `got` is
  the history of all bytes that Reads got, `res` what the last calls returned.
* **SyncMap.** `read` and `dirty` map keys to entries, `p` is the word of an
  entry. A call goes through the places `entry` (an access to the entry found in
  the read map), `lock` and the accesses under `m.mu` in the order of the source.
  Three abstractions: a loop of compare-and-swap is the step in which it
  succeeds; taking `m.mu` is part of the first access under it and releasing it
  part of the last; and an entry that nothing refers to is free again, as the
  collector makes it. The refinement maps the state to the map that a lone Load
  would see (`Content`), and the linearization points need not be named:
  `AtomicMap` keeps, per call, the values its key has had since it began, and
  lets the result be one of them (an instant of a write is the step that changes
  the map).
* **FD.** `mu` is the word of an `fdMutex`; a compare-and-swap and the semaphore
  calls that follow it are one step. `pd.g` is `rg` and `wg`; `netpollblock` is
  four steps (`netpollblock`, `Recheck`, `netpollblockcommit`, `Xchg`), and what
  a section under `pd.lock` unblocks is done one by one (`Unblock`) while `pl`
  holds the lock, as parkers do not take it. A timer that has left its heap is in
  `flying` until its function runs. `Open` uses the same pollDesc for the next
  FD, `events` of the last one may still arrive.
* **RunQueue.** The steps of `runqput`, `runqget`, `runqgrab`, `runqsteal`,
  `runqputslow` and `runqempty` are single loads, stores and compare-and-swaps,
  with the local variables in `op`. Counters are taken modulo `Wrap`.
* **Sched.** Goroutines are counted per queue (`loc`, `glob`), threads and Ps are
  named. `st[t].pc` is where a thread is: `run` is user code, `schedule`,
  `findrunnable`, `netpoll`, `spin`, `steal`, `stop`, `unspin`, `recheck`,
  `netblock`, `polling`, `polled`, `resetspinning`, `stopm` follow the labels and
  comments of `findrunnable` and its callers; `startm` and `handoffp` are
  subroutines with a return place (`ret`). A thread that runs may make a
  goroutine runnable (`ready`), park, wait for the network, yield, or enter a
  system call. Sysmon is one more thread (`Sysmon`), without a P.
* **Chan.** One set of actions serves `chansend`, `chanrecv` and `selectgo`: an
  operation is a set of cases, with one element for the first two. `Look` and
  `Look2` are the two reads of a fast path; `Serve`, `GiveUp` and `Park` are the
  three ends of pass 1; `Woken` and `Pass3` what comes after the sleep;
  `CloseMark`, `CloseDrain` (one sudog at a time) and `Ready` are `closechan`.
  `dequeue` drops the
  sudogs of selects that were served elsewhere (`Live`, `Swept`). The random poll order is a
  choice among the possible cases, and of the cases polled in vain before. A
  goroutine sends its own name.
* **Timers.** Owners start, stop, reset and drain; `Reset` is `Stop` and
  `Start`. `timerproc` is `Top` (read the clock, first round), `Loop` (further
  rounds with the same reading), `Fire` (without the lock), `Doze` (after the
  unlock, before the sleep) and `WakeUp`. A deadline that has passed when the
  timer gets into the heap, which `Reset` can cause by reading the clock before
  it stops the timer, is a delay of zero.

## 3. Runs

| run | states | question | properties |
|---|---|---|---|
| `Sema` | 278,586 | lost or double wakeups, units from nowhere | `WakeupsAreExact`, `ImplementsSemaphore`, `UnitReachesSleeper` |
| `Mutex` | 158,994 | the word, exclusion, sleepers, progress | `IInv`, `SleeperHasWaker`, `LockIsGranted` |
| `RWMutex` | 27,903 | exclusion, sleepers, writer starvation | `RWInv`, `PendingWriterGetsIn` |
| `WaitGroup` | 66,028 | waits end at zero, no panic | `WaitersAccounted`, `WaitReturnsAtZero`, `ZeroReleasesWaiters` |
| `Cond` | 1,161,152 | the ticket list, its fast paths, and producers and consumers on it | `ParkedOnce`, `ImplementsNotifications`, `CallersAreServed`, `NoStrandedConsumer` |
| `Pipe` | 320,073 | the stream, closes from both ends, and Once | `StreamIsWhole`, `ClosedIsFinal`, `NoEarlyReturn`, `CallsEnd` |
| `Chan` | 579,701 | channels, close, select | `QueueInvariants`, `NobodySleepsForNothing`, `LocksMove`, `FailureWasReal`, `ImplementsChannels` |
| `Timers` | 416,761 | timerproc against its owners | `NoDeadlineMissed`, `FiresOnceOrIsStopped`, `DeliveriesAreSound`, `EveryTimerFires` |
| `SyncMap` | 539,104 | atomicity of the map | `MapInvariant`, `ImplementsAtomicMap` |
| `FD` | 879,709 | use against close, deadlines and reuse | `DescriptorOutlivesUse`, `ParkedWillWake`, `NoStaleDeadline`, `CloseUnblocks` |
| `RunQueue` | 2,018,960 | goroutines lost or duplicated | `EachOnce`, `EmptyWasEmpty` |
| `Sched` | 1,670,697 | runnable goroutines without a thread | `NeverThrows`, `DeadIsDead`, `NoStrandedWork`, `NoIdleWithWork` |

All hold. The exclusion of Mutex and RWMutex, their typing and the absence of
their panics are conjuncts or consequences of `IInv` and `RWInv`. The properties that follow
from one invariant are its named parts: `WakeupsAreExact` (no lost wakeup, one
wakeup per sleep), `QueueInvariants` (with `WokenFindsCase`), `NoDeadlineMissed`
(with the order of the heaps), `DeliveriesAreSound` (draining, the phase of a
ticker), `NoStrandedWork` (with `NetworkIsPolled`). Type invariants are part of
`IInv`, `RWInv`, `WakeupsAreExact`, `WaitersAccounted`, `ParkedOnce`, `QueueInvariants`,
`NoDeadlineMissed` and `MapInvariant`. Each property is next to a comment that
says what it means and which lines it is about; each has a mutant of a mapped
definition (named `...Blind`, `...Keeps`, `...OffByOne` and the like, commented
"Mutant:") that TLC finds breaking it.

Compositions are checked as a whole where the parts meet in more than an
abstract promise: Cond with NotifyList, Pipe with Once, FD with its timers and
the poller. Mutex, RWMutex and WaitGroup run on counting semaphores, which is what
`Sema` is shown to implement (`ImplementsSemaphore`).

### Bounds, and why they are enough

* *Goroutines.* Three for Sema, Mutex, WaitGroup, Chan, Pipe, FD: a sleeper, one
  who wakes it and one who interferes. Two for SyncMap, which make any number of
  calls: one that is between an access and the next, and one that stores,
  deletes, misses, promotes and rebuilds the dirty map meanwhile.
  Four for Cond: two waiters and two notifiers race on the fast path. Five for RWMutex: a reader
  that is in, one that departs, one that is blocked, a writer and the next.
* *Sema.* Two addresses, `MaxUnits` = 2: units of both addresses, and two units
  for two sleepers. With one address a stale `nwait` is always about the own one.
* *MaxSpin* = 1: a second round repeats the first with another reading.
* *MaxReaders* = 6, one more than the goroutines; the code has `1 << 30`. The
  assumption `RWMutexAssumption` is what matters: fewer goroutines than that.
* *WaitGroup.* Deltas up to 2 and counters up to 3 give an Add at a positive
  counter, a Done of two units, and a second use of the group, once the Waits of
  the first have returned.
* *NotifyList.* `Half` = 4, that is counters of three bits, which wrap around many
  times. `MaxLag` = 4 bounds the tickets drawn while a goroutine is between add
  and wait by half the range of the counters; the code relies on the same bound
  at 32 bits (see 5). The
  buffer of the producers and consumers has `MaxItems` = 1 place; Signal and
  Broadcast are called with and without it filled.
* *Pipe.* Writes of 0 and 3 bytes, Reads of 2: a Write that two Reads share, and
  the Write of an empty slice, which meets one Read all the same. `MaxWrites` = 2.
  Reads of empty slices would double the states; the theorems about `StreamIsWhole`
  and `ClosedIsFinal` cover them, `CallsEnd` is checked without.
* *SyncMap.* Two keys and two values. Eleven entries, one more than
  `(|G|+2)*|Keys|+|G|`, the bound of `SyncMapAssumption` (two maps, a Range and a found
  entry for each goroutine), from which it is proved that an entry is always free.
  No bound on the calls: the state space is finite.
* *FD.* Two FDs opened one after the other on one pollDesc, calls of one
  direction (`Modes`) with deadlines for one or both, in the past (-1) or to come,
  `MaxCalls` = 4 calls by three goroutines, so that one Read, one Close, one
  SetDeadline and a use of the next FD meet. The two directions of an `fdMutex`
  and a pollDesc meet only in the closed bit, the references, `pd.lock` and `seq`.
* *RunQueue.* Rings of `Len0` = 4 instead of 256, half of which still is more than
  one; counters modulo 16 that start at 14. The owner's ring starts full, so
  that puts overflow; `MaxReady` = 2 puts on the way, five goroutines.
  That a thief sleeps while a head advances by the full range is left out.
* *Sched.* Three threads besides sysmon, two Ps, two goroutines. Two Ps have the
  last running one and an idle one, and three threads a spinner, a sleeper and one
  in a system call. When `M` is used up, `newm` waits. One goroutine at a time waits
  for the network (`MaxNet`), so that a poll returns one; with two, whose lists
  `injectglist` then takes apart, the same properties hold over 2,692,528
  states, which takes longer than the other runs.
* *Chan.* `Programs` is the set of programs; the goroutines of an execution perform
  operations of one of them again and again: selects on two channels, one
  unbuffered and one with a slot, with a close; all operations on an unbuffered
  channel; all on a channel of two slots. The ring of two slots wraps around.
  Two selects meet on two channels in opposite directions, and one offers both
  directions of one channel.
* *Timers.* One bucket with two timers, one of them a plain timer, the other a
  function or a ticker; each started twice; a clock of three ticks and delays
  0, 1, 2. Buckets share nothing, so one is enough. The heap of the run has two
  timers; the operations of the heap are checked apart on every heap of up to
  `MaxHeap` = 10 timers with deadlines in `HeapTimes` = 0..2: ten is the least with
  which `deltimer` has to sift up. As that does not depend on the state, it is
  evaluated in the initial states only.

Symmetry is used in Cond, Chan, SyncMap, FD and Sched: their properties are safety
properties (`CallersAreServed` and the refinements are box formulas). `MCView` of
SyncMap drops the contents of entries that nobody refers to.

Deadlock is checked in `Mutex`, `RWMutex` and `SyncMap`, where a goroutine outside
can always call. It is not where the system may stop: `Sema`, `Cond` and `Chan`
(all goroutines asleep, which Go programs can do), `WaitGroup` (waiters and no
Done), `Pipe` (a Read without Writes), `Timers` (the clock ends at `Horizon`),
`FD` and `RunQueue` (calls are bounded) and `Sched` (`checkdead` has thrown, or no
thread is left to create). `CloseUnblocks` says for `FD`, and `NoStrandedWork`
for `Sched`, what may not be left behind there.

### Fairness

* `Mutex`, `RWMutex`, `WaitGroup`: weak fairness of the steps of a
  goroutine inside a call, because the scheduler runs every runnable goroutine;
  of Unlock, because a property of locks supposes that holders unlock. No
  fairness of the calls themselves: nobody has to call. A unit of a semaphore
  is taken if somebody sleeps on it, no matter who (`Sema` shows that much). In
  RWMutex nobody is promised `rw.w`.
* `Sema`: strong fairness of the steps of a goroutine, for `root.lock` is held
  for a few instructions at a time and a goroutine that wants it is not refused
  it for ever.
* `Pipe`: weak fairness of each goroutine inside a call; `o.m` is granted to
  somebody, and `wrMu` need not be granted to anybody in particular.
* `Timers`: time passes and a thread runs `timerproc`.
* The refinements and the other properties are safety and need none. That the
  scheduler runs what is runnable, on which the weak fairness above rests, is
  backed by `NoStrandedWork`: at rest nothing runnable is left. That each single
  goroutine gets its turn (the tick of `schedule`, preemption) is not modelled.

## 4. Proofs

`SyncProofs` proves about `Mutex`, for every finite set of goroutines and every `MaxSpin`
(assumption `MutexAssumption`, which TLC evaluates in run `Mutex`):

| theorem | statement |
|---|---|
| `Invariance` | `Spec => []IInv` |
| `TypeCorrect` | `Spec => []TypeOK` |
| `OneHolder` | `Spec => []MutualExclusion` |
| `NeverThrows` | `Spec => []NoThrow` |
| `HandoffIsConsistent` | `Spec => []ConsistentHandoff` |
| `NoSleeperForgotten` | `Spec => []SleeperHasWaker` |

None of the safety properties is inductive. Mutual exclusion fails after a
handoff if two goroutines can be in it; that they cannot depends on whom the
released unit of the semaphore belongs to, which depends on `mutexWoken` in
normal mode and on `mutexStarving` in starvation mode. The invariant `IInv`
says it with one notion: there is one *baton*, the right to wake somebody or
the duty to act after being woken. It passes from an unlocker (`release`,
`pass`) to the semaphore's count, to the goroutine that wakes (`awake`), to a
contender in the loop or to the handoff.

* `LockedByHolder`: mutexLocked is set exactly while somebody is in.
* `OneBaton`: at most one carrier, and none while a unit is in the semaphore.
* `WokenIsBaton`, `HandoffIsBaton`: mutexWoken is set exactly while there is a
  baton in normal mode; in starvation mode the word is unlocked exactly while
  there is one.
* `WaitersCounted`: the waiter count is the number of sleepers, less the one
  that was counted out for a released unit.
* `FreeWordIsWatched`: a free word with waiters and no bits set has an
  unlocker that is about to look at it.
* `Modes`, `Locals`: the two modes exclude each other, and what a goroutine
  remembers of the word is still true where it relies on it.

The proof has one lemma per action (`LockFastKeeps` ... `SemReleaseKeeps`), and
`TypeStep` for the types of all of them; `SleeperMore`, `SleeperLess` and
`SleeperSome` reduce the counting of sleepers to adding or removing one element
of a finite set. `SleeperHasWaker` and `ConsistentHandoff` then follow from
`IInv` alone.

It proves about `RWMutex`, for every finite set of goroutines smaller than
`MaxReaders` (assumption `RWMutexAssumption`; the code's limit is `1 << 30`):

| theorem | statement |
|---|---|
| `RWInvariance` | `RWSpec => []RWInv` |
| `Excludes` | `RWSpec => []Exclusion` |
| `RWNeverThrows` | `RWSpec => []RWNoThrow` |
| `ReadersAreOwed` | `RWSpec => []SleepersOwed` |
| `WriterIsOwed` | `RWSpec => []WriterWaits` |

`RWInv` ties the two counters and the two semaphores to the numbers of goroutines
at each place; what has to be proved is arithmetic on cardinalities. `Count(l)` is
that number, `Moved` says what a move from one place to another
does to it, and `FewReaders` is the one use of the limit: a `readerCount` below
zero means a writer, because the readers alone cannot reach `MaxReaders`.

and about `WaitGroup`, for the same goroutines and all deltas, of `Careful`
clients (what the others can meet is in section 5; the bound `MaxCount` plays no part):

| theorem | statement |
|---|---|
| `WGInvariance` | `Careful`: `WGSpec => []WGInv` |
| `NobodyForgotten` | `Careful`: `WGSpec => []WaitersAccounted` |
| `ReturnsAtZero` | `Careful`: `WGSpec => WaitReturnsAtZero` |

That nobody is forgotten is not inductive: the blind store with which Add resets
the word (`waitgroup.go:91`) would wipe out a waiter that came in since. `WGInv` adds
what rules that out. The counter is the units that clients owe, those held
during an Add, and those that Dones on their way will take off (`UnitsCounted`,
over the set `Finishing` with one element for each such unit); so an Add that
reaches zero is the last, and until the last waiter has returned there is one
goroutine past zero, the word is what it read, and it stays zero after the reset
(`ZeroIsFinal`).

`PipeProofs` proves of `Once`, for every set of goroutines (assumption
`OnceAssumption`, which TLC evaluates in run `Pipe`):

| theorem | statement |
|---|---|
| `Invariance` | `Spec => []IInv` |
| `CalledOnce` | `Spec => []AtMostOnce` |
| `ReturnsAfterF` | `Spec => NoEarlyReturn` |

That `calls` stays below two is not inductive: a second goroutine behind the
test of `done` would call `f` again. `IInv` adds that only the holder of `o.m`
is between lock and unlock, and that `done` is 0 exactly until the one call has
ended; `CalledOnce` follows at once. `ReturnsAfterF` is an action property: the
two steps that leave `Do`, the fast path and the unlock, both find `done` set,
and `IInv` says what that means.

`SemaProofs` proves, for every finite set of goroutines, every set of addresses
and every `MaxUnits` (assumption `SemaAssumption`):

| theorem | statement |
|---|---|
| `Invariance` | `Spec => []IInv` |
| `ExactWakeups` | `Spec => []WakeupsAreExact` |
| `KeepsPromise` | `Spec => ImplementsSemaphore` |

`NoLostWakeup` compares the units of an address with those who sleep on it and
those who attend to it, and is inductive only together with the structure: who
has `root.lock` (`LockHeld`), what is in a queue is parked there, once, and in
nobody's hands (`Queued`, `Placed`, `Hands`), and `nwait` is the number of those
who are queued or about to be (`NwaitCounts`), so that the unlocked read of
`nwait` in `semrelease1` errs on one side only. `KeepsPromise` is the refinement
that the other modules stand on: every step of `Sema` is, under the mapping of the
`INSTANCE`, a step of `Semaphore` or a stutter, with one lemma per action.

`PipeProofs` proves of `Pipe`, for every set of goroutines, all lengths of the slices,
written or read into, zero among them, and every number of Writes (assumptions `PipeAssumption`, `OnceAssumption`):

| theorem | statement |
|---|---|
| `PipeUsesOnce` | `PipeSpec => Spec` (of `Once`) |
| `ClosesOnce` | `PipeSpec => [](IInv /\ AtMostOnce) /\ NoEarlyReturn` |
| `Whole` | `PipeSpec => []StreamIsWhole` |
| `Final` | `PipeSpec => []ClosedIsFinal` |

`PipeUsesOnce` is composition: what is proved of `Once` holds of `p.once` without
being proved again. The invariant `PipeInv` adds to `StreamIsWhole` that
one Write at a time is past `wrMu` and at most one Read answers it (`Gated`),
that Writes have numbers of their own (`Numbered`), that the bytes of a Write in
`got` are those it counts and those the answering Read still has to report, the
last of them last (`Counted`), and what is set when a close is on its way
(`Closing`, `Due`). The longest part is `Transfer` and `Count`, where two
goroutines move at once and `got` grows by a piece of any length. `Final` is about the
calls that start after some close has returned, and about every error. It is no promise
that no byte moves after a close: a Read and a Write that were in their selects
before may still meet, for a select with several ready cases takes any
(`pipe.go:50-57`, `87-94`), and `Transfer` does not look at `closed`.

`FDProofs` proves, for every set of goroutines, every number of FDs and calls, all
deadlines and both directions (assumption `FDAssumption`):

| theorem | statement |
|---|---|
| `Invariance` | `Spec => []IInv` |
| `Outlives` | `Spec => []DescriptorOutlivesUse` |
| `ParkedIsOwed` | `Spec => []ParkedWillWake` |
| `NothingStale` | `Spec => []NoStaleDeadline` |
| `ExitsAreKept` | `Spec => [](Exits /\ Held)` |
| `CloseGetsThrough` | `Spec => []CloseUnblocks` |

`IInv` has three parts. *Who owns the descriptor* (`Owned`): `refs` is the number
of calls past their lock or incref (`Counts`); an FD that is open and not closed
has the pollDesc (`Descriptors`); a call with a reference has the pollDesc of its
FD, and who destroys it found it closed and without references (`Callers`), alone
(`Alone`); `closing` is set once Close has evicted (`Evicted`). *Who waits in rg
and wg*: the lock for a mode is held by the one who does I/O in it (`Locked`), so
that rg and wg hold `wait` or a name only on its behalf (`Slots`); a parker with an
error due is on the list of who holds `pd.lock` (`Holding`, `Unblocked`); data that
has come has an event on its way or has set rg (`Notified`). *The deadlines*
(`Timed`): a timer or a flying function with the `seq` of the pollDesc is for
deadlines that are still to come, every such deadline has one (`Covered`), and
two functions that are not stale are for different modes (`Apart`). The last is
why it is enough that the function compares `seq`: `NoStaleDeadline` is `Asked`.
The proof sorts the steps for each part: for the second one, `WaitSteps` says
that a step is one of a Read or Write inside its lock (`Turning`), a
netpollunblock (`Unblocking`), takes or gives up `pd.lock`, finds nobody, or is
elsewhere, and the five conjuncts are proved over these kinds.

`CloseUnblocks` needs, beside `IInv`, who wakes those on their way out. `Exits`:
the sleepers on a semaphore of fdMutex are as many as its units and the waiters in
the word, and a closed FD has no waiters in the word (`SleepersCounted`), so that
whoever sleeps has a unit; a closed FD without references is being destroyed by
somebody (`Destroyed`), after which `csema` has its unit; one Close per FD gets past
increfAndClose, so no second one takes that unit (`Closers`). `Held`: `pd.lock` is
held by a call at `locked` or by a timer's function. If nobody is asleep on a
semaphore, somebody has a reference or is destroying: a call with a reference that
cannot move is parked, by `Unblocked` without an error due, so Close has still to
evict and can. `Blocked` says of a goroutine that the guard of its next step is
false, so no ENABLED is needed; it names these guards one by one and is true of
exactly the goroutines in a call that no step of `Step` is enabled for.

The assumptions on `None` and on the names in `G` say that a goroutine is none of
the words `nil`, `ready`, `wait` and that `None` is no record: rg holds `pdReady`
or `pdWait`, which no g pointer equals (`runtime/netpoll.go:31-46`).

`SchedProofs` proves, for every finite set of threads and of Ps, any number of
goroutines and of network waits (assumption `SchedAssumption`):

| theorem | statement |
|---|---|
| `Invariance` | `Spec => []IInv` |
| `Sound` | `Spec => []NeverThrows` |
| `Resting` | `Spec => [](IInv /\ RestInv)` |
| `NothingStranded` | `Spec => []NoStrandedWork` |
| `NobodyIsLost` | `Spec => [](IInv /\ RestInv /\ DInv)` |
| `DeadIsTrue` | `Spec => []DeadIsDead` |
| `SomebodyMinds` | `Spec => [](IInv /\ Minded)` |
| `NobodyIdlesBesideWork` | `Spec => []NoIdleWithWork` |

Each layer stands on the one before. `IInv` is about the Ps: what a thread has
at each place of its code (`Shapes`), each P in one place (`Owned`), `nmspinning`
as the number of threads that spin or are started to (`SpinningIsCounted`), and no
work with a P that is idle, or with a thread whose code has seen its queue empty
(`Empty`). `RestInv` says what keeps the scheduler from coming to rest beside
work: when all Ps are idle, somebody has still to look at the network (`Watching`,
which needs `Blocking`: lastpoll is 0 only while a thread polls) and to start a
thread for the global queue (`Fetched`); and sysmon does not sleep while a P is in a
system call (`Rested`). `DInv` counts: goroutines are parked, waiting for the
network, in a queue or with a thread, and no step makes or loses one
(`Conserved`); nmidlelocked is -1 exactly while sysmon is about to start a thread
(`Locked`). When as many threads have stopped as there are, everything a
goroutine could be with is gone (`Silence`), so `checkdead` is right. `Minded` says
who is responsible for work while a P is idle and no lapse has happened. For each
queue with work there is a thread that spins, will spin or will start one that does
(`Alert`), which is why a spinning thread that finds work wakes another and one that
gives up looks at every queue once more; or there are as many threads on their way
to take a P as there are idle Ps (`Covered`): those that `injectglist` has still to
start, and those that have given up a P without spinning and have that queue still
to look at. The second case arises when a thread takes a share of more than one
goroutine from the global queue and wakes nobody; that queue then had at least as
many goroutines as there are Ps, and `Few` bounds it by the threads to start and the
Ps at work. When all rest nobody spins and nobody owes anything, so no P is idle
beside work. A sum over
the queues, or over the threads, is the cardinality of a set of units (`Total`),
which changes with one argument as a sum does (`TotalChanges`): no induction is
needed. For each action a lemma says first what it does to the fields of the
threads (`startmDoes`, `stopDoes`, ...); the rest of the proof uses only that.

`SyncMapProofs` proves, for all finite sets of goroutines and keys, any values and
any set of calls (assumption `SyncMapAssumption`: the special words are no
values, and there are more entries than can be in use at once):

| theorem | statement |
|---|---|
| `Invariance` | `Spec => []MapInvariant` |
| `Atomic` | `Spec => ImplementsAtomicMap` |

`MapInvariant` speaks of the maps while nobody has `m.mu`. To be inductive it needs
what holds in between, and `Atomic` needs what a goroutine outside the lock may
still do with an entry it found long ago. `IInv` has:

* `Places`, `Holders`: what a call has at each place (an entry, the entries of a
  Range, `m.mu`), and what the holder of `m.mu` knows of the maps.
* `Maps`: `MapInvariant` with the keys taken into account that are still to be
  copied while `dirtyLocked` builds a new `m.dirty` (`Pending`).
* `Apart`: an entry is referred to under one key only, by maps, Ranges and calls.
* `Handles`: a writer past its lookup has the entry `m.read` has now, unless that
  one is expunged; so a compare-and-swap that succeeds writes where a Load looks.
* `History`: what a call may still report, its key had while the call ran. For a
  Load with a stale entry that is the entry's `Worth`.

The last is the heart: `m.read` may be replaced and the entry expunged between
the lookup and the read of `p`. An entry somebody refers to keeps its worth or gets
what its key has now (`WorthKept`), so what a late read finds was in the map at some
instant of the call. Steps are sorted by what they do to the maps: nothing
(`SameMaps`), promotion (`Promoted`), a write to an entry (`Written`), and
the few that build `m.dirty`. `HeapIsEnough` counts the entries in use. For the
refinement each action is a Begin, a TakeEffect or a stutter of `AtomicMap` (`Begins`,
`ChangeStep`, `ReportStep`, `Stutters`), with one lemma per action that also
carries the invariant.

`ChanProofs` proves, for any goroutines, every finite set of channels with any
capacities and any operations (assumption `ChanAssumption`):

| theorem | statement |
|---|---|
| `Invariance` | `Spec => []IInv` |
| `QueuesHold` | `Spec => []QueueInvariants` |
| `SleepersMustSleep` | `Spec => []NobodySleepsForNothing` |
| `LocksCanMove` | `Spec => []LocksMove` |
| `FailuresAreReal` | `Spec => []FailureWasReal` |
| `KeepsPromise` | `Spec => ImplementsChannels` |

A channel is simple while nobody has its lock; what makes it hard is that a
goroutine asleep belongs to several channels, that others decide for it, and that
they wake it only after their unlock. `IInv` says who knows what meanwhile:

* `Places`, `Locks`: what an operation is at each place; a select has all the
  locks of its channels there, or those below the next one (`LocksCanMove`: the
  holder of the greatest channel that is locked can take its next lock).
* `Params`, `Debts`, `OwedOnce`: who is asleep is served at most once. The case
  it is served with is first in the hands of the one who serves (`Owed`), then in
  `param`; without a case a channel of the operation has been closed and is
  empty (`Ended`). `selectDone` is set exactly while somebody has decided.
* `Queues`: a sleeper nobody has decided for is in the queues of all its cases,
  once; others in a queue are selects that were served elsewhere.
* `ChannelsAre`: the ring (`Buffer`); senders sleep only on a full buffer, receivers
  on an empty one (`Room`); both only if it is one select that would meet itself;
  nobody on a closed channel, except while the close still drains it.
* `Givens`, `Looks`: what a goroutine was given came with a decision to receive,
  and what the first of the two reads of a fast path still says at the second.

Each action has a lemma that it keeps `IInv`; they share `StepKeeps`, which asks
how the other goroutines fare in a step (`Same`, `Served`, `Readied`) and what becomes of
each channel. For the refinement each action has a lemma that it `Fulfils` a step
of `Channels` or a stutter. An outcome is decided by whoever serves: `Outcome` of a
sleeper is what it is owed, so that the send that finds a receiver asleep is one
step of the promise for both, and waking up is none. `Contents` of the ring with
its wrapping indices is the buffer of the promise: `Pushed`, `Popped` and `Exchanged`
are what a send and a receive do to it. Induction over natural numbers is `Least`:
a nonempty set of them has a least element, by the library's theorem that `<` is
well-founded.

`CondProofs` proves, for every finite set of goroutines no larger than half the
range of the tickets (assumption `NotifyListAssumption`; the code has `Half` = 2^31)
and any number of items (`CondAssumption`), with clients of the list that make any
calls (`Spec`) or with producers and consumers on sync.Cond (`CondSpec`):

| theorem | statement |
|---|---|
| `ListInvariance` | `Spec => []IInv` |
| `NobodyIsLost` | `Spec => []ParkedOnce` |
| `SentStaysSent` | `Spec => NotificationIsKept` |
| `FastPathMissesNobody` | `Spec => CallersAreServed` |
| `KeepsPromise` | `Spec => ImplementsNotifications` |
| `CondInvariance` | `CondSpec => []CondIInv` |
| `NobodyStranded` | `CondSpec => []NoStrandedConsumer` |
| `NobodyIsLostInCond` | `CondSpec => []ParkedOnce` |
| `SentStaysSentInCond` | `CondSpec => NotificationIsKept` |
| `FastPathMissesNobodyInCond` | `CondSpec => CallersAreServed` |
| `KeepsPromiseToCond` | `CondSpec => ImplementsNotifications` |

Tickets wrap around, so nothing can be said of them as numbers: the invariant counts
from `notify` (`Ahead(x)`, `Lag` for `wait`), and the lemma `Moves` says what becomes of these
distances when one of the two counters moves. The heart of it is `Ticketing`: each of
the tickets from `notify` to `wait` belongs to one waiter. There are then at most as many
as goroutines (`LagBound`, a pigeonhole argument), hence at most `Half`, and `less` is right
about each of them; this is the reason the comment at `sema.go:453-457` gives, made
exact. What is left to rely on is that a goroutine which was notified early is not
overtaken by half the range before it looks (`MaxLag`).

A step draws a ticket (`Joins`), moves `notify` on past the tickets it notifies
(`PassedKeeps`), or changes no waiter (`StayedKeeps`); each action is shown to be one of the
three, and each of the three keeps `Ticketing`. The other parts say what rests on it:

* `Parking`: the list and the sudogs in notifiers' hands are disjoint, and hold
  whoever is parked.
* `Locking`: what a notifier knows while it has `l.lock`: `wait` may move on, `notify` and the list do not.
* `Seeing`: a waiter of the time of the call has a ticket below the `wait` which
  the fast path read. If `notify` has reached that value, it has passed the waiter.
* `Queueing`: `order` is the waiters by their tickets. A step that notifies takes them
  from the front, which is what the refinement needs: drawing a ticket maps to
  a wait, `OneStore` and `AllStore` to notifications of the first or of all that came before
  the call's `wait`, and the rest to a return or a stutter. `NotificationIsKept` is not
  in the run: the refinement implies it, since a goroutine of `notified` cannot wait again.
* `ItemsMinded`, for Cond: while somebody waits, there is for each item a goroutine
  that is about to test the condition, or one in a notify call that still has a
  ticket to notify.

Only model-checked: liveness (`LockIsGranted`, `CallsEnd` and the like), which is out
of the prover's reach. `TimerHeap` has recursive operators, so nothing that uses it
is proved. `EachOnce` counts with a fold over the queues: about a fold or
`SelectSeq` the provers know nothing, and the library's induction theorems take a
predicate as a parameter. `RunQueue` is not proved.

## 5. Where the code and what is said of it differ

Each of these was met while modelling; TLC finds it with the formula named, which
its module states with a comment. The runs of section 3 do not repeat them.

* **A failed non-blocking send** (`Chan!SendFailureWasReal`). The comment at
  `runtime/chan.go:162-166` argues that the two unlocked reads of the fast path
  imply a moment at which the channel was open and not ready for sending,
  because a closed channel cannot become not ready. It can: `closechan` sets
  `closed` (line 344) and then takes the receivers out of the queue (348-368).
  With a receiver waiting from before the send's call, the send reads "open",
  the close happens, the send reads "no receiver" and reports failure. The
  receive side, with the reads the other way round, keeps its claim
  (`FailureWasReal`). To see it: `Chan.cfg` with `Programs <- OnlyUnbuffered`.
* **Stop of an AfterFunc timer** (`Timers!StopFalseMeansStarted`).
  `time/sleep.go:71-72` says that if Stop returns false, f has been started.
  `timerproc` takes the timer out of the heap and drops the lock
  (`runtime/time.go:267`) before it starts f (274). To see it: `Timers.cfg` with
  `Kinds <- OnlyFunc`.
* **Idle Ps beside work.** `runtime/proc.go:64-65` says that the rules of spinning
  guarantee "eventual maximal CPU parallelism utilization", and line 2088 that
  `handoffp` must start a thread in any situation where `findrunnable` would
  return a goroutine. Not quite:
  `handoffp` looks at its own queue and the global one only, while the queue of
  another P may hold goroutines and nobody spins; `goschedImpl` puts a goroutine on
  the global queue and wakes nobody; and `startm`, called with `nmspinning`
  raised, lowers it again (2052) when it saw no idle P though one has become idle
  since, without a second look, while others trusted the count. A goroutine then
  waits for the next pass of a thread that runs through `schedule`; it is not
  lost (`NoStrandedWork`). `NoIdleWithWork` holds but for these three,
  which the history variable `lapse` records (theorem `NobodyIdlesBesideWork`), and
  fails without that exemption; the last of the three takes three Ps, three threads
  and four goroutines and 41 steps to show.
* **A deleted entry and the dirty map.** `sync/map.go:76` says that `p == nil`
  means that the entry has been deleted and `m.dirty == nil`. `Delete` leaves
  a nil in an entry that both maps hold; `MapInvariant` states what does hold.
* **`netpollWaiters`** (`runtime/netpoll.go:330-337`) is raised by
  `netpollblockcommit` and lowered by `netpollgoready`, which only close and
  deadlines call; goroutines woken by readiness go through `injectglist` and stay
  counted. Once raised by one of them the count never returns to zero. It is
  only compared with zero, so threads poll the network that need not. `Sched`
  has the comparison as the variable `waiters`.

* `RWMutex!ReaderWaitNotZero`: the comment at `sync/rwmutex.go:97` says that
  `readerWait`, once the readers are added, should never be zero. It is, when
  all of them have departed in between; the code handles that.
* **The handoff of Mutex.** `sync/mutex.go:54-55` says that in starvation mode
  the mutex is handed to the waiter at the front of the queue. A goroutine just
  entering `semacquire1` can take the unit first (`Sema!AcquireEasy`); the mutex
  is then its own. `Mutex` allows it: `SemAcquire` is by any goroutine that has called for the unit.
* `Timers!NoTickAfterStop`: `time/tick.go:42` says "After Stop, no more ticks
  will be sent". A tick that `timerproc` has already taken out is.

Rules of the docs that the models need as assumptions:

* `WaitGroup`: with `Careful` = FALSE, clients follow `waitgroup.go:44-47` to the
  letter (an Add while the counter is above zero may happen at any time), and
  an Add called at a positive counter may be applied after the last Done: TLC
  then finds the panic of "Add called concurrently with Wait". `Careful` clients
  hold a unit of their own while they add. All clients keep the rule of
  `waitgroup.go:50-51`: the first Add of a new use comes after the Waits of the last
  one have returned (`InWait = {}` in `CallAdd`). What a group does that is used again
  earlier is not checked. `WaitReturn` has the panic for it (lines 131-133); TLC
  reaches it if that conjunct is weakened to `InWait \subseteq In("wake")`.
* `Cond`: `NotifyListAssumption` has `MaxLag` at most half the range of the counters.
  Without that a waiter that was notified forgets it (`NotificationIsKept` fails). At
  32 bits this needs 2^31 calls of Wait during one, as `sema.go:453-457` says.

## 6. Not modelled, and the plan

Left out of the modelled parts: the treap of `semaRoot` and its rotations;
profiling, tracing and the race detector; stacks and their copying while a
goroutine is parked; nil channels and `makechan`; `badTimer` and other reports
of misuse; `copyChecker`; the int64 clamp of deadlines; the limits of the
reference and waiter counts of `fdMutex`; of the scheduler, stopping the world,
the collector's workers, locked goroutines, preemption, the idle-time jumps of
`faketime`, and which goroutine a search for work finds (it may always fail).

Not modelled at all, with the reason, are the components with status
`not_modelled` in `PROJECT.json`. Measured in lines these are nearly the whole
tree: more than half of its Go code is the toolchain in `cmd/`, most of that
generated rewrite rules and opcode tables, and most of the rest are sequential
libraries. They have no interleavings, failures or protocols, and a
model of a formatter or of a rewrite rule would repeat it and say nothing of it
that its tests do not. The garbage collector and the allocator are systems of
their own; their invariants are about memory layout and write barriers, which
every module here abstracts from.

The plan, most important first:

1. *Done*: semaphores, Mutex, RWMutex, WaitGroup, Cond on
   notifyList, Once, channels and select, timers, sync.Map, io.Pipe,
   descriptors with the poller, run queues, the scheduler.
2. Proofs. *Done*: Mutex, Once, RWMutex, WaitGroup, Sema with its refinement, Cond on NotifyList
   with its refinement, Pipe on Once, FD, Sched, SyncMap and Chan with their
   refinements. Next: `Timers` with a heap that is stated without recursion, then
   `EmptyWasEmpty` of the run queues.
3. `Futex` (`runtime/lock_futex.go`): lock and note; abstract specification: a
   lock with one holder, which the other modules take as given.
4. `Context` (`context/context.go`); on top of it the connection pool of
   `database/sql`.
5. The treap of `semaRoot`, as operators, against a map from addresses to queues.

Modules that are proved about stay free of RECURSIVE operators; runs stay below
five minutes so that all of them can be repeated after a change.
