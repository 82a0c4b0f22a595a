------------------------------ MODULE RWMutex ------------------------------
(***************************************************************************)
(* sync.RWMutex (sync/rwmutex.go).  A step is an atomic operation on       *)
(* readerCount or readerWait, a call of the runtime's semaphores, or a     *)
(* call on rw.w.  rw.w is a lock with one holder (what module Mutex shows  *)
(* of it); readerSem and writerSem are counts of released units, which any *)
(* goroutine asleep on them may take (module Semaphore).                   *)
(*                                                                         *)
(* A client unlocks what it locked, and does not lock again what it holds. *)
(***************************************************************************)
EXTENDS Goroutines, Integers, FiniteSets

CONSTANTS
  None,       \* no goroutine
  MaxReaders  \* rwmutexMaxReaders, 1 << 30 in the code

ASSUME RWMutexAssumption ==
  /\ IsFiniteSet(G) /\ None \notin G
  /\ MaxReaders \in Nat /\ Cardinality(G) < MaxReaders

VARIABLES
  w,            \* rw.w: its holder, or None
  readerCount,  \* rw.readerCount
  readerWait,   \* rw.readerWait
  readerSem,    \* rw.readerSem: units nobody has taken yet
  writerSem,    \* rw.writerSem: the same
  r             \* local r of Lock; in Unlock the Semreleases still to do

counts == <<readerCount, readerWait>>
sems == <<readerSem, writerSem>>
rwVars == <<w, counts, sems, pc, r>>

ReaderPC == {"rwait", "reading", "rdepart", "rsignal"}
WriterPC == {"wlock", "wannounce", "wcount", "wwait", "writing", "wrelease", "wunlock"}
RWPC == {"idle", "throw"} \cup ReaderPC \cup WriterPC

RWInit ==
  /\ w = None
  /\ readerCount = 0 /\ readerWait = 0
  /\ readerSem = 0 /\ writerSem = 0
  /\ pc = [g \in G |-> "idle"]
  /\ r = [g \in G |-> 0]

----------------------------------------------------------------------------
(* RLock: count the reader; a negative count says that a writer is there.  *)
RLock(g) ==
  /\ At(g, "idle")
  /\ readerCount' = readerCount + 1
  /\ Goto(g, IF readerCount' < 0 THEN "rwait" ELSE "reading")
  /\ UNCHANGED <<w, readerWait, sems, r>>

(* runtime_SemacquireMutex(&rw.readerSem) returns.                         *)
RLockWake(g) ==
  /\ At(g, "rwait")
  /\ readerSem > 0
  /\ readerSem' = readerSem - 1
  /\ Goto(g, "reading")
  /\ UNCHANGED <<w, counts, writerSem, r>>

(* RUnlock: the checks, and whether a writer waits.                        *)
RUnlock(g) ==
  /\ At(g, "reading")
  /\ readerCount' = readerCount - 1
  /\ Goto(g, IF readerCount' >= 0 THEN "idle"
             ELSE IF readerCount \in {0, -MaxReaders} THEN "throw" ELSE "rdepart")
  /\ UNCHANGED <<w, readerWait, sems, r>>

(* Mutant: the writer is signalled while its count is negative.            *)
RUnlockDepartEager(g) ==
  /\ At(g, "rdepart")
  /\ readerWait' = readerWait - 1
  /\ Goto(g, IF readerWait' <= 0 THEN "rsignal" ELSE "idle")
  /\ UNCHANGED <<w, readerCount, sems, r>>

(* A writer is pending; the last reader it waits for unblocks it.          *)
RUnlockDepart(g) ==
  /\ At(g, "rdepart")
  /\ readerWait' = readerWait - 1
  /\ Goto(g, IF readerWait' = 0 THEN "rsignal" ELSE "idle")
  /\ UNCHANGED <<w, readerCount, sems, r>>

(* runtime_Semrelease(&rw.writerSem)                                       *)
RUnlockSignal(g) ==
  /\ At(g, "rsignal")
  /\ writerSem' = writerSem + 1
  /\ Goto(g, "idle")
  /\ UNCHANGED <<w, counts, readerSem, r>>

----------------------------------------------------------------------------
(* Lock is called, and blocks in rw.w.Lock while another writer is there.  *)
Lock(g) ==
  /\ At(g, "idle")
  /\ Goto(g, "wlock")
  /\ UNCHANGED <<w, counts, sems, r>>

LockW(g) ==
  /\ At(g, "wlock")
  /\ w = None
  /\ w' = g
  /\ Goto(g, "wannounce")
  /\ UNCHANGED <<counts, sems, r>>

(* Announce the writer: readers that come from now on wait.                *)
LockAnnounce(g) ==
  /\ At(g, "wannounce")
  /\ r' = [r EXCEPT ![g] = readerCount]
  /\ readerCount' = readerCount - MaxReaders
  /\ Goto(g, IF readerCount = 0 THEN "writing" ELSE "wcount")
  /\ UNCHANGED <<w, readerWait, sems>>

(* Mutant: readerWait is stored, not added to: departures are lost.        *)
LockCountSets(g) ==
  /\ At(g, "wcount")
  /\ readerWait' = r[g]
  /\ r' = [r EXCEPT ![g] = 0]
  /\ Goto(g, IF readerWait' # 0 THEN "wwait" ELSE "writing")
  /\ UNCHANGED <<w, readerCount, sems>>

(* The readers to wait for are those counted when the writer announced     *)
(* itself, less those that have departed meanwhile.                        *)
LockCount(g) ==
  /\ At(g, "wcount")
  /\ readerWait' = readerWait + r[g]
  /\ r' = [r EXCEPT ![g] = 0]
  /\ Goto(g, IF readerWait' # 0 THEN "wwait" ELSE "writing")
  /\ UNCHANGED <<w, readerCount, sems>>

(* runtime_SemacquireMutex(&rw.writerSem) returns.                         *)
LockWake(g) ==
  /\ At(g, "wwait")
  /\ writerSem > 0
  /\ writerSem' = writerSem - 1
  /\ Goto(g, "writing")
  /\ UNCHANGED <<w, counts, readerSem, r>>

(* Unlock: announce that there is no writer; r readers are blocked.        *)
Unlock(g) ==
  /\ At(g, "writing")
  /\ readerCount' = readerCount + MaxReaders
  /\ r' = [r EXCEPT ![g] = readerCount']
  /\ Goto(g, IF readerCount' >= MaxReaders THEN "throw"
             ELSE IF readerCount' = 0 THEN "wunlock" ELSE "wrelease")
  /\ UNCHANGED <<w, readerWait, sems>>

(* One round of the loop: runtime_Semrelease(&rw.readerSem).               *)
UnlockRelease(g) ==
  /\ At(g, "wrelease")
  /\ readerSem' = readerSem + 1
  /\ r' = [r EXCEPT ![g] = @ - 1]
  /\ Goto(g, IF r'[g] = 0 THEN "wunlock" ELSE "wrelease")
  /\ UNCHANGED <<w, counts, writerSem>>

(* rw.w.Unlock()                                                           *)
UnlockW(g) ==
  /\ At(g, "wunlock")
  /\ w' = None
  /\ Goto(g, "idle")
  /\ UNCHANGED <<counts, sems, r>>

----------------------------------------------------------------------------
ReaderStep(g) ==
  RLock(g) \/ RLockWake(g) \/ RUnlock(g) \/ RUnlockDepart(g) \/ RUnlockSignal(g)
WriterStep(g) ==
  \/ Lock(g) \/ LockW(g) \/ LockAnnounce(g) \/ LockCount(g) \/ LockWake(g)
  \/ Unlock(g) \/ UnlockRelease(g) \/ UnlockW(g)

RWNext == \E g \in G : ReaderStep(g) \/ WriterStep(g)

RWSpec == RWInit /\ [][RWNext]_rwVars

(* A goroutine that can go on does, and whoever holds the lock unlocks it. *)
(* Nobody has to call RLock or Lock, and nobody is promised rw.w.          *)
RWStep(g) ==
  \/ RLockWake(g) \/ RUnlock(g) \/ RUnlockDepart(g) \/ RUnlockSignal(g)
  \/ LockAnnounce(g) \/ LockCount(g) \/ LockWake(g)
  \/ Unlock(g) \/ UnlockRelease(g) \/ UnlockW(g)
RWFairness == \A g \in G : WF_rwVars(RWStep(g))
RWFairSpec == RWSpec /\ RWFairness

----------------------------------------------------------------------------
RWTypeOK ==
  /\ w \in G \cup {None}
  /\ readerCount \in Int /\ readerWait \in Int
  /\ readerSem \in Nat /\ writerSem \in Nat
  /\ pc \in [G -> RWPC]
  /\ r \in [G -> Int]

(* "The lock can be held by an arbitrary number of readers or a single     *)
(* writer" (rwmutex.go:16-17): a writer excludes everybody.                *)
Exclusion ==
  \A g, h \in G : At(g, "writing") /\ g # h => pc[h] \notin {"reading", "writing"}

(* A correct client meets neither throw (rwmutex.go:69-72, 122-125).       *)
RWNoThrow == \A g \in G : ~At(g, "throw")

(* "The lock eventually becomes available" (rwmutex.go:25-27): a writer    *)
(* that holds rw.w gets the lock, however many readers keep coming.        *)
PendingWriterGetsIn ==
  \A g \in G : pc[g] \in {"wannounce", "wcount", "wwait"} ~> At(g, "writing")

(* The comment at rwmutex.go:97 says that readerWait, with the readers     *)
(* added, should never be zero.  It is, when all of them have departed     *)
(* between the announcement and the addition; the code handles it.  TLC    *)
(* finds this formula violated.                                            *)
ReaderWaitNotZero == [][\A g \in G : LockCount(g) => readerWait' # 0]_rwVars

----------------------------------------------------------------------------
(* The inductive invariant.                                                *)
Announced == \E g \in G : pc[g] \in {"wcount", "wwait", "writing"}

OneWriter ==
  \A g \in G :
    w = g <=> pc[g] \in {"wannounce", "wcount", "wwait", "writing", "wrelease", "wunlock"}

(* readerCount counts the readers, less MaxReaders under a writer.         *)
ReadersCounted ==
  readerCount = Cardinality(In("reading")) + Cardinality(In("rwait"))
                - (IF Announced THEN MaxReaders ELSE 0)

(* Readers that are in, that have a unit to get in, or that have still to  *)
(* depart: those an announced writer has to wait for.                      *)
Admitted == Cardinality(In("reading")) + readerSem + Cardinality(In("rdepart"))

(* A writer asleep is owed exactly one signal: readers it counted are      *)
(* still in (or have a unit that lets them in), or the last of them is on  *)
(* its way, or the unit is there (rwmutex.go:74-77, 97-99).                *)
WriterWaits ==
  \A g \in G :
    /\ At(g, "wcount") => /\ readerWait + r[g] = Admitted /\ readerWait <= 0 /\ r[g] > 0
                          /\ writerSem = 0 /\ In("rsignal") = {}
    /\ At(g, "wwait") => /\ readerWait = Admitted
                         /\ writerSem + Cardinality(In("rsignal")) = IF readerWait = 0 THEN 1 ELSE 0
    /\ At(g, "writing") => Admitted = 0

NobodyWaits ==
  /\ ~(\E g \in G : pc[g] \in {"wcount", "wwait"}) =>
       readerWait = 0 /\ writerSem = 0 /\ In("rdepart") = {} /\ In("rsignal") = {}

(* A reader asleep in RLock is let in: units of readerSem belong to        *)
(* sleepers, and without a writer every sleeper has one, released or about *)
(* to be (rwmutex.go:48-51, 127-129).                                      *)
SleepersOwed ==
  /\ readerSem <= Cardinality(In("rwait"))
  /\ ~Announced => \A g \in G :
       IF At(g, "wrelease") THEN r[g] > 0 /\ Cardinality(In("rwait")) = readerSem + r[g]
       ELSE In("wrelease") = {} => Cardinality(In("rwait")) = readerSem

RWInv ==
  /\ RWTypeOK /\ RWNoThrow /\ Exclusion /\ OneWriter /\ ReadersCounted
  /\ WriterWaits /\ NobodyWaits /\ SleepersOwed
=============================================================================
