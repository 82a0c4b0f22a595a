-------------------------------- MODULE Pipe --------------------------------
(***************************************************************************)
(* io.Pipe (io/pipe.go) on top of sync.Once: Reads, Writes and closes of   *)
(* both ends in any number of goroutines.  A step is one select, one       *)
(* rendezvous on wrCh or rdCh (with the copy the Read makes), one access to*)
(* rerr or werr, wrMu, or a step of p.once.Do, whose f closes the channel  *)
(* p.done.  An error a close was given is abstracted to whether it is set. *)
(***************************************************************************)
EXTENDS Once, Sequences, FiniteSets

CONSTANTS
  Lens,     \* the lengths of written slices
  Sizes,    \* the lengths of the slices Reads fill
  MaxWrites \* bound: the number of Writes

ASSUME PipeAssumption == Lens \subseteq Nat /\ Sizes \subseteq Nat /\ MaxWrites \in Nat

VARIABLES
  closed,  \* the channel p.done is closed
  rerr,    \* p.rerr is set
  werr,    \* p.werr is set
  wrMu,    \* p.wrMu: its holder, or None
  at,      \* where a goroutine is inside Read, Write or a close
  buf,     \* its call: a Read's size, or a Write's number, length and n
  got,     \* history: the bytes Reads got, as <<number of the Write, index>>
  res,     \* history: what the last call returned
  late,    \* history: the Read or Write began when some close had returned
  writes,  \* history: the number of Writes
  final    \* history: a close has returned

onceVars == <<done, m, pc, calls>>
pipeVars == <<onceVars, closed, rerr, werr, wrMu, at, buf, got, res, late, writes, final>>

NoCall == [n |-> 0]
NoRes == [err |-> "nil"]

PipeInit ==
  /\ Init
  /\ closed = FALSE /\ rerr = FALSE /\ werr = FALSE
  /\ wrMu = None
  /\ at = [g \in G |-> "idle"]
  /\ buf = [g \in G |-> NoCall]
  /\ got = <<>>
  /\ res = [g \in G |-> NoRes]
  /\ late = [g \in G |-> FALSE]
  /\ writes = 0
  /\ final = FALSE

In(g, l) == at[g] = l
To(g, l) == at' = [at EXCEPT ![g] = l]

Begin(g, l, call) ==
  /\ In(g, "idle")
  /\ To(g, l)
  /\ buf' = [buf EXCEPT ![g] = call]
  /\ res' = [res EXCEPT ![g] = NoRes]
  /\ late' = [late EXCEPT ![g] = final /\ l # "close"]

Return(g, r) ==
  /\ To(g, "idle")
  /\ res' = [res EXCEPT ![g] = r]
  /\ buf' = [buf EXCEPT ![g] = NoCall]
  /\ late' = [late EXCEPT ![g] = FALSE]

----------------------------------------------------------------------------
(* Mutant: a Read does not look at p.done first.                           *)
ReadUnchecked(g, size) ==
  /\ Begin(g, "rSelect", [n |-> 0, size |-> size])
  /\ UNCHANGED <<onceVars, closed, rerr, werr, wrMu, got, writes, final>>

Read(g, size) ==
  /\ Begin(g, IF closed THEN "rErr" ELSE "rSelect", [n |-> 0, size |-> size])
  /\ UNCHANGED <<onceVars, closed, rerr, werr, wrMu, got, writes, final>>

Write(g, len) ==
  /\ writes < MaxWrites
  /\ writes' = writes + 1
  /\ Begin(g, IF closed THEN "wErr" ELSE "wLock", [n |-> 0, id |-> writes', len |-> len])
  /\ UNCHANGED <<onceVars, closed, rerr, werr, wrMu, got, final>>

(* Mutant: Writes are not serialized.                                      *)
WriteNoLock(g) ==
  /\ In(g, "wLock")
  /\ To(g, "wSelect")
  /\ UNCHANGED <<onceVars, closed, rerr, werr, wrMu, buf, got, res, late, writes, final>>

WriteLock(g) ==
  /\ In(g, "wLock")
  /\ wrMu = None
  /\ wrMu' = g
  /\ To(g, "wSelect")
  /\ UNCHANGED <<onceVars, closed, rerr, werr, buf, got, res, late, writes, final>>

(* The slice goes from Write w to Read g, which copies what fits.          *)
Transfer(g, w) ==
  /\ In(g, "rSelect") /\ In(w, "wSelect")
  /\ LET left == buf[w].len - buf[w].n
         nr == IF left < buf[g].size THEN left ELSE buf[g].size
     IN  /\ buf' = [buf EXCEPT ![g].n = nr]
         /\ got' = got \o [i \in 1 .. nr |-> <<buf[w].id, buf[w].n + i>>]
  /\ at' = [at EXCEPT ![g] = "rSend", ![w] = "wRecv"]
  /\ UNCHANGED <<onceVars, closed, rerr, werr, wrMu, res, late, writes, final>>

(* Read g tells Write w how many bytes it took; w goes on or returns.      *)
Count(g, w) ==
  /\ In(g, "rSend") /\ In(w, "wRecv")
  /\ LET n == buf[w].n + buf[g].n
         ends == n = buf[w].len
     IN  /\ at' = [at EXCEPT ![g] = "idle", ![w] = IF ends THEN "idle" ELSE "wSelect"]
         /\ buf' = [buf EXCEPT ![g] = NoCall, ![w] = IF ends THEN NoCall ELSE [@ EXCEPT !.n = n]]
         /\ late' = [late EXCEPT ![g] = FALSE, ![w] = @ /\ ~ends]
         /\ res' = [res EXCEPT ![w] = IF ends THEN [err |-> "nil", n |-> n, id |-> buf[w].id,
                                                    len |-> buf[w].len] ELSE @]
         /\ wrMu' = IF ends THEN None ELSE wrMu
  /\ UNCHANGED <<onceVars, closed, rerr, werr, got, writes, final>>

(* The selects choose p.done.                                              *)
SeesDone(g) ==
  /\ closed
  /\ \/ In(g, "rSelect") /\ To(g, "rErr")
     \/ In(g, "wSelect") /\ To(g, "wErr")
  /\ UNCHANGED <<onceVars, closed, rerr, werr, wrMu, buf, got, res, late, writes, final>>

(* readCloseError and writeCloseError: the error of the other end only if  *)
(* the own end was not closed; the two are loaded one after the other.     *)
LoadOwn(g) ==
  /\ \/ In(g, "rErr") /\ To(g, IF rerr THEN "rClosed" ELSE "rOther")
     \/ In(g, "wErr") /\ To(g, IF werr THEN "wClosed" ELSE "wOther")
  /\ UNCHANGED <<onceVars, closed, rerr, werr, wrMu, buf, got, res, late, writes, final>>

LoadOther(g) ==
  /\ \/ /\ at[g] \in {"rOther", "rClosed"}
        /\ Return(g, [err |-> IF In(g, "rOther") /\ werr THEN "werr" ELSE "ErrClosedPipe"])
        /\ UNCHANGED wrMu
     \/ /\ at[g] \in {"wOther", "wClosed"}
        /\ Return(g, [err |-> IF In(g, "wOther") /\ rerr THEN "rerr" ELSE "ErrClosedPipe",
                      n |-> buf[g].n, id |-> buf[g].id, len |-> buf[g].len])
        /\ wrMu' = IF wrMu = g THEN None ELSE wrMu
  /\ UNCHANGED <<onceVars, closed, rerr, werr, got, writes, final>>

----------------------------------------------------------------------------
CloseRead(g) ==
  /\ Begin(g, "close", NoCall)
  /\ rerr' = TRUE
  /\ Do(g)
  /\ UNCHANGED <<closed, werr, wrMu, got, writes, final>>

CloseWrite(g) ==
  /\ Begin(g, "close", NoCall)
  /\ werr' = TRUE
  /\ Do(g)
  /\ UNCHANGED <<closed, rerr, wrMu, got, writes, final>>

(* p.once.Do: f closes the channel p.done; the close returns when Do does. *)
CloseStep(g) ==
  /\ In(g, "close")
  /\ Step(g)
  /\ closed' = (closed \/ At(g, "f"))
  /\ IF pc'[g] = "idle"
     THEN Return(g, NoRes) /\ final' = TRUE
     ELSE UNCHANGED <<at, res, buf, late, final>>
  /\ UNCHANGED <<rerr, werr, wrMu, got, writes>>

----------------------------------------------------------------------------
Progress(g) ==
  \/ WriteLock(g) \/ SeesDone(g) \/ LoadOwn(g) \/ LoadOther(g) \/ CloseStep(g)
  \/ \E w \in G : Transfer(g, w) \/ Count(g, w)

PipeNext ==
  \E g \in G :
    \/ Progress(g) \/ CloseRead(g) \/ CloseWrite(g)
    \/ \E size \in Sizes : Read(g, size)
    \/ \E len \in Lens : Write(g, len)

(* Calls that can go on do; o.m and wrMu are granted to somebody.          *)
PipeSpec ==
  /\ PipeInit /\ [][PipeNext]_pipeVars
  /\ WF_pipeVars(\E g \in G : LockM(g) /\ CloseStep(g))
  /\ \A g \in G : WF_pipeVars(~At(g, "lock") /\ Progress(g))

----------------------------------------------------------------------------
BytesRead(id) == Cardinality({i \in DOMAIN got : got[i][1] = id})

(* "the individual calls will be gated sequentially" (pipe.go:183-185):    *)
(* the Reads get, one Write after the other, the first bytes of each in    *)
(* order and none twice; and a Write returns the number of its bytes that  *)
(* were read, which is all of them if it returns no error.                 *)
StreamIsWhole ==
  /\ \A i \in DOMAIN got \ {1} :
       \/ got[i] = <<got[i - 1][1], got[i - 1][2] + 1>>
       \/ got[i][2] = 1 /\ \A j \in 1 .. i - 1 : got[j][1] # got[i][1]
  /\ \A g \in G : "id" \in DOMAIN res[g] =>
       /\ res[g].n = BytesRead(res[g].id)
       /\ res[g].err = "nil" => res[g].n = res[g].len
       /\ res[g].err # "nil" => res[g].n < res[g].len \/ res[g].len = 0

(* A Read or Write that starts after some close has returned moves no byte *)
(* and reports an error; and the error is due: ErrClosedPipe only if the   *)
(* caller's end was closed, the other end's error only if that one was.    *)
ClosedIsFinal ==
  \A g \in G :
    /\ late[g] => at[g] \notin {"rSend", "wRecv"}
    /\ res[g].err = "ErrClosedPipe" => IF "id" \in DOMAIN res[g] THEN werr ELSE rerr
    /\ res[g].err = "werr" => werr
    /\ res[g].err = "rerr" => rerr

(* Every close returns, and once p.done is closed so does every call: a    *)
(* Write that waits for the count of a Read gets it (pipe.go:53, 88-89).   *)
CallsEnd ==
  \A g \in G : In(g, "close") \/ (closed /\ ~In(g, "idle")) ~> In(g, "idle")
=============================================================================
