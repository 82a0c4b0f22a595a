----------------------------- MODULE PipeProofs -----------------------------
(***************************************************************************)
(* Proofs about modules Once, for any set of goroutines, and Pipe, for any *)
(* lengths of the slices and any number of Writes besides.  What p.once    *)
(* does follows from what is proved about Once: a Pipe takes only steps    *)
(* that Once allows.                                                       *)
(***************************************************************************)
EXTENDS Pipe, FiniteSetTheorems, SequenceTheorems, TLAPS

----------------------------------------------------------------------------
(* Once: Init, Next, Spec and IInv are those of module Once.               *)

LEMMA InitIInv == Init => IInv
  BY OnceAssumption DEF Init, IInv, TypeOK, At

LEMMA TypeStep == TypeOK /\ [Next]_vars => TypeOK'
<1> SUFFICES ASSUME TypeOK, [Next]_vars PROVE TypeOK'
  OBVIOUS
<1> USE DEF TypeOK
<1>1. CASE UNCHANGED vars
  BY <1>1 DEF vars
<1>2. ASSUME NEW g \in G, Do(g) \/ Step(g) PROVE TypeOK'
  BY <1>2 DEF Do, Step, LoadDone, LockM, TestDone, FEnds, StoreDone, UnlockM, Goto
<1> QED
  BY <1>1, <1>2 DEF Next

(* One step per action.                                                    *)
LEMMA IInvStep == IInv /\ [Next]_vars => IInv'
<1> SUFFICES ASSUME IInv, [Next]_vars PROVE IInv'
  OBVIOUS
<1>t. TypeOK /\ TypeOK'
  BY TypeStep DEF IInv
<1>0. CASE UNCHANGED vars
  BY <1>0 DEF vars, IInv, TypeOK, At
<1>1. ASSUME NEW g \in G, Do(g) \/ LoadDone(g) PROVE IInv'
  BY <1>1, <1>t DEF IInv, TypeOK, Do, LoadDone, Goto, At
<1>2. ASSUME NEW g \in G, LockM(g) PROVE IInv'
  BY <1>2, <1>t, OnceAssumption DEF IInv, TypeOK, LockM, Goto, At
<1>3. ASSUME NEW g \in G, TestDone(g) PROVE IInv'
  <2> USE DEF IInv, TypeOK, Goto, At
  <2>1. m = g /\ \A h \in G : h # g => pc[h] \notin {"test", "f", "store", "unlock"}
    BY <1>3 DEF TestDone
  <2>2. CASE done = 0
    BY <1>3, <1>t, <2>1, <2>2 DEF TestDone
  <2>3. CASE done = 1
    BY <1>3, <1>t, <2>1, <2>3 DEF TestDone
  <2> QED
    BY <2>2, <2>3
<1>4. ASSUME NEW g \in G, FEnds(g) PROVE IInv'
  <2> USE DEF IInv, TypeOK, Goto, At
  <2>1. done = 0 /\ calls = 1
    BY <1>4 DEF FEnds
  <2> QED
    BY <1>4, <1>t, <2>1 DEF FEnds
<1>5. ASSUME NEW g \in G, StoreDone(g) PROVE IInv'
  <2> USE DEF IInv, TypeOK, Goto, At
  <2>1. m = g /\ \A h \in G : h # g => pc[h] \notin {"test", "f", "store", "unlock"}
    BY <1>5 DEF StoreDone
  <2>2. done = 0 /\ calls = 1
    BY <1>5 DEF StoreDone
  <2> QED
    BY <1>5, <1>t, <2>1, <2>2 DEF StoreDone
<1>6. ASSUME NEW g \in G, UnlockM(g) PROVE IInv'
  <2> USE DEF IInv, TypeOK, Goto, At
  <2>1. m = g /\ \A h \in G : h # g => pc[h] \notin {"test", "f", "store", "unlock"}
    BY <1>6 DEF UnlockM
  <2>2. done = 1
    BY <1>6 DEF UnlockM
  <2> QED
    BY <1>6, <1>t, <2>1, <2>2, OnceAssumption DEF UnlockM
<1> QED
  BY <1>0, <1>1, <1>2, <1>3, <1>4, <1>5, <1>6 DEF Next, Step

(* o.m is held from lock to unlock, and done tells whether the one call of *)
(* f has ended (once.go:35-46).                                            *)
THEOREM Invariance == Spec => []IInv
  BY InitIInv, IInvStep, PTL DEF Spec

(* f is called at most once, however many calls of Do race                 *)
(* (once.go:17-24).                                                        *)
THEOREM CalledOnce == Spec => []AtMostOnce
<1>1. IInv => AtMostOnce
  BY DEF IInv, TypeOK, AtMostOnce
<1> QED
  BY Invariance, <1>1, PTL

(* No call of Do returns before f has returned, by the fast path or the    *)
(* slow one (once.go:29-30, 36-38).                                        *)
THEOREM ReturnsAfterF == Spec => NoEarlyReturn
<1> DEFINE Early == \A g \in G : ~At(g, "idle") /\ pc'[g] = "idle" =>
                      calls = 1 /\ \A h \in G : ~At(h, "f")
<1>1. ASSUME IInv, [Next]_vars PROVE [Early]_vars
  <2>1. SUFFICES ASSUME NEW g \in G, ~At(g, "idle"), pc'[g] = "idle", vars' # vars
                 PROVE calls = 1 /\ \A h \in G : ~At(h, "f")
    OBVIOUS
  <2>2. SUFFICES done = 1
    BY <1>1 DEF IInv, At
  <2>3. PICK h \in G : Do(h) \/ Step(h)
    BY <1>1, <2>1 DEF Next
  <2>4. h = g /\ (LoadDone(g) \/ UnlockM(g))
    BY <1>1, <2>1, <2>3 DEF IInv, TypeOK, Do, Step, LoadDone, LockM, TestDone, FEnds, StoreDone,
                            UnlockM, Goto, At
  <2> QED
    BY <1>1, <2>1, <2>4 DEF IInv, TypeOK, LoadDone, UnlockM, Goto, At
<1> QED
  BY Invariance, <1>1, PTL DEF Spec, NoEarlyReturn

----------------------------------------------------------------------------
(* Pipe.                                                                   *)

Reading == {"rSelect", "rSend", "rErr", "rOther", "rClosed"}
Writing == {"wLock", "wSelect", "wRecv", "wErr", "wOther", "wClosed"}
Failing == {"rErr", "rOther", "rClosed", "wErr", "wOther", "wClosed"}

ReadCall == [n : Nat, size : Sizes]
WriteCall == [n : Nat, id : Nat, len : Lens]
Plain == [err : {"nil", "werr", "ErrClosedPipe"}]
Written == [err : {"nil", "rerr", "ErrClosedPipe"}, n : Nat, id : Nat, len : Lens]

PipeTypeOK ==
  /\ closed \in BOOLEAN /\ rerr \in BOOLEAN /\ werr \in BOOLEAN /\ final \in BOOLEAN
  /\ wrMu \in G \cup {None}
  /\ at \in [G -> {"idle", "close"} \cup Reading \cup Writing]
  /\ buf \in [G -> {NoCall} \cup ReadCall \cup WriteCall]
  /\ \A g \in G : /\ at[g] \in Reading => buf[g] \in ReadCall
                  /\ at[g] \in Writing => buf[g] \in WriteCall
  /\ res \in [G -> Plain \cup Written]
  /\ late \in [G -> BOOLEAN]
  /\ writes \in Nat
  /\ got \in Seq(Nat \X Nat)

(* A close has set its error before it gets to p.once; p.done is closed    *)
(* before Once lets anybody pass.                                          *)
Closing ==
  /\ \A g \in G : In(g, "close") <=> ~At(g, "idle")
  /\ \A g \in G : At(g, "store") => closed
  /\ done = 1 => closed
  /\ closed \/ (\E g \in G : In(g, "close")) => rerr \/ werr
  /\ final => closed
  /\ \A g \in G : at[g] \in Failing => closed
  /\ \A g \in G : late[g] => final /\ at[g] \in Failing
  /\ \A g \in G : (In(g, "rClosed") => rerr) /\ (In(g, "wClosed") => werr)

(* The error a call returned is due.                                       *)
Due ==
  \A g \in G :
    /\ res[g].err = "ErrClosedPipe" => IF "id" \in DOMAIN res[g] THEN werr ELSE rerr
    /\ res[g].err = "werr" => werr
    /\ res[g].err = "rerr" => rerr

(* One Write at a time is past wrMu, and one Read answers it.              *)
Gated ==
  /\ \A g \in G : at[g] \in {"wSelect", "wRecv"} => wrMu = g
  /\ \A g \in G : In(g, "rSend") => \E w \in G : In(w, "wRecv")
  /\ \A g, h \in G : In(g, "rSend") /\ In(h, "rSend") => g = h

(* Every Write has a number of its own.                                    *)
Numbered ==
  /\ \A g \in G : at[g] \in Writing => buf[g].id <= writes
  /\ \A g, h \in G : at[g] \in Writing /\ at[h] \in Writing /\ g # h => buf[g].id # buf[h].id
  /\ \A g \in G : "id" \in DOMAIN res[g] => res[g].id <= writes
  /\ \A g, h \in G : "id" \in DOMAIN res[g] /\ at[h] \in Writing => buf[h].id # res[g].id
  /\ \A i \in DOMAIN got : got[i][1] <= writes

(* How often x comes first in a pair of s.                                 *)
Times(s, x) == Cardinality({i \in DOMAIN s : s[i][1] = x})

EndsIn(s, id, n) == n > 0 => Len(s) > 0 /\ s[Len(s)] = <<id, n>>

(* n of a Write counts the bytes of it that were read, short of those that *)
(* a Read took and has not reported; the last of them is the last of all.  *)
Counted ==
  /\ \A w \in G : at[w] \in Writing => buf[w].n < buf[w].len \/ (buf[w].len = 0 /\ buf[w].n = 0)
  /\ \A w \in G : at[w] \in Writing \ {"wRecv"} => Times(got, buf[w].id) = buf[w].n
  /\ \A w \in G : In(w, "wLock") => buf[w].n = 0
  /\ \A w \in G : In(w, "wSelect") => EndsIn(got, buf[w].id, buf[w].n)
  /\ \A g, w \in G : In(g, "rSend") /\ In(w, "wRecv") =>
       /\ Times(got, buf[w].id) = buf[w].n + buf[g].n
       /\ buf[w].n + buf[g].n <= buf[w].len
       /\ EndsIn(got, buf[w].id, buf[w].n + buf[g].n)

PipeInv == PipeTypeOK /\ Closing /\ Due /\ Gated /\ Numbered /\ Counted /\ StreamIsWhole

----------------------------------------------------------------------------
(* A Pipe takes only steps that Once allows.                               *)
LEMMA UsesOnce == [PipeNext]_pipeVars => [Next]_vars
<1> SUFFICES ASSUME [PipeNext]_pipeVars PROVE [Next]_vars
  OBVIOUS
<1> USE DEF onceVars, vars
<1>1. CASE UNCHANGED pipeVars
  BY <1>1 DEF pipeVars
<1>2. ASSUME NEW g \in G, Progress(g) PROVE [Next]_vars
  <2>1. CASE CloseStep(g)
    BY <2>1 DEF CloseStep, Next
  <2> QED
    BY <1>2, <2>1 DEF Progress, WriteLock, SeesDone, LoadOwn, LoadOther, Transfer, Count
<1>3. ASSUME NEW g \in G, CloseRead(g) \/ CloseWrite(g) PROVE [Next]_vars
  BY <1>3 DEF CloseRead, CloseWrite, Next
<1>4. ASSUME NEW g \in G, NEW x, Read(g, x) \/ Write(g, x) PROVE [Next]_vars
  BY <1>4 DEF Read, Write
<1> QED
  BY <1>1, <1>2, <1>3, <1>4 DEF PipeNext

(* io.Pipe uses sync.Once as it is meant to be used: every behaviour of a  *)
(* Pipe is, for p.once, one of Once (pipe.go:40-41, 65-71, 104-110).       *)
THEOREM PipeUsesOnce == PipeSpec => Spec
<1>1. PipeInit => Init
  BY DEF PipeInit
<1> QED
  BY <1>1, UsesOnce, PTL DEF PipeSpec, Spec

(* No close returns before p.done is closed by the one call of f, and it   *)
(* is closed once (pipe.go:70, once.go:29-30).                             *)
THEOREM ClosesOnce == PipeSpec => [](IInv /\ AtMostOnce) /\ NoEarlyReturn
  BY PipeUsesOnce, Invariance, CalledOnce, ReturnsAfterF, PTL

----------------------------------------------------------------------------
(* What a Transfer and a Count do, with the calls of both ends at hand.    *)
Transferred(g, w, nr) ==
  /\ g # w /\ at[g] = "rSelect" /\ at[w] = "wSelect"
  /\ buf[g] \in ReadCall /\ buf[w] \in WriteCall
  /\ buf[w].n + nr <= buf[w].len
  /\ buf' = [buf EXCEPT ![g] = [buf[g] EXCEPT !.n = nr]]
  /\ got' = got \o [i \in 1 .. nr |-> <<buf[w].id, buf[w].n + i>>]
  /\ at' = [at EXCEPT ![g] = "rSend", ![w] = "wRecv"]
  /\ UNCHANGED <<onceVars, closed, rerr, werr, wrMu, res, late, writes, final>>

LEMMA Transferring ==
  ASSUME PipeTypeOK, Counted, NEW g \in G, NEW w \in G, Transfer(g, w)
  PROVE  \E nr \in Nat : Transferred(g, w, nr)
<1> DEFINE left == buf[w].len - buf[w].n
           nr == IF left < buf[g].size THEN left ELSE buf[g].size
<1>1. /\ g # w /\ at[g] = "rSelect" /\ at[w] = "wSelect"
      /\ buf[g] \in ReadCall /\ buf[w] \in WriteCall
  BY DEF PipeTypeOK, Transfer, In, Reading, Writing
<1>2. buf[g].size \in Nat /\ buf[w].n \in Nat /\ buf[w].len \in Nat
  BY <1>1, PipeAssumption DEF ReadCall, WriteCall
<1>3. buf[w].n < buf[w].len \/ (buf[w].len = 0 /\ buf[w].n = 0)
  BY <1>1 DEF Counted, Writing
<1>4. nr \in Nat /\ buf[w].n + nr <= buf[w].len
  BY <1>2, <1>3
<1>5. /\ buf' = [buf EXCEPT ![g] = [buf[g] EXCEPT !.n = nr]]
      /\ got' = got \o [i \in 1 .. nr |-> <<buf[w].id, buf[w].n + i>>]
      /\ at' = [at EXCEPT ![g] = "rSend", ![w] = "wRecv"]
      /\ UNCHANGED <<onceVars, closed, rerr, werr, wrMu, res, late, writes, final>>
  BY DEF Transfer
<1> HIDE DEF nr
<1> QED
  BY <1>1, <1>4, <1>5 DEF Transferred

Reported(g, w, n) ==
  /\ g # w /\ at[g] = "rSend" /\ at[w] = "wRecv"
  /\ buf[g] \in ReadCall /\ buf[w] \in WriteCall
  /\ n = buf[w].n + buf[g].n
  /\ \/ /\ n = buf[w].len
        /\ at' = [at EXCEPT ![g] = "idle", ![w] = "idle"]
        /\ buf' = [buf EXCEPT ![g] = NoCall, ![w] = NoCall]
        /\ late' = [late EXCEPT ![g] = FALSE, ![w] = FALSE]
        /\ res' = [res EXCEPT ![w] = [err |-> "nil", n |-> n, id |-> buf[w].id,
                                      len |-> buf[w].len]]
        /\ wrMu' = None
     \/ /\ n # buf[w].len
        /\ at' = [at EXCEPT ![g] = "idle", ![w] = "wSelect"]
        /\ buf' = [buf EXCEPT ![g] = NoCall, ![w] = [buf[w] EXCEPT !.n = n]]
        /\ late' = [late EXCEPT ![g] = FALSE]
        /\ UNCHANGED <<res, wrMu>>
  /\ UNCHANGED <<onceVars, closed, rerr, werr, got, writes, final>>

LEMMA Counting ==
  ASSUME PipeTypeOK, NEW g \in G, NEW w \in G, Count(g, w)
  PROVE  \E n \in Nat : Reported(g, w, n)
<1> DEFINE n == buf[w].n + buf[g].n
<1>1. /\ g # w /\ at[g] = "rSend" /\ at[w] = "wRecv"
      /\ buf[g] \in ReadCall /\ buf[w] \in WriteCall
  BY DEF PipeTypeOK, Count, In, Reading, Writing
<1>2. n \in Nat
  BY <1>1 DEF ReadCall, WriteCall
<1>3. late' = [late EXCEPT ![g] = FALSE, ![w] = late[w] /\ ~(n = buf[w].len)]
  BY <1>1 DEF Count
<1>4. CASE n = buf[w].len
  BY <1>1, <1>2, <1>3, <1>4 DEF Count, Reported
<1>5. CASE n # buf[w].len
  <2>1. late' = [late EXCEPT ![g] = FALSE]
    BY <1>1, <1>3, <1>5 DEF PipeTypeOK
  <2>2. /\ at' = [at EXCEPT ![g] = "idle", ![w] = "wSelect"]
        /\ buf' = [buf EXCEPT ![g] = NoCall, ![w] = [buf[w] EXCEPT !.n = n]]
    BY <1>1, <1>5 DEF Count
  <2>3. UNCHANGED wrMu /\ UNCHANGED <<onceVars, closed, rerr, werr, got, writes, final>>
    BY <1>1, <1>5 DEF Count
  <2>4. res' = [res EXCEPT ![w] = res[w]]
    BY <1>1, <1>5 DEF Count
  <2>5. res' = res
    BY <2>4 DEF PipeTypeOK
  <2> QED
    BY <1>1, <1>2, <1>5, <2>1, <2>2, <2>3, <2>5 DEF Reported
<1> QED
  BY <1>4, <1>5

(* Types, one step per action.                                             *)
LEMMA PipeTypeStep ==
  ASSUME PipeTypeOK, Counted, [PipeNext]_pipeVars
  PROVE  PipeTypeOK'
<1> USE PipeAssumption DEF PipeTypeOK, Reading, Writing
<1>0. CASE UNCHANGED pipeVars
  BY <1>0 DEF pipeVars
<1>1. ASSUME NEW g \in G, NEW size \in Sizes, Read(g, size) PROVE PipeTypeOK'
  <2>1. [n |-> 0, size |-> size] \in ReadCall /\ NoRes \in Plain
    BY DEF ReadCall, Plain, NoRes
  <2> QED
    BY <1>1, <2>1 DEF Read, Begin, In, To
<1>2. ASSUME NEW g \in G, NEW len \in Lens, Write(g, len) PROVE PipeTypeOK'
  <2>1. [n |-> 0, id |-> writes + 1, len |-> len] \in WriteCall /\ NoRes \in Plain /\ writes + 1 \in Nat
    BY DEF WriteCall, Plain, NoRes
  <2> QED
    BY <1>2, <2>1 DEF Write, Begin, In, To
<1>3. ASSUME NEW g \in G, CloseRead(g) \/ CloseWrite(g) PROVE PipeTypeOK'
  <2>1. NoRes \in Plain
    BY DEF Plain, NoRes
  <2> QED
    <3>1. /\ at' = [at EXCEPT ![g] = "close"] /\ buf' = [buf EXCEPT ![g] = NoCall]
          /\ res' = [res EXCEPT ![g] = NoRes] /\ late' = [late EXCEPT ![g] = FALSE]
          /\ at[g] = "idle" /\ rerr' \in BOOLEAN /\ werr' \in BOOLEAN
          /\ UNCHANGED <<closed, wrMu, got, writes, final>>
      BY <1>3 DEF CloseRead, CloseWrite, Begin, In, To
    <3> QED
      BY <2>1, <3>1
<1>4. ASSUME NEW g \in G, WriteLock(g) \/ SeesDone(g) \/ LoadOwn(g) PROVE PipeTypeOK'
  BY <1>4 DEF WriteLock, SeesDone, LoadOwn, In, To
<1>5. ASSUME NEW g \in G, LoadOther(g) PROVE PipeTypeOK'
  <2>1. CASE at[g] \in {"rOther", "rClosed"}
    <3>1. PICK r \in Plain : Return(g, r) /\ UNCHANGED wrMu
      BY <1>5, <2>1 DEF LoadOther, Plain
    <3> QED
      BY <1>5, <3>1 DEF LoadOther, Return, To
  <2>2. CASE at[g] \in {"wOther", "wClosed"}
    <3>1. PICK r \in Written : Return(g, r)
      BY <1>5, <2>2 DEF LoadOther, Written, WriteCall
    <3> QED
      BY <1>5, <2>2, <3>1 DEF LoadOther, Return, To
  <2> QED
    BY <1>5, <2>1, <2>2 DEF LoadOther
<1>6. ASSUME NEW g \in G, CloseStep(g) PROVE PipeTypeOK'
  <2>1. NoRes \in Plain
    BY DEF Plain, NoRes
  <2> QED
    BY <1>6, <2>1, ZenonT(60) DEF CloseStep, Return, To, In
<1>7. ASSUME NEW g \in G, NEW w \in G, Transfer(g, w) PROVE PipeTypeOK'
  <2>1. PICK nr \in Nat : Transferred(g, w, nr)
    BY <1>7, Transferring
  <2>2. [buf[g] EXCEPT !.n = nr] \in ReadCall
    BY <2>1 DEF Transferred, ReadCall
  <2>a. buf[w].id \in Nat /\ buf[w].n \in Nat
    BY <2>1 DEF Transferred, WriteCall
  <2>3. [i \in 1 .. nr |-> <<buf[w].id, buf[w].n + i>>] \in [1 .. nr -> Nat \X Nat]
    BY <2>a
  <2>b. [i \in 1 .. nr |-> <<buf[w].id, buf[w].n + i>>] \in Seq(Nat \X Nat)
    BY <2>3
  <2>4. got' \in Seq(Nat \X Nat)
    BY <2>1, <2>b DEF Transferred
  <2> QED
    BY <2>1, <2>2, <2>4 DEF Transferred
<1>8. ASSUME NEW g \in G, NEW w \in G, Count(g, w) PROVE PipeTypeOK'
  <2>1. PICK n \in Nat : Reported(g, w, n)
    BY <1>8, Counting
  <2>2. [buf[w] EXCEPT !.n = n] \in WriteCall
    BY <2>1 DEF Reported, WriteCall
  <2>3. [err |-> "nil", n |-> n, id |-> buf[w].id, len |-> buf[w].len] \in Written
    BY <2>1 DEF Reported, WriteCall, Written
  <2> DEFINE r == [err |-> "nil", n |-> n, id |-> buf[w].id, len |-> buf[w].len]
             b == [buf[w] EXCEPT !.n = n]
  <2>4. g # w /\ UNCHANGED <<closed, rerr, werr, got, writes, final>>
    BY <2>1 DEF Reported
  <2>5. \/ /\ at' = [at EXCEPT ![g] = "idle", ![w] = "idle"]
           /\ buf' = [buf EXCEPT ![g] = NoCall, ![w] = NoCall]
           /\ late' = [late EXCEPT ![g] = FALSE, ![w] = FALSE]
           /\ res' = [res EXCEPT ![w] = r]
           /\ wrMu' = None
        \/ /\ at' = [at EXCEPT ![g] = "idle", ![w] = "wSelect"]
           /\ buf' = [buf EXCEPT ![g] = NoCall, ![w] = b]
           /\ late' = [late EXCEPT ![g] = FALSE]
           /\ UNCHANGED <<res, wrMu>>
    BY <2>1 DEF Reported
  <2>6. r \in Written /\ b \in WriteCall
    BY <2>2, <2>3
  <2> HIDE DEF r, b
  <2>7. /\ wrMu' \in G \cup {None} /\ late' \in [G -> BOOLEAN]
        /\ at' \in [G -> {"idle", "close"} \cup Reading \cup Writing]
    BY <2>4, <2>5
  <2>8. buf' \in [G -> {NoCall} \cup ReadCall \cup WriteCall] /\ res' \in [G -> Plain \cup Written]
    BY <2>5, <2>6, ZenonT(60)
  <2>9. ASSUME NEW h \in G
        PROVE  /\ at'[h] \in Reading => buf'[h] \in ReadCall
               /\ at'[h] \in Writing => buf'[h] \in WriteCall
    <3>1. CASE at'[w] = "idle"
      BY <2>4, <2>5, <3>1
    <3>2. CASE at'[w] # "idle"
      <4>1. /\ at' = [at EXCEPT ![g] = "idle", ![w] = "wSelect"]
            /\ buf' = [buf EXCEPT ![g] = NoCall, ![w] = b]
        BY <2>4, <2>5, <3>2
      <4> QED
        BY <2>4, <2>6, <4>1
    <3> QED
      BY <3>1, <3>2
  <2> QED
    BY <2>4, <2>7, <2>8, <2>9
<1> QED
  BY <1>0, <1>1, <1>2, <1>3, <1>4, <1>5, <1>6, <1>7, <1>8 DEF PipeNext, Progress

----------------------------------------------------------------------------
(* What closes, and who returns with which error, one step per action.     *)
LEMMA ClosingStep ==
  ASSUME PipeTypeOK, Counted, IInv, Closing, [PipeNext]_pipeVars
  PROVE  Closing'
<1> USE DEF PipeTypeOK, Closing, Reading, Writing, Failing, In, At
<1>0. CASE UNCHANGED pipeVars
  BY <1>0 DEF pipeVars, onceVars
<1>1. ASSUME NEW g \in G, NEW size \in Sizes, Read(g, size) PROVE Closing'
  BY <1>1 DEF Read, Begin, To, onceVars
<1>2. ASSUME NEW g \in G, NEW len \in Lens, Write(g, len) PROVE Closing'
  BY <1>2 DEF Write, Begin, To, onceVars
<1>3. ASSUME NEW g \in G, CloseRead(g) \/ CloseWrite(g) PROVE Closing'
  <2>1. /\ at' = [at EXCEPT ![g] = "close"] /\ late' = [late EXCEPT ![g] = FALSE]
        /\ pc' = [pc EXCEPT ![g] = "load"]
        /\ at[g] = "idle" /\ (rerr' = rerr \/ rerr' = TRUE) /\ (werr' = werr \/ werr' = TRUE)
        /\ rerr' \/ werr'
        /\ UNCHANGED <<closed, final, done>>
    BY <1>3 DEF CloseRead, CloseWrite, Begin, To, Do, Goto
  <2> QED
    BY <2>1 DEF IInv, TypeOK
<1>4. ASSUME NEW g \in G, WriteLock(g) \/ SeesDone(g) \/ LoadOwn(g) PROVE Closing'
  <2>1. CASE WriteLock(g)
    BY <2>1 DEF WriteLock, To, onceVars
  <2>2. CASE SeesDone(g)
    BY <2>2 DEF SeesDone, To, onceVars
  <2>3. CASE LoadOwn(g)
    BY <2>3 DEF LoadOwn, To, onceVars
  <2> QED
    BY <1>4, <2>1, <2>2, <2>3
<1>5. ASSUME NEW g \in G, LoadOther(g) PROVE Closing'
  <2>1. /\ at' = [at EXCEPT ![g] = "idle"] /\ late' = [late EXCEPT ![g] = FALSE]
        /\ at[g] \in Failing
        /\ UNCHANGED <<done, m, pc, calls, closed, rerr, werr, final>>
    BY <1>5 DEF LoadOther, Return, To, onceVars
  <2> QED
    BY <2>1
<1>6. ASSUME NEW g \in G, CloseStep(g) PROVE Closing'
  <2>1. at[g] = "close" /\ Step(g) /\ closed' = (closed \/ pc[g] = "f") /\ UNCHANGED <<rerr, werr>>
    BY <1>6 DEF CloseStep
  <2>2. /\ pc' \in [G -> {"idle", "load", "lock", "test", "f", "store", "unlock"}]
        /\ \A h \in G \ {g} : pc'[h] = pc[h]
        /\ pc'[g] = "store" => pc[g] = "f"
        /\ done' = 1 => done = 1 \/ pc[g] = "store"
        /\ pc'[g] = "idle" => done = 1
    <3> USE DEF IInv, TypeOK, Goto
    <3>1. CASE LoadDone(g)
      BY <3>1 DEF LoadDone
    <3>2. CASE LockM(g)
      BY <3>2 DEF LockM
    <3>3. CASE TestDone(g)
      BY <3>3 DEF TestDone
    <3>4. CASE FEnds(g)
      BY <3>4 DEF FEnds
    <3>5. CASE StoreDone(g)
      BY <3>5 DEF StoreDone
    <3>6. CASE UnlockM(g)
      BY <3>6 DEF UnlockM
    <3> QED
      BY <2>1, <3>1, <3>2, <3>3, <3>4, <3>5, <3>6 DEF Step
  <2>3. CASE pc'[g] = "idle"
    <3>1. /\ at' = [at EXCEPT ![g] = "idle"] /\ late' = [late EXCEPT ![g] = FALSE] /\ final' = TRUE
      BY <1>6, <2>3 DEF CloseStep, Return, To
    <3> QED
      BY <2>1, <2>2, <2>3, <3>1
  <2>4. CASE pc'[g] # "idle"
    <3>1. UNCHANGED <<at, late, final>>
      BY <1>6, <2>4 DEF CloseStep
    <3>2. \A h \in G : at[h] = "close" <=> pc'[h] # "idle"
      BY <2>1, <2>2, <2>4
    <3>3. (\A h \in G : pc'[h] = "store" => closed') /\ (done' = 1 => closed')
      BY <2>1, <2>2
    <3>4. closed' => rerr' \/ werr'
      BY <2>1
    <3> QED
      BY <2>1, <3>1, <3>2, <3>3, <3>4
  <2> QED
    BY <2>3, <2>4
<1>7. ASSUME NEW g \in G, NEW w \in G, Transfer(g, w) PROVE Closing'
  BY <1>7 DEF Transfer, onceVars
<1>8. ASSUME NEW g \in G, NEW w \in G, Count(g, w) PROVE Closing'
  <2>1. PICK n \in Nat : Reported(g, w, n)
    BY <1>8, Counting
  <2>2. /\ UNCHANGED <<done, m, pc, calls, closed, rerr, werr, final>>
        /\ \A h \in G \ {g, w} : at'[h] = at[h] /\ late'[h] = late[h]
        /\ at'[g] = "idle" /\ at'[w] \in {"idle", "wSelect"} /\ at[g] = "rSend" /\ at[w] = "wRecv"
        /\ ~late'[g] /\ (late'[w] => late[w])
    BY <2>1 DEF Reported, onceVars
  <2> QED
    BY <2>2
<1> QED
  BY <1>0, <1>1, <1>2, <1>3, <1>4, <1>5, <1>6, <1>7, <1>8 DEF PipeNext, Progress

LEMMA DueStep ==
  ASSUME PipeTypeOK, Counted, Closing, Due, [PipeNext]_pipeVars
  PROVE  Due'
<1>n. NoRes.err = "nil"
  BY DEF NoRes
<1> USE DEF PipeTypeOK, Due
<1>0. CASE UNCHANGED pipeVars
  BY <1>0 DEF pipeVars
<1>1. ASSUME NEW g \in G, NEW x, Read(g, x) \/ Write(g, x) PROVE Due'
  <2>1. res' = [res EXCEPT ![g] = NoRes] /\ UNCHANGED <<rerr, werr>>
    BY <1>1 DEF Read, Write, Begin
  <2> QED
    BY <2>1, <1>n
<1>2. ASSUME NEW g \in G, CloseRead(g) \/ CloseWrite(g) PROVE Due'
  <2>1. /\ res' = [res EXCEPT ![g] = NoRes]
        /\ (rerr' = rerr \/ rerr' = TRUE) /\ (werr' = werr \/ werr' = TRUE)
    BY <1>2 DEF CloseRead, CloseWrite, Begin
  <2> QED
    BY <2>1, <1>n
<1>3. ASSUME NEW g \in G, WriteLock(g) \/ SeesDone(g) \/ LoadOwn(g) PROVE Due'
  BY <1>3 DEF WriteLock, SeesDone, LoadOwn
<1>4. ASSUME NEW g \in G, LoadOther(g) PROVE Due'
  <2>1. UNCHANGED <<rerr, werr>>
    BY <1>4 DEF LoadOther
  <2>2. CASE at[g] \in {"rOther", "rClosed"}
    <3>1. res' = [res EXCEPT ![g] = [err |-> IF at[g] = "rOther" /\ werr THEN "werr" ELSE "ErrClosedPipe"]]
      BY <1>4, <2>2 DEF LoadOther, Return, In
    <3>2. (at[g] = "rOther" /\ werr) \/ rerr
      BY <2>2 DEF Closing, Failing, In
    <3> QED
      BY <2>1, <3>1, <3>2
  <2>3. CASE at[g] \in {"wOther", "wClosed"}
    <3>1. res' = [res EXCEPT ![g] = [err |-> IF at[g] = "wOther" /\ rerr THEN "rerr" ELSE "ErrClosedPipe",
                                     n |-> buf[g].n, id |-> buf[g].id, len |-> buf[g].len]]
      BY <1>4, <2>3 DEF LoadOther, Return, In
    <3>2. (at[g] = "wOther" /\ rerr) \/ werr
      BY <2>3 DEF Closing, Failing, In
    <3> QED
      BY <2>1, <3>1, <3>2
  <2> QED
    BY <1>4, <2>2, <2>3 DEF LoadOther
<1>5. ASSUME NEW g \in G, CloseStep(g) PROVE Due'
  <2>1. (res' = res \/ res' = [res EXCEPT ![g] = NoRes]) /\ UNCHANGED <<rerr, werr>>
    BY <1>5 DEF CloseStep, Return
  <2> QED
    BY <2>1, <1>n
<1>6. ASSUME NEW g \in G, NEW w \in G, Transfer(g, w) PROVE Due'
  BY <1>6 DEF Transfer
<1>7. ASSUME NEW g \in G, NEW w \in G, Count(g, w) PROVE Due'
  <2>1. PICK n \in Nat : Reported(g, w, n)
    BY <1>7, Counting
  <2>2. /\ UNCHANGED <<rerr, werr>>
        /\ \/ res' = res
           \/ res' = [res EXCEPT ![w] = [err |-> "nil", n |-> n, id |-> buf[w].id, len |-> buf[w].len]]
    BY <2>1 DEF Reported
  <2> QED
    BY <2>2
<1> QED
  BY <1>0, <1>1, <1>2, <1>3, <1>4, <1>5, <1>6, <1>7 DEF PipeNext, Progress

----------------------------------------------------------------------------
(* Counting the bytes of a Write in what was got.                          *)
Appended(s, t, nr, id) ==
  /\ s \in Seq(Nat \X Nat) /\ t \in Seq(Nat \X Nat)
  /\ nr \in Nat /\ Len(t) = Len(s) + nr
  /\ \A i \in 1 .. Len(s) : t[i] = s[i]
  /\ \A i \in Len(s) + 1 .. Len(s) + nr : t[i][1] = id

More(s, t, nr, id, x) ==
  /\ Times(s, x) \in Nat
  /\ Times(t, x) = IF x = id THEN Times(s, x) + nr ELSE Times(s, x)

LEMMA TimesAppend ==
  ASSUME NEW s, NEW t, NEW nr, NEW id, NEW x, Appended(s, t, nr, id)
  PROVE  More(s, t, nr, id, x)
<1> DEFINE Old == {i \in DOMAIN s : s[i][1] = x}
           New == IF x = id THEN Len(s) + 1 .. Len(s) + nr ELSE {}
           All == {i \in DOMAIN t : t[i][1] = x}
<1>1. /\ Len(s) \in Nat /\ DOMAIN s = 1 .. Len(s)
      /\ DOMAIN t = 1 .. Len(s) + nr
      /\ nr \in Nat /\ \A i \in 1 .. Len(s) : t[i] = s[i]
      /\ \A i \in Len(s) + 1 .. Len(s) + nr : t[i][1] = id
  BY DEF Appended
<1>2. IsFiniteSet(Old) /\ Cardinality(Old) \in Nat
  <2>0. 1 \in Int /\ Len(s) \in Int
    BY <1>1
  <2>1. IsFiniteSet(1 .. Len(s))
    BY <2>0, FS_Interval, Zenon
  <2>2. Old \subseteq 1 .. Len(s)
    BY <1>1
  <2> QED
    BY <2>1, <2>2, FS_Subset, FS_CardinalityType
<1>3. IsFiniteSet(New) /\ Cardinality(New) = IF x = id THEN nr ELSE 0
  <2>1. CASE x = id
    <3>0. Len(s) + 1 \in Int /\ Len(s) + nr \in Int
      BY <1>1
    <3>1. /\ IsFiniteSet(Len(s) + 1 .. Len(s) + nr)
          /\ Cardinality(Len(s) + 1 .. Len(s) + nr)
               = IF Len(s) + 1 > Len(s) + nr THEN 0 ELSE (Len(s) + nr) - (Len(s) + 1) + 1
      BY <3>0, FS_Interval, Zenon
    <3>2. (IF Len(s) + 1 > Len(s) + nr THEN 0 ELSE (Len(s) + nr) - (Len(s) + 1) + 1) = nr
      BY <1>1
    <3> QED
      BY <2>1, <3>1, <3>2
  <2>2. CASE x # id
    BY <2>2, FS_EmptySet
  <2> QED
    BY <2>1, <2>2
<1>4. All = Old \cup New /\ Old \cap New = {}
  <2>1. CASE x = id
    <3>1. \A i : i \in DOMAIN t <=> i \in 1 .. Len(s) \/ i \in Len(s) + 1 .. Len(s) + nr
      BY <1>1
    <3>2. (1 .. Len(s)) \cap (Len(s) + 1 .. Len(s) + nr) = {}
      BY <1>1
    <3> QED
      BY <1>1, <2>1, <3>1, <3>2
  <2>2. CASE x # id
    BY <1>1, <2>2
  <2> QED
    BY <2>1, <2>2
<1>5. Cardinality(All) = Cardinality(Old) + Cardinality(New) - Cardinality(Old \cap New)
  BY <1>2, <1>3, <1>4, FS_Union
<1>6. Cardinality(Old \cap New) = 0
  BY <1>4, FS_EmptySet
<1>7. Times(s, x) = Cardinality(Old) /\ Times(t, x) = Cardinality(All)
  BY DEF Times
<1> HIDE DEF Old, New, All
<1> QED
  BY <1>1, <1>2, <1>3, <1>5, <1>6, <1>7 DEF More

LEMMA TimesZero ==
  ASSUME NEW s \in Seq(Nat \X Nat), NEW x, Times(s, x) = 0
  PROVE  \A i \in DOMAIN s : s[i][1] # x
<1> DEFINE All == {i \in DOMAIN s : s[i][1] = x}
<1>1. IsFiniteSet(All)
  <2>1. 1 \in Int /\ Len(s) \in Int /\ All \subseteq 1 .. Len(s)
    OBVIOUS
  <2>2. IsFiniteSet(1 .. Len(s))
    BY <2>1, FS_Interval, Zenon
  <2> QED
    BY <2>1, <2>2, FS_Subset
<1>2. All = {}
  BY <1>1, FS_EmptySet DEF Times
<1> QED
  BY <1>2

LEMMA TimesNone ==
  ASSUME NEW s, NEW x, \A i \in DOMAIN s : s[i][1] # x
  PROVE  Times(s, x) = 0
<1>1. {i \in DOMAIN s : s[i][1] = x} = {}
  OBVIOUS
<1> QED
  BY <1>1, FS_EmptySet DEF Times

LEMMA MoreBytes ==
  ASSUME PipeTypeOK, NEW g, NEW w, NEW nr \in Nat, Transferred(g, w, nr), NEW x
  PROVE  More(got, got', nr, buf[w].id, x)
<1> DEFINE id == buf[w].id
           k == buf[w].n
<1>1. /\ id \in Nat /\ k \in Nat
      /\ got' = got \o [i \in 1 .. nr |-> <<id, k + i>>]
  BY DEF Transferred, WriteCall
<1>2. got \in Seq(Nat \X Nat)
  BY DEF PipeTypeOK
<1>3. [i \in 1 .. nr |-> <<id, k + i>>] \in Seq(Nat \X Nat)
  <2>1. [i \in 1 .. nr |-> <<id, k + i>>] \in [1 .. nr -> Nat \X Nat]
    BY <1>1
  <2> QED
    BY <2>1
<1>4. /\ got' \in Seq(Nat \X Nat) /\ Len(got') = Len(got) + nr
      /\ \A i \in 1 .. Len(got) : got'[i] = got[i]
      /\ \A i \in Len(got) + 1 .. Len(got) + nr : got'[i][1] = id
  BY <1>1, <1>2, <1>3
<1>5. Appended(got, got', nr, id)
  BY <1>2, <1>4 DEF Appended
<1> QED
  BY <1>5, TimesAppend

----------------------------------------------------------------------------
(* What a step that moves no byte, reports none and begins no Write leaves *)
(* of the calls.                                                           *)
Ends(h) ==
  /\ at[h] \in Writing \ {"wRecv"} /\ at'[h] \notin Writing
  /\ res'[h].id = buf[h].id /\ res'[h].n = buf[h].n /\ res'[h].len = buf[h].len
  /\ res'[h].err # "nil"

QuietCall(h) ==
  /\ {at[h], at'[h]} \cap {"rSend", "wRecv"} # {} => at'[h] = at[h] /\ buf'[h] = buf[h]
  /\ at'[h] \in Writing => at[h] \in Writing /\ buf'[h] = buf[h]
  /\ at'[h] = "wSelect" => at[h] \in {"wLock", "wSelect"}
  /\ at'[h] = "wLock" => at[h] = "wLock"
  /\ at'[h] \in {"wSelect", "wRecv"} => wrMu' = h
  /\ "id" \in DOMAIN res'[h] => res'[h] = res[h] \/ Ends(h)

Quiet == got' = got /\ writes' = writes /\ \A h \in G : QuietCall(h)

LEMMA QuietOrNot ==
  ASSUME PipeTypeOK, Gated, [PipeNext]_pipeVars
  PROVE  \/ Quiet
         \/ \E g \in G, len \in Lens : Write(g, len)
         \/ \E g, w \in G : Transfer(g, w) \/ Count(g, w)
<1> USE DEF PipeTypeOK, Gated, Quiet, QuietCall, Reading, Writing, In
<1>n. "id" \notin DOMAIN NoRes
  BY DEF NoRes
<1>0. CASE UNCHANGED pipeVars
  BY <1>0 DEF pipeVars
<1>1. ASSUME NEW g \in G, NEW size \in Sizes, Read(g, size) PROVE Quiet
  BY <1>1, <1>n DEF Read, Begin, To
<1>2. ASSUME NEW g \in G, CloseRead(g) \/ CloseWrite(g) PROVE Quiet
  <2>1. /\ at' = [at EXCEPT ![g] = "close"] /\ buf' = [buf EXCEPT ![g] = NoCall]
        /\ res' = [res EXCEPT ![g] = NoRes] /\ at[g] = "idle" /\ UNCHANGED <<wrMu, got, writes>>
    BY <1>2 DEF CloseRead, CloseWrite, Begin, To
  <2> QED
    BY <2>1, <1>n
<1>3. ASSUME NEW g \in G, WriteLock(g) PROVE Quiet
  BY <1>3, OnceAssumption DEF WriteLock, To
<1>4. ASSUME NEW g \in G, SeesDone(g) \/ LoadOwn(g) PROVE Quiet
  BY <1>4 DEF SeesDone, LoadOwn, To
<1>5. ASSUME NEW g \in G, LoadOther(g) PROVE Quiet
  <2>1. /\ at' = [at EXCEPT ![g] = "idle"] /\ buf' = [buf EXCEPT ![g] = NoCall]
        /\ UNCHANGED <<got, writes>>
        /\ \A h \in G \ {g} : res'[h] = res[h] /\ (wrMu = h => wrMu' = h)
        /\ at[g] \in {"rOther", "rClosed", "wOther", "wClosed"}
    BY <1>5 DEF LoadOther, Return, To
  <2>2. CASE at[g] \in {"rOther", "rClosed"}
    <3>1. "id" \notin DOMAIN res'[g]
      BY <1>5, <2>2 DEF LoadOther, Return
    <3> QED
      BY <2>1, <2>2, <3>1
  <2>3. CASE at[g] \in {"wOther", "wClosed"}
    <3>1. /\ res'[g].id = buf[g].id /\ res'[g].n = buf[g].n /\ res'[g].len = buf[g].len
          /\ res'[g].err # "nil"
      BY <1>5, <2>3 DEF LoadOther, Return
    <3> QED
      BY <2>1, <2>3, <3>1 DEF Ends
  <2> QED
    BY <2>1, <2>2, <2>3
<1>6. ASSUME NEW g \in G, CloseStep(g) PROVE Quiet
  <2>1. at[g] = "close" /\ UNCHANGED <<wrMu, got, writes>>
    BY <1>6 DEF CloseStep
  <2>2. \/ at' = [at EXCEPT ![g] = "idle"] /\ buf' = [buf EXCEPT ![g] = NoCall] /\ res' = [res EXCEPT ![g] = NoRes]
        \/ UNCHANGED <<at, buf, res>>
    BY <1>6 DEF CloseStep, Return, To
  <2> QED
    BY <2>1, <2>2, <1>n
<1> QED
  BY <1>0, <1>1, <1>2, <1>3, <1>4, <1>5, <1>6 DEF PipeNext, Progress

LEMMA GatedStep ==
  ASSUME PipeTypeOK, Gated, Counted, [PipeNext]_pipeVars
  PROVE  Gated'
<1> USE DEF PipeTypeOK, Gated, In
<1>1. CASE Quiet
  BY <1>1 DEF Quiet, QuietCall
<1>2. ASSUME NEW g \in G, NEW len \in Lens, Write(g, len) PROVE Gated'
  BY <1>2 DEF Write, Begin, To
<1>3. ASSUME NEW g \in G, NEW w \in G, Transfer(g, w) PROVE Gated'
  <2>1. PICK nr \in Nat : Transferred(g, w, nr)
    BY <1>3, Transferring
  <2>2. g # w /\ at[w] = "wSelect" /\ at' = [at EXCEPT ![g] = "rSend", ![w] = "wRecv"] /\ wrMu' = wrMu
    BY <2>1 DEF Transferred
  <2>3. \A h \in G : at[h] # "rSend"
    BY <2>2
  <2> QED
    BY <2>2, <2>3
<1>4. ASSUME NEW g \in G, NEW w \in G, Count(g, w) PROVE Gated'
  <2>1. PICK n \in Nat : Reported(g, w, n)
    BY <1>4, Counting
  <2>2. /\ g # w /\ at[w] = "wRecv" /\ at[g] = "rSend" /\ at'[g] = "idle" /\ \A h \in G \ {g, w} : at'[h] = at[h]
        /\ at'[w] = "idle" \/ (at'[w] = "wSelect" /\ wrMu' = wrMu)
    BY <2>1 DEF Reported
  <2>3. \A h \in G \ {g, w} : at[h] \notin {"rSend", "wRecv", "wSelect"}
    BY <2>2
  <2> QED
    BY <2>2, <2>3
<1> QED
  BY <1>1, <1>2, <1>3, <1>4, QuietOrNot

LEMMA NumberedStep ==
  ASSUME PipeTypeOK, Gated, Counted, Numbered, [PipeNext]_pipeVars
  PROVE  Numbered'
<1> USE DEF PipeTypeOK, Numbered, WriteCall
<1>1. CASE Quiet
  <2>1. /\ got' = got /\ writes' = writes
        /\ \A h \in G : at'[h] \in Writing => at[h] \in Writing /\ buf'[h] = buf[h]
    BY <1>1 DEF Quiet, QuietCall
  <2>2. \A h \in G : "id" \in DOMAIN res'[h] =>
          res'[h] = res[h] \/ (at[h] \in Writing /\ at'[h] \notin Writing /\ res'[h].id = buf[h].id)
    BY <1>1 DEF Quiet, QuietCall, Ends
  <2> QED
    BY <2>1, <2>2
<1>2. ASSUME NEW g \in G, NEW len \in Lens, Write(g, len) PROVE Numbered'
  <2>1. /\ writes' = writes + 1 /\ got' = got /\ at[g] = "idle"
        /\ \A h \in G \ {g} : at'[h] = at[h] /\ buf'[h] = buf[h] /\ res'[h] = res[h]
        /\ buf'[g].id = writes + 1 /\ "id" \notin DOMAIN res'[g]
    BY <1>2 DEF Write, Begin, To, In, NoRes
  <2>2. \A h \in G : at[h] \in Writing => buf[h].id \in Nat
    OBVIOUS
  <2>3. \A h \in G : "id" \in DOMAIN res[h] => res[h].id \in Nat
    BY DEF Plain, Written
  <2>4. \A i \in DOMAIN got : got[i][1] \in Nat
    OBVIOUS
  <2> QED
    BY <2>1, <2>2, <2>3, <2>4, SMTT(30)
<1>3. ASSUME NEW g \in G, NEW w \in G, Transfer(g, w) PROVE Numbered'
  <2>1. PICK nr \in Nat : Transferred(g, w, nr)
    BY <1>3, Transferring
  <2>2. /\ UNCHANGED <<res, writes>> /\ at[w] = "wSelect" /\ at' = [at EXCEPT ![g] = "rSend", ![w] = "wRecv"]
        /\ \A h \in G \ {g} : buf'[h] = buf[h]
    BY <2>1 DEF Transferred
  <2>3. \A i \in DOMAIN got' : got'[i][1] \in {buf[w].id} \cup {got[j][1] : j \in DOMAIN got}
    BY <2>1 DEF Transferred
  <2>4. \A h \in G : at'[h] \in Writing => h # g /\ at[h] \in Writing
    BY <2>2 DEF Writing
  <2>5. at[w] \in Writing
    BY <2>2 DEF Writing
  <2> QED
    BY <2>2, <2>3, <2>4, <2>5, SMTT(30)
<1>4. ASSUME NEW g \in G, NEW w \in G, Count(g, w) PROVE Numbered'
  <2>1. PICK n \in Nat : Reported(g, w, n)
    BY <1>4, Counting
  <2>2. /\ UNCHANGED <<got, writes>> /\ at[w] \in Writing /\ at'[g] \notin Writing
        /\ \A h \in G \ {g, w} : at'[h] = at[h] /\ buf'[h] = buf[h]
        /\ at'[w] \in Writing => buf'[w].id = buf[w].id
    BY <2>1 DEF Reported, Writing
  <2>3. \A h \in G : "id" \in DOMAIN res'[h] =>
          res'[h] = res[h] \/ (h = w /\ at'[h] \notin Writing /\ res'[h].id = buf[h].id)
    BY <2>1 DEF Reported, Writing
  <2>4. \A h \in G : at'[h] \in Writing => at[h] \in Writing /\ buf'[h].id = buf[h].id
    BY <2>2
  <2>5. \A h \in G : "id" \in DOMAIN res'[h] => res'[h].id <= writes
    BY <2>2, <2>3
  <2>6. \A h, k \in G : "id" \in DOMAIN res'[h] /\ at'[k] \in Writing => buf'[k].id # res'[h].id
    <3> SUFFICES ASSUME NEW h \in G, NEW k \in G, "id" \in DOMAIN res'[h], at'[k] \in Writing
                 PROVE  buf'[k].id # res'[h].id
      OBVIOUS
    <3>1. CASE res'[h] = res[h]
      BY <3>1, <2>4
    <3>2. CASE h = w /\ at'[h] \notin Writing /\ res'[h].id = buf[h].id
      BY <3>2, <2>2, <2>4
    <3> QED
      BY <3>1, <3>2, <2>3
  <2> QED
    BY <2>2, <2>4, <2>5, <2>6
<1> QED
  BY <1>1, <1>2, <1>3, <1>4, QuietOrNot

LEMMA CountedStep ==
  ASSUME PipeTypeOK, Gated, Counted, Numbered, [PipeNext]_pipeVars
  PROVE  Counted'
<1> USE DEF PipeTypeOK, Counted, In
<1>1. CASE Quiet
  <2>1. /\ got' = got
        /\ \A h \in G : at'[h] \in Writing => at[h] \in Writing /\ buf'[h] = buf[h]
        /\ \A h \in G : at'[h] = "wSelect" => at[h] \in {"wLock", "wSelect"}
        /\ \A h \in G : at'[h] = "wLock" => at[h] = "wLock"
        /\ \A h \in G : {at[h], at'[h]} \cap {"rSend", "wRecv"} # {} => at'[h] = at[h] /\ buf'[h] = buf[h]
    BY <1>1 DEF Quiet, QuietCall
  <2>2. \A s, id : EndsIn(s, id, 0)
    BY DEF EndsIn
  <2>3. \A w \in G : at'[w] \in Writing \ {"wRecv"} => Times(got', buf'[w].id) = buf'[w].n
    BY <2>1
  <2>4. \A w \in G : at'[w] = "wSelect" => EndsIn(got', buf'[w].id, buf'[w].n)
    BY <2>1, <2>2 DEF Writing
  <2>5. ASSUME NEW g \in G, NEW w \in G, at'[g] = "rSend", at'[w] = "wRecv"
        PROVE  /\ at[g] = "rSend" /\ at[w] = "wRecv" /\ buf'[g] = buf[g] /\ buf'[w] = buf[w]
    BY <2>1, <2>5
  <2>6. \A w \in G : at'[w] = "wLock" => buf'[w].n = 0
    BY <2>1 DEF Writing
  <2>7. \A w \in G : at'[w] \in Writing => buf'[w].n < buf'[w].len \/ (buf'[w].len = 0 /\ buf'[w].n = 0)
    BY <2>1
  <2> QED
    BY <2>1, <2>3, <2>4, <2>5, <2>6, <2>7
<1>2. ASSUME NEW g \in G, NEW len \in Lens, Write(g, len) PROVE Counted'
  <2> DEFINE b == [n |-> 0, id |-> writes + 1, len |-> len]
  <2>1. /\ got' = got /\ at[g] = "idle" /\ at'[g] \in {"wErr", "wLock"} /\ buf'[g] = b
        /\ \A h \in G \ {g} : at'[h] = at[h] /\ buf'[h] = buf[h]
    BY <1>2 DEF Write, Begin, To
  <2>2. len \in Nat
    BY PipeAssumption
  <2>3. \A i \in DOMAIN got : got[i][1] # writes + 1
    BY DEF Numbered
  <2>4. Times(got, writes + 1) = 0
    BY <2>3, TimesNone
  <2> QED
    BY <2>1, <2>2, <2>4, SMTT(30)
<1>3. ASSUME NEW g \in G, NEW w \in G, Transfer(g, w) PROVE Counted'
  <2>1. PICK nr \in Nat : Transferred(g, w, nr)
    BY <1>3, Transferring
  <2> DEFINE id == buf[w].id
             k == buf[w].n
  <2>2. /\ g # w /\ at[w] = "wSelect" /\ at'[g] = "rSend" /\ at'[w] = "wRecv"
        /\ \A h \in G \ {g, w} : at'[h] = at[h]
        /\ \A h \in G \ {g} : buf'[h] = buf[h]
        /\ buf'[g].n = nr
        /\ k + nr <= buf[w].len
        /\ EndsIn(got, id, k)
    BY <2>1 DEF Transferred, ReadCall, Counted, In
  <2>3. id \in Nat /\ k \in Nat /\ at[w] \in Writing
    BY <2>1 DEF Transferred, WriteCall, Writing
  <2>4. got' = got \o [i \in 1 .. nr |-> <<id, k + i>>]
    BY <2>1 DEF Transferred
  <2>a. /\ got \in Seq(Nat \X Nat) /\ got' \in Seq(Nat \X Nat)
        /\ Len(got') = Len(got) + nr
        /\ \A i \in 1 .. Len(got) : got'[i] = got[i]
        /\ \A i \in Len(got) + 1 .. Len(got) + nr : got'[i] = <<id, k + (i - Len(got))>>
    BY <2>4, PipeTypeStep, SMTT(30)
  <2>c. \A x \in Nat : More(got, got', nr, id, x)
    BY <2>1, MoreBytes
  <2>5. \A x \in Nat : /\ Times(got, x) \in Nat
                       /\ Times(got', x) = IF x = id THEN Times(got, x) + nr ELSE Times(got, x)
    BY <2>c DEF More
  <2>6. EndsIn(got', id, k + nr)
    <3>1. Len(got) \in Nat
      BY <2>a
    <3>2. CASE nr = 0
      <4>1. Len(got') = Len(got) /\ \A i \in 1 .. Len(got) : got'[i] = got[i]
        BY <2>a, <3>1, <3>2
      <4>2. k + nr = k /\ (Len(got) > 0 => Len(got) \in 1 .. Len(got))
        BY <2>3, <3>1, <3>2
      <4> QED
        BY <2>2, <4>1, <4>2 DEF EndsIn
    <3>3. CASE nr > 0
      <4>1. Len(got') \in Len(got) + 1 .. Len(got) + nr /\ Len(got') - Len(got) = nr /\ Len(got') > 0
        BY <2>a, <3>1, <3>3
      <4>2. got'[Len(got')] = <<id, k + nr>>
        BY <2>a, <4>1
      <4> QED
        BY <4>1, <4>2 DEF EndsIn
    <3> QED
      BY <3>2, <3>3
  <2>7. \A h \in G : at'[h] \notin {"rSend"} \/ h = g
    BY <2>2 DEF Gated
  <2>8. \A h \in G \ {w} : at'[h] \notin {"wSelect", "wRecv"}
    BY <2>2 DEF Gated
  <2>9. ASSUME NEW h \in G \ {w}, at'[h] \in Writing
        PROVE  /\ at[h] \in Writing \ {"wRecv"} /\ buf'[h] = buf[h]
               /\ Times(got', buf[h].id) = Times(got, buf[h].id)
    <3>1. h # g /\ at[h] \in Writing /\ at[h] # "wRecv" /\ buf'[h] = buf[h]
      BY <2>2, <2>8, <2>9 DEF Writing
    <3>2. buf[h].id \in Nat /\ buf[h].id # id
      BY <2>3, <2>9, <3>1 DEF Numbered, WriteCall
    <3> QED
      BY <2>5, <3>1, <3>2
  <2>10. Times(got', id) = k + nr
    BY <2>2, <2>3, <2>5
  <2>11. \A h \in G : at'[h] \in Writing =>
           buf'[h].n < buf'[h].len \/ (buf'[h].len = 0 /\ buf'[h].n = 0)
    BY <2>2, <2>3, <2>9
  <2>12. \A h \in G : at'[h] \in Writing \ {"wRecv"} => Times(got', buf'[h].id) = buf'[h].n
    BY <2>2, <2>9
  <2>13. \A h \in G : at'[h] = "wLock" => buf'[h].n = 0
    BY <2>2
  <2>14. \A h \in G : at'[h] # "wSelect"
    BY <2>2, <2>8
  <2>15. ASSUME NEW a \in G, NEW b \in G, at'[a] = "rSend", at'[b] = "wRecv"
         PROVE  /\ Times(got', buf'[b].id) = buf'[b].n + buf'[a].n
                /\ buf'[b].n + buf'[a].n <= buf'[b].len
                /\ EndsIn(got', buf'[b].id, buf'[b].n + buf'[a].n)
    <3>1. a = g /\ b = w
      BY <2>7, <2>8, <2>15
    <3> QED
      BY <2>2, <2>3, <2>6, <2>10, <3>1
  <2> QED
    BY <2>11, <2>12, <2>13, <2>14, <2>15
<1>4. ASSUME NEW g \in G, NEW w \in G, Count(g, w) PROVE Counted'
  <2>1. PICK n \in Nat : Reported(g, w, n)
    BY <1>4, Counting
  <2>2. /\ got' = got /\ g # w /\ at[g] = "rSend" /\ at[w] = "wRecv" /\ n = buf[w].n + buf[g].n
        /\ at'[g] = "idle"
        /\ \A h \in G \ {g, w} : at'[h] = at[h] /\ buf'[h] = buf[h]
        /\ \/ at'[w] = "idle"
           \/ /\ at'[w] = "wSelect" /\ n # buf[w].len
              /\ buf'[w].n = n /\ buf'[w].id = buf[w].id /\ buf'[w].len = buf[w].len
    BY <2>1 DEF Reported, WriteCall
  <2>3. \A h \in G \ {g, w} : at'[h] \notin {"rSend", "wSelect", "wRecv"}
    BY <2>2 DEF Gated
  <2>4. Times(got, buf[w].id) = n /\ n <= buf[w].len /\ EndsIn(got, buf[w].id, n)
    BY <2>2
  <2>5. buf[w].len \in Nat
    BY <2>1, PipeAssumption DEF Reported, WriteCall
  <2> QED
    BY <2>2, <2>3, <2>4, <2>5, SMTT(20) DEF Writing
<1> QED
  BY <1>1, <1>2, <1>3, <1>4, QuietOrNot

(* The two halves of StreamIsWhole: the order of the bytes, and what the   *)
(* Writes report of them.                                                  *)
InOrder(s) ==
  \A i \in DOMAIN s \ {1} :
    \/ s[i] = <<s[i - 1][1], s[i - 1][2] + 1>>
    \/ s[i][2] = 1 /\ \A j \in 1 .. i - 1 : s[j][1] # s[i][1]

Report(g) ==
  "id" \in DOMAIN res[g] =>
    /\ res[g].n = Times(got, res[g].id)
    /\ res[g].err = "nil" => res[g].n = res[g].len
    /\ res[g].err # "nil" => res[g].n < res[g].len \/ res[g].len = 0

LEMMA Halves == StreamIsWhole <=> InOrder(got) /\ \A g \in G : Report(g)
  BY DEF StreamIsWhole, InOrder, Report, BytesRead, Times

LEMMA OrderStep ==
  ASSUME PipeTypeOK, Gated, Counted, Numbered, InOrder(got), [PipeNext]_pipeVars
  PROVE  InOrder(got')
<1>1. ASSUME got' = got PROVE InOrder(got')
  BY <1>1
<1>2. ASSUME NEW g \in G, NEW w \in G, Transfer(g, w) PROVE InOrder(got')
  <2>1. PICK nr \in Nat : Transferred(g, w, nr)
    BY <1>2, Transferring
  <2> DEFINE id == buf[w].id
             k == buf[w].n
             s == got
             t == got'
  <2>2. /\ id \in Nat /\ k \in Nat /\ at[w] = "wSelect"
        /\ t = s \o [i \in 1 .. nr |-> <<id, k + i>>]
    BY <2>1 DEF Transferred, WriteCall
  <2>3. s \in Seq(Nat \X Nat)
    BY DEF PipeTypeOK
  <2>4. /\ Len(s) \in Nat /\ DOMAIN s = 1 .. Len(s) /\ DOMAIN t = 1 .. Len(s) + nr
        /\ \A i \in 1 .. Len(s) : t[i] = s[i]
        /\ \A i \in Len(s) + 1 .. Len(s) + nr : t[i] = <<id, k + (i - Len(s))>>
    BY <2>2, <2>3
  <2>5. EndsIn(s, id, k) /\ Times(s, id) = k
    BY <2>2 DEF Counted, In, Writing
  <2>6. k = 0 => \A j \in DOMAIN s : s[j][1] # id
    BY <2>3, <2>5, TimesZero
  <2> HIDE DEF id, k, s, t
  <2>7. ASSUME NEW i \in DOMAIN t \ {1}
        PROVE  \/ t[i] = <<t[i - 1][1], t[i - 1][2] + 1>>
               \/ t[i][2] = 1 /\ \A j \in 1 .. i - 1 : t[j][1] # t[i][1]
    <3>1. CASE i \in 1 .. Len(s)
      <4>1. i - 1 \in 1 .. Len(s) /\ \A j \in 1 .. i - 1 : j \in 1 .. Len(s)
        BY <3>1, <2>4
      <4>2. InOrder(s) /\ i \in DOMAIN s \ {1}
        BY <3>1, <2>4 DEF s
      <4>3. t[i] = s[i] /\ t[i - 1] = s[i - 1] /\ \A j \in 1 .. i - 1 : t[j] = s[j]
        BY <3>1, <4>1, <2>4
      <4> QED
        BY <4>2, <4>3 DEF InOrder
    <3>2. CASE i = Len(s) + 1 /\ k > 0
      <4>1. Len(s) > 0 /\ s[Len(s)] = <<id, k>>
        BY <2>5, <3>2 DEF EndsIn
      <4>2. t[i - 1] = <<id, k>> /\ t[i] = <<id, k + 1>>
        <5>1. i - 1 = Len(s) /\ i - 1 \in 1 .. Len(s) /\ i \in Len(s) + 1 .. Len(s) + nr /\ i - Len(s) = 1
          BY <2>4, <3>2, <4>1
        <5> QED
          BY <5>1, <2>4, <4>1
      <4> QED
        BY <4>2
    <3>3. CASE i = Len(s) + 1 /\ k = 0
      <4>1. i \in Len(s) + 1 .. Len(s) + nr /\ i - Len(s) = 1 /\ 1 .. i - 1 = DOMAIN s
        BY <2>4, <3>3
      <4>2. t[i] = <<id, 1>>
        BY <4>1, <2>4, <3>3
      <4>3. \A j \in 1 .. i - 1 : t[j][1] # id
        BY <4>1, <2>4, <2>6, <3>3
      <4> QED
        BY <4>2, <4>3
    <3>4. CASE i > Len(s) + 1
      <4>1. /\ i \in Len(s) + 1 .. Len(s) + nr /\ i - 1 \in Len(s) + 1 .. Len(s) + nr
            /\ k + (i - Len(s)) = (k + ((i - 1) - Len(s))) + 1
        BY <2>2, <2>4, <3>4
      <4>2. t[i] = <<id, k + (i - Len(s))>> /\ t[i - 1] = <<id, k + ((i - 1) - Len(s))>>
        BY <2>4, <4>1
      <4> QED
        BY <4>1, <4>2
    <3> QED
      <4>1. k > 0 \/ k = 0
        BY <2>2
      <4>2. i \in 1 .. Len(s) \/ i = Len(s) + 1 \/ i > Len(s) + 1
        BY <2>4
      <4> QED
        BY <3>1, <3>2, <3>3, <3>4, <4>1, <4>2
  <2> QED
    BY <2>7 DEF InOrder, t
<1>3. got' = got \/ \E g, w \in G : Transfer(g, w)
  <2>1. ASSUME NEW g \in G, NEW w \in G, Count(g, w) PROVE got' = got
    BY <2>1 DEF Count
  <2>2. ASSUME NEW g \in G, NEW len \in Lens, Write(g, len) PROVE got' = got
    BY <2>2 DEF Write
  <2> QED
    BY <2>1, <2>2, QuietOrNot DEF Quiet
<1> QED
  BY <1>1, <1>2, <1>3

LEMMA ReportStep ==
  ASSUME PipeTypeOK, Gated, Counted, Numbered, \A g \in G : Report(g), [PipeNext]_pipeVars,
         NEW h \in G
  PROVE  Report(h)'
<1>1. CASE Quiet
  <2>1. got' = got /\ ("id" \in DOMAIN res'[h] => res'[h] = res[h] \/ Ends(h))
    BY <1>1 DEF Quiet, QuietCall
  <2>2. CASE Ends(h)
    BY <2>1, <2>2 DEF Ends, Counted, Report
  <2> QED
    BY <2>1, <2>2 DEF Report
<1>2. ASSUME NEW g \in G, NEW len \in Lens, Write(g, len) PROVE Report(h)'
  <2>1. got' = got /\ (res'[h] = res[h] \/ res'[h] = NoRes)
    BY <1>2 DEF Write, Begin, PipeTypeOK
  <2> QED
    BY <2>1 DEF Report, NoRes
<1>3. ASSUME NEW g \in G, NEW w \in G, Transfer(g, w) PROVE Report(h)'
  <2>1. PICK nr \in Nat : Transferred(g, w, nr)
    BY <1>3, Transferring
  <2>2. res' = res /\ at[w] \in Writing
    BY <2>1 DEF Transferred, Writing
  <2>3. "id" \in DOMAIN res[h] => res[h].id # buf[w].id
    BY <2>2 DEF Numbered
  <2>4. More(got, got', nr, buf[w].id, res[h].id)
    BY <2>1, MoreBytes
  <2> QED
    BY <2>2, <2>3, <2>4 DEF Report, More
<1>4. ASSUME NEW g \in G, NEW w \in G, Count(g, w) PROVE Report(h)'
  <2>1. PICK n \in Nat : Reported(g, w, n)
    BY <1>4, Counting
  <2>2. /\ got' = got
        /\ \/ res'[h] = res[h]
           \/ /\ n = buf[w].len
              /\ res'[h] = [err |-> "nil", n |-> n, id |-> buf[w].id, len |-> buf[w].len]
    BY <2>1 DEF Reported, PipeTypeOK
  <2>3. Times(got, buf[w].id) = n
    BY <2>1 DEF Reported, Counted, In
  <2> QED
    BY <2>2, <2>3 DEF Report
<1> QED
  BY <1>1, <1>2, <1>3, <1>4, QuietOrNot

----------------------------------------------------------------------------
LEMMA PipeInvInit == PipeInit => PipeInv /\ IInv
<1> SUFFICES ASSUME PipeInit PROVE PipeInv /\ IInv
  OBVIOUS
<1> USE DEF PipeInit
<1>1. IInv
  BY InitIInv
<1>2. PipeTypeOK
  <2>1. NoRes \in Plain
    BY DEF NoRes, Plain
  <2>2. \A g \in G : at[g] = "idle"
    OBVIOUS
  <2>3. \A g \in G : at[g] \notin Reading /\ at[g] \notin Writing
    BY <2>2 DEF Reading, Writing
  <2>4. got \in Seq(Nat \X Nat)
    OBVIOUS
  <2> QED
    BY <2>1, <2>3, <2>4 DEF PipeTypeOK
<1>3. Closing
  BY <1>1 DEF Closing, In, At, Init, Failing, IInv, TypeOK
<1>4. Due
  BY DEF Due, NoRes
<1>5. Gated /\ Numbered /\ Counted
  BY DEF Gated, Numbered, Counted, In, Writing, NoRes
<1>6. StreamIsWhole
  BY DEF StreamIsWhole, NoRes
<1> QED
  BY <1>1, <1>2, <1>3, <1>4, <1>5, <1>6 DEF PipeInv

LEMMA PipeInvStep == PipeInv /\ IInv /\ [PipeNext]_pipeVars => PipeInv' /\ IInv'
<1> SUFFICES ASSUME PipeInv, IInv, [PipeNext]_pipeVars PROVE PipeInv' /\ IInv'
  OBVIOUS
<1> USE DEF PipeInv
<1>1. IInv'
  BY UsesOnce, IInvStep
<1>2. PipeTypeOK' /\ Closing' /\ Due' /\ Gated' /\ Numbered' /\ Counted'
  BY PipeTypeStep, ClosingStep, DueStep, GatedStep, NumberedStep, CountedStep
<1>3. InOrder(got') /\ \A g \in G : Report(g)'
  BY Halves, OrderStep, ReportStep
<1>4. StreamIsWhole'
  BY <1>3 DEF StreamIsWhole, InOrder, Report, BytesRead, Times
<1> QED
  BY <1>1, <1>2, <1>4

LEMMA PipeInvariance == PipeSpec => [](PipeInv /\ IInv)
  BY PipeInvInit, PipeInvStep, PTL DEF PipeSpec

(* A Write is one piece in what the Reads get, its bytes in order and none *)
(* twice, whatever is closed in between; and it returns the number of its  *)
(* bytes that were read (pipe.go:46-62, 77-102, 183-185).                  *)
THEOREM Whole == PipeSpec => []StreamIsWhole
  BY PipeInvariance, PTL DEF PipeInv

(* A Read or Write that starts after a close has returned moves no byte,   *)
(* and an error names the end that was closed (pipe.go:44-48, 60-66,       *)
(* 78-80, 99-105).  Calls already in their selects may still move bytes.   *)
THEOREM Final == PipeSpec => []ClosedIsFinal
<1>1. PipeInv => ClosedIsFinal
  BY DEF PipeInv, Closing, Due, ClosedIsFinal, Failing
<1> QED
  BY PipeInvariance, <1>1, PTL
=============================================================================
