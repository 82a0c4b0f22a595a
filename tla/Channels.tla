------------------------------ MODULE Channels ------------------------------
(***************************************************************************)
(* What channels promise: each is a FIFO buffer of fixed capacity that can *)
(* be closed; an operation offers one or more cases (a select) and exactly *)
(* one of them happens, or none if the operation does not block.  A value  *)
(* passes from one sender to one receiver.                                 *)
(***************************************************************************)
EXTENDS Naturals, Sequences

CONSTANTS
  G,      \* the goroutines; a goroutine sends its own name
  Chan,   \* the channels
  Cap,    \* their capacities
  None,   \* no value, no result
  Offers  \* the sets of cases that an operation may offer

VARIABLES
  buf,    \* the values in each channel
  shut,   \* the channels that are closed
  offer,  \* the cases <<channel, direction>> a goroutine offers
  tries,  \* the goroutines whose operation does not block
  out     \* the result of its operation, or None

promiseVars == <<buf, shut, offer, tries, out>>

Result(case, val, ok) == [case |-> case, val |-> val, ok |-> ok]
NoCase == <<None, "none">>
Fail == Result(NoCase, None, FALSE)

Init ==
  /\ buf = [c \in Chan |-> <<>>]
  /\ shut = {}
  /\ offer = [g \in G |-> {}]
  /\ tries = {}
  /\ out = [g \in G |-> None]

Pending(g, c, dir) == <<c, dir>> \in offer[g] /\ out[g] = None

Call(g) ==
  /\ offer[g] = {} /\ out[g] = None
  /\ tries' \in {tries, tries \cup {g}}
  /\ \E cases \in Offers : offer' = [offer EXCEPT ![g] = cases]
  /\ UNCHANGED <<buf, shut, out>>

Return(g) ==
  /\ out[g] # None
  /\ offer' = [offer EXCEPT ![g] = {}]
  /\ tries' = tries \ {g}
  /\ out' = [out EXCEPT ![g] = None]
  /\ UNCHANGED <<buf, shut>>

(* A value goes to a receiver past an empty buffer.                        *)
Transfer(s, r, c) ==
  /\ s # r /\ Pending(s, c, "send") /\ Pending(r, c, "recv")
  /\ c \notin shut /\ buf[c] = <<>>
  /\ out' = [out EXCEPT ![s] = Result(<<c, "send">>, None, TRUE),
                        ![r] = Result(<<c, "recv">>, s, TRUE)]
  /\ UNCHANGED <<buf, shut, offer, tries>>

Send(s, c) ==
  /\ Pending(s, c, "send")
  /\ c \notin shut /\ Len(buf[c]) < Cap[c]
  /\ buf' = [buf EXCEPT ![c] = Append(@, s)]
  /\ out' = [out EXCEPT ![s] = Result(<<c, "send">>, None, TRUE)]
  /\ UNCHANGED <<shut, offer, tries>>

Recv(r, c) ==
  /\ Pending(r, c, "recv")
  /\ buf[c] # <<>>
  /\ buf' = [buf EXCEPT ![c] = Tail(@)]
  /\ out' = [out EXCEPT ![r] = Result(<<c, "recv">>, Head(buf[c]), TRUE)]
  /\ UNCHANGED <<shut, offer, tries>>

(* A receive from a full buffer lets a waiting sender in.                  *)
RecvAndSend(r, s, c) ==
  /\ s # r /\ Pending(r, c, "recv") /\ Pending(s, c, "send")
  /\ c \notin shut /\ buf[c] # <<>>
  /\ buf' = [buf EXCEPT ![c] = Append(Tail(@), s)]
  /\ out' = [out EXCEPT ![r] = Result(<<c, "recv">>, Head(buf[c]), TRUE),
                        ![s] = Result(<<c, "send">>, None, TRUE)]
  /\ UNCHANGED <<shut, offer, tries>>

(* On a closed channel a receive gets nothing once the buffer is empty,    *)
(* and a send panics.                                                      *)
OnClosed(g, c, dir) ==
  /\ Pending(g, c, dir)
  /\ c \in shut /\ (dir = "recv" => buf[c] = <<>>)
  /\ out' = [out EXCEPT ![g] = Result(<<c, dir>>, None, FALSE)]
  /\ UNCHANGED <<buf, shut, offer, tries>>

Close(c) ==
  /\ c \notin shut
  /\ shut' = shut \cup {c}
  /\ UNCHANGED <<buf, offer, tries, out>>

(* An operation that does not block gives up.                              *)
GiveUp(g) ==
  /\ g \in tries /\ out[g] = None
  /\ out' = [out EXCEPT ![g] = Fail]
  /\ UNCHANGED <<buf, shut, offer, tries>>

Happens(g) ==
  /\ out[g] = None
  /\ \E c \in {case[1] : case \in offer[g]} :
       \/ Send(g, c) \/ Recv(g, c) \/ OnClosed(g, c, "send") \/ OnClosed(g, c, "recv")
       \/ \E h \in G : Transfer(g, h, c) \/ RecvAndSend(g, h, c)

Next ==
  \/ \E g \in G : Call(g) \/ Return(g) \/ GiveUp(g) \/ Happens(g)
  \/ \E c \in Chan : Close(c)

Spec == Init /\ [][Next]_promiseVars
=============================================================================
