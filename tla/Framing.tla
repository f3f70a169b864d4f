------------------------------ MODULE Framing ------------------------------
(***************************************************************************)
(* Messages as frames on one direction of a TCP connection: send_message   *)
(* and recv_message (server/src/protocol.rs, client/src/protocol.rs),      *)
(* write_packet and read_packet, which are the same code over Packet.      *)
(*                                                                         *)
(* A frame is a length and a body, written by two calls of write_all.  On  *)
(* the server several tasks share the write half behind a mutex: the       *)
(* handler and a relay task for each login on the connection.  The socket  *)
(* takes as much as its buffer has room for, and the reader gets what has  *)
(* come so far.                                                            *)
(*                                                                         *)
(* The unit of the stream is the <<message, i>> that stands for the i-th   *)
(* part of a message's frame; the length takes up Prefix units, so that it *)
(* can be split too.  The modules Server, PeerSession and Discovery put    *)
(* whole messages on a connection (module Pipe).                           *)
(***************************************************************************)
EXTENDS Integers, Sequences, FiniteSets

CONSTANTS
  Task,     \* tasks that share the write half
  Msg,      \* messages
  Size,     \* units of a message's body
  Limit,    \* the largest body recv_message takes: 1 MiB
  Cap,      \* units the socket buffers
  MaxSends, \* bound on the messages sent
  None      \* absence of a value

ASSUME ConstantsAssumption ==
  /\ Size \in [Msg -> Nat \ {0}]
  /\ Limit \in Nat \ {0}
  /\ Cap \in Nat \ {0}
  /\ MaxSends \in Nat
  /\ None \notin Task \cup Msg

VARIABLES
  mutex,   \* the task that holds the write half
  sending, \* the message a task sends
  left,    \* units of its frame that are still to be written
  stream,  \* units in the socket
  cut,     \* the connection is gone: nothing more is written
  reader,  \* what read_exact waits for; "failed": recv_message returned Err
  want,    \* units read_exact was called for
  buf,     \* units it has
  log,     \* messages in the order in which their frames were begun
  got      \* messages recv_message returned

writing == <<mutex, sending, left, log>>
reading == <<reader, want, buf, got>>
vars == <<writing, stream, cut, reading>>

Prefix == 2

\* bincode::serialize, with its length in front.
Frame(m) == [i \in 1..(Prefix + Size[m]) |-> <<m, i>>]
LengthOf(m) == SubSeq(Frame(m), 1, Prefix)
BodyOf(m) == SubSeq(Frame(m), Prefix + 1, Prefix + Size[m])

Unit == UNION {{Frame(m)[i] : i \in DOMAIN Frame(m)} : m \in Msg}

\* want <= Limit bounds the buffer that recv_message allocates.
TypeOK ==
  /\ mutex \in Task \cup {None}
  /\ sending \in [Task -> Msg \cup {None}]
  /\ left \in [Task -> Seq(Unit)]
  /\ stream \in Seq(Unit) /\ Len(stream) <= Cap
  /\ cut \in BOOLEAN
  /\ reader \in {"length", "body", "failed"}
  /\ want \in 1..(IF reader = "body" THEN Limit ELSE Prefix)
  /\ buf \in Seq(Unit) /\ Len(buf) <= want
  /\ log \in Seq(Msg)
  /\ got \in Seq(Msg)

Init ==
  /\ mutex = None
  /\ sending = [t \in Task |-> None]
  /\ left = [t \in Task |-> <<>>]
  /\ stream = <<>>
  /\ cut = FALSE
  /\ reader = "length"
  /\ want = Prefix
  /\ buf = <<>>
  /\ log = <<>>
  /\ got = <<>>

-----------------------------------------------------------------------------
(* The writers *)

\* Sends begun or waiting for the write half.
Sends == Len(log) + Cardinality({t \in Task : sending[t] # None /\ mutex # t})

\* A task has a message for the connection.  Bound: MaxSends.
Call(t, m) ==
  /\ sending[t] = None
  /\ Sends < MaxSends
  /\ sending' = [sending EXCEPT ![t] = m]
  /\ UNCHANGED <<mutex, left, log, stream, cut, reading>>

\* Names that extend the operator after them are what a slip in the code would
\* make of it; no action uses them.
FreeOrNot == TRUE

\* writer.lock().await
Free == mutex = None

Lock(t) ==
  /\ sending[t] # None
  /\ mutex # t
  /\ left[t] = <<>>
  /\ Free
  /\ mutex' = t
  /\ left' = [left EXCEPT ![t] = Frame(sending[t])]
  /\ log' = Append(log, sending[t])
  /\ UNCHANGED <<sending, stream, cut, reading>>

WriteOnce(t) ==
  \E n \in 1..Cap :
    /\ left[t] # <<>>
    /\ ~cut
    /\ n <= Len(left[t])
    /\ Len(stream) + n <= Cap
    /\ stream' = stream \o SubSeq(left[t], 1, n)
    /\ left' = [left EXCEPT ![t] = <<>>]
    /\ UNCHANGED <<mutex, sending, log, cut, reading>>

\* A step of write_all: the socket takes n units.
WriteSome(t) ==
  \E n \in 1..Cap :
    /\ left[t] # <<>>
    /\ ~cut
    /\ n <= Len(left[t])
    /\ Len(stream) + n <= Cap
    /\ stream' = stream \o SubSeq(left[t], 1, n)
    /\ left' = [left EXCEPT ![t] = SubSeq(@, n + 1, Len(@))]
    /\ UNCHANGED <<mutex, sending, log, cut, reading>>

ReleasedNever(t) == UNCHANGED mutex

\* The guard of the mutex is dropped at the end of the statement.
Released(t) == mutex' = None

\* send_message returns Ok, or Err when the connection is gone.
Return(t) ==
  /\ mutex = t
  /\ left[t] = <<>> \/ cut
  /\ Released(t)
  /\ sending' = [sending EXCEPT ![t] = None]
  /\ left' = [left EXCEPT ![t] = <<>>]
  /\ UNCHANGED <<log, stream, cut, reading>>

\* The writer's process ends or the connection is reset, in the middle of a
\* frame or not; what is in the socket may be lost, its end first.
Cut ==
  /\ ~cut
  /\ cut' = TRUE
  /\ \E n \in 0..Len(stream) : stream' = SubSeq(stream, 1, n)
  /\ UNCHANGED <<writing, reading>>

-----------------------------------------------------------------------------
(* The reader *)

\* A step of read_exact: n units have come.
ReadSome ==
  \E n \in 1..Len(stream) :
    /\ reader # "failed"
    /\ Len(buf) + n <= want
    /\ buf' = buf \o SubSeq(stream, 1, n)
    /\ stream' = SubSeq(stream, n + 1, Len(stream))
    /\ UNCHANGED <<writing, cut, reader, want, got>>

Await(s, n) == reader' = s /\ want' = n /\ buf' = <<>>

\* recv_message returns Err.  Its caller gives the connection up.
Fail == Await("failed", Prefix) /\ UNCHANGED got

CompleteOrNot == buf # <<>>

\* read_exact returns.
Complete == Len(buf) = want

\* What the units of a length say: anything, if they are not one length.
Lengths ==
  IF \E m \in Msg : buf = LengthOf(m)
  THEN {Size[m] : m \in {k \in Msg : buf = LengthOf(k)}}
  ELSE 1..(Limit + 1)

TooLargeNever(n) == FALSE
TooLarge(n) == n > Limit

ReadLength ==
  /\ reader = "length"
  /\ Complete
  /\ \E n \in Lengths :
       IF TooLarge(n) THEN Fail ELSE Await("body", n) /\ UNCHANGED got
  /\ UNCHANGED <<writing, stream, cut>>

\* bincode::deserialize: what is not the body of a message is an error.
ReadBody ==
  /\ reader = "body"
  /\ Complete
  /\ \/ \E m \in Msg :
          /\ buf = BodyOf(m)
          /\ got' = Append(got, m)
          /\ Await("length", Prefix)
     \/ (\A m \in Msg : buf # BodyOf(m)) /\ Fail
  /\ UNCHANGED <<writing, stream, cut>>

\* read_exact meets the end of the stream, also within a frame.
ReadEnd ==
  /\ reader # "failed"
  /\ cut
  /\ stream = <<>>
  /\ ~Complete
  /\ Fail
  /\ UNCHANGED <<writing, stream, cut>>

-----------------------------------------------------------------------------

Receive == ReadSome \/ ReadLength \/ ReadBody \/ ReadEnd

Next ==
  \/ \E t \in Task :
       \/ \E m \in Msg : Call(t, m)
       \/ Lock(t) \/ WriteSome(t) \/ Return(t)
  \/ Cut
  \/ Receive

Spec == Init /\ [][Next]_vars

\* No call of recv_message is under way, or it has read nothing yet.
BetweenCalls == reader = "length" /\ buf = <<>>

\* Assumed: tasks that can go on are scheduled, and so is a call of recv_message
\* once it has begun to read: its callers await it to the end.  That there is a
\* next call is not assumed: a chat in a direct session leaves its connection to
\* the server unread.  The mutex is first come, first served.
FairSpec ==
  /\ Spec
  /\ \A t \in Task : WF_vars(Lock(t)) /\ WF_vars(WriteSome(t) \/ Return(t))
  /\ WF_vars(~BetweenCalls /\ Receive)

-----------------------------------------------------------------------------
(* Properties *)

\* However the writes of several tasks, the room in the socket and the reads
\* fall together, and wherever the connection is cut, what is received is what
\* was sent, in the order in which the tasks got hold of the write half.
Messages == INSTANCE Pipe WITH sent <- log, received <- got
ReceivesAsSent == Messages!Spec

\* recv_message never takes part of one frame for another: it fails because
\* the connection is gone or because the next message is over the limit, which
\* send_message does not look at.
StaysInStep ==
  reader = "failed" =>
    \/ cut
    \/ Len(got) < Len(log) /\ Size[log[Len(got) + 1]] > Limit

\* When nothing is left to be written, the socket is empty and recv_message
\* waits for more, it has returned every message that was begun and has no unit
\* of another: write_all wrote all of each frame, and the reader, who only
\* counts units, waits for none that nobody will send.
QuietMeansDelivered ==
  /\ ~cut /\ reader # "failed" /\ ~Complete
  /\ stream = <<>>
  /\ \A t \in Task : left[t] = <<>>
  => got = log /\ reader = "length" /\ buf = <<>>

\* Something stands in the socket and nobody has begun to read it.
Unread == BetweenCalls /\ stream # <<>>

\* Every message a task has for the connection is received, unless the
\* connection is cut, the reader has given it up, or it leaves the connection
\* unread for good.
Arrives ==
  \A i \in 1..MaxSends :
    \/ <>[]Unread
    \/ Sends >= i ~> Len(got) >= i \/ cut \/ reader = "failed"

=============================================================================
