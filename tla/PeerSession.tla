----------------------------- MODULE PeerSession -----------------------------
(***************************************************************************)
(* The direct sessions of two diddys (client/src/p2p.rs handle_incoming,   *)
(* handle_outgoing, do_sync, messaging_loop) over their message stores     *)
(* (client/src/db.rs).                                                     *)
(*                                                                         *)
(* A session is one TCP connection with its own ephemeral key, so a key is *)
(* named by its session.  After the handshake and the synchronisation each *)
(* end runs a receive task and a send task; `select!` only detaches the one *)
(* that is left, so a send task goes on reading stdin when its session is  *)
(* over.  An action is one step between two awaits.  Wall clocks are       *)
(* neither monotone nor synchronised: a timestamp is any of Time.  What a  *)
(* session displays is output and no state: messaging_loop begins with a   *)
(* display of all that is stored, which changes nothing.                   *)
(***************************************************************************)
EXTENDS Integers, Sequences, FiniteSets

CONSTANTS
  Node,      \* the two diddys
  Session,   \* connections between them
  Line,      \* lines typed, each a message with a fresh uuid
  MaxTime,   \* bound on the timestamps
  None,      \* absence of a value
  SockCap,   \* chats a socket buffers behind the frame under way
  MaxFrame,  \* chats that fit into a 1 MiB frame
  Callers,   \* nodes whose users connect, the others only listen
  Faults     \* what may go wrong, or end, in an instance

ASSUME SessionAssumption ==
  /\ \E m, n \in Node : m # n /\ Node = {m, n}
  /\ None \notin Node \cup Line
  /\ MaxTime \in Nat /\ SockCap \in Nat /\ MaxFrame \in Nat \ {0}
  /\ Callers \subseteq Node
  /\ Faults \subseteq {"Reject", "Break", "Exit", "EndOfInput"}

VARIABLES
  db,        \* MessageDb: what a node stored of each line
  caller,    \* the node that connected
  pc,        \* where an end of a session is
  send,      \* its send task
  cur,       \* the line the send task works on
  wire,      \* packets on the way to an end
  broken     \* sessions whose connection was reset

(* Ghost variables, read by properties only. *)
VARIABLES
  written,   \* lines a send task wrote to a socket
  queued,    \* lines reported "send failed, queued"
  backlog    \* the queued lines when a session began

ghosts == <<written, queued, backlog>>
vars == <<db, caller, pc, send, cur, wire, broken, ghosts>>

Time == 1..MaxTime
Peer(n) == CHOOSE m \in Node \ {n} : TRUE

\* The two ends of each session.
End == Session \X Node
Sess(e) == e[1]
At(e) == e[2]
Far(e) == <<Sess(e), Peer(At(e))>>

\* ChatMessage: sealed under the key of the session it was written in.
ChatMessage == [id : Line, from : Node, ts : Time, key : Session]
StoredMessage == [from : Node, ts : Time, key : Session, pending : BOOLEAN]

ASSUME RowAssumption == None \notin StoredMessage

Plain(t) == [type |-> t]
SyncRequest(t) == [type |-> "SyncRequest", ts |-> t]
SyncGive(cs) == [type |-> "SyncGive", chats |-> cs]
Message(m) == [type |-> "Message", chat |-> m]
Packet ==
  {Plain("HandshakeInit"), Plain("Challenge"), Plain("ChallengeResponse")}
    \cup [type : {"SyncRequest"}, ts : Time \cup {0}]
    \cup [type : {"SyncGive"}, chats : SUBSET ChatMessage]
    \cup [type : {"Message"}, chat : ChatMessage]

\* An end that waits for a packet is named after what it waits for; "giving" is
\* an end whose SyncGive is not yet through.
Expected == [init |-> "HandshakeInit", challenge |-> "Challenge",
             response |-> "ChallengeResponse", request |-> "SyncRequest",
             give |-> "SyncGive", chat |-> "Message"]
PC == DOMAIN Expected \cup {"off", "giving", "ended"}

TypeOK ==
  /\ db \in [Node -> [Line -> StoredMessage \cup {None}]]
  /\ caller \in [Session -> Node \cup {None}]
  /\ pc \in [End -> PC]
  /\ send \in [End -> {"off", "ready", "stored", "written"}]
  /\ cur \in [End -> Line \cup {None}]
  /\ wire \in [End -> Seq(Packet)]
  /\ broken \in SUBSET Session
  /\ written \in SUBSET Line
  /\ queued \in SUBSET Line
  /\ backlog \in [Session -> SUBSET Line]

Init ==
  /\ db = [n \in Node |-> [l \in Line |-> None]]
  /\ caller = [s \in Session |-> None]
  /\ pc = [e \in End |-> "off"]
  /\ send = [e \in End |-> "off"]
  /\ cur = [e \in End |-> None]
  /\ wire = [e \in End |-> <<>>]
  /\ broken = {}
  /\ written = {}
  /\ queued = {}
  /\ backlog = [s \in Session |-> {}]

-----------------------------------------------------------------------------
(* The message store *)

Stored(n, l) == db[n][l] # None

\* As in Server, an operator named after a following one varies it by a slip.
RowUndated(m, p) ==
  [from |-> m.from, ts |-> 0, key |-> m.key, pending |-> p]

Row(m, p) ==
  [from |-> m.from, ts |-> m.ts, key |-> m.key, pending |-> p]

\* latest_timestamp: over the messages of both authors.
LatestTimestamp(n) ==
  CHOOSE t \in Time \cup {0} :
    /\ t = 0 \/ \E l \in Line : Stored(n, l) /\ db[n][l].ts = t
    /\ \A l \in Line : Stored(n, l) => db[n][l].ts <= t

\* messages_since filtered by author; the sort only orders the display.
Missed(n, t) ==
  {[id |-> l, from |-> n, ts |-> db[n][l].ts, key |-> db[n][l].key] :
     l \in {k \in Line : Stored(n, k) /\ db[n][k].ts > t /\ db[n][k].from = n}}

FreshUnderAnyKey(n, cs, s) == {m \in cs : ~Stored(n, m.id)}

\* The chats of a SyncGive that are new and that the session's key opens.
Fresh(n, cs, s) == {m \in cs : ~Stored(n, m.id) /\ m.key = s}

-----------------------------------------------------------------------------
(* Connections *)

\* The stream lives as long as its session or one of its detached tasks.
Holds(e) == pc[e] \notin {"off", "ended"} \/ send[e] # "off"

Connected(e) == Sess(e) \notin broken /\ Holds(Far(e))

\* Bytes for an end that is gone are lost.
Write(e, p) ==
  wire' = IF Connected(e)
          THEN [wire EXCEPT ![Far(e)] = Append(@, p)] ELSE wire

AnswerIfAny(e, q) ==
  wire' = IF Connected(e) /\ (q.type = "SyncGive" => q.chats # {})
          THEN [wire EXCEPT ![e] = Tail(@), ![Far(e)] = Append(@, q)]
          ELSE [wire EXCEPT ![e] = Tail(@)]

\* read_packet returned p, and the end wrote q.
Answer(e, q) ==
  wire' = IF Connected(e)
          THEN [wire EXCEPT ![e] = Tail(@), ![Far(e)] = Append(@, q)]
          ELSE [wire EXCEPT ![e] = Tail(@)]

ConsumeBuffered(e) == wire' = [wire EXCEPT ![e] = <<>>]

Consume(e) == wire' = [wire EXCEPT ![e] = Tail(@)]

Reads(e, at) ==
  /\ pc[e] = at
  /\ wire[e] # <<>>
  /\ Head(wire[e]).type = Expected[at]

\* The handler failed, or `select!` returned as one of the tasks had ended.
Returned(e) == pc[e] = "ended" \/ (pc[e] = "chat" /\ send[e] = "off")

\* chat and connect are awaited by the command loop: one call at a time.
Calling(n) ==
  \E e \in End : At(e) = n /\ caller[Sess(e)] = n /\ ~Returned(e)

Connect(e) ==
  /\ caller[Sess(e)] = None
  /\ ~Calling(At(e))
  /\ caller' = [caller EXCEPT ![Sess(e)] = At(e)]
  /\ pc' = [pc EXCEPT ![e] = "challenge", ![Far(e)] = "init"]
  /\ wire' = [wire EXCEPT ![Far(e)] = <<Plain("HandshakeInit")>>]
  /\ backlog' = [backlog EXCEPT ![Sess(e)] = queued]
  /\ UNCHANGED <<db, send, cur, broken, written, queued>>

\* The connection is reset; what was on the way is lost.
Break(s) ==
  /\ s \notin broken
  /\ \E e \in End : Sess(e) = s /\ Holds(e)
  /\ broken' = broken \cup {s}
  /\ wire' = [e \in End |-> IF Sess(e) = s THEN <<>> ELSE wire[e]]
  /\ UNCHANGED <<db, caller, pc, send, cur, ghosts>>

\* A crash, or `quit`: the node's tasks and streams go, the store stays.
Exit(n) ==
  /\ \E e \in End : At(e) = n /\ Holds(e)
  /\ pc' = [e \in End |-> IF At(e) = n /\ pc[e] # "off" THEN "ended" ELSE pc[e]]
  /\ send' = [e \in End |-> IF At(e) = n THEN "off" ELSE send[e]]
  /\ cur' = [e \in End |-> IF At(e) = n THEN None ELSE cur[e]]
  /\ wire' = [e \in End |-> IF At(e) = n THEN <<>> ELSE wire[e]]
  /\ UNCHANGED <<db, caller, broken, ghosts>>

\* The handler or the receive task returns; a send task stays.
Quit(e) ==
  /\ pc' = [pc EXCEPT ![e] = "ended"]
  /\ wire' = [wire EXCEPT ![e] = <<>>]
  /\ UNCHANGED <<db, caller, send, cur, broken, ghosts>>

ReadFailsUnnoticed(e) == FALSE

\* End of stream or a reset.
ReadFails(e) ==
  /\ pc[e] \in DOMAIN Expected
  /\ ~Connected(e)
  /\ wire[e] = <<>>
  /\ Quit(e)

\* Another packet than the one awaited, or a SyncGive over the frame limit.
ReadRefused(e) ==
  /\ pc[e] \in DOMAIN Expected
  /\ wire[e] # <<>>
  /\ LET p == Head(wire[e]) IN
       \/ p.type # Expected[pc[e]]
       \/ p.type = "SyncGive" /\ Cardinality(p.chats) > MaxFrame
  /\ Quit(e)

\* The peer's identity is not signed by this client's server.
Reject(e) ==
  /\ Reads(e, "init") \/ Reads(e, "challenge")
  /\ Quit(e)

-----------------------------------------------------------------------------
(* Handshake *)

ReceiveInit(e) ==
  /\ Reads(e, "init")
  /\ Answer(e, Plain("Challenge"))
  /\ pc' = [pc EXCEPT ![e] = "response"]
  /\ UNCHANGED <<db, caller, send, cur, broken, ghosts>>

\* The caller answers and starts the synchronisation without waiting.
ReceiveChallenge(e) ==
  /\ Reads(e, "challenge")
  /\ wire' = [wire EXCEPT ![e] = Tail(@),
                ![Far(e)] = IF Connected(e)
                  THEN @ \o <<Plain("ChallengeResponse"),
                              SyncRequest(LatestTimestamp(At(e)))>> ELSE @]
  /\ pc' = [pc EXCEPT ![e] = "request"]
  /\ UNCHANGED <<db, caller, send, cur, broken, ghosts>>

ReceiveResponse(e) ==
  /\ Reads(e, "response")
  /\ Answer(e, SyncRequest(LatestTimestamp(At(e))))
  /\ pc' = [pc EXCEPT ![e] = "request"]
  /\ UNCHANGED <<db, caller, send, cur, broken, ghosts>>

-----------------------------------------------------------------------------
(* do_sync: both ends write SyncGive before they read the other's *)

ReceiveSyncRequest(e) ==
  /\ Reads(e, "request")
  /\ Answer(e, SyncGive(Missed(At(e), Head(wire[e]).ts)))
  /\ pc' = [pc EXCEPT ![e] = "giving"]
  /\ UNCHANGED <<db, caller, send, cur, broken, ghosts>>

\* The end's SyncGive is larger than the buffers and the peer does not read it.
Clogged(e) ==
  /\ pc[e] = "giving"
  /\ Connected(e)
  /\ pc[Far(e)] # "give"
  /\ \E i \in DOMAIN wire[Far(e)] :
       LET p == wire[Far(e)][i]
       IN p.type = "SyncGive" /\ Cardinality(p.chats) > SockCap

GivenOnly(e) ==
  /\ pc[e] = "giving"
  /\ ~Clogged(e)
  /\ pc' = [pc EXCEPT ![e] = "chat"]
  /\ UNCHANGED <<db, caller, send, cur, wire, broken, ghosts>>

Given(e) ==
  /\ pc[e] = "giving"
  /\ ~Clogged(e)
  /\ pc' = [pc EXCEPT ![e] = "give"]
  /\ UNCHANGED <<db, caller, send, cur, wire, broken, ghosts>>

\* A chat that is stored already or sealed under another key is skipped.
ReceiveSyncGive(e) ==
  /\ Reads(e, "give")
  /\ Cardinality(Head(wire[e]).chats) <= MaxFrame
  /\ LET new == Fresh(At(e), Head(wire[e]).chats, Sess(e)) IN
       db' = [db EXCEPT ![At(e)] = [l \in Line |->
                IF \E m \in new : m.id = l
                THEN Row(CHOOSE m \in new : m.id = l, FALSE) ELSE @[l]]]
  /\ Consume(e)
  /\ pc' = [pc EXCEPT ![e] = "chat"]
  /\ send' = [send EXCEPT ![e] = "ready"]
  /\ UNCHANGED <<caller, cur, broken, ghosts>>

-----------------------------------------------------------------------------
(* messaging_loop *)

\* The receive task: it displays a chat that opens, stored already or not.
ReceiveMessage(e) ==
  /\ Reads(e, "chat")
  /\ LET m == Head(wire[e]).chat IN
       IF m.key = Sess(e) /\ ~Stored(At(e), m.id)
       THEN db' = [db EXCEPT ![At(e)][m.id] = Row(m, FALSE)]
       ELSE UNCHANGED db
  /\ Consume(e)
  /\ UNCHANGED <<caller, pc, send, cur, broken, ghosts>>

DraftAsSent(e, t) == [from |-> At(e), ts |-> t, key |-> Sess(e), pending |-> FALSE]

\* Stored before it is written, and pending until it was.
Draft(e, t) == [from |-> At(e), ts |-> t, key |-> Sess(e), pending |-> TRUE]

\* A send task got a line from stdin: whichever of the node's tasks it was.
Compose(e, l, t) ==
  /\ send[e] = "ready"
  /\ \A m \in Node : ~Stored(m, l)
  /\ db' = [db EXCEPT ![At(e)][l] = Draft(e, t)]
  /\ send' = [send EXCEPT ![e] = "stored"]
  /\ cur' = [cur EXCEPT ![e] = l]
  /\ UNCHANGED <<caller, pc, wire, broken, ghosts>>

Chat(n, l) == [id |-> l, from |-> n, ts |-> db[n][l].ts, key |-> db[n][l].key]

Transmit(e) ==
  /\ send[e] = "stored"
  /\ Connected(e) => Len(wire[Far(e)]) <= SockCap
  /\ Write(e, Message(Chat(At(e), cur[e])))
  /\ send' = [send EXCEPT ![e] = "written"]
  /\ written' = written \cup {cur[e]}
  /\ UNCHANGED <<db, caller, pc, cur, broken, queued, backlog>>

Forget(n, l) == db' = [db EXCEPT ![n][l] = None]

\* The row stays as it is.
Keep(n, l) == UNCHANGED db

\* "send failed, queued": the task goes on with the next line.
TransmitFails(e) ==
  /\ send[e] = "stored"
  /\ ~Connected(e)
  /\ send' = [send EXCEPT ![e] = "ready"]
  /\ cur' = [cur EXCEPT ![e] = None]
  /\ queued' = queued \cup {cur[e]}
  /\ Keep(At(e), cur[e])
  /\ UNCHANGED <<caller, pc, wire, broken, written, backlog>>

MarkNotPending(e) ==
  /\ send[e] = "written"
  /\ db' = [db EXCEPT ![At(e)][cur[e]].pending = FALSE]
  /\ send' = [send EXCEPT ![e] = "ready"]
  /\ cur' = [cur EXCEPT ![e] = None]
  /\ UNCHANGED <<caller, pc, wire, broken, ghosts>>

\* End of file on stdin: the send task ends and the receive task is detached.
EndOfInput(e) ==
  /\ send[e] = "ready"
  /\ send' = [send EXCEPT ![e] = "off"]
  /\ UNCHANGED <<db, caller, pc, cur, wire, broken, ghosts>>

Read(e) ==
  \/ ReceiveInit(e) \/ ReceiveChallenge(e) \/ ReceiveResponse(e)
  \/ ReceiveSyncRequest(e) \/ Given(e) \/ ReceiveSyncGive(e)
  \/ ReceiveMessage(e)
  \/ ReadFails(e) \/ ReadRefused(e)

Sending(e) == Transmit(e) \/ TransmitFails(e) \/ MarkNotPending(e)

Next ==
  \/ \E e \in End :
       \/ At(e) \in Callers /\ Connect(e)
       \/ Read(e) \/ Sending(e)
       \/ "Reject" \in Faults /\ Reject(e)
       \/ \E l \in Line, t \in Time : Compose(e, l, t)
       \/ "EndOfInput" \in Faults /\ EndOfInput(e)
  \/ "Break" \in Faults /\ \E s \in Session : Break(s)
  \/ "Exit" \in Faults /\ \E n \in Node : Exit(n)

Spec == Init /\ [][Next]_vars

\* Tasks are scheduled and the kernel reports a closed or reset connection.
\* Nothing is assumed of the users or of the connections.
Fairness == \A e \in End : WF_vars(Read(e)) /\ WF_vars(Sending(e))

FairSpec == Spec /\ Fairness

-----------------------------------------------------------------------------
(* Properties *)

\* Both ends write requests and answers before they read the other's, and a
\* quick end starts chatting while the other still synchronises; even so an
\* end never finds a packet it does not expect ("expected SyncRequest",
\* "unexpected packet in messaging loop").
Synchronised ==
  \A e \in End :
    pc[e] \in DOMAIN Expected /\ wire[e] # <<>>
      => Head(wire[e]).type = Expected[pc[e]]

\* In handshake and synchronisation each end waits for the other in turn, and
\* writes more than one packet before it reads again.  They never both wait: as
\* long as the connection holds, an end whose socket is empty waits for one that
\* has a packet to read, and answers it (handle_incoming, handle_outgoing, do_sync).
Awaits(e) == pc[e] \in DOMAIN Expected \ {"chat"}

NeverBothWait ==
  \A e \in End :
    Awaits(e) /\ wire[e] = <<>> /\ Connected(e)
      => Awaits(Far(e)) /\ wire[Far(e)] # <<>>

\* A store that says a message is not pending is right that it was written to
\* the peer, at every point a crash may hit (insert, write_packet,
\* mark_not_pending).
NotPendingWasWritten ==
  \A n \in Node, l \in Line :
    Stored(n, l) /\ db[n][l].from = n /\ ~db[n][l].pending => l \in written

\* Line l, which the key of session s opens.
Delivers(p, s, l) == p.type = "Message" /\ p.chat.key = s /\ p.chat.id = l

\* The receive task displays a chat whether it is stored or not; only the insert
\* depends on it (p2p.rs:506-514).  Yet a line comes as new once: a chat that
\* is on the way is not stored yet, and is on the way once, though a
\* synchronisation in one session may offer what another session is delivering.
\* (The history a session begins with shows it again, as it is meant to.)
ArrivesAsNew ==
  \A e \in End, l \in Line : \A i \in DOMAIN wire[e] :
    Delivers(wire[e][i], Sess(e), l) =>
      /\ ~Stored(At(e), l)
      /\ \A j \in DOMAIN wire[e] : Delivers(wire[e][j], Sess(e), l) => j = i

OnTheWay(e, l) ==
  \E i \in DOMAIN wire[e] :
    wire[e][i].type = "Message" /\ wire[e][i].chat.id = l

\* As long as a connection holds and the peer's receive task has not ended, a
\* line written to it is on the way or stored, also when it arrives before the
\* peer is through with do_sync and splits the stream.
NothingDropped ==
  \A e \in End : \A l \in written :
    (/\ Sess(e) \notin broken /\ pc[Far(e)] # "ended"
     /\ Stored(At(e), l) /\ db[At(e)][l].from = At(e)
     /\ db[At(e)][l].key = Sess(e))
      => OnTheWay(Far(e), l) \/ Stored(At(Far(e)), l)

\* Both stores together keep every message ever written, through crashes.
History ==
  INSTANCE ChatHistory WITH
    wrote <- [n \in Node |-> {l \in Line : Stored(n, l) /\ db[n][l].from = n}],
    kept  <- [n \in Node |-> {l \in Line : Stored(n, l)}]

KeepsHistory == History!Spec

Syncing(e) == pc[e] \notin {"off", "chat", "ended"}

\* Handshake and synchronisation come to an end, unless each end owes the other
\* more than the sockets buffer: both write_packet calls then wait for good.
SyncEnds ==
  \A e \in End :
    Syncing(e) ~> ~Syncing(e) \/ (Clogged(e) /\ Clogged(Far(e)))

\* "send failed, queued" (p2p.rs:573): what was queued when a session began is
\* with the peer once the session is synchronised.
QueuedIsSynced ==
  \A e \in End : \A l \in backlog[Sess(e)] :
    pc[e] = "chat" => Stored(At(e), l)

=============================================================================
