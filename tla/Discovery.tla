----------------------------- MODULE Discovery -----------------------------
(***************************************************************************)
(* How two diddys find each other: the commands `listen` and `chat` of the *)
(* client (client/src/main.rs, client/src/p2p.rs) and the part of the      *)
(* authority server they use.                                              *)
(*                                                                         *)
(* A line is one TCP connection of a client to the server: `listen` opens  *)
(* one that announces and is then read for good, `chat` opens one that     *)
(* announces, queries, and either is set aside for a direct session or     *)
(* carries a relay chat.  The server takes up one request of a line at a   *)
(* time and writes relayed packets in between; module Server has the steps *)
(* of its tasks, here a request is handled and answered in one.  A login   *)
(* is one step too: nothing but its two replies can be on the line before  *)
(* it ends (Server!WelcomedBeforeRelay).                                   *)
(*                                                                         *)
(* What two clients say on a direct connection is module PeerSession.      *)
(***************************************************************************)
EXTENDS Integers, Sequences, FiniteSets

CONSTANTS
  Diddy,    \* ids a user may ask for
  Member,   \* diddys in the server's table, each with a client
  Line,     \* connections to the server
  Host,     \* IP addresses
  Port,     \* ports a user may listen on
  None,     \* absence of a value
  MaxSent,  \* bound on the lines typed in relay chats
  Faults    \* faults an instance allows

Address == [host : Host, port : Port \cup {0}]
Fault == {"server crash", "reset", "database error", "quit", "timeout",
          "listener", "move"}

ASSUME ConstantsAssumption ==
  /\ Member \subseteq Diddy
  /\ Port \subseteq Nat \ {0}
  /\ None \notin Diddy \cup Line \cup Host \cup Address
  /\ MaxSent \in Nat
  /\ Faults \subseteq Fault

VARIABLES
  directory, \* table peer_locations
  relay,     \* RelayMap: the line a diddy's packets go to
  deserted,  \* lines whose handler ended with an error
  owner,     \* whose client opened the line
  target,    \* the diddy `chat` was called for; None on a line of `listen`
  port,      \* the port the line announces
  host,      \* the IP address the server sees it come from
  stage,     \* where the client is with the line
  cut,       \* the server's end is gone
  asked,     \* requests written and not yet taken up by the server
  channel,   \* the relay channel of the line's login
  inbox,     \* messages written by the server and not yet read
  found,     \* peer_info
  binding,   \* listen tasks that have not reached bind
  listener,  \* the diddy whose client accepts connections on an address
  sent       \* lines typed in relay chats

server  == <<directory, relay, deserted>>
opened  == <<owner, target, port, host>>
client  == <<stage, found>>
wire    == <<asked, channel, inbox>>
sockets == <<binding, listener>>
vars == <<server, opened, client, cut, wire, sockets, sent>>

Announce(p)     == [type |-> "Announce", port |-> p]
QueryPeer(d)    == [type |-> "QueryPeer", id |-> d]
VerifyRequest(d) == [type |-> "VerifyRequest", id |-> d]

\* blake3 of the own public key followed by the peer's.
RelayKey(own, peer) == <<own, peer>>

\* n is the message's uuid.
RelayPacket(from, to, n) ==
  [type |-> "RelayPacket", to |-> to, key |-> RelayKey(from, to), n |-> n]

\* Names that extend the operator after them are what a slip in the code would
\* make of it; no action uses them.
RelayForwardBack(from, p) ==
  [type |-> "RelayForward", from |-> p.to, key |-> p.key, n |-> p.n]

RelayForward(from, p) ==
  [type |-> "RelayForward", from |-> from, key |-> p.key, n |-> p.n]

AnnounceAck    == [type |-> "AnnounceAck"]
PeerInfo(a)    == [type |-> "PeerInfo", addr |-> a]
PeerNotFound   == [type |-> "PeerNotFound"]
VerifyResponse == [type |-> "VerifyResponse"]
VerifyError    == [type |-> "VerifyError"]

Number == 1..MaxSent
Packet == {RelayPacket(d, e, n) : d \in Member, e \in Diddy, n \in Number}
Forward == [type : {"RelayForward"}, from : Member, key : Member \X Diddy,
            n : Number]
Question == {Announce(p) : p \in Port \cup {0}}
              \cup UNION {{QueryPeer(d), VerifyRequest(d)} : d \in Diddy}
Answer == {AnnounceAck, PeerNotFound, VerifyResponse, VerifyError}
            \cup {PeerInfo(a) : a \in Address}

\* reading: the loop of `listen`; left, typing: the receive or the send task of a
\* relay chat whose other task has ended, and which select! does not stop.
Stage == {"unused", "joining", "announcing", "querying", "dialing",
          "verifying", "relaying", "direct", "reading", "left", "typing",
          "ended", "failed"}

TypeOK ==
  /\ directory \in [Diddy -> Address \cup {None}]
  /\ relay \in [Diddy -> Line \cup {None}]
  /\ deserted \in SUBSET Line
  /\ owner \in [Line -> Member \cup {None}]
  /\ target \in [Line -> Diddy \cup {None}]
  /\ port \in [Line -> Port \cup {0}]
  /\ host \in [Line -> Host \cup {None}]
  /\ stage \in [Line -> Stage]
  /\ cut \in [Line -> BOOLEAN]
  /\ asked \in [Line -> Seq(Question \cup Packet)]
  /\ channel \in [Line -> Seq(Forward)]
  /\ inbox \in [Line -> Seq(Answer \cup Forward)]
  /\ found \in [Line -> Address \cup {None}]
  /\ binding \in SUBSET (Member \X Port)
  /\ listener \in [Address -> Member \cup {None}]
  /\ sent \in 0..MaxSent

Init ==
  /\ directory = [d \in Diddy |-> None]
  /\ relay = [d \in Diddy |-> None]
  /\ deserted = {}
  /\ owner = [l \in Line |-> None]
  /\ target = [l \in Line |-> None]
  /\ port = [l \in Line |-> 0]
  /\ host = [l \in Line |-> None]
  /\ stage = [l \in Line |-> "unused"]
  /\ cut = [l \in Line |-> FALSE]
  /\ asked = [l \in Line |-> <<>>]
  /\ channel = [l \in Line |-> <<>>]
  /\ inbox = [l \in Line |-> <<>>]
  /\ found = [l \in Line |-> None]
  /\ binding = {}
  /\ listener = [a \in Address |-> None]
  /\ sent = 0

At(l, s) == stage[l] = s

\* The client holds its end of the connection.
Held(l) == stage[l] \notin {"unused", "joining", "ended", "failed"}

IsChat(l) == target[l] # None

\* `chat` is awaited by the command loop, `listen` is not.
Awaited(l) ==
  IsChat(l) /\ stage[l] \notin {"unused", "left", "typing", "ended", "failed"}

Prompt(d) == \A l \in Line : owner[l] = d => ~Awaited(l)

-----------------------------------------------------------------------------
(* The server *)

WriteIfFound(l, m) ==
  IF Held(l) /\ m # PeerNotFound THEN [inbox EXCEPT ![l] = Append(@, m)]
                                 ELSE inbox

\* A reply to a client that has closed is lost.
Write(l, m) == IF Held(l) THEN [inbox EXCEPT ![l] = Append(@, m)] ELSE inbox

\* The channel a packet for d gets into.  One whose client or connection is
\* gone ends in a failing write of its relay task, so it is left out here.
Route(d) ==
  {l \in Line : relay[d] = l /\ Held(l) /\ ~cut[l]}

\* Database::announce, with the address of the connection; the row a diddy had
\* is replaced.
Recorded(l, p) ==
  [directory EXCEPT ![owner[l]] = [host |-> host[l], port |-> p]]

LookUpAny(d) ==
  IF \E e \in Diddy : directory[e] # None
  THEN PeerInfo(directory[CHOOSE e \in Diddy : directory[e] # None])
  ELSE PeerNotFound

\* Database::lookup, made a reply.
LookUp(d) ==
  IF directory[d] # None THEN PeerInfo(directory[d]) ELSE PeerNotFound

HandleRequest(l, m) ==
  \/ /\ m.type = "Announce"
     /\ directory' = Recorded(l, m.port)
     /\ inbox' = Write(l, AnnounceAck)
     /\ UNCHANGED channel
  \/ /\ m.type = "QueryPeer"
     /\ inbox' = Write(l, LookUp(m.id))
     /\ UNCHANGED <<directory, channel>>
  \/ /\ m.type = "VerifyRequest"
     /\ inbox' = Write(l, IF m.id \in Member
                          THEN VerifyResponse ELSE VerifyError)
     /\ UNCHANGED <<directory, channel>>
  \/ /\ m.type = "RelayPacket"
     /\ channel' = [k \in Line |->
                      IF k \in Route(m.to)
                      THEN Append(channel[k], RelayForward(owner[l], m))
                      ELSE channel[k]]
     /\ UNCHANGED <<directory, inbox>>

Handle(l) ==
  /\ asked[l] # <<>>
  /\ HandleRequest(l, Head(asked[l]))
  /\ asked' = [asked EXCEPT ![l] = Tail(@)]
  /\ UNCHANGED <<relay, deserted, opened, client, cut, sockets, sent>>

\* A `?` on a database error: handle_conn returns Err and reads no more, but the
\* relay task has a clone of the writer, so the connection stays open.
HandlerFails(l) ==
  /\ "database error" \in Faults
  /\ asked[l] # <<>>
  /\ Head(asked[l]) \in Question
  /\ deserted' = deserted \cup {l}
  /\ asked' = [asked EXCEPT ![l] = <<>>]
  /\ UNCHANGED <<directory, relay, opened, client, cut, channel, inbox, sockets,
                 sent>>

DequeuedNot(l) == channel

\* rx.recv() took the message out.
Dequeued(l) == [channel EXCEPT ![l] = Tail(@)]

\* The relay task, also of a login that a newer one has superseded.
Push(l) ==
  /\ channel[l] # <<>>
  /\ inbox' = Write(l, Head(channel[l]))
  /\ channel' = Dequeued(l)
  /\ UNCHANGED <<server, opened, client, cut, asked, sockets, sent>>

\* The server process ends and another takes over the database.
Crash ==
  /\ "server crash" \in Faults
  /\ \E l \in Line : Held(l) /\ ~cut[l]
  /\ relay' = [d \in Diddy |-> None]
  /\ UNCHANGED deserted
  /\ cut' = [l \in Line |-> cut[l] \/ Held(l)]
  /\ asked' = [l \in Line |-> <<>>]
  /\ channel' = [l \in Line |-> <<>>]
  /\ UNCHANGED <<directory, opened, client, inbox, sockets, sent>>

\* The server's end goes, and what it had for the line and from it.
Sever(l) ==
  /\ ~cut[l]
  /\ cut' = [cut EXCEPT ![l] = TRUE]
  /\ asked' = [asked EXCEPT ![l] = <<>>]
  /\ channel' = [channel EXCEPT ![l] = <<>>]
  /\ UNCHANGED <<server, opened, client, inbox, sockets, sent>>

\* A connection is reset, or the client closed it with messages unread and the
\* server loses the requests.  The map entry stays: handle_conn returns Err.
Reset(l) ==
  /\ "reset" \in Faults
  /\ Held(l) \/ asked[l] # <<>>
  /\ Sever(l)

\* The map has another sender now, the channel is drained, and with the relay
\* task the last half of the connection goes.
RelayTaskEnds(l) ==
  /\ l \in deserted
  /\ Held(l)
  /\ relay[owner[l]] # l
  /\ channel[l] = <<>>
  /\ Sever(l)

-----------------------------------------------------------------------------
(* listen *)

Open(d, t, p) ==
  \E l \in Line, h \in Host :
    /\ At(l, "unused")
    /\ host' = [host EXCEPT ![l] = h]
    /\ owner' = [owner EXCEPT ![l] = d]
    /\ target' = [target EXCEPT ![l] = t]
    /\ port' = [port EXCEPT ![l] = p]
    /\ stage' = [stage EXCEPT ![l] = "joining"]
    /\ UNCHANGED <<server, found, cut, wire, listener, sent>>

\* Two tasks are spawned, one that binds and one that announces.
Listen(d, p) ==
  /\ Prompt(d)
  /\ Open(d, None, p)
  /\ binding' = binding \cup {<<d, p>>}

\* p2p::listen up to its accept loop, or its "listen error".  The network need
\* not find the client at the address the server sees it come from.
Bind(d, p) ==
  /\ <<d, p>> \in binding
  /\ binding' = binding \ {<<d, p>>}
  /\ \E a \in Address :
       /\ a.port = p
       /\ listener' = IF listener[a] = None
                      THEN [listener EXCEPT ![a] = d] ELSE listener
  /\ UNCHANGED <<server, opened, client, cut, wire, sent>>

\* accept() fails; the announcement stays.
ListenerFails(a) ==
  /\ "listener" \in Faults
  /\ listener[a] # None
  /\ listener' = [listener EXCEPT ![a] = None]
  /\ UNCHANGED <<server, opened, client, cut, wire, binding, sent>>

\* The client's machine gets another address; the announcement stays here too.
Moves(a, b) ==
  /\ "move" \in Faults
  /\ listener[a] # None
  /\ listener[b] = None
  /\ a.port = b.port
  /\ listener' = [listener EXCEPT ![a] = None, ![b] = listener[a]]
  /\ UNCHANGED <<server, opened, client, cut, wire, binding, sent>>

Chat(d, t) ==
  /\ Prompt(d)
  /\ Open(d, t, 0)
  /\ UNCHANGED binding

\* auth_with_server; the client goes on to announce.  The new channel is empty,
\* and one it supersedes is drained by its relay task.
Login(l) ==
  /\ At(l, "joining")
  /\ stage' = [stage EXCEPT ![l] = "announcing"]
  /\ relay' = [relay EXCEPT ![owner[l]] = l]
  /\ asked' = [asked EXCEPT ![l] = <<Announce(port[l])>>]
  /\ UNCHANGED <<directory, deserted, opened, found, cut, channel, inbox, sockets,
                 sent>>

\* The client drops its end of a line; what it had written is still on the way.
Drop(L, s) ==
  /\ stage' = [l \in Line |-> IF l \in L THEN s ELSE stage[l]]
  /\ inbox' = [l \in Line |-> IF l \in L THEN <<>> ELSE inbox[l]]
  /\ channel' = [l \in Line |-> IF l \in L THEN <<>> ELSE channel[l]]
  /\ found' = [l \in Line |-> IF l \in L THEN None ELSE found[l]]
  /\ cut' = [l \in Line |-> cut[l] /\ l \notin L]
  /\ UNCHANGED <<server, opened, asked, sent>>

Leave(l, s) == Drop({l}, s) /\ UNCHANGED sockets

\* No connection to the server, or it ends before LoginSuccess.
LoginFails(l) ==
  /\ Faults \cap {"server crash", "reset", "database error"} # {}
  /\ At(l, "joining")
  /\ Leave(l, "ended")

-----------------------------------------------------------------------------
(* chat *)

Incoming(l) == inbox[l] # <<>>

\* recv_message; what the client makes of m is the caller's.
Receive(l, m) ==
  /\ Incoming(l)
  /\ m = Head(inbox[l])
  /\ inbox' = [inbox EXCEPT ![l] = Tail(@)]

\* send_message: where the server reads no more, the bytes are lost.
Ask(l, m) ==
  asked' = IF cut[l] \/ l \in deserted
           THEN asked ELSE [asked EXCEPT ![l] = Append(@, m)]

Enter(l, s) == stage' = [stage EXCEPT ![l] = s] /\ UNCHANGED found

\* p2p::announce takes anything but AnnounceAck for a failure, but the loop of
\* `listen` is entered all the same.
ReadAnnounceAnswer(l) ==
  \E m \in Answer \cup Forward :
    /\ At(l, "announcing")
    /\ ~IsChat(l)
    /\ Receive(l, m)
    /\ Enter(l, "reading")
    /\ UNCHANGED <<server, opened, cut, asked, channel, sockets, sent>>

\* RelayForward is printed, other messages are skipped.
Notice(l) ==
  \E m \in Answer \cup Forward :
    /\ At(l, "reading")
    /\ Receive(l, m)
    /\ UNCHANGED <<server, opened, client, cut, asked, channel, sockets, sent>>

\* chat takes any message at all for the answer to its announcement.
AnnounceAnswered(l) ==
  \E m \in Answer \cup Forward :
    /\ At(l, "announcing")
    /\ IsChat(l)
    /\ Receive(l, m)
    /\ Enter(l, "querying")
    /\ Ask(l, QueryPeer(target[l]))
    /\ UNCHANGED <<server, opened, cut, channel, sockets, sent>>

\* Anything but PeerInfo ends in the relay fallback.
QueryAnswered(l) ==
  \E m \in Answer \cup Forward :
    /\ At(l, "querying")
    /\ Receive(l, m)
    /\ IF m.type = "PeerInfo"
       THEN /\ stage' = [stage EXCEPT ![l] = "dialing"]
            /\ found' = [found EXCEPT ![l] = m.addr]
            /\ UNCHANGED asked
       ELSE /\ Enter(l, "verifying")
            /\ Ask(l, VerifyRequest(target[l]))
    /\ UNCHANGED <<server, opened, cut, channel, sockets, sent>>

\* TcpStream::connect succeeds, whoever listens there.
Dial(l) ==
  /\ At(l, "dialing")
  /\ listener[found[l]] # None
  /\ Enter(l, "direct")
  /\ UNCHANGED <<server, opened, cut, wire, sockets, sent>>

\* Nobody listens, or CONNECT_TIMEOUT passes.
DialFails(l) ==
  /\ At(l, "dialing")
  /\ listener[found[l]] = None \/ "timeout" \in Faults
  /\ Enter(l, "verifying")
  /\ Ask(l, VerifyRequest(target[l]))
  /\ UNCHANGED <<server, opened, cut, channel, inbox, sockets, sent>>

VerdictRaw(m) == IF m = VerifyResponse THEN "relaying" ELSE m.type
VerdictLenient(m) == IF m = VerifyError THEN "failed" ELSE "relaying"
VerdictPatient(m) == IF m = VerifyResponse THEN "relaying" ELSE "verifying"

\* verify_peer.
Verdict(m) == IF m = VerifyResponse THEN "relaying" ELSE "failed"

\* An error return of chat drops the stream.
VerifyAnswered(l) ==
  \E m \in Answer \cup Forward :
    /\ At(l, "verifying")
    /\ Incoming(l)
    /\ m = Head(inbox[l])
    /\ IF Verdict(m) = "failed"
       THEN Leave(l, "failed")
       ELSE /\ Receive(l, m)
            /\ stage' = [stage EXCEPT ![l] = Verdict(m)]
            /\ found' = [found EXCEPT ![l] = None]
            /\ UNCHANGED <<server, opened, cut, asked, channel, sockets, sent>>

\* relay_chat's send task.  Bound: MaxSent lines.
Type(l) ==
  /\ stage[l] \in {"relaying", "typing"}
  /\ sent < MaxSent
  /\ sent' = sent + 1
  /\ Ask(l, RelayPacket(owner[l], target[l], sent'))
  /\ UNCHANGED <<server, opened, client, cut, channel, inbox, sockets>>

\* relay_chat's receive task: what it shows and stores is not modelled, since
\* nothing from the peer ever opens (finding RelayReadable).
Watch(l) ==
  \E m \in Answer \cup Forward :
    /\ stage[l] \in {"relaying", "left"}
    /\ Receive(l, m)
    /\ UNCHANGED <<server, opened, client, cut, asked, channel, sockets, sent>>

\* End of file or a failing write: the send task ends, the receive task does not.
LeaveRelay(l) ==
  /\ At(l, "relaying")
  /\ Enter(l, "left")
  /\ UNCHANGED <<server, opened, cut, wire, sockets, sent>>

\* The direct session is over and chat returns, dropping server_stream.
EndDirect(l) ==
  /\ At(l, "direct")
  /\ Leave(l, "ended")

\* recv_message fails once everything written before was read.
Unreadable(l) == cut[l] /\ ~Incoming(l)

\* A receive task leaves the send task with the prompt and half the connection.
ReceiveTaskFails(l) ==
  /\ At(l, "relaying")
  /\ Unreadable(l)
  /\ Enter(l, "typing")
  /\ UNCHANGED <<server, opened, cut, wire, sockets, sent>>

\* The send task has swallowed lines until end of file or a failing write.
StopTyping(l) ==
  /\ At(l, "typing")
  /\ Leave(l, "ended")

ReadFails(l) ==
  /\ Held(l)
  /\ stage[l] \notin {"dialing", "direct", "relaying", "typing"}
  /\ Unreadable(l)
  /\ Leave(l, "ended")

\* The client process ends; its user may start it again.
Quit(d) ==
  /\ "quit" \in Faults
  /\ Drop({l \in Line : owner[l] = d /\ stage[l] \notin {"ended", "failed"}},
          "ended")
  /\ stage' # stage
  /\ binding' = {b \in binding : b[1] # d}
  /\ listener' = [a \in Address |-> IF listener[a] = d THEN None
                                                       ELSE listener[a]]

-----------------------------------------------------------------------------

\* What the client does with a line when it can go on.
Continue(l) ==
  \/ Login(l) \/ LoginFails(l)
  \/ ReadAnnounceAnswer(l) \/ Notice(l)
  \/ AnnounceAnswered(l) \/ QueryAnswered(l) \/ Dial(l) \/ DialFails(l)
  \/ VerifyAnswered(l) \/ Watch(l) \/ ReceiveTaskFails(l) \/ ReadFails(l)

Next ==
  \/ \E l \in Line :
       \/ Handle(l) \/ HandlerFails(l) \/ Push(l) \/ RelayTaskEnds(l)
       \/ Continue(l) \/ Type(l) \/ LeaveRelay(l) \/ StopTyping(l)
       \/ EndDirect(l) \/ Reset(l)
  \/ \E d \in Member :
       \/ \E p \in Port : Listen(d, p) \/ Bind(d, p)
       \/ \E t \in Diddy : Chat(d, t)
       \/ Quit(d)
  \/ \E a \in Address : ListenerFails(a) \/ \E b \in Address : Moves(a, b)
  \/ Crash

Spec == Init /\ [][Next]_vars

\* Assumed: the server's tasks and the client's are scheduled, a dial ends by
\* itself (CONNECT_TIMEOUT), and the end of a reset connection is noticed.
\* Nothing is assumed of users and faults.
Fairness ==
  \A l \in Line :
    /\ WF_vars(Handle(l)) /\ WF_vars(Push(l)) /\ WF_vars(RelayTaskEnds(l))
    /\ WF_vars(Continue(l))

FairSpec == Spec /\ Fairness

-----------------------------------------------------------------------------
(* Properties *)

\* Every question asked on the line was answered, and the answers were read.
Settled(l) ==
  /\ \A i \in DOMAIN asked[l] : asked[l][i] \notin Question
  /\ \A i \in DOMAIN inbox[l] : inbox[l][i] \notin Answer

\* chat counts messages, not answers, so a relayed packet that arrives during
\* discovery shifts what it takes for which answer.  Whatever was shifted, no
\* relay chat starts before every question on its line was answered and read:
\* verify_peer goes on with VerifyResponse only, and that is the last answer.
RelayChatInStep ==
  \A l \in Line : stage[l] \in {"relaying", "left"} => Settled(l)

\* None of the reads of discovery has a time-out.  Whatever was taken for which
\* answer, a client that waits for one either has a message to read, or has a
\* question on the way that the server will answer, or its connection is gone
\* and the read fails; else the handler of its line has failed (main.rs:262,
\* 295, 301) and nobody answers on a connection that is still open.
AnswerOnTheWay ==
  \A l \in Line : stage[l] \in {"announcing", "querying", "verifying"} =>
    \/ cut[l] \/ l \in deserted
    \/ inbox[l] # <<>>
    \/ \E i \in DOMAIN asked[l] : asked[l][i] \in Question

\* What Switchboard sees of a packet.
Bare(m) == [from |-> m.key[1], to |-> m.key[2], n |-> m.n]
Carrier == Packet \cup Forward
PacketsIn(s) == {Bare(s[i]) : i \in {j \in DOMAIN s : s[j] \in Carrier}}

Users   == [l \in Line |-> {owner[l]} \ {None}]
Taken   == {n \in 1..sent : \A l \in Line : \A p \in PacketsIn(asked[l]) : p.n # n}
Queued  == UNION {PacketsIn(channel[l]) : l \in Line}
Written == [l \in Line |-> PacketsIn(inbox[l])]

Relaying == INSTANCE Switchboard
              WITH Conn <- Line, users <- Users, spent <- Taken,
                   transit <- Queued, wire <- Written

\* What relay chats send through the server goes the way Switchboard promises:
\* at most once to a line of the addressee, through relogins, lines that are
\* left and read on, resets and crashes.
RelaysAsPromised == Relaying!Spec

\* The handler is gone and the map's sender keeps the connection open.
Forsaken(l) == l \in deserted /\ ~cut[l] /\ relay[owner[l]] = l

\* A chat gets through its discovery (announce, query, dial, verify), whatever
\* is relayed to it meanwhile and whichever side fails: it ends in a direct
\* session, a relay chat or an error, and the prompt is not lost.  The one
\* exception is a line whose handler failed and that no login supersedes.
ChatSettles ==
  \A l \in Line :
    \/ <>[]Forsaken(l)
    \/ stage[l] \in {"joining", "announcing", "querying", "dialing", "verifying"}
         ~> stage[l] \in {"direct", "relaying", "left", "typing", "reading",
                          "ended", "failed"}

\* The address of l that the directory gets.
Seen(l) == [host |-> host[l], port |-> port[l]]

\* chat takes answers for what they are not, every line of a diddy replaces its
\* row, machines move, and whoever has the address by now is the partner: chat
\* does not compare the id of the handshake with the one it was called for.
\* What it may count on is that it dials no other diddy's address: the one it
\* dials is where the diddy it was called for came from, on one of its lines,
\* with the port announced there.
DialsAnnounced ==
  \A l \in Line : stage[l] \in {"dialing", "direct"} =>
    \E k \in Line : owner[k] = target[l] /\ found[l] = Seen(k)

\* A relayed packet on a line was sealed by the diddy that the server names as
\* its sender, for the diddy whose client reads the line, through relogins and
\* lines that change hands: RelayKey with the two the other way round, not
\* RelayKey(owner[l], target[l]), is what it opens with.
SealedAsSaid ==
  \A l \in Line : \A i \in DOMAIN inbox[l] :
    inbox[l][i] \in Forward
      => inbox[l][i].key = RelayKey(inbox[l][i].from, owner[l])

\* p2p.rs:66, "fallback to relay": what the peer of a relay chat sends can be
\* opened with the key relay_chat was given.
RelayReadable ==
  \A l \in Line : At(l, "relaying") =>
    \A i \in DOMAIN inbox[l] :
      (inbox[l][i] \in Forward /\ inbox[l][i].from = target[l])
        => inbox[l][i].key = RelayKey(owner[l], target[l])

=============================================================================
