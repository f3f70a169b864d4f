------------------------------- MODULE Server -------------------------------
(***************************************************************************)
(* The authority server (server/src/main.rs, server/src/db.rs).            *)
(*                                                                         *)
(* One handler task per TCP connection runs handle_conn.  Handlers share   *)
(* the SQLite database behind one mutex and the relay map behind another;  *)
(* each login creates an unbounded channel and a relay task that drains it *)
(* into the connection's write half, which handler and relay tasks share.  *)
(* An action is what a task does between two points where another task can *)
(* observe it: a critical section of a mutex, or one framed write.         *)
(*                                                                         *)
(* A diddy stands for its id and its key pair at once: diddy_id is the     *)
(* hash of the public key, taken to be injective.  A connection and a      *)
(* channel are used once, so the sets bound how many ever exist.           *)
(***************************************************************************)
EXTENDS Integers, Sequences, FiniteSets

CONSTANTS
  Diddy,      \* identities
  Conn,       \* TCP connections, in any order of arrival
  Chan,       \* relay channels, one per successful login
  None,       \* absence of a value
  SockCap,    \* messages the kernel buffers towards a client
  MaxFds,     \* sockets the process may hold open
  MaxRelay,   \* bound on the relayed packets
  Known,      \* diddys in the database file the server opens
  Requests    \* kinds of request the clients of an instance send

\* The replies on which the server's own state depends, the error replies
\* (RegistrationError, LoginError, VerifyError, PeerNotFound) and the rest
\* (AuthChallenge, VerifyResponse, AnnounceAck, PeerInfo).
ReplyType == {"RegistrationSuccess", "LoginSuccess", "Refusal", "Answer"}

ASSUME ConstantsAssumption ==
  /\ None \notin Diddy \cup Conn \cup Chan \cup ReplyType
  /\ SockCap \in Nat \ {0}
  /\ MaxFds \in Nat
  /\ MaxRelay \in Nat
  /\ Known \subseteq Diddy
  /\ Requests \subseteq {"Register", "Login", "Verify", "Announce", "QueryPeer",
                    "RelayPacket"}

VARIABLES
  up,         \* the server process runs
  registered, \* table diddys
  location,   \* table peer_locations: the connection last announced from
  dbLock,     \* the handler holding the database mutex across an await
  relay,      \* RelayMap: the channel whose sender the map holds
  chConn,     \* the connection a channel's relay task writes to
  chOwner,    \* the diddy that logged in
  chQueue,    \* messages in the channel
  task,       \* the channel's relay task
  pc,         \* where the handler is
  arg,        \* the diddy the handler's current request is about
  reply,      \* the message the handler is about to send
  authed,     \* authed_id
  challenge,  \* pending_challenge is Some
  peer,       \* the client's end of the connection
  outbox,     \* messages written to the socket and not yet read by the client
  sent        \* packets accepted for relay so far

(* Ghost variables, read by properties only. *)
VARIABLES
  grants,     \* how many RegistrationSuccess a diddy was sent
  proved,     \* diddys whose challenge the connection answered
  welcomed    \* LoginSuccess was written to the connection

durable  == <<registered, location>>
channels == <<chConn, chOwner, chQueue, task>>
session  == <<authed, challenge>>
handler  == <<pc, arg, reply>>
ghosts   == <<grants, proved, welcomed>>
vars == <<up, durable, dbLock, relay, channels, handler, session, peer,
          outbox, sent, ghosts>>

\* src and n are not on the wire: they identify the packet to the properties.
Forward(d, e, c, k) ==
  [type |-> "RelayForward", from |-> d, to |-> e, src |-> c, n |-> k]
RelayForward == [type : {"RelayForward"}, from : Diddy, to : Diddy,
                 src : Conn, n : Nat]
\* Once written, the properties tell a reply only from a relayed packet.
Response == [type |-> "Response"]
ServerMessage == {Response} \cup RelayForward

PC == {"new", "recv", "insert", "reply", "bind", "ended"}

TypeOK ==
  /\ up \in BOOLEAN
  /\ registered \in SUBSET Diddy
  /\ location \in [Diddy -> Conn \cup {None}]
  /\ dbLock \in Conn \cup {None}
  /\ relay \in [Diddy -> Chan \cup {None}]
  /\ chConn \in [Chan -> Conn \cup {None}]
  /\ chOwner \in [Chan -> Diddy \cup {None}]
  /\ chQueue \in [Chan -> Seq(RelayForward)]
  /\ task \in [Chan -> {"unused", "running", "done"}]
  /\ pc \in [Conn -> PC]
  /\ arg \in [Conn -> Diddy \cup {None}]
  /\ reply \in [Conn -> ReplyType \cup {None}]
  /\ authed \in [Conn -> Diddy \cup {None}]
  /\ challenge \in [Conn -> BOOLEAN]
  /\ peer \in [Conn -> {"none", "open", "gone"}]
  /\ outbox \in [Conn -> Seq(ServerMessage)]
  /\ sent \in Nat
  /\ grants \in [Diddy -> Nat]
  /\ proved \in [Conn -> SUBSET Diddy]
  /\ welcomed \in [Conn -> BOOLEAN]

\* Database::open on the file an earlier life of the server left; an
\* announcement in it names no connection of this life and is left out.
Init ==
  /\ up = TRUE
  /\ registered = Known
  /\ location = [d \in Diddy |-> None]
  /\ dbLock = None
  /\ relay = [d \in Diddy |-> None]
  /\ chConn = [h \in Chan |-> None]
  /\ chOwner = [h \in Chan |-> None]
  /\ chQueue = [h \in Chan |-> <<>>]
  /\ task = [h \in Chan |-> "unused"]
  /\ pc = [c \in Conn |-> "new"]
  /\ arg = [c \in Conn |-> None]
  /\ reply = [c \in Conn |-> None]
  /\ authed = [c \in Conn |-> None]
  /\ challenge = [c \in Conn |-> FALSE]
  /\ peer = [c \in Conn |-> "none"]
  /\ outbox = [c \in Conn |-> <<>>]
  /\ sent = 0
  /\ grants = [d \in Diddy |-> 0]
  /\ proved = [c \in Conn |-> {}]
  /\ welcomed = [c \in Conn |-> FALSE]

-----------------------------------------------------------------------------
(* Sockets and writes *)

Handling(c) == pc[c] \notin {"new", "ended"}

\* The write half lives in an Arc that the handler and every relay task clone.
HoldsSocket(c) ==
  Handling(c) \/ \E h \in Chan : task[h] = "running" /\ chConn[h] = c

Sockets == {c \in Conn : HoldsSocket(c)}

\* send_message: waits for room; a write to a client that closed is either
\* accepted by the kernel and lost, or fails (the callers' error branches).
Put(c, m) ==
  \/ /\ peer[c] = "open"
     /\ Len(outbox[c]) < SockCap
     /\ outbox' = [outbox EXCEPT ![c] = Append(@, m)]
  \/ /\ peer[c] # "open"
     /\ UNCHANGED outbox

\* recv_message: the next request, which the client may have sent before it
\* closed the connection.
Receive(c) == pc[c] = "recv"

DbFree == dbLock = None

\* Variants named after the operator they vary are what a slip in the code
\* would make of it; no action uses them.
GotoSwapped(c, p, d, r) ==
  /\ pc' = [pc EXCEPT ![c] = p]
  /\ arg' = [arg EXCEPT ![c] = r]
  /\ reply' = [reply EXCEPT ![c] = d]

Goto(c, p, d, r) ==
  /\ pc' = [pc EXCEPT ![c] = p]
  /\ arg' = [arg EXCEPT ![c] = d]
  /\ reply' = [reply EXCEPT ![c] = r]

Refuse(c) == Goto(c, "reply", None, "Refusal")

Serve(c) == Goto(c, "reply", None, "Answer")

UnlockNever(c) == UNCHANGED dbLock

\* The handler's database guard, if it holds one, goes out of scope.
Unlock(c) == dbLock' = IF dbLock = c THEN None ELSE dbLock

\* What leaving handle_conn releases: the task's locals and its lock guard.
Leave(c) ==
  /\ Goto(c, "ended", None, None)
  /\ authed' = [authed EXCEPT ![c] = None]
  /\ challenge' = [challenge EXCEPT ![c] = FALSE]
  /\ Unlock(c)

-----------------------------------------------------------------------------
(* The accept loop *)

Accept(c) ==
  /\ up
  /\ pc[c] = "new"
  /\ Cardinality(Sockets) < MaxFds
  /\ Goto(c, "recv", None, None)
  /\ peer' = [peer EXCEPT ![c] = "open"]
  /\ UNCHANGED <<up, durable, dbLock, relay, channels, session, outbox, sent,
                 ghosts>>

\* The process ends: tasks, channels and its ends of the sockets go.  The
\* database stays, and a client still reads what was written before.
Die ==
  /\ up' = FALSE
  /\ dbLock' = None
  /\ relay' = [d \in Diddy |-> None]
  /\ chQueue' = [h \in Chan |-> <<>>]
  /\ task' = [h \in Chan |-> IF task[h] = "running" THEN "done" ELSE task[h]]
  /\ pc' = [c \in Conn |-> IF pc[c] = "new" THEN "new" ELSE "ended"]
  /\ arg' = [c \in Conn |-> None]
  /\ reply' = [c \in Conn |-> None]
  /\ authed' = [c \in Conn |-> None]
  /\ challenge' = [c \in Conn |-> FALSE]
  /\ UNCHANGED <<durable, chConn, chOwner, peer, outbox, sent, ghosts>>

\* listener.accept().await? fails when no descriptor is left, and main returns.
\* Conn bounds the connections that are accepted: the one that comes now need
\* not be of Conn.
AcceptFails ==
  /\ up
  /\ Cardinality(Sockets) >= MaxFds
  /\ Die

Crash == up /\ Die

Restart ==
  /\ ~up
  /\ up' = TRUE
  /\ UNCHANGED <<durable, dbLock, relay, channels, handler, session, peer,
                 outbox, sent, ghosts>>

-----------------------------------------------------------------------------
(* handle_conn, one action per request and one per await inside a request *)

Register(c, d) ==
  /\ DbFree
  /\ Receive(c)
  /\ IF d \in registered
     THEN Refuse(c)
     ELSE Goto(c, "insert", d, None)
  /\ UNCHANGED <<up, durable, dbLock, relay, channels, session, peer, outbox, sent,
                 ghosts>>

UniqueUnchecked(d) == TRUE

\* The constraints PRIMARY KEY(id) and UNIQUE(pubkey).
Unique(d) == d \notin registered

\* The lock is taken anew, so another handler may have inserted the row.  The
\* guard of a failed INSERT lives until the end of the `if let`: the handler
\* sends "internal error" with the database locked.
Insert(c) ==
  /\ pc[c] = "insert"
  /\ DbFree
  /\ \/ /\ Unique(arg[c])
        /\ registered' = registered \cup {arg[c]}
        /\ Goto(c, "reply", arg[c], "RegistrationSuccess")
        /\ UNCHANGED dbLock
     \/ \* a constraint fails, or the database refuses the write
        /\ Refuse(c)
        /\ dbLock' = c
        /\ UNCHANGED registered
  /\ UNCHANGED <<up, location, relay, channels, session, peer, outbox, sent,
                 ghosts>>

IssueAndTrust(c, d) ==
  /\ challenge' = [challenge EXCEPT ![c] = TRUE]
  /\ authed' = [authed EXCEPT ![c] = d]

\* pending_challenge is set; nobody is logged in yet.
Issue(c, d) ==
  /\ challenge' = [challenge EXCEPT ![c] = TRUE]
  /\ UNCHANGED authed

LoginRequest(c, d) ==
  /\ DbFree
  /\ Receive(c)
  /\ IF d \in registered
     THEN /\ Serve(c)
          /\ Issue(c, d)
     ELSE /\ Refuse(c)
          /\ UNCHANGED session
  /\ UNCHANGED <<up, durable, dbLock, relay, channels, peer, outbox, sent, ghosts>>

\* Bound: a channel of Chan is left for every login under way.
ChannelLeft ==
  Cardinality({h \in Chan : task[h] = "unused"})
    > Cardinality({c \in Conn : \/ pc[c] = "bind"
                                \/ reply[c] = "LoginSuccess"})

WelcomeAfterBind(c, d) == Goto(c, "bind", d, None)

\* The reply comes before the channel exists.
Welcome(c, d) == Goto(c, "reply", d, "LoginSuccess")

\* ok: the signature verifies under the row's key over the pending challenge.
LoginChallengeResponse(c, d, ok) ==
  /\ DbFree
  /\ Receive(c)
  /\ challenge' = [challenge EXCEPT ![c] = FALSE]
  /\ IF challenge[c] /\ d \in registered /\ ok
     THEN /\ ChannelLeft
          /\ Welcome(c, d)
          /\ proved' = [proved EXCEPT ![c] = @ \cup {d}]
     ELSE /\ Refuse(c)
          /\ UNCHANGED proved
  /\ UNCHANGED <<up, durable, dbLock, relay, channels, authed, peer, outbox, sent,
                 grants, welcomed>>

\* After LoginSuccess is on the wire: the map entry is replaced, which drops
\* the previous sender, and the relay task is spawned.
Bind(c) ==
  /\ pc[c] = "bind"
  /\ authed' = [authed EXCEPT ![c] = arg[c]]
  /\ \E h \in Chan :
        /\ task[h] = "unused"
        /\ task' = [task EXCEPT ![h] = "running"]
        /\ chConn' = [chConn EXCEPT ![h] = c]
        /\ chOwner' = [chOwner EXCEPT ![h] = arg[c]]
        /\ relay' = [relay EXCEPT ![arg[c]] = h]
  /\ Goto(c, "recv", None, None)
  /\ UNCHANGED <<up, durable, dbLock, chQueue, challenge, peer, outbox, sent,
                 ghosts>>

VerifyRequest(c, d) ==
  /\ DbFree
  /\ Receive(c)
  /\ IF d \in registered THEN Serve(c) ELSE Refuse(c)
  /\ UNCHANGED <<up, durable, dbLock, relay, channels, session, peer, outbox, sent,
                 ghosts>>

Announce(c) ==
  /\ Receive(c)
  /\ IF authed[c] = None
     THEN /\ Refuse(c)
          /\ UNCHANGED location
     ELSE /\ DbFree
          /\ location' = [location EXCEPT ![authed[c]] = c]
          /\ Serve(c)
  /\ UNCHANGED <<up, registered, dbLock, relay, channels, session, peer, outbox,
                 sent, ghosts>>

\* PeerInfo.online, read from the relay map after the database lock was given
\* back, is data no property here depends on.
QueryPeer(c, d) ==
  /\ DbFree
  /\ Receive(c)
  /\ IF location[d] # None THEN Serve(c) ELSE Refuse(c)
  /\ UNCHANGED <<up, durable, dbLock, relay, channels, session, peer, outbox,
                 sent, ghosts>>

\* The map holds a sender for d and its receiver is not dropped.
Reachable(d) == relay[d] # None /\ task[relay[d]] = "running"

EnqueueToSelf(c, d) ==
  /\ sent < MaxRelay
  /\ sent' = sent + 1
  /\ chQueue' = [chQueue EXCEPT ![relay[authed[c]]] =
                   Append(@, Forward(authed[c], d, c, sent'))]

EnqueueToAll(c, d) ==
  /\ sent < MaxRelay
  /\ sent' = sent + 1
  /\ chQueue' = [h \in Chan |->
                   IF task[h] = "running" /\ chOwner[h] = d
                   THEN Append(chQueue[h], Forward(authed[c], d, c, sent'))
                   ELSE chQueue[h]]

EnqueueInFront(c, d) ==
  /\ sent < MaxRelay
  /\ sent' = sent + 1
  /\ chQueue' = [chQueue EXCEPT ![relay[d]] =
                   <<Forward(authed[c], d, c, sent')>> \o @]

\* tx.send under the relay lock.  Bound: MaxRelay packets.
Enqueue(c, d) ==
  /\ sent < MaxRelay
  /\ sent' = sent + 1
  /\ chQueue' = [chQueue EXCEPT ![relay[d]] =
                   Append(@, Forward(authed[c], d, c, sent'))]

\* No reply; a packet for a diddy that is not reachable is dropped silently.
RelayPacket(c, d) ==
  /\ Receive(c)
  /\ IF authed[c] = None
     THEN /\ Refuse(c)
          /\ UNCHANGED <<chQueue, sent>>
     ELSE /\ UNCHANGED handler
          /\ IF Reachable(d)
             THEN Enqueue(c, d)
             ELSE UNCHANGED <<chQueue, sent>>
  /\ UNCHANGED <<up, durable, dbLock, relay, chConn, chOwner, task, session,
                 peer, outbox, ghosts>>

\* send!(..) by the handler.
Reply(c) ==
  /\ pc[c] = "reply"
  /\ Put(c, Response)
  /\ Unlock(c)
  /\ IF reply[c] = "LoginSuccess"
     THEN /\ Goto(c, "bind", arg[c], None)
          /\ welcomed' = [welcomed EXCEPT ![c] = TRUE]
     ELSE /\ Goto(c, "recv", None, None)
          /\ UNCHANGED welcomed
  /\ grants' = IF reply[c] = "RegistrationSuccess"
               THEN [grants EXCEPT ![arg[c]] = @ + 1] ELSE grants
  /\ UNCHANGED <<up, durable, relay, channels, session, peer, sent, proved>>

ReplyFails(c) ==
  /\ pc[c] = "reply"
  /\ peer[c] # "open"
  /\ Leave(c)
  /\ UNCHANGED <<up, durable, relay, channels, peer, outbox, sent, ghosts>>

\* recv_message or a query fails: end of stream, a frame over 1 MiB or
\* undecodable, a database error.  handle_conn returns Err, never Ok, so the
\* caller's clean-up of relay and peer_locations does not run.
HandlerFails(c) ==
  /\ pc[c] = "recv"
  /\ Leave(c)
  /\ UNCHANGED <<up, durable, relay, channels, peer, outbox, sent, ghosts>>

-----------------------------------------------------------------------------
(* The relay task of a channel *)

DequeueNot(h) == UNCHANGED chQueue

\* rx.recv() returned a message.
Dequeue(h) == chQueue' = [chQueue EXCEPT ![h] = Tail(@)]

RelayWrite(h) ==
  /\ task[h] = "running"
  /\ chQueue[h] # <<>>
  /\ Put(chConn[h], Head(chQueue[h]))
  /\ Dequeue(h)
  /\ UNCHANGED <<up, durable, dbLock, relay, chConn, chOwner, task, handler,
                 session, peer, sent, ghosts>>

RelayStop(h) ==
  /\ task' = [task EXCEPT ![h] = "done"]
  /\ chQueue' = [chQueue EXCEPT ![h] = <<>>]
  /\ UNCHANGED <<up, durable, dbLock, relay, chConn, chOwner, handler, session,
                 peer, outbox, sent, ghosts>>

RelayWriteFails(h) ==
  /\ task[h] = "running"
  /\ chQueue[h] # <<>>
  /\ peer[chConn[h]] # "open"
  /\ RelayStop(h)

SenderKeptByHandler(h) == relay[chOwner[h]] # h /\ ~Handling(chConn[h])

\* The only sender of a channel is the one in the map.
SenderDropped(h) == relay[chOwner[h]] # h

DrainedOrNot(h) == TRUE

Drained(h) == chQueue[h] = <<>>

\* rx.recv() gives None once the queue is empty and the sender was dropped.
RelayEnd(h) ==
  /\ task[h] = "running"
  /\ Drained(h)
  /\ SenderDropped(h)
  /\ RelayStop(h)

-----------------------------------------------------------------------------
(* The clients *)

ClientRead(c) ==
  /\ peer[c] = "open"
  /\ outbox[c] # <<>>
  /\ outbox' = [outbox EXCEPT ![c] = Tail(@)]
  /\ UNCHANGED <<up, durable, dbLock, relay, channels, handler, session, peer,
                 sent, ghosts>>

ClientClose(c) ==
  /\ peer[c] = "open"
  /\ peer' = [peer EXCEPT ![c] = "gone"]
  /\ outbox' = [outbox EXCEPT ![c] = <<>>]
  /\ UNCHANGED <<up, durable, dbLock, relay, channels, handler, session, sent,
                 ghosts>>

Request(c) ==
  \/ "Announce" \in Requests /\ Announce(c)
  \/ \E d \in Diddy :
       \/ "Register" \in Requests /\ Register(c, d)
       \/ "Login" \in Requests /\ LoginRequest(c, d)
       \/ "Login" \in Requests /\ \E ok \in BOOLEAN :
            LoginChallengeResponse(c, d, ok)
       \/ "Verify" \in Requests /\ VerifyRequest(c, d)
       \/ "QueryPeer" \in Requests /\ QueryPeer(c, d)
       \/ "RelayPacket" \in Requests /\ RelayPacket(c, d)

Continue(c) == Insert(c) \/ Reply(c) \/ ReplyFails(c) \/ Bind(c)

RelayStep(h) == RelayWrite(h) \/ RelayWriteFails(h) \/ RelayEnd(h)

Next ==
  \/ \E c \in Conn :
       \/ Accept(c) \/ Request(c) \/ Continue(c) \/ HandlerFails(c)
       \/ ClientRead(c) \/ ClientClose(c)
  \/ \E h \in Chan : RelayStep(h)
  \/ AcceptFails \/ Crash \/ Restart

Spec == Init /\ [][Next]_vars

\* Assumed of the runtime and the clients: tasks are scheduled, tokio's mutexes
\* queue their waiters (hence SF where a task competes for a lock or for room),
\* the handler of a closed connection reads the end of stream, and a client that
\* sent a request reads until it is answered.  Between requests it need not read:
\* a chat in a direct session keeps its connection to the server and leaves it.
Fairness ==
  /\ \A c \in Conn :
       /\ SF_vars(Continue(c))
       /\ SF_vars(peer[c] = "gone" /\ HandlerFails(c))
       /\ WF_vars(pc[c] \in {"insert", "reply"} /\ ClientRead(c))
  /\ \A h \in Chan : SF_vars(RelayStep(h))

FairSpec == Spec /\ Fairness

-----------------------------------------------------------------------------
(* Properties *)

IsForward(m) == m.type = "RelayForward"

\* Where relayed packets stand on a socket.
Relayed(c) == {i \in DOMAIN outbox[c] : IsForward(outbox[c][i])}

\* A relayed packet is put only on a connection that answered the challenge of
\* the diddy it is addressed to, whatever logins replaced which map entry while
\* it sat in a channel (LoginChallengeResponse, RelayPacket, relay task).
NoMisdelivery ==
  \A c \in Conn : \A i \in DOMAIN outbox[c] :
    IsForward(outbox[c][i]) => outbox[c][i].to \in proved[c]

\* Nothing stands in a diddy's name unless the connection that caused it
\* answered that diddy's challenge: the map entry, the announcement (also after
\* a restart, when only the table is left) and the sender of a packet.
ActsInOwnName ==
  /\ \A d \in Diddy : relay[d] # None => d \in proved[chConn[relay[d]]]
  /\ \A d \in Diddy : location[d] # None => d \in proved[location[d]]
  /\ \A h \in Chan : \A i \in DOMAIN chQueue[h] :
       chQueue[h][i].from \in proved[chQueue[h][i].src]

\* A client that is logging in reads AuthChallenge and LoginSuccess and nothing
\* else: no relayed packet gets on the socket before LoginSuccess, because the
\* channel is bound only after the reply (client/src/main.rs auth_with_server
\* treats any other message as a failed login).
WelcomedBeforeRelay ==
  \A c \in Conn :
    (\E i \in DOMAIN outbox[c] : IsForward(outbox[c][i])) => welcomed[c]

\* Of any number of racing registrations of a key one at most is told it
\* succeeded, and what a client was told survives a crash of the server.
RegistrationGrantedOnce ==
  \A d \in Diddy : grants[d] <= 1 /\ (grants[d] = 1 => d \in registered)

\* Those of them that are addressed to d.
RelayedTo(c, d) == {i \in Relayed(c) : outbox[c][i].to = d}

\* A diddy that logged in once on a connection gets its packets there in the
\* order the server accepted them and each at most once, through channel and
\* socket, also when other diddys logged in on the connection and their relay
\* tasks write to the same socket.
RelayInOrder ==
  \A h \in Chan : \A c \in Conn :
    (chConn[h] = c /\ \A g \in Chan \ {h} : chConn[g] = c => chOwner[g] # chOwner[h])
      => LET S == RelayedTo(c, chOwner[h]) IN
           /\ \A i, j \in S : i < j => outbox[c][i].n < outbox[c][j].n
           /\ \A i \in S, j \in DOMAIN chQueue[h] :
                outbox[c][i].n < chQueue[h][j].n
           /\ \A i, j \in DOMAIN chQueue[h] :
                i < j => chQueue[h][i].n < chQueue[h][j].n

\* What Switchboard sees of a packet, the packets in channels and on sockets.
Bare(m) == [from |-> m.from, to |-> m.to, n |-> m.n]
Queued == UNION {{Bare(chQueue[h][i]) : i \in DOMAIN chQueue[h]} : h \in Chan}
Written == [c \in Conn |-> {Bare(outbox[c][i]) : i \in Relayed(c)}]

Relaying == INSTANCE Switchboard
              WITH Number <- 1..MaxRelay, users <- proved, spent <- 1..sent,
                   transit <- Queued, wire <- Written

\* The relay map, the channels and their tasks, through relogins, closed
\* connections and crashes, implement Switchboard: a packet is accepted from a
\* diddy that proved itself, written at most once, and only to its addressee.
RelaysAsPromised == Relaying!Spec

\* The clean-up of server/src/main.rs:102-110: once the handler of a diddy's
\* connection is done, the relay map forgets that connection.
DisconnectCleansUp ==
  \A c \in Conn :
    pc[c] = "ended" ~> \A d \in Diddy : relay[d] # None => chConn[relay[d]] # c

\* Every request the handler took up ends in its reply, even though another
\* handler may be sending an error with the database locked.
RequestsAnswered ==
  \A c \in Conn : pc[c] \in {"insert", "reply", "bind"}
                    ~> pc[c] \in {"recv", "ended"}

\* A handler that holds the database across an await is sending an error, and
\* needs nothing but its own client for that: it does not wait for the database
\* again, and the lock is not left behind by a handler that ended.
LockedToRefuse ==
  dbLock # None => pc[dbLock] = "reply" /\ reply[dbLock] = "Refusal"

QueuedIn(h) == {chQueue[h][i] : i \in DOMAIN chQueue[h]}

\* A channel that a newer login has superseded is not found again, and gets no
\* packet more: what it still holds is all its relay task will write.
SupersededForGood ==
  [][\A h \in Chan : task[h] # "unused" /\ relay[chOwner[h]] # h =>
       /\ relay'[chOwner[h]] # h
       /\ QueuedIn(h)' \subseteq QueuedIn(h)]_vars

\* A packet leaves a channel for the socket of the channel's connection and
\* nothing else, whichever task or login ends, unless the client has closed or
\* the server dies.
LeavesForSocket ==
  [][\A h \in Chan : \A m \in QueuedIn(h) \ QueuedIn(h)' :
       \/ peer[chConn[h]] # "open"
       \/ m \in {outbox'[chConn[h]][i] : i \in DOMAIN outbox'[chConn[h]]}
       \/ ~up']_vars

\* The relay task waits in a write to a client that has stopped reading.
Stalled(h) ==
  /\ task[h] = "running"
  /\ peer[chConn[h]] = "open"
  /\ Len(outbox[chConn[h]]) >= SockCap

\* A login supersedes the diddy's previous channel for good: its relay task
\* ends, so the old connection's socket is no longer held open by it.  The one
\* thing that keeps it is a client that holds the connection and has left the
\* socket full for good, as a chat in a direct session may.
SupersededTaskEnds ==
  \A h \in Chan :
    \/ <>[]Stalled(h)
    \/ (task[h] = "running" /\ relay[chOwner[h]] # h) ~> task[h] # "running"

\* A packet accepted into a channel reaches the socket, also when a newer login
\* takes the map entry meanwhile, unless the recipient closed, left the socket
\* full for good, or the server died.
QueuedIsWritten ==
  \A h \in Chan : \A k \in 1..MaxRelay :
    \/ <>[]Stalled(h)
    \/ (\E i \in DOMAIN chQueue[h] : chQueue[h][i].n = k)
         ~> \/ \E c \in Conn :
                 /\ c = chConn[h]
                 /\ \/ peer[c] = "gone"
                    \/ \E i \in DOMAIN outbox[c] :
                         IsForward(outbox[c][i]) /\ outbox[c][i].n = k
            \/ ~up

=============================================================================
