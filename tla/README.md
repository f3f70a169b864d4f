# mojrg: models, checks and proofs

mojrg is a messenger. An authority server signs identities ("diddys"), tells
clients where a peer listens and relays packets between clients that cannot
reach each other; otherwise two clients talk directly over TCP, and each keeps
its messages in a local store. The repository has no tests. This directory
holds TLA+ models of the server, of how clients enrol, find each other and talk,
and of the frames on a connection; the TLC runs that check them; and TLAPS
proofs about each of them.

## 1. Inventory

| Part | Source | State | Operations | Modelled in |
|---|---|---|---|---|
| Authority server | `server/src/main.rs` | handler tasks with `authed_id` and `pending_challenge`; relay map; one channel and relay task per login | accept, seven requests, relay task, clean-up | `Server` |
| Server database | `server/src/db.rs` | tables `diddys`, `peer_locations` behind one mutex | open, register, by_pubkey, by_id, announce, lookup, remove_announcement | `Server`; announced addresses in `Discovery` |
| Server key file | `server/src/main.rs:26-45` | `server_key.bin` | load or generate | `Enrolment` |
| STUN endpoint | `server/src/main.rs:49-58`, `client/src/p2p.rs:18-28` | none | echo the sender's address | no: stateless, client side is dead code |
| Wire protocol | `*/src/protocol.rs`, `client/src/p2p.rs:44-64` | none | write and read a frame, 1 MiB limit on reading | `Framing`; message kinds where they are used |
| Direct sessions | `client/src/p2p.rs:222-586` | per session a key, a handshake and synchronisation state, a receive and a send task | handshake, `do_sync`, `messaging_loop` | `PeerSession` |
| Message store | `client/src/db.rs` | sled tree of `StoredMessage` | insert, get, messages_since, latest_timestamp, mark_not_pending | `PeerSession` |
| Discovery, relay chat | `client/src/p2p.rs:30-41, 66-219` | per call a server connection and what it waits for | announce, query, dial, verify, relay fallback | `Discovery` |
| Client commands | `client/src/main.rs` | stdin, spawned tasks | listen, chat, connect, quit | `Discovery`, `PeerSession` |
| Client identity | `client/src/identity.rs`, `client/src/main.rs:172-207` | identity file | generate, lock, unlock, save, load, register | `Enrolment` |
| Cryptography | `client/src/crypto.rs` | none | sign, verify, seal, open | as names: a key is named by what it is derived from, a signature verifies or not |
| Desktop shell | `tauri/` | none | the framework's template | no |

How the parts interact. Clients and server exchange framed messages over TCP; a
client waits for the answer to each request, except `RelayPacket`, which has
none, and the server may push `RelayForward` at any time after a login. On the
server, handlers share the database and the relay map, and a handler shares its
socket with the relay tasks of the logins made on it. Two clients exchange
`Packet`s. On a client, all sessions share the message store and stdin.

What is hard, and what makes each part correct:

* **Server.** Check and insert of a registration are two critical sections;
  errors are sent with the database locked; `LoginSuccess` goes out before the
  channel exists; a relogin replaces a channel that still holds packets; tables
  survive a crash and nothing else does. Correct means: a key is granted once
  and for good, what stands in a diddy's name was proved, packets reach their
  addressee in order, requests are answered, superseded tasks end.
* **Direct sessions and store.** Both ends run the same code at different
  speeds; storing, writing and marking a message are three steps; sessions of
  the same two peers overlap; tasks outlive their session. Correct means: the
  ends stay in step, a message comes as new once and is never lost from the
  stores, the `pending` flag does not lie, and a session does not hang.
* **Discovery and relay chat.** `chat` reads one message per question while the
  server may push others; announcements are overwritten and go stale; machines
  change their addresses; a dial may time out; a handler may end while its
  connection stays open; each task of a relay chat outlives the other; the two
  ends derive the relay key on their own. Correct means: a chat ends in a session,
  a relay chat or an error, no question is open when a relay chat starts, what is
  dialled is an address of the peer's, and each end reads what the other sends.
* **Identity and key file.** Files are written in place, rows inserted before
  the client has its answer; either side may crash in between; two clients may be
  started on one file, and a connection and a password prompt lie between the look
  at the file and the registration. Correct means: a client never believes more
  than the server knows, the pinned key stays the signing key, a peer is taken for
  verified under the pinned key only, and a key or an identity is lost only where
  something was cut short or contested.
* **Framing.** A frame is two writes that the socket takes piece by piece, and
  several tasks share the write half; the limit is known to the reader only.
  Correct means: what is received is what was sent, whole and in order.

`PROJECT.json` lists the hazards line by line with the properties that cover
them.

## 2. Modules

| Module | What it is |
|---|---|
| `Server` | the authority server and its database |
| `MCServer` | model values and symmetry for its runs |
| `ServerProofs` | TLAPS proofs about `Server` |
| `ServerRelayProofs` | TLAPS proofs about relayed packets in `Server` and that it implements `Switchboard` |
| `Switchboard` | abstract specification of relaying, implemented by `Server` and by `Discovery` |
| `PeerSession` | sessions of two peers over their message stores |
| `PeerProofs` | TLAPS proofs about `PeerSession`: types, the pending flag, and that it implements `ChatHistory` |
| `PeerDeliveryProofs` | TLAPS proofs about the delivery of lines in `PeerSession` |
| `PeerProtocolProofs` | TLAPS proofs that the ends of a session stay in step and never both wait |
| `ChatHistory` | abstract specification of what two stores promise, implemented by `PeerSession` |
| `Discovery` | `listen` and `chat` of several clients, composed with the server's part |
| `DiscoveryProofs` | TLAPS proofs about `Discovery` and that it implements `Switchboard` |
| `Enrolment` | registration, identity files, the server's key file, the pinned key |
| `EnrolmentProofs` | TLAPS proofs about `Enrolment` |
| `Framing` | one direction of a connection, frame by frame and piece by piece |
| `FramingProofs` | TLAPS proofs about `Framing` and that it implements `Pipe` |
| `Pipe` | abstract specification of such a direction, implemented by `Framing` |
| `MCServer`, `MCPeerSession`, `MCDiscovery`, `MCEnrolment`, `MCFraming` | model values, symmetry and functions for the runs |

How they fit together. `Framing` shows that a connection behaves as `Pipe`:
whole messages, in order, once each, up to a point. The other modules put whole
messages on their connections. `Server` has the server's tasks step by step and
shows that relaying keeps the promise of `Switchboard`; `Discovery` handles a
request in one step, because what other tasks can put between the steps of one
request (`Server`'s `WelcomedBeforeRelay`) does not reach the client, and shows
for the clients' packets, from the line they are typed on to the line they are
read from, that the same promise is kept. `Discovery` ends where a direct session
begins, which is `PeerSession`. `Enrolment` says where registered keys and
identities come from, which the others take as given (`Known`, `Member`).

Operators whose name extends that of the operator after them (`GotoSwapped`
before `Goto`) are what a slip in the code would make of it. No action uses
them; they serve to see that each property fails when the code is wrong.

### Server

| Variable | Code |
|---|---|
| `registered`, `location` | tables `diddys`, `peer_locations`; a location is the connection the announcement came from |
| `dbLock` | a handler that holds the database guard across an await |
| `relay`, `chConn`, `chOwner`, `chQueue`, `task` | `RelayMap`, and per channel the socket, the `diddy_id`, the queue and the state of the relay task |
| `pc`, `arg`, `reply` | where a handler is in `handle_conn`, for whom, and what it is about to send |
| `authed`, `challenge` | `authed_id`; `pending_challenge.is_some()` |
| `peer`, `outbox` | whether the client keeps the connection open; messages written and not yet read |
| `up` | whether the process runs |
| `grants`, `proved`, `welcomed`, `sent` | ghosts: successes sent per key, challenges answered per connection, `LoginSuccess` written, and the number that identifies a packet |

One action is what a task does between two points at which another can see its
effect: a critical section of a mutex or one framed write. So `Register` (look
up) and `Insert` are two actions, `LoginChallengeResponse`, `Reply` and `Bind`
are three, and `Announce` is an action and a `Reply`. `Accept` and `AcceptFails`
are the accept loop with a bounded number of descriptors; `Crash` and `Restart`
keep the tables and nothing else of the process. `HandlerFails` covers every
`?` at `recv_message`; it is enabled whenever the handler waits for a request.
A reply to a client that has closed may be accepted by the kernel and lost, or
fail (`Put`, `ReplyFails`, `RelayWriteFails`).

Abstracted: bytes of keys, hashes and signatures (`diddy_id` is taken to be
injective; `ok` says whether a signature verifies), timestamps, ports and
addresses, reasons of errors, `PeerInfo.online`. A message is written and read
whole: the writer mutex is held for a whole frame.

### PeerSession and ChatHistory

A session has two ends; `pc`, `send`, `cur` and `wire` are per end, `Sess(e)` is
an end's session, `At(e)` its node and `Far(e)` the other end.

| Variable | Code |
|---|---|
| `db` | the sled tree of a node: author, timestamp, sealing key and `pending` of each message |
| `caller` | who ran `connect` or `chat` for the session |
| `pc` | what an end waits for: the reads of `handle_incoming`, `handle_outgoing` and `do_sync`, `giving` while `write_packet(SyncGive)` is under way, `chat` for the receive task |
| `send`, `cur` | the send task and its message: stored, written, marked |
| `wire` | packets on the way to an end; `broken` marks a reset connection |
| `written`, `queued`, `backlog` | ghosts |

`Compose`, `Transmit` and `MarkNotPending` are the three steps of the send
task. `Quit` ends a handler or a receive task and leaves the send task of its
session running, because `select!` drops the join handle and not the task: such
a task goes on taking lines and writing to its connection, or reports them as
queued. `EndOfInput` is the other order: the send task ends and the receive task
goes on reading and storing; either way the command loop has its prompt back
(`Returned`). What is displayed is output and no state: that a session begins with
a display of all that is stored (`p2p.rs:483-485`) changes nothing.
`Exit` is a crash or `quit`. Timestamps are any value of `Time`: wall
clocks step back and differ.

`ChatHistory` says what two stores promise whatever connects and breaks: an
author keeps a message before anyone else has it, a store receives only
messages their author keeps, and nothing kept is lost. The property
`KeepsHistory` of `PeerSession` is this specification under the mapping `History`.

### Switchboard

A packet is accepted from a diddy that logged in on the connection, under a
number not used before; it is written at most once, and only on a connection on
which its addressee logged in; it may be lost at any time. `Server` maps
`users` to the answered challenges, `transit` to what is in the channels and
`wire` to what is in the sockets. `Discovery` maps them to the owners of its
lines, their channels and what their clients have not read; there a number is
spent when the server takes the packet up, not when it is typed.

### Discovery

| Variable | Code |
|---|---|
| `directory`, `relay` | table `peer_locations`; `RelayMap` |
| `deserted` | lines whose handler ended on a database error |
| `owner`, `target`, `port`, `host` | whose client opened the line, the id `chat` was called with (none for `listen`), the port it announces (0 for `chat`), the IP address the server sees the line come from |
| `stage` | where the client is with the line: the reads of `announce`, `chat` and `verify_peer`, the dial, the loops of `listen` and `relay_chat`; `left` and `typing` for the receive task and the send task of a relay chat whose other task has ended |
| `asked`, `channel`, `inbox` | requests on the way to the server, the relay channel of the line's login, messages on the way to the client |
| `found` | `peer_info` |
| `binding`, `listener` | listen tasks that have not reached `bind`; who accepts connections at an address |
| `sent` | lines typed in relay chats |

`listen` is two tasks, one that binds and one that announces; either may be
first and either may fail. `chat` holds the prompt until it returns. A login is
one step. Nothing ties a diddy to an address: each line comes from any, a
listener is reached at any, several diddys may share one, and machines move
(`Moves`). A `?` on a database error ends the handler of a line
(`HandlerFails`: `server/src/main.rs:262, 295, 301`), but its relay task has a
clone of the writer, so the connection stays open and unanswered until a later
login of the diddy takes the map entry and the task ends (`RelayTaskEnds`).
Faults are switched on per instance: a server that ends and is started again, a
reset connection, a database error, a client that quits, a dial that times out, a
listener that ends, a machine that moves.

### Enrolment

| Variable | Code |
|---|---|
| `server`, `signer`, `keyFile` | where the server's `main` is, the key pair it holds, `server_key.bin` (missing, torn or a key pair) |
| `rows` | the signature stored with a registered key |
| `pinned` | `SERVER_PUBKEY` in the clients' source, copied once a server runs |
| `pc`, `key`, `sig` | where a client's `main` is and the identity it holds |
| `line` | the registration on the client's connection, up to its answer |
| `file`, `store` | identity files; who has the message store beside one open |
| `made`, `hit` | ghosts: generated key pairs, and keys whose registration was cut short or contested |

`load` and the registration are three steps: `Enrol` finds no file and begins to
connect and to ask for a password, `Register` generates the key pair and sends it,
`Save` writes the file, which nobody looks at again before. Between any two of
them other clients may do anything with the same file (`Contested`).
`fs::write` is two steps, truncation and completion, with a crash possible in
between. `Faults = {"read error"}` lets a read of the key file fail. Several
processes may use one identity file (`Uses`); the lock of the message store,
taken after the file was written, lets one of them to the prompt.

### Framing and Pipe

| Variable | Code |
|---|---|
| `mutex`, `sending`, `left` | the mutex around the write half, the message a task sends, and what `write_all` still has to write of its frame |
| `stream`, `cut` | what the socket holds; the connection is gone |
| `reader`, `want`, `buf` | which `read_exact` of `recv_message` runs, for how much, and what it has |
| `log`, `got` | ghosts of the refinement: messages in the order their frames began, messages returned |

The stream is a sequence of parts of frames, so that a frame can be cut and
mixed up anywhere, also inside its length. What a `read_exact` makes of parts
that do not belong together is any length, and never a message.

## 3. Runs

States are distinct states; times are with two workers.

| Run | Configuration | Shows | States |
|---|---|---|---|
| `server` | 2 diddys, 2 connections, 2 channels, 2 descriptors, 2 packets, empty tables, every request | `TypeOK`, `ActsInOwnName`, `RegistrationGrantedOnce`, `NoMisdelivery`, `WelcomedBeforeRelay`, `RelayInOrder`, `RelaysAsPromised`, `SupersededForGood`, `LeavesForSocket` | 828 k, 185 s |
| `server_live` | 1 diddy, 2 connections, 2 channels, 1 packet, fairness | `LockedToRefuse`, `RequestsAnswered`, `SupersededTaskEnds`, `QueuedIsWritten` | 56 k, 150 s |
| `server_cleanup` | 1 diddy, 1 connection, fairness | `DisconnectCleansUp` is violated | |
| `peer_safety` | 2 sessions, 2 lines, frames of one chat, all faults | `TypeOK`, `Synchronised`, `NeverBothWait`, `NotPendingWasWritten`, `ArrivesAsNew`, `NothingDropped`, `KeepsHistory` | 540 k, 100 s |
| `peer_liveness` | 2 sessions, 2 lines, 2 timestamps, no buffer, connections may break, fairness | `SyncEnds` | 377 k, 195 s |
| `peer_queued` | 2 sessions, 1 line, connections may break | `QueuedIsSynced` is violated | |
| `discovery` | 2 registered diddys and a stranger, 2 addresses, 2 lines, 2 relayed lines, all faults | `TypeOK`, `RelayChatInStep`, `AnswerOnTheWay`, `DialsAnnounced`, `SealedAsSaid`, `RelaysAsPromised` | 201 k, 57 s |
| `discovery_live` | the same with 1 address, 1 relayed line, no failing listener, fairness | `ChatSettles` | 179 k, 135 s |
| `discovery_key` | 2 diddys, 2 lines, 1 relayed line | `RelayReadable` is violated | |
| `enrolment` | 3 clients, two of them on one file, 4 keys, 3 server keys | `TypeOK`, `EnrolledIsKnown`, `SignedAsPinned`, `OrphansAreCutShort`, `SavedIsKept` | 85 k, 23 s |
| `peer_unverified` | the same clients, a key file that may fail to be read | `PeersAreVerified` is violated | |
| `framing` | 2 tasks, 4 sends, bodies under, at and over the limit, a socket of 2 units, fairness | `TypeOK`, `StaysInStep`, `QuietMeansDelivered`, `ReceivesAsSent`, `Arrives` | 38 k, 11 s |

Why the bounds suffice for what the runs ask:

* Two diddys are needed for a packet to go astray or to be sent in another's
  name; two connections for racing registrations and for a login that supersedes
  the same diddy's other one, or another diddy's on the same connection; two
  channels for the two logins; two packets for an order. A third connection could
  not log in, there being no channel for it; it could only be refused.
  `MaxFds = 2` makes `accept` fail when both are open. `SockCap = 1` makes a writer
  wait as soon as a message is unread. `server_live` has one diddy, because the
  handlers compete for the database and the relogins for the map entry of one.
* Connections, channels and lines are used once, so the behaviours of an
  instance are bounded by them; a crash and a restart may happen any number of
  times, and after a restart unused connections are accepted.
* Two sessions are what overlapping, or one after the other, needs; `MaxFrame = 1`
  makes a `SyncGive` of two chats a refused frame. `peer_safety` has one timestamp,
  because times decide only what a synchronisation offers, and with equal times it
  offers all. `peer_liveness` has two, for equal, ordered and reversed times, and no
  buffer, so that any `SyncGive` with a chat in it must be read by the peer to
  get through; the state in which both ends wait for each other is reachable
  there. The theorems have any number of timestamps.
* `discovery`: two lines are a listener and a chat, two chats with each other,
  or a chat that supersedes the same diddy's listener. The stranger is a diddy
  one may ask for and the server does not know. Two addresses let the two diddys
  share one, have one each, or change over. One relayed line is enough to arrive in
  place of an answer, which is what `discovery_live` needs; with two, packets can
  be told apart. To `ChatSettles` an address matters only by whether somebody
  accepts connections there, which one address and clients that quit vary.
* `enrolment`, `peer_unverified`: two clients contest a file and a third, on a file of its own,
  races with them at the server; a fourth key lets a client whose registration
  was lost try again; three server keys let a crash in the first write of the
  key file happen twice. Keys are used up, which is the only bound.
* `framing`: four sends are two for each of two tasks, or an over-long frame in
  front of others. A length is two units and a body one, two or three, so a
  socket of two units cuts frames at every place.

Deadlock is checked in the server runs. In the others it is not: peers whose
sessions have ended and who type nothing, clients at the prompt, processes that
have used up the keys of the instance, and a connection with nothing to send
rightly do nothing. Symmetry is used in runs that check no liveness only.

### Fairness

* Server: a handler in the middle of a request goes on, and so does a relay
  task with something to do. This is strong fairness, because such a step
  competes for a mutex or for room in a socket and is enabled on and off;
  tokio's mutex serves its waiters in order. A handler whose client has closed
  reads the end of stream at last. A client reads while a request of its own is
  being answered, which is how every call in the client is written. Otherwise it
  need not: a chat in a direct session keeps its server line open and unread
  (`client/src/p2p.rs:101-104`), so a relay task may be stuck in a write for good
  (`Stalled`), and `SupersededTaskEnds` and `QueuedIsWritten` have that as their
  exception. No request, connection, restart or close is assumed to happen.
* Peers: a read that can return does, and a send task that has a line goes on.
  That is tokio's scheduler and the kernel reporting closed connections. Nothing
  is assumed of users, nor that a connection ever breaks.
* `Discovery`: the server takes up requests and writes what is queued; a client
  that can read does, a dial ends by itself (`CONNECT_TIMEOUT`), and the end of a
  connection that was reset or closed is noticed. Nothing is assumed of users and
  faults. A server that goes silent without a reset is outside this assumption:
  no read of an answer has a time-out, and such a chat keeps the prompt. So does
  one whose handler ended on a database error while its relay task is kept by the
  map (`Forsaken`): `ChatSettles` has that as its exception.
* `Framing`: a task that can take the write half, write or return does, and a
  call of `recv_message` that has begun to read goes on. That there is a next
  call is not assumed; `Arrives` has a reader that leaves the connection unread
  for good as its exception (`Unread`). The mutex is granted in order of request;
  with a bounded number of sends weak fairness suffices.

### Liveness and its safety half

The liveness properties hold under the fairness above and are for TLC only. What
the code itself contributes to most of them is a safety property of its own,
which needs no fairness and is proved for every instance:

| Something must happen | because it never happens that |
|---|---|
| `RequestsAnswered` | a handler holds the database and waits for it (`LockedToRefuse`) |
| `SupersededTaskEnds`, `QueuedIsWritten` | a superseded channel gets another packet (`SupersededForGood`), or a packet leaves a channel for anywhere but its socket (`LeavesForSocket`) |
| `SyncEnds` | both ends of a session wait with nothing to read (`NeverBothWait`) |
| `ChatSettles` | a client waits for an answer that nobody will give, but for a failed handler (`AnswerOnTheWay`) |
| `Arrives` | a reader waits for units that nobody will write (`QuietMeansDelivered`) |

### Findings

1. `server_cleanup`: the clean-up at `server/src/main.rs:102-110` never runs.
   `handle_conn` loops until a `?` leaves it with `Err`, which the caller maps
   to `None`. Map entry, announcement, relay task and socket stay until the same
   diddy logs in again; `PeerInfo.online` keeps saying so.
2. `peer_queued`: "send failed, queued" (`client/src/p2p.rs:573`) promises a
   later delivery, and synchronisation is the only code that could make one, but
   the stored ciphertext is sealed under the key of the session that failed, so
   the peer cannot open it in the next one.

3. `discovery_key`: the two ends of a relay chat hash their public keys in
   opposite orders (`client/src/p2p.rs:113-116`), so the fallback that
   `client/src/p2p.rs:66` announces carries messages neither end can open; the
   receive task drops them silently. The theorem `RelayOpensNothing` proves it
   for every instance: unless a diddy chats with itself, no packet of the peer
   has the key that the reader derived.
4. `peer_unverified`: `INIT.md:57` ends the flow by which a client checks a peer
   with "diddy Verify(SERVER_PUBKEY, pubkey, signature)". `verify_peer`
   (`client/src/p2p.rs:122-131`) leaves that out and takes any `VerifyResponse`.
   The run shows a row that is not signed with the pinned key, because the server
   lost its key file to a failed read, and a client that takes it. The handshake
   of a direct session does check (`client/src/p2p.rs:252, 345`).

The second has a wider cause: an end composes under a session's key only after
it wrote its `SyncGive`, so no chat in a `SyncGive` is ever sealed under the key
that should open it. The theorem `SyncOpensNothing` proves this for every number
of sessions: no synchronisation ever brings a message. A history that outgrows the frame limit also costs the
session: the reader refuses the frame and returns.

What the models make visible besides, and no document of the repository denies:

* A login of `chat` replaces the map entry of the same diddy's `listen` line
  (`server/src/main.rs:237`), so the listener is told of no relayed packet from
  then on, also after the chat is over.
* `chat` announces port 0 over the listener's port (`client/src/p2p.rs:74-78`).
  Whoever looks the diddy up afterwards dials port 0 and falls back to the relay.
* A packet pushed during discovery is taken for an answer and shifts those that
  follow (`client/src/p2p.rs:79, 85, 127-129`): a chat with a registered peer may
  end in "verify failed". `RelayChatInStep` says it never goes on out of step.
* A dial takes whoever listens at the announced address
  (`client/src/p2p.rs:97-103`), which may be another diddy's by now, and the id the
  handshake brings is not compared with the one `chat` was called for. What holds is
  that the address was the peer's (`DialsAnnounced`).
* A handler that ends on a database error leaves its connection open as long as
  the map has its relay channel: the client of an unanswered question waits, with
  the prompt, until it is killed or its diddy logs in elsewhere.
* Any error of reading `server_key.bin` counts as a missing file
  (`server/src/main.rs:27-42`): the key is then overwritten, and what it signed is
  no longer accepted. `SignedAsPinned` holds where reads do not fail.
* Two clients started on one missing identity file both register, and the later
  `save` wins (`client/src/identity.rs:101`), however long it sat at the password
  prompt (`client/src/main.rs:174`); the other's registered key is lost when its
  process ends.
* A server handler that meets a message over the limit ends, but a relay task of
  the connection keeps its socket open; the client can write into it until its
  buffer is full and then waits for good.

## 4. Proofs

Every theorem is for all values of the constants that satisfy the named
assumptions of its module (`ConstantsAssumption`; in `PeerSession`
`SessionAssumption`, that there are two nodes and the bounds are numbers, and
`RowAssumption`, that `None` is no row): any sets of diddys, connections,
channels, processes, keys, sessions and lines, and any bounds.

| Module | Theorem | Property |
|---|---|---|
| `ServerProofs` | `TypeCorrect` | `TypeOK` |
| | `NoMisdeliveryHolds` | `NoMisdelivery` |
| | `ActsInOwnNameHolds` | `ActsInOwnName` |
| | `WelcomedBeforeRelayHolds` | `WelcomedBeforeRelay` |
| | `RegistrationGrantedOnceHolds` | `RegistrationGrantedOnce` |
| | `LockedToRefuseHolds` | `LockedToRefuse` |
| | `SupersededForGoodHolds` | `SupersededForGood` |
| | `LeavesForSocketHolds` | `LeavesForSocket` |
| `ServerRelayProofs` | `RelayInOrderHolds` | `RelayInOrder` |
| | `RelaysAsPromisedHolds` | `RelaysAsPromised`: `Server` implements `Switchboard` |
| `EnrolmentProofs` | `EnrolmentTyped` | `TypeOK` |
| | `EnrolledIsKnownHolds` | `EnrolledIsKnown` |
| | `SignedAsPinnedHolds` | `SignedAsPinned`, if reads of the key file do not fail |
| | `SavedIsKeptHolds` | `SavedIsKept` |
| | `OrphansAreCutShortHolds` | `OrphansAreCutShort` |
| `PeerProofs` | `PeerTypes` | `TypeOK` |
| | `PendingIsHonest` | `NotPendingWasWritten` |
| | `HistoryIsKept` | `KeepsHistory`: `PeerSession` implements `ChatHistory` |
| `PeerDeliveryProofs` | `LinesArriveAsNew` | `ArrivesAsNew` |
| | `NoLineDropped` | `NothingDropped` |
| | `SyncOpensNothing` | no chat in a `SyncGive` is opened by the session's key |
| `PeerProtocolProofs` | `PacketsAreExpected` | `Synchronised` |
| | `NeverBothWaitHolds` | `NeverBothWait` |
| `FramingProofs` | `FramingTyped` | `TypeOK` |
| | `StaysInStepHolds` | `StaysInStep` |
| | `QuietMeansDeliveredHolds` | `QuietMeansDelivered` |
| | `ReceivesAsSentHolds` | `ReceivesAsSent`: `Framing` implements `Pipe` |
| `DiscoveryProofs` | `DiscoveryTyped` | `TypeOK` |
| | `RelayChatInStepHolds` | `RelayChatInStep` |
| | `AnswerOnTheWayHolds` | `AnswerOnTheWay` |
| | `DialsAnnouncedHolds` | `DialsAnnounced` |
| | `DiscoveryRelays` | `RelaysAsPromised`: `Discovery` implements `Switchboard` |
| | `SealedAsSaidHolds` | `SealedAsSaid` |
| | `RelayOpensNothing` | no packet of its peer is opened in a relay chat (finding 3) |

### The server

`TypeOK` is not inductive: `Insert` writes `arg[c]` into the table, and only
`ArgInv` says a handler at that point has a diddy there. The three properties
about who gets what rest on one inductive invariant,

    SafetyInv == TypeOK /\ ArgInv /\ LoginInv /\ ChannelInv /\ RelayInv
                   /\ LocationInv /\ OutboxInv

A packet in an outbox came from a channel, so `OutboxInv` needs `ChannelInv`: a
channel leads to a connection that proved its owner and holds packets for its
owner only. Packets get into a channel through the map, so `ChannelInv` needs
`RelayInv`: the map finds a diddy's own channel. A channel is made by `Bind`, so
`ChannelInv` needs `LoginInv`: a handler about to bind has seen the challenge
answered and has written `LoginSuccess`. The ghosts `proved` and `welcomed` only
grow (`GhostsGrow`), so what was true of a connection stays true. Each conjunct
has a lemma of its own whose proof has one step per action that can disturb it;
`ChannelSteps`, `OutboxSteps` and `LocationSteps` say once which those are.

`RegistrationGrantedOnce` needs `GrantInv`: at most one handler holds an unsent
success for a key, and then the row exists and no success was sent before. The
uniqueness constraint at `Insert`, and not the look-up in `Register`, is what
the step of `Insert` uses.

`LockedToRefuse` is inductive on its own: of the steps at which a handler that
has the database could move, `Reply`, `ReplyFails` and `HandlerFails` unlock it
(`GotoUnlocked`), and no other is enabled while it is sending an error
(`GotoLocked`). `SupersededForGood` and `LeavesForSocket` are action properties;
their steps start from `SafetyInv`: that the map leads to a diddy's own channels
only (`RelayInv`) is why `Enqueue` misses a superseded channel, and that a login
takes an unused channel (`BindShape`) is why none comes back.

### Relayed packets

`RelayInOrder` speaks of a diddy with one channel on a connection, whoever else
has channels there; but whether it will get a second one is not known when a
packet is queued, so the invariant is about all
channels:

    RelayedInv == SafetyInv /\ UnboundInv /\ SourceInv /\ NumberInv
                    /\ QueueInv /\ OrderInv

`NumberInv` says numbers were given out, so the next packet's is larger than all
of them and goes behind them; `QueueInv`, that a channel holds packets in the
order of their numbers and no two channels hold the same one; `OrderInv`, that
where a channel is the only one of its owner on a socket (`Alone`), the owner's
packets there are in order and before what is in the channel (`Ordered`). The
step of a write needs `SourceInv`: packets of others on the socket came from
other channels and are not the owner's. The step for `Bind` needs it with
`UnboundInv`: a diddy that gets its first channel on a connection has no packet
there yet. `RelayCases` reduces all
actions to six kinds of step on what the invariant mentions, and there is a lemma
for each.

The refinement uses the same six: `Accepting` is `Accept`; `Writing` is `Write`
when the packet gets on the socket and `Take` when it is lost; answered challenges
are `Login`; ended channels and what a client reads are `Take`; `Bind` is
nothing. That the written packet leaves `transit`, which is a set, is where
`QueueInv` is needed again: no channel holds it twice.

### Enrolment

    EnrolInv == TypeOK /\ SignerInv /\ MadeInv /\ LineInv /\ FileInv
                  /\ EnrolledIsKnown

A client is enrolled by the answer to its registration, so `LineInv` follows the
registration: before it is granted there is no row for its key, afterwards there
is one, and nobody else holds that key; that needs `MadeInv`, a fresh key is in
no use. Or it loads an identity, so `FileInv` says files hold registered
identities. `SignedInv` adds that the key file is the pinned key from the moment
one is pinned, unless a read fails, which is the hypothesis
`"read error" \notin Faults`. `KeptInv` follows a key from the client that made
it to the file, or to the step that cut its registration short or contested it;
`SavedIsKept` and `OrphansAreCutShort` are its two ends.

### Direct sessions

Three invariants, each on top of the one before:

    PeerInv     == TypeOK /\ SendInv /\ WireInv /\ WrittenInv
    DeliveryInv == PeerInv /\ StageInv /\ LiveInv /\ LineInv
                     /\ NothingDropped
    ProtocolInv == DeliveryInv /\ RoleInv /\ KindInv /\ CountInv

`TypeOK` alone is not kept: a row is marked as not pending only where there is a
row (`SendInv`, which also says whose line a send task works on and under which
key). The type of the latest timestamp needs that a set of numbers below a bound
has a largest one; that follows from the well-foundedness of the numbers.
`WrittenInv` is `NotPendingWasWritten` and that a send task about to mark a row
has written its line, and `WireInv`
says a chat on the way is one its author keeps, which is what the refinement of
`ChatHistory` asks of a step that stores a received chat.

`DeliveryInv` rests on what a key tells. Before an end chats, its node has no row of
its own with the session's key, so no chat it offers has it (`StageInv`): a
synchronisation opens nothing, and lines arrive in one way only, live, in the
session they were written in. There a line is written once (`LiveInv`), and it
is not stored before it is written (`LineInv`). So a line that is on the way is new
to its reader, and it
stays on the way until it is stored. Most steps write nothing, and
one lemma (`UnwrittenStep`) covers them: what they do to the wires is to take
something from them (`Dwindles`), or to lose nothing (`Carries`).

`ProtocolInv` gives every packet of a session a place: 1 to 4 for handshake and
synchronisation and 5 on for chats. An end knows the place it reads at (`Due`)
and the one it writes at (`Put`); the packets on its wire have the kinds of the
places from `Due` on (`KindInv`), and, as long as the connection holds, they
reach up to where the other end writes (`CountInv`). `ExchangeProtocol` is the
step of all five exchanges at once.

`NeverBothWait` follows from it by counting. If an end reads at `Due` and its wire
is empty, the other end has written all packets before `Due` and writes there
next, so it is in a stage of its own in which it has to read first; were its
wire empty too, each would have to write where the other reads, and the only two
stages that fit are the caller's, while one of the ends is the callee.

### Framing

    FramingInv == TypeOK /\ LockInv /\ FlowInv /\ StaysInStep

What is under way (`Flow`) is what the reader has, what is in the socket and what
the task with the mutex has still to write; by `LockInv` no other task is within
a frame. `FlowInv` says there are places `b` at which the frames of the messages
in `log` begin in `Flow`, each behind the one before it, and that the reader is
at the beginning of frame `Len(got) + 1`, or two units into it when it waits for
a body. Writing and reading pieces leaves `Flow` as it is. What else can happen
to it has a lemma on the layout alone, for any sizes: a frame is appended
(`LaidAppend`), the end is lost in a cut (`LaidPart`), or the front is taken by
the reader (`LaidShift`). So what `read_exact` returns is the length, or the body,
of the next frame (`LaidFirst`, `LengthSays`, `BodySays`), which is the whole
refinement: `Lock` is `Send`, `ReadBody` is `Receive`, all else is nothing.
`QuietMeansDelivered` is arithmetic on the places: if all that is under way is what
the reader has, a frame that was begun and not received would lie within it to
its end, and the reader has less than the part of it that he waits for
(`NothingUnderWay`). That what was received is what was sent comes from the
refinement (`ReceivedStep`).
Of the sizes the proofs need that a body has at least one unit, and that the length in
a frame is the one the body has; of the limit and the socket's room, nothing.

### Discovery

Each property rests on `TypeInv` (`TypeOK`, what a client's stage says about its
line, and that the map finds a line of the diddy's own) and on an invariant of
its own.

`RelayChatInStep` needs `StepInv`: for each line, what may be on the way in either
direction at a stage (`InStep`). Before `chat` verifies, it has asked for no
verdict and none is on the way. While it verifies, its request is the last
question, a verdict is the last answer (`Last`), and once there is a verdict there
is no question left. So when it reads `VerifyResponse` nothing else is open,
however many messages the answers were shifted by before. The lemmas `InStep...`
say this of the queues alone, one for each thing that happens to them.

`AnswerOnTheWay` needs `ServedInv`, the same about sets instead of places. A
client asks before it waits, and the server takes up a question only to answer
it on the line, or the connection is gone, or the handler is (`ServerServes`); a message read as an
answer goes on to the next question. It says nothing of what the answer is, so
it holds however the answers are shifted.

`DialsAnnounced` needs `FindInv`: an address that came from a line of a diddy
(`Came`) stays one, since a line keeps its owner, its port and the address it was
opened from (`CameStays`); rows of the directory came from their diddy (`Located`);
and a `QueryPeer` on a line asks for the line's peer, so that an address on the way,
found or dialled came from the peer (`Finds`), whatever it is read in place of.
Who listens at an address plays no part, so neither do machines that move.

The refinement needs `PostInv`: a packet is once on the way to the server, on a
line of its sender, or once on the way from it, on a line of its addressee, and
numbers are those of typed lines. Opening a line is `Login`, taking up a packet is
`Accept`, or `Take` when nobody is logged in under its addressee, a relay task's
write is `Write`, and every other action is `Take`: packets at most get fewer
(`Loses`, for which `LosesRelays` does the step once).

`SealedAsSaid` needs `SealInv`, which says it of channels as well. A packet's key is
chosen where it is typed, and `PostInv` says the line it was typed on is of its
sender and the packet for that line's target, so the key is the sender's for the
addressee when the server takes it up; a channel belongs to its line's owner, so
what is pushed was for whom it reaches (`Seals`). `RelayOpensNothing` then is the
comparison of two keys: the sender's of the reader and the reader's of the
sender, which are equal only if the two are one.

### Only model-checked

The liveness properties (`RequestsAnswered`, `SupersededTaskEnds`, `QueuedIsWritten`, `SyncEnds`,
`ChatSettles`, `Arrives`), which are beyond the prover together with fairness
and `ENABLED`; section 3 names the proved safety half of each. Every other
property of a run that passes is a theorem.

## 5. Limits

Not modelled, with the reason: the STUN endpoint (stateless, unused by the
client); byte layout and cryptographic algorithms (data no property here
depends on); the desktop shell (a template); performance and memory growth of
the unbounded channels; connections that lose packets without ever being reset;
a power loss after `fs::write` returned.

Abstracted: a failing database is modelled for the server only where the code
tells it apart (the failed `INSERT`, a handler that ends), and the client's
store is taken not to fail. The peers of a session are two diddys; a client that
talks to several keeps their messages under different key prefixes. Lines are
typed as a set of values with fresh ids: two different lines never share a uuid.
A wrong password or a torn identity file ends the client and changes nothing.
What a relay chat would show and store is left out, since nothing its peer seals
opens. `register_with_server` takes the signature it is sent without checking it;
in `Enrolment` it is always the server's. A body of 4 GiB or more, whose length
would not fit into the prefix, is not sent in `Framing`.

## 6. Plan

What is left is liveness on larger instances: `ChatSettles` with a third line,
so that a listener and both ends of a relay chat are there at once. Without any
fault that instance has 0.8 million states, which safety manages in a minute and
the check of liveness not in five. The safety properties, `AnswerOnTheWay` among
them, are proved for it.
