----------------------------- MODULE PeerProofs -----------------------------
(***************************************************************************)
(* Proofs about PeerSession, for any sessions, lines, timestamps, sockets  *)
(* and faults: type correctness, that the pending flag does not lie, and   *)
(* that the two stores implement ChatHistory.                              *)
(***************************************************************************)
EXTENDS PeerSession, TLAPS, WellFoundedInduction

-----------------------------------------------------------------------------
(* Nodes, ends and times *)

\* There is one other node.
LEMMA PeerFacts ==
  ASSUME NEW n \in Node
  PROVE  /\ Peer(n) \in Node /\ Peer(n) # n /\ Peer(Peer(n)) = n
         /\ \A m \in Node : m = n \/ m = Peer(n)
<1>1. PICK a \in Node, b \in Node : a # b /\ Node = {a, b}
  BY SessionAssumption
<1>2. \A m \in Node : Node \ {m} # {}
  BY <1>1
<1>3. \A m \in Node : Peer(m) \in Node \ {m}
  BY <1>2 DEF Peer
<1> QED
  BY <1>1, <1>3

\* A session has two ends.
LEMMA EndFacts ==
  ASSUME NEW e \in End
  PROVE  /\ Sess(e) \in Session /\ At(e) \in Node
         /\ Far(e) \in End /\ Far(e) # e /\ Far(Far(e)) = e
         /\ Sess(Far(e)) = Sess(e)
         /\ At(Far(e)) = Peer(At(e)) /\ At(Far(e)) # At(e) /\ At(Far(e)) \in Node
         /\ \A f \in End : Sess(f) = Sess(e) => f = e \/ f = Far(e)
         /\ \A f \in End : Sess(f) = Sess(e) /\ At(f) = At(e) => f = e
<1>1. Sess(e) \in Session /\ At(e) \in Node /\ e = <<Sess(e), At(e)>>
  BY DEF End, Sess, At
<1>2. /\ Far(e) \in End /\ Sess(Far(e)) = Sess(e)
      /\ At(Far(e)) = Peer(At(e)) /\ At(Far(e)) \in Node
  BY <1>1, PeerFacts DEF End, Far, Sess, At
<1>3. At(Far(e)) # At(e) /\ Far(Far(e)) = e
  BY <1>1, <1>2, PeerFacts DEF Far
<1>4. \A f \in End : Sess(f) = Sess(e) => f = e \/ f = Far(e)
  BY <1>1, <1>2, PeerFacts DEF End, Sess, At, Far
<1>5. \A f \in End : Sess(f) = Sess(e) /\ At(f) = At(e) => f = e
  BY <1>1 DEF End, Sess, At
<1> QED
  BY <1>1, <1>2, <1>3, <1>4, <1>5

\* A set of numbers up to n has a largest one: the least distance from n, which
\* there is because Nat is well founded.
LEMMA LargestExists ==
  ASSUME NEW n \in Nat, NEW S \in SUBSET (0..n), S # {}
  PROVE  \E t \in S : \A u \in S : u <= t
<1> DEFINE R == OpToRel(<, Nat)
           T == {n - t : t \in S}
<1>1. IsWellFoundedOn(R, Nat)
  BY NatLessThanWellFounded
<1>2. T \subseteq Nat /\ T # {}
  <2>1. \A t \in S : t \in 0..n
    OBVIOUS
  <2>2. \A t \in S : n - t \in Nat
    BY <2>1
  <2> QED
    BY <2>2
<1>3. R = {ss \in Nat \X Nat : ss[1] < ss[2]}
  BY DEF OpToRel
<1> HIDE DEF R
<1>4. \E x \in T : \A y \in T : ~ (<<y, x>> \in R)
  BY <1>1, <1>2, WFMin, Zenon
<1>5. PICK t \in S : \A u \in S : ~(<<n - u, n - t>> \in R)
  BY <1>4
<1>6. ASSUME NEW u \in S PROVE u <= t
  <2>1. u \in 0..n /\ t \in 0..n
    OBVIOUS
  <2>2. <<n - u, n - t>> \in Nat \X Nat
    BY <2>1
  <2>3. ~(n - u < n - t)
    BY <1>3, <1>5, <2>2
  <2> QED
    BY <2>1, <2>3
<1> QED
  BY <1>6

\* latest_timestamp is a time, or 0.
LEMMA LatestType ==
  ASSUME TypeOK, NEW n \in Node
  PROVE  LatestTimestamp(n) \in Time \cup {0}
<1> DEFINE S == {0} \cup {db[n][l].ts : l \in {k \in Line : Stored(n, k)}}
<1>1. MaxTime \in Nat
  BY SessionAssumption
<1>2. \A l \in Line : Stored(n, l) => db[n][l].ts \in Time
  BY DEF TypeOK, Stored, StoredMessage
<1>3. S \in SUBSET (0..MaxTime) /\ S # {}
  BY <1>1, <1>2 DEF Time
<1>4. PICK t \in S : \A u \in S : u <= t
  BY <1>1, <1>3, LargestExists
<1>5. t \in Time \cup {0}
  BY <1>1, <1>3 DEF Time
<1>6. /\ t = 0 \/ \E l \in Line : Stored(n, l) /\ db[n][l].ts = t
      /\ \A l \in Line : Stored(n, l) => db[n][l].ts <= t
  BY <1>4
<1> QED
  BY <1>5, <1>6 DEF LatestTimestamp

-----------------------------------------------------------------------------
(* Type correctness *)

\* A send task between two steps has a line that its node stored as its own,
\* sealed under the key of the task's session.
SendInv ==
  \A e \in End : send[e] \in {"stored", "written"} =>
    /\ cur[e] \in Line
    /\ Stored(At(e), cur[e])
    /\ db[At(e)][cur[e]].from = At(e)
    /\ db[At(e)][cur[e]].key = Sess(e)

\* What the packets carry.
LEMMA PacketFacts ==
  /\ \A t \in {"HandshakeInit", "Challenge", "ChallengeResponse"} :
       Plain(t) \in Packet /\ Plain(t).type = t
  /\ \A t \in Time \cup {0} : /\ SyncRequest(t) \in Packet
                              /\ SyncRequest(t).type = "SyncRequest"
  /\ \A cs \in SUBSET ChatMessage : /\ SyncGive(cs) \in Packet
                                    /\ SyncGive(cs).type = "SyncGive"
                                    /\ SyncGive(cs).chats = cs
  /\ \A m \in ChatMessage : /\ Message(m) \in Packet
                            /\ Message(m).type = "Message"
                            /\ Message(m).chat = m
  /\ \A p \in Packet : p.type = "SyncGive" => p.chats \in SUBSET ChatMessage
  /\ \A p \in Packet : p.type = "Message" => p.chat \in ChatMessage
BY DEF Packet, Plain, SyncRequest, SyncGive, Message

\* The wires after an answer.
LEMMA AnswerShape ==
  ASSUME TypeOK, NEW e \in End, NEW q, Answer(e, q)
  PROVE  wire' = [f \in End |->
                    IF f = e THEN Tail(wire[e])
                    ELSE IF f = Far(e) /\ Connected(e) THEN Append(wire[f], q)
                    ELSE wire[f]]
<1>1. Far(e) \in End /\ Far(e) # e
  BY EndFacts
<1>2. CASE Connected(e)
  BY <1>1, <1>2 DEF Answer, TypeOK
<1>3. CASE ~Connected(e)
  BY <1>3 DEF Answer, TypeOK
<1> QED
  BY <1>2, <1>3

\* Appending, taking and answering keep the wires typed.
LEMMA WireTypes ==
  ASSUME TypeOK, NEW e \in End, NEW p \in Packet
  PROVE  /\ Write(e, p) => wire' \in [End -> Seq(Packet)]
         /\ wire[e] # <<>> =>
              /\ Head(wire[e]) \in Packet
              /\ Tail(wire[e]) \in Seq(Packet)
              /\ Answer(e, p) => wire' \in [End -> Seq(Packet)]
              /\ Consume(e) => wire' \in [End -> Seq(Packet)]
<1>1. Far(e) \in End /\ wire[e] \in Seq(Packet) /\ wire[Far(e)] \in Seq(Packet)
  BY EndFacts DEF TypeOK
<1>2. Append(wire[Far(e)], p) \in Seq(Packet)
  BY <1>1
<1>3. wire[e] # <<>> => Head(wire[e]) \in Packet /\ Tail(wire[e]) \in Seq(Packet)
  BY <1>1
<1>4. Write(e, p) => wire' \in [End -> Seq(Packet)]
  BY <1>1, <1>2 DEF Write, TypeOK
<1>5. ASSUME wire[e] # <<>>, Answer(e, p)
      PROVE  wire' \in [End -> Seq(Packet)]
  <2> DEFINE W(f) == IF f = e THEN Tail(wire[e])
                     ELSE IF f = Far(e) /\ Connected(e) THEN Append(wire[f], p)
                     ELSE wire[f]
  <2>1. \A f \in End : W(f) \in Seq(Packet)
    BY <1>1, <1>2, <1>3, <1>5 DEF TypeOK
  <2>2. wire' = [f \in End |-> W(f)]
    BY <1>5, AnswerShape
  <2> HIDE DEF W
  <2> QED
    BY <2>1, <2>2
<1>6. wire[e] # <<>> /\ Consume(e) => wire' \in [End -> Seq(Packet)]
  BY <1>3 DEF Consume, TypeOK
<1> QED
  BY <1>3, <1>4, <1>5, <1>6

\* What an end offers are its node's own rows.
LEMMA MissedType ==
  ASSUME TypeOK, NEW n \in Node, NEW t
  PROVE  /\ Missed(n, t) \in SUBSET ChatMessage
         /\ \A m \in Missed(n, t) : /\ Stored(n, m.id) /\ m.from = n
                                    /\ db[n][m.id].from = n
                                    /\ db[n][m.id].key = m.key
  BY DEF Missed, TypeOK, Stored, StoredMessage, ChatMessage

\* A row of a chat.
LEMMA RowType ==
  ASSUME NEW m \in ChatMessage, NEW p \in BOOLEAN
  PROVE  /\ Row(m, p) \in StoredMessage
         /\ Row(m, p).from = m.from /\ Row(m, p).key = m.key
         /\ Row(m, p).pending = p
  BY DEF Row, ChatMessage, StoredMessage

-----------------------------------------------------------------------------
(* The inductive invariant *)

\* The chats a packet brings.
Carried(p) ==
  IF p.type = "SyncGive" THEN p.chats
  ELSE IF p.type = "Message" THEN {p.chat} ELSE {}

\* A line that node n wrote, and keeps; and a chat with such a line.
Authored(n, l) == Stored(n, l) /\ db[n][l].from = n
Own(n, m) ==
  m.from = n /\ Authored(n, m.id) /\ db[n][m.id].key = m.key

\* What n may write: packets without chats, and chats of its own.
Speech(n) == {p \in Packet : \A m \in Carried(p) : Own(n, m)}

\* What comes from the peer is the peer's.
WireInv == \A e \in End : wire[e] \in Seq(Speech(Peer(At(e))))

\* A line is written before its row says so.
WrittenInv ==
  /\ NotPendingWasWritten
  /\ \A e \in End : send[e] = "written" => cur[e] \in written

PeerInv == TypeOK /\ SendInv /\ WireInv /\ WrittenInv

\* A step puts nothing else on a wire,
Said ==
  /\ wire' \in [End -> Seq(Packet)]
  /\ \A e \in End : wire'[e] \in Seq(Speech(Peer(At(e))))

\* and takes no row from a store and no row from its author.
RowsKept ==
  \A n \in Node, l \in Line : Stored(n, l) =>
    /\ Stored(n, l)'
    /\ db'[n][l].from = db[n][l].from
    /\ db'[n][l].key = db[n][l].key

\* A node learns some lines of its peer, or none;
Learns(n) ==
  \A k \in Node, l \in Line : Stored(k, l)' =>
    \/ Stored(k, l)
    \/ k = n /\ db'[n][l].from = Peer(n) /\ Authored(Peer(n), l)

\* or it writes a new one.
Drafts(n, l) ==
  /\ \A k \in Node : ~Stored(k, l)
  /\ Stored(n, l)' /\ db'[n][l].from = n
  /\ \A k \in Node, j \in Line :
       Stored(k, j)' => Stored(k, j) \/ (k = n /\ j = l)

\* The ways in which the stores grow.
Tells == \E n \in Node : Learns(n) \/ \E l \in Line : Drafts(n, l)

\* Packets that are not forgotten stay the author's.
LEMMA StaysSaid ==
  ASSUME TypeOK, Said, RowsKept
  PROVE  WireInv'
<1>1. ASSUME NEW n \in Node PROVE Speech(n) \subseteq Speech(n)'
  <2> SUFFICES ASSUME NEW p \in Packet, NEW m \in Carried(p), Own(n, m)
               PROVE  Own(n, m)'
    BY DEF Speech
  <2>1. m \in ChatMessage
    BY PacketFacts DEF Carried
  <2>2. m.id \in Line
    BY <2>1 DEF ChatMessage
  <2> QED
    BY <2>2 DEF Own, Authored, RowsKept
<1>2. \A e \in End : Peer(At(e)) \in Node
  BY EndFacts
<1> SUFFICES ASSUME NEW e \in End PROVE wire'[e] \in Seq(Speech(Peer(At(e)))')
  BY DEF WireInv
<1> DEFINE A == Speech(Peer(At(e)))
           B == Speech(Peer(At(e)))'
<1>3. A \subseteq B
  BY <1>1, <1>2
<1>4. wire'[e] \in Seq(A)
  BY DEF Said
<1> HIDE DEF A, B
<1>5. wire'[e] \in Seq(B)
  BY <1>3, <1>4
<1> QED
  BY <1>5 DEF B

\* An end writes and reads what its nodes may say.
LEMMA Says ==
  ASSUME TypeOK, WireInv, NEW e \in End, NEW q \in Speech(At(e))
  PROVE  /\ Write(e, q) => Said
         /\ wire[e] # <<>> =>
              /\ Head(wire[e]) \in Speech(Peer(At(e)))
              /\ Answer(e, q) => Said
              /\ Consume(e) => Said
<1> DEFINE A(f) == Speech(Peer(At(f)))
<1>1. /\ Far(e) \in End /\ Far(e) # e /\ Peer(At(Far(e))) = At(e)
  BY EndFacts, PeerFacts
<1>2. q \in A(Far(e)) /\ q \in Packet
  BY <1>1 DEF Speech
<1>3. \A f \in End : wire[f] \in Seq(A(f)) /\ wire[f] \in Seq(Packet)
  BY DEF WireInv, TypeOK
<1> HIDE DEF A
<1>4. /\ Append(wire[Far(e)], q) \in Seq(A(Far(e)))
      /\ Append(wire[Far(e)], q) \in Seq(Packet)
  BY <1>1, <1>2, <1>3
<1>5. wire[e] # <<>> => /\ Head(wire[e]) \in A(e) /\ Tail(wire[e]) \in Seq(A(e))
                        /\ Tail(wire[e]) \in Seq(Packet)
  BY <1>3
<1>6. ASSUME Write(e, q) PROVE Said
  <2>1. \A f \in End : wire'[f] \in Seq(A(f)) /\ wire'[f] \in Seq(Packet)
    BY <1>1, <1>3, <1>4, <1>6 DEF Write, TypeOK
  <2>2. wire' \in [End -> Seq(Packet)]
    BY <1>2, <1>6, WireTypes
  <2> QED
    BY <2>1, <2>2 DEF Said, A
<1>7. ASSUME wire[e] # <<>>, Answer(e, q) PROVE Said
  <2>1. \A f \in End : wire'[f] \in Seq(A(f))
    <3> SUFFICES ASSUME NEW f \in End PROVE wire'[f] \in Seq(A(f))
      OBVIOUS
    <3>1. CASE f = e
      BY <1>5, <1>7, <3>1, AnswerShape
    <3>2. CASE f = Far(e)
      BY <1>1, <1>3, <1>4, <1>7, <3>2, AnswerShape
    <3>3. CASE f # e /\ f # Far(e)
      BY <1>3, <1>7, <3>3, AnswerShape
    <3> QED
      BY <3>1, <3>2, <3>3
  <2>2. wire' \in [End -> Seq(Packet)]
    BY <1>2, <1>7, WireTypes
  <2> QED
    BY <2>1, <2>2 DEF Said, A
<1>8. ASSUME wire[e] # <<>>, Consume(e) PROVE Said
  <2>1. \A f \in End : wire'[f] \in Seq(A(f))
    BY <1>3, <1>5, <1>8 DEF Consume, TypeOK
  <2>2. wire' \in [End -> Seq(Packet)]
    BY <1>2, <1>8, WireTypes
  <2> QED
    BY <2>1, <2>2 DEF Said, A
<1> QED
  BY <1>5, <1>6, <1>7, <1>8 DEF A

\* What the ends write.
LEMMA Utterances ==
  ASSUME TypeOK, NEW n \in Node
  PROVE  /\ \A t \in {"HandshakeInit", "Challenge", "ChallengeResponse"} :
              Plain(t) \in Speech(n)
         /\ SyncRequest(LatestTimestamp(n)) \in Speech(n)
         /\ \A t : SyncGive(Missed(n, t)) \in Speech(n)
         /\ \A l \in Line : Stored(n, l) /\ db[n][l].from = n =>
              Message(Chat(n, l)) \in Speech(n)
<1>1. \A t \in {"HandshakeInit", "Challenge", "ChallengeResponse"} :
        Plain(t) \in Speech(n)
  BY PacketFacts DEF Speech, Carried
<1>2. SyncRequest(LatestTimestamp(n)) \in Speech(n)
  BY PacketFacts, LatestType DEF Speech, Carried
<1>3. ASSUME NEW t PROVE SyncGive(Missed(n, t)) \in Speech(n)
  <2> DEFINE cs == Missed(n, t)
  <2>1. cs \in SUBSET ChatMessage /\ \A m \in cs : Own(n, m)
    BY MissedType DEF Own, Authored
  <2> HIDE DEF cs
  <2>2. SyncGive(cs) \in Packet /\ Carried(SyncGive(cs)) = cs
    BY <2>1, PacketFacts DEF Carried
  <2>3. SyncGive(cs) \in Speech(n)
    BY <2>1, <2>2 DEF Speech
  <2> QED
    BY <2>3 DEF cs
<1>4. ASSUME NEW l \in Line, Stored(n, l), db[n][l].from = n
      PROVE  Message(Chat(n, l)) \in Speech(n)
  <2>1. db[n][l] \in StoredMessage
    BY <1>4 DEF TypeOK, Stored
  <2>2. Chat(n, l) \in ChatMessage /\ Own(n, Chat(n, l))
    BY <1>4, <2>1 DEF Chat, ChatMessage, StoredMessage, Own, Authored
  <2>3. /\ Message(Chat(n, l)) \in Packet
        /\ Carried(Message(Chat(n, l))) = {Chat(n, l)}
    BY <2>2, PacketFacts DEF Carried
  <2> QED
    BY <2>2, <2>3 DEF Speech
<1> QED
  BY <1>1, <1>2, <1>3, <1>4

-----------------------------------------------------------------------------
(* The steps *)

\* A step of handshakes and connections leaves stores and send tasks alone.
LEMMA QuietStep ==
  ASSUME PeerInv, Said, UNCHANGED <<db, written, queued>>,
         caller' \in [Session -> Node \cup {None}],
         pc' \in [End -> PC],
         broken' \in SUBSET Session,
         backlog' \in [Session -> SUBSET Line],
         \/ UNCHANGED <<send, cur>>
         \/ \E n \in Node :
              /\ send' = [e \in End |-> IF At(e) = n THEN "off" ELSE send[e]]
              /\ cur' = [e \in End |-> IF At(e) = n THEN None ELSE cur[e]]
         \/ \E e \in End : send' = [send EXCEPT ![e] = "off"] /\ cur' = cur
  PROVE  PeerInv' /\ RowsKept /\ Tells
<1>1. RowsKept /\ Tells
  BY SessionAssumption DEF RowsKept, Tells, Learns, Stored
<1>2. /\ send' \in [End -> {"off", "ready", "stored", "written"}]
      /\ cur' \in [End -> Line \cup {None}]
      /\ \A e \in End : send'[e] \in {"stored", "written"} =>
           send'[e] = send[e] /\ cur'[e] = cur[e]
  BY DEF PeerInv, TypeOK
<1>3. TypeOK'
  BY <1>2 DEF PeerInv, TypeOK, Said
<1>4. SendInv'
  BY <1>2 DEF PeerInv, SendInv, Stored
<1>5. WrittenInv'
  BY <1>2 DEF PeerInv, WrittenInv, NotPendingWasWritten, Stored
<1> QED
  BY <1>1, <1>3, <1>4, <1>5, StaysSaid DEF PeerInv

\* An end answers in the handshake or the synchronisation.
LEMMA AnswerStep ==
  ASSUME PeerInv, NEW e \in End,
         \/ ReceiveInit(e) \/ ReceiveChallenge(e) \/ ReceiveResponse(e)
         \/ ReceiveSyncRequest(e)
  PROVE  PeerInv' /\ RowsKept /\ Tells
<1>1. At(e) \in Node /\ TypeOK /\ WireInv /\ Far(e) \in End /\ Far(e) # e
      /\ Peer(At(Far(e))) = At(e)
  BY EndFacts, PeerFacts DEF PeerInv
<1>2. /\ UNCHANGED <<db, caller, send, cur, broken, written, queued, backlog>>
      /\ pc' \in [End -> PC]
  BY <1>1 DEF ReceiveInit, ReceiveChallenge, ReceiveResponse, ReceiveSyncRequest,
       ghosts, TypeOK, PC, Expected
<1>3. Said
  <2>1. CASE ReceiveInit(e)
    BY <1>1, <2>1, Utterances, Says DEF ReceiveInit, Reads
  <2>2. CASE ReceiveResponse(e)
    BY <1>1, <2>2, Utterances, Says DEF ReceiveResponse, Reads
  <2>3. CASE ReceiveSyncRequest(e)
    BY <1>1, <2>3, Utterances, Says DEF ReceiveSyncRequest, Reads
  <2>4. CASE ReceiveChallenge(e)
    <3> DEFINE A(f) == Speech(Peer(At(f)))
               W == wire[Far(e)] \o <<Plain("ChallengeResponse"),
                                      SyncRequest(LatestTimestamp(At(e)))>>
    <3>1. /\ Plain("ChallengeResponse") \in A(Far(e)) \cap Packet
          /\ SyncRequest(LatestTimestamp(At(e))) \in A(Far(e)) \cap Packet
      BY <1>1, Utterances DEF Speech
    <3>2. \A f \in End : wire[f] \in Seq(A(f)) /\ wire[f] \in Seq(Packet)
      BY <1>1 DEF WireInv, TypeOK
    <3>3. /\ wire' = [f \in End |->
                 IF f = e THEN Tail(wire[e])
                 ELSE IF f = Far(e) /\ Connected(e) THEN W ELSE wire[f]]
          /\ wire[e] # <<>>
      BY <1>1, <2>4 DEF ReceiveChallenge, Reads, TypeOK
    <3> HIDE DEF A
    <3>4. /\ W \in Seq(A(Far(e))) /\ W \in Seq(Packet)
          /\ Tail(wire[e]) \in Seq(A(e)) /\ Tail(wire[e]) \in Seq(Packet)
      BY <1>1, <3>1, <3>2, <3>3
    <3> HIDE DEF W
    <3>5. \A f \in End : wire'[f] \in Seq(A(f)) /\ wire'[f] \in Seq(Packet)
      BY <3>2, <3>3, <3>4
    <3>6. wire' \in [End -> Seq(Packet)]
      BY <3>3, <3>5
    <3> QED
      BY <3>5, <3>6 DEF Said, A
  <2> QED
    BY <2>1, <2>2, <2>3, <2>4
<1>4. /\ caller' \in [Session -> Node \cup {None}] /\ broken' \in SUBSET Session
      /\ backlog' \in [Session -> SUBSET Line]
  BY <1>1, <1>2 DEF TypeOK
<1> QED
  BY <1>2, <1>3, <1>4, QuietStep

\* Connections begin and end.
LEMMA ConnectionStep ==
  ASSUME PeerInv,
         \/ \E e \in End : Connect(e) \/ Given(e) \/ ReadFails(e)
                            \/ ReadRefused(e) \/ Reject(e) \/ EndOfInput(e)
         \/ \E s \in Session : Break(s)
         \/ \E n \in Node : Exit(n)
  PROVE  PeerInv' /\ RowsKept /\ Tells
<1> DEFINE A(f) == Speech(Peer(At(f)))
<1>1. TypeOK /\ \A f \in End : wire[f] \in Seq(A(f)) /\ wire[f] \in Seq(Packet)
  BY DEF PeerInv, WireInv, TypeOK
<1>2. \A f \in End : <<>> \in Seq(A(f)) /\ <<>> \in Seq(Packet)
  OBVIOUS
<1>3. ASSUME NEW e \in End, Connect(e)
      PROVE  PeerInv' /\ RowsKept /\ Tells
  <2>1. /\ Far(e) \in End /\ Sess(e) \in Session /\ At(e) \in Node
        /\ Peer(At(Far(e))) = At(e)
    BY EndFacts, PeerFacts
  <2>2. /\ <<Plain("HandshakeInit")>> \in Seq(A(Far(e)))
        /\ <<Plain("HandshakeInit")>> \in Seq(Packet)
    <3>1. Plain("HandshakeInit") \in A(Far(e))
      BY <1>1, <2>1, Utterances
    <3>2. Plain("HandshakeInit") \in Packet
      BY PacketFacts
    <3> QED
      BY <3>1, <3>2
  <2> HIDE DEF A
  <2>3. Said
    <3>1. wire' = [wire EXCEPT ![Far(e)] = <<Plain("HandshakeInit")>>]
      BY <1>3 DEF Connect
    <3>2. \A f \in End : wire'[f] \in Seq(A(f)) /\ wire'[f] \in Seq(Packet)
      BY <1>1, <2>1, <2>2, <3>1 DEF TypeOK
    <3>3. wire' \in [End -> Seq(Packet)]
      BY <1>1, <2>2, <3>1 DEF TypeOK
    <3> QED
      BY <3>2, <3>3 DEF Said, A
  <2>4. /\ UNCHANGED <<db, send, cur, written, queued>>
        /\ caller' \in [Session -> Node \cup {None}]
        /\ pc' \in [End -> PC]
        /\ broken' \in SUBSET Session
        /\ backlog' \in [Session -> SUBSET Line]
    BY <1>1, <1>3, <2>1 DEF Connect, TypeOK, PC, Expected
  <2> QED
    BY <2>3, <2>4, QuietStep
<1>4. ASSUME NEW e \in End, \/ Given(e) \/ ReadFails(e) \/ ReadRefused(e) \/ Reject(e)
      PROVE  PeerInv' /\ RowsKept /\ Tells
  <2>1. wire' = wire \/ wire' = [wire EXCEPT ![e] = <<>>]
    BY <1>4 DEF Given, ReadFails, ReadRefused, Reject, Quit
  <2> HIDE DEF A
  <2>2. \A f \in End : wire'[f] \in Seq(A(f)) /\ wire'[f] \in Seq(Packet)
    BY <1>1, <1>2, <2>1 DEF TypeOK
  <2>3. wire' \in [End -> Seq(Packet)]
    BY <1>1, <1>2, <2>1 DEF TypeOK
  <2>4. Said
    BY <2>2, <2>3 DEF Said, A
  <2>5. /\ UNCHANGED <<db, send, cur, written, queued>>
        /\ caller' \in [Session -> Node \cup {None}]
        /\ pc' \in [End -> PC]
        /\ broken' \in SUBSET Session
        /\ backlog' \in [Session -> SUBSET Line]
    BY <1>1, <1>4 DEF Given, ReadFails, ReadRefused, Reject, Quit, ghosts, TypeOK,
         PC, Expected
  <2> QED
    BY <2>4, <2>5, QuietStep
<1>5. ASSUME NEW s \in Session, Break(s)
      PROVE  PeerInv' /\ RowsKept /\ Tells
  <2>1. wire' = [e \in End |-> IF Sess(e) = s THEN <<>> ELSE wire[e]]
    BY <1>5 DEF Break
  <2> HIDE DEF A
  <2>2. Said
    BY <1>1, <1>2, <2>1 DEF Said, A
  <2>3. /\ UNCHANGED <<db, send, cur, written, queued>>
        /\ caller' \in [Session -> Node \cup {None}]
        /\ pc' \in [End -> PC]
        /\ broken' \in SUBSET Session
        /\ backlog' \in [Session -> SUBSET Line]
    BY <1>1, <1>5 DEF Break, ghosts, TypeOK
  <2> QED
    BY <2>2, <2>3, QuietStep
<1>6. ASSUME NEW n \in Node, Exit(n)
      PROVE  PeerInv' /\ RowsKept /\ Tells
  <2>1. wire' = [e \in End |-> IF At(e) = n THEN <<>> ELSE wire[e]]
    BY <1>6 DEF Exit
  <2> HIDE DEF A
  <2>2. Said
    BY <1>1, <1>2, <2>1 DEF Said, A
  <2>3. /\ UNCHANGED <<db, written, queued>>
        /\ caller' \in [Session -> Node \cup {None}]
        /\ pc' \in [End -> PC]
        /\ broken' \in SUBSET Session
        /\ backlog' \in [Session -> SUBSET Line]
        /\ send' = [e \in End |-> IF At(e) = n THEN "off" ELSE send[e]]
        /\ cur' = [e \in End |-> IF At(e) = n THEN None ELSE cur[e]]
    BY <1>1, <1>6 DEF Exit, ghosts, TypeOK, PC, Expected
  <2> QED
    BY <2>2, <2>3, QuietStep
<1>7. ASSUME NEW e \in End, EndOfInput(e)
      PROVE  PeerInv' /\ RowsKept /\ Tells
  <2>1. /\ UNCHANGED <<db, caller, pc, cur, wire, broken, written, queued, backlog>>
        /\ send' = [send EXCEPT ![e] = "off"]
    BY <1>7 DEF EndOfInput, ghosts
  <2> HIDE DEF A
  <2>2. Said
    BY <1>1, <2>1 DEF Said, A, TypeOK
  <2> QED
    BY <1>1, <2>1, <2>2, QuietStep DEF TypeOK
<1> QED
  BY <1>3, <1>4, <1>5, <1>6, <1>7

\* A synchronisation brings rows the peer wrote.
LEMMA SyncGiveStep ==
  ASSUME PeerInv, NEW e \in End, ReceiveSyncGive(e)
  PROVE  PeerInv' /\ RowsKept /\ Tells
<1> DEFINE n == At(e)
           new == Fresh(At(e), Head(wire[e]).chats, Sess(e))
           row(l) == IF \E m \in new : m.id = l
                     THEN Row(CHOOSE m \in new : m.id = l, FALSE) ELSE db[n][l]
<1>1. /\ TypeOK /\ WireInv /\ n \in Node /\ Peer(n) \in Node /\ Peer(n) # n
      /\ wire[e] # <<>> /\ Consume(e)
  BY EndFacts, PeerFacts DEF PeerInv, ReceiveSyncGive, Reads
<1>2. Said
  <2>1. Plain("Challenge") \in Speech(At(e))
    BY <1>1, Utterances
  <2> QED
    BY <1>1, <2>1, Says
<1>3. \A m \in new : /\ m \in ChatMessage /\ m.from = Peer(n)
                     /\ ~Stored(n, m.id) /\ m.key = Sess(e)
                     /\ Own(Peer(n), m)
  <2>1. Head(wire[e]) \in Speech(Peer(n)) /\ Head(wire[e]).type = "SyncGive"
    BY <1>1, Utterances, Says DEF ReceiveSyncGive, Reads, Expected
  <2>2. /\ Head(wire[e]) \in Packet /\ Carried(Head(wire[e])) = Head(wire[e]).chats
        /\ \A m \in Carried(Head(wire[e])) : Own(Peer(n), m)
    BY <2>1 DEF Speech, Carried
  <2>3. Head(wire[e]).chats \in SUBSET ChatMessage
    BY <2>1, <2>2, PacketFacts
  <2> QED
    BY <2>2, <2>3 DEF Fresh, Own
<1>4. \A l \in Line :
        \/ row(l) = db[n][l]
        \/ /\ ~Stored(n, l) /\ row(l) \in StoredMessage /\ row(l).from = Peer(n)
           /\ Authored(Peer(n), l)
  <2> HIDE DEF new
  <2> SUFFICES ASSUME NEW l \in Line, \E m \in new : m.id = l
               PROVE  /\ ~Stored(n, l) /\ row(l) \in StoredMessage
                      /\ row(l).from = Peer(n)
                      /\ Authored(Peer(n), l)
    OBVIOUS
  <2>1. PICK m \in new : m.id = l /\ row(l) = Row(m, FALSE)
    OBVIOUS
  <2> QED
    BY <1>3, <2>1, RowType DEF Own
<1>5. db' = [db EXCEPT ![n] = [l \in Line |-> row(l)]]
  BY <1>1 DEF ReceiveSyncGive, TypeOK
<1>6. /\ pc' = [pc EXCEPT ![e] = "chat"]
      /\ send' = [send EXCEPT ![e] = "ready"]
      /\ UNCHANGED <<caller, cur, broken, written, queued, backlog>>
  BY DEF ReceiveSyncGive, ghosts
<1> HIDE DEF new, row
<1>7. \A l \in Line : row(l) \in StoredMessage \cup {None}
  BY <1>1, <1>4 DEF TypeOK
<1>8. \A m \in Node, l \in Line :
        \/ db'[m][l] = db[m][l]
        \/ /\ m = n /\ ~Stored(n, l) /\ db'[n][l] \in StoredMessage
           /\ db'[n][l].from = Peer(n)
           /\ Authored(Peer(n), l)
  BY <1>1, <1>4, <1>5 DEF TypeOK
<1> HIDE DEF n
<1>9. TypeOK'
  <2>1. db' \in [Node -> [Line -> StoredMessage \cup {None}]]
    BY <1>1, <1>5, <1>7 DEF TypeOK
  <2>2. /\ pc' \in [End -> PC]
        /\ send' \in [End -> {"off", "ready", "stored", "written"}]
    BY <1>1, <1>6 DEF TypeOK, PC, Expected
  <2> QED
    BY <1>1, <1>2, <1>6, <2>1, <2>2 DEF TypeOK, Said
<1>10. RowsKept /\ Tells
  BY <1>1, <1>8 DEF RowsKept, Tells, Learns, Stored
<1>11. SendInv'
  <2>1. \A f \in End : send'[f] \in {"stored", "written"} =>
          send'[f] = send[f] /\ cur'[f] = cur[f]
    BY <1>1, <1>6 DEF TypeOK
  <2>2. \A f \in End : At(f) \in Node
    BY EndFacts
  <2> QED
    BY <1>10, <2>1, <2>2 DEF PeerInv, SendInv, RowsKept
<1>12. WrittenInv'
  <2>1. NotPendingWasWritten'
    BY <1>1, <1>6, <1>8 DEF PeerInv, WrittenInv, NotPendingWasWritten, Stored
  <2>2. \A f \in End : send'[f] = "written" => cur'[f] \in written'
    BY <1>1, <1>6 DEF PeerInv, WrittenInv, TypeOK
  <2> QED
    BY <2>1, <2>2 DEF WrittenInv
<1> QED
  BY <1>1, <1>2, <1>9, <1>10, <1>11, <1>12, StaysSaid DEF PeerInv

\* One row is replaced.
SetRow(n, l, r) == db' = [db EXCEPT ![n][l] = r]

\* The others stay.
LEMMA RowSet ==
  ASSUME TypeOK, NEW n \in Node, NEW l \in Line, NEW r \in StoredMessage,
         SetRow(n, l, r)
  PROVE  /\ db' \in [Node -> [Line -> StoredMessage \cup {None}]]
         /\ db'[n][l] = r
         /\ \A k \in Node, j \in Line : k # n \/ j # l => db'[k][j] = db[k][j]
<1>1. db \in [Node -> [Line -> StoredMessage \cup {None}]]
  BY DEF TypeOK
<1> DEFINE row == [db[n] EXCEPT ![l] = r]
<1>2. /\ row \in [Line -> StoredMessage \cup {None}] /\ row[l] = r
      /\ \A j \in Line : j # l => row[j] = db[n][j]
  BY <1>1
<1>3. db' = [db EXCEPT ![n] = row]
  BY <1>1 DEF SetRow
<1> HIDE DEF row
<1> QED
  BY <1>1, <1>2, <1>3

\* So does a live chat.
LEMMA MessageStep ==
  ASSUME PeerInv, NEW e \in End, ReceiveMessage(e)
  PROVE  PeerInv' /\ RowsKept /\ Tells
<1> DEFINE n == At(e)
           m == Head(wire[e]).chat
<1>1. /\ TypeOK /\ WireInv /\ n \in Node /\ Peer(n) \in Node /\ Peer(n) # n
      /\ wire[e] # <<>> /\ Consume(e)
      /\ UNCHANGED <<caller, pc, send, cur, broken, written, queued, backlog>>
  BY EndFacts, PeerFacts DEF PeerInv, ReceiveMessage, Reads, ghosts
<1>2. Plain("Challenge") \in Speech(At(e))
  BY <1>1, Utterances
<1>3. Said
  BY <1>1, <1>2, Says
<1>4. m \in ChatMessage /\ m.id \in Line /\ m.from = Peer(n) /\ Own(Peer(n), m)
  <2>1. Head(wire[e]) \in Speech(Peer(n)) /\ Head(wire[e]).type = "Message"
    BY <1>1, <1>2, Says DEF ReceiveMessage, Reads, Expected
  <2>2. Head(wire[e]) \in Packet /\ Carried(Head(wire[e])) = {m}
    BY <2>1 DEF Speech, Carried
  <2>3. m \in ChatMessage /\ Own(Peer(n), m)
    BY <2>1, <2>2, PacketFacts DEF Speech
  <2> QED
    BY <2>3 DEF ChatMessage, Own
<1> HIDE DEF m
<1>5. \/ db' = db
      \/ ~Stored(n, m.id) /\ db' = [db EXCEPT ![n][m.id] = Row(m, FALSE)]
  BY DEF ReceiveMessage, m
<1>6. Row(m, FALSE) \in StoredMessage /\ Row(m, FALSE).from = Peer(n)
  BY <1>4, RowType
<1>7. /\ db' \in [Node -> [Line -> StoredMessage \cup {None}]]
      /\ \A k \in Node, l \in Line :
           \/ db'[k][l] = db[k][l]
           \/ k = n /\ l = m.id /\ ~Stored(n, l) /\ db'[n][l] = Row(m, FALSE)
  <2>1. CASE db' = db
    BY <1>1, <2>1 DEF TypeOK
  <2>2. CASE ~Stored(n, m.id) /\ db' = [db EXCEPT ![n][m.id] = Row(m, FALSE)]
    <3> PICK k \in Node, l \in Line, r \in StoredMessage :
               k = n /\ l = m.id /\ r = Row(m, FALSE)
      BY <1>1, <1>4, <1>6
    <3>1. SetRow(k, l, r)
      BY <2>2 DEF SetRow
    <3>2. /\ db' \in [Node -> [Line -> StoredMessage \cup {None}]]
          /\ db'[k][l] = r
          /\ \A i \in Node, j \in Line : i # k \/ j # l => db'[i][j] = db[i][j]
      BY <1>1, <3>1, RowSet
    <3> QED
      BY <2>2, <3>2
  <2> QED
    BY <1>5, <2>1, <2>2
<1>8. TypeOK'
  BY <1>1, <1>3, <1>7 DEF TypeOK, Said
<1>9. RowsKept /\ Tells
  <2>1. \A k \in Node, l \in Line :
          Stored(k, l)' => Stored(k, l) \/ (k = n /\ l = m.id)
    BY <1>7 DEF Stored
  <2>2. Authored(Peer(n), m.id)
    BY <1>4 DEF Own
  <2>3. \A l \in Line : Stored(n, l)' /\ ~Stored(n, l) => db'[n][l].from = Peer(n)
    BY <1>1, <1>6, <1>7 DEF Stored
  <2>4. Learns(n)
    BY <2>1, <2>2, <2>3 DEF Learns
  <2> QED
    BY <1>1, <1>7, <2>4 DEF RowsKept, Tells, Stored
<1>10. SendInv'
  <2>1. \A f \in End : At(f) \in Node
    BY EndFacts
  <2> QED
    BY <1>1, <1>9, <2>1 DEF PeerInv, SendInv, RowsKept
<1>11. WrittenInv'
  <2>1. NotPendingWasWritten'
    BY <1>1, <1>6, <1>7 DEF PeerInv, WrittenInv, NotPendingWasWritten, Stored
  <2> QED
    BY <1>1, <2>1 DEF PeerInv, WrittenInv
<1> QED
  BY <1>1, <1>3, <1>8, <1>9, <1>10, <1>11, StaysSaid DEF PeerInv

\* A line is stored as its author's.
LEMMA ComposeStep ==
  ASSUME PeerInv, NEW e \in End, NEW l \in Line, NEW t \in Time, Compose(e, l, t)
  PROVE  PeerInv' /\ RowsKept /\ Tells
<1>1. /\ TypeOK /\ WireInv /\ At(e) \in Node /\ Sess(e) \in Session
      /\ \A m \in Node : ~Stored(m, l)
      /\ db' = [db EXCEPT ![At(e)][l] = Draft(e, t)]
      /\ send' = [send EXCEPT ![e] = "stored"]
      /\ cur' = [cur EXCEPT ![e] = l]
      /\ UNCHANGED <<caller, pc, wire, broken, written, queued, backlog>>
  BY EndFacts DEF PeerInv, Compose, ghosts
<1> PICK n \in Node, r \in StoredMessage : n = At(e) /\ r = Draft(e, t)
  <2>1. Draft(e, t) \in StoredMessage
    BY <1>1 DEF Draft, StoredMessage
  <2> QED
    BY <1>1, <2>1
<1>2. r.from = n /\ r.key = Sess(e) /\ r.pending = TRUE /\ r # None
  <2>1. r.from = n /\ r.key = Sess(e) /\ r.pending = TRUE
    BY DEF Draft
  <2> QED
    BY <2>1, RowAssumption
<1>3. /\ db' \in [Node -> [Line -> StoredMessage \cup {None}]]
      /\ db'[n][l] = r
      /\ \A k \in Node, j \in Line : k # n \/ j # l => db'[k][j] = db[k][j]
  <2>1. SetRow(n, l, r)
    BY <1>1 DEF SetRow
  <2> QED
    BY <1>1, <2>1, RowSet
<1>4. Said
  BY <1>1 DEF Said, WireInv, TypeOK
<1>5. TypeOK'
  BY <1>1, <1>3 DEF TypeOK
<1>6. RowsKept /\ Tells
  <2>1. RowsKept
    BY <1>1, <1>3 DEF RowsKept, Stored
  <2>2. Drafts(n, l)
    BY <1>1, <1>2, <1>3 DEF Drafts, Stored
  <2> QED
    BY <2>1, <2>2 DEF Tells
<1>7. SendInv'
  <2> SUFFICES ASSUME NEW f \in End, send'[f] \in {"stored", "written"}
               PROVE  /\ cur'[f] \in Line
                      /\ Stored(At(f), cur[f])'
                      /\ db'[At(f)][cur'[f]].from = At(f)
                      /\ db'[At(f)][cur'[f]].key = Sess(f)
    BY DEF SendInv
  <2>1. CASE f = e
    BY <1>1, <1>2, <1>3, <2>1 DEF Stored, TypeOK
  <2>2. CASE f # e
    <3>1. send[f] \in {"stored", "written"} /\ cur'[f] = cur[f]
      BY <1>1, <2>2 DEF TypeOK
    <3>2. At(f) \in Node
      BY EndFacts
    <3> QED
      BY <1>6, <3>1, <3>2 DEF PeerInv, SendInv, RowsKept
  <2> QED
    BY <2>1, <2>2
<1>8. WrittenInv'
  <2>1. NotPendingWasWritten'
    BY <1>1, <1>2, <1>3 DEF PeerInv, WrittenInv, NotPendingWasWritten, Stored
  <2>2. \A f \in End : send'[f] = "written" => cur'[f] \in written'
    BY <1>1 DEF PeerInv, WrittenInv, TypeOK
  <2> QED
    BY <2>1, <2>2 DEF WrittenInv
<1> QED
  BY <1>1, <1>4, <1>5, <1>6, <1>7, <1>8, StaysSaid DEF PeerInv

\* A send task writes its line, fails to, or has it marked.
LEMMA SendingStep ==
  ASSUME PeerInv, NEW e \in End, Sending(e)
  PROVE  PeerInv' /\ RowsKept /\ Tells
<1>1. /\ TypeOK /\ WireInv /\ At(e) \in Node /\ Sess(e) \in Session
      /\ send[e] \in {"stored", "written"} /\ cur[e] \in Line
      /\ Stored(At(e), cur[e])
      /\ db[At(e)][cur[e]].from = At(e) /\ db[At(e)][cur[e]].key = Sess(e)
      /\ UNCHANGED <<caller, pc, broken, backlog>>
  BY EndFacts DEF PeerInv, SendInv, Sending, Transmit, TransmitFails,
       MarkNotPending, ghosts
<1>2. CASE Transmit(e)
  <2>1. Said
    BY <1>1, <1>2, Utterances, Says DEF Transmit
  <2>2. /\ send' = [send EXCEPT ![e] = "written"]
        /\ written' = written \cup {cur[e]}
        /\ UNCHANGED <<db, cur, queued>>
    BY <1>2 DEF Transmit
  <2>3. TypeOK'
    BY <1>1, <2>1, <2>2 DEF TypeOK, Said
  <2>4. SendInv'
    BY <1>1, <2>2 DEF PeerInv, SendInv, TypeOK, Stored
  <2>5. WrittenInv'
    BY <1>1, <2>2 DEF PeerInv, WrittenInv, NotPendingWasWritten, TypeOK, Stored
  <2>6. RowsKept /\ Tells
    BY <1>1, <2>2 DEF RowsKept, Tells, Learns, Stored
  <2> QED
    BY <1>1, <2>1, <2>3, <2>4, <2>5, <2>6, StaysSaid DEF PeerInv
<1>3. CASE TransmitFails(e)
  <2>1. /\ send' = [send EXCEPT ![e] = "ready"]
        /\ cur' = [cur EXCEPT ![e] = None]
        /\ queued' = queued \cup {cur[e]}
        /\ UNCHANGED <<db, wire, written>>
    BY <1>3 DEF TransmitFails, Keep
  <2>2. Said
    BY <1>1, <2>1 DEF Said, WireInv, TypeOK
  <2>3. TypeOK'
    BY <1>1, <2>1 DEF TypeOK
  <2>4. SendInv'
    BY <1>1, <2>1 DEF PeerInv, SendInv, TypeOK, Stored
  <2>5. WrittenInv'
    BY <1>1, <2>1 DEF PeerInv, WrittenInv, NotPendingWasWritten, TypeOK, Stored
  <2>6. RowsKept /\ Tells
    BY <1>1, <2>1 DEF RowsKept, Tells, Learns, Stored
  <2> QED
    BY <1>1, <2>2, <2>3, <2>4, <2>5, <2>6, StaysSaid DEF PeerInv
<1>4. CASE MarkNotPending(e)
  <2>1. /\ send' = [send EXCEPT ![e] = "ready"]
        /\ cur' = [cur EXCEPT ![e] = None]
        /\ UNCHANGED <<wire, written, queued>>
        /\ cur[e] \in written
    BY <1>1, <1>4 DEF MarkNotPending, ghosts, PeerInv, WrittenInv
  <2> PICK n \in Node, l \in Line : n = At(e) /\ l = cur[e]
    BY <1>1
  <2> DEFINE r == [db[n][l] EXCEPT !.pending = FALSE]
  <2>2. db[n][l] \in StoredMessage
    BY <1>1 DEF TypeOK, Stored
  <2>3. /\ r \in StoredMessage /\ r # None
        /\ r.from = db[n][l].from /\ r.key = db[n][l].key
    BY <2>2, RowAssumption DEF StoredMessage
  <2>4. SetRow(n, l, r)
    BY <1>1, <1>4, <2>2 DEF MarkNotPending, SetRow, TypeOK
  <2> HIDE DEF r
  <2>5. /\ db' \in [Node -> [Line -> StoredMessage \cup {None}]]
        /\ db'[n][l] = r
        /\ \A k \in Node, j \in Line : k # n \/ j # l => db'[k][j] = db[k][j]
    <3> PICK q \in StoredMessage : q = r
      BY <2>3
    <3>1. SetRow(n, l, q)
      BY <2>4
    <3> QED
      BY <1>1, <3>1, RowSet
  <2>6. Said
    BY <1>1, <2>1 DEF Said, WireInv, TypeOK
  <2>7. TypeOK'
    BY <1>1, <2>1, <2>5 DEF TypeOK
  <2>8. RowsKept
    <3> SUFFICES ASSUME NEW k \in Node, NEW j \in Line, Stored(k, j)
                 PROVE  /\ db'[k][j] # None
                        /\ db'[k][j].from = db[k][j].from
                        /\ db'[k][j].key = db[k][j].key
      BY DEF RowsKept, Stored
    <3>1. CASE k = n /\ j = l
      BY <2>3, <2>5, <3>1
    <3>2. CASE k # n \/ j # l
      BY <2>5, <3>2 DEF Stored
    <3> QED
      BY <3>1, <3>2
  <2>9. SendInv'
    <3>1. \A f \in End : send'[f] \in {"stored", "written"} =>
            send'[f] = send[f] /\ cur'[f] = cur[f]
      BY <1>1, <2>1 DEF TypeOK
    <3>2. \A f \in End : At(f) \in Node
      BY EndFacts
    <3> QED
      BY <2>8, <3>1, <3>2 DEF PeerInv, SendInv, RowsKept
  <2>10. WrittenInv'
    <3>1. NotPendingWasWritten'
      BY <1>1, <2>1, <2>5 DEF PeerInv, WrittenInv, NotPendingWasWritten, Stored
    <3>2. \A f \in End : send'[f] = "written" => cur'[f] \in written'
      BY <1>1, <2>1 DEF PeerInv, WrittenInv, TypeOK
    <3> QED
      BY <3>1, <3>2 DEF WrittenInv
  <2>11. Tells
    <3>1. Learns(n)
      BY <1>1, <2>5 DEF Learns, Stored
    <3> QED
      BY <3>1 DEF Tells
  <2> QED
    BY <1>1, <2>6, <2>7, <2>8, <2>9, <2>10, <2>11, StaysSaid DEF PeerInv
<1> QED
  BY <1>2, <1>3, <1>4 DEF Sending

-----------------------------------------------------------------------------
(* The theorems *)

\* Every step keeps the invariant, and the rows.
LEMMA PeerStep ==
  ASSUME PeerInv, [Next]_vars
  PROVE  PeerInv' /\ RowsKept /\ Tells
<1>1. CASE UNCHANGED vars
  <2>1. UNCHANGED <<db, caller, pc, send, cur, wire, broken, written, queued, backlog>>
    BY <1>1 DEF vars, ghosts
  <2>2. Said
    BY <2>1 DEF PeerInv, Said, WireInv, TypeOK
  <2> QED
    BY <2>1, <2>2, QuietStep DEF PeerInv, TypeOK
<1>2. ASSUME NEW e \in End, Read(e)
      PROVE  PeerInv' /\ RowsKept /\ Tells
  <2>1. CASE ReceiveSyncGive(e)
    BY <2>1, SyncGiveStep
  <2>2. CASE ReceiveMessage(e)
    BY <2>2, MessageStep
  <2>3. CASE \/ ReceiveInit(e) \/ ReceiveChallenge(e) \/ ReceiveResponse(e)
             \/ ReceiveSyncRequest(e)
    BY <2>3, AnswerStep
  <2>4. CASE Given(e) \/ ReadFails(e) \/ ReadRefused(e)
    BY <2>4, ConnectionStep
  <2> QED
    BY <1>2, <2>1, <2>2, <2>3, <2>4 DEF Read
<1>3. ASSUME Next PROVE PeerInv' /\ RowsKept /\ Tells
  BY <1>2, <1>3, SendingStep, ComposeStep, ConnectionStep DEF Next
<1> QED
  BY <1>1, <1>3

\* It holds at the start.
LEMMA PeerInit ==
  ASSUME Init
  PROVE  PeerInv
<1>1. TypeOK
  BY DEF Init, TypeOK, PC
<1>2. SendInv /\ WrittenInv
  BY DEF Init, SendInv, WrittenInv, NotPendingWasWritten, Stored
<1>3. WireInv
  BY DEF Init, WireInv
<1> QED
  BY <1>1, <1>2, <1>3 DEF PeerInv

\* The invariant of the sessions and stores.
LEMMA PeerInvHolds == Spec => []PeerInv
<1>1. Init => PeerInv
  BY PeerInit
<1>2. PeerInv /\ [Next]_vars => PeerInv'
  BY PeerStep
<1> QED
  BY <1>1, <1>2, PTL DEF Spec

\* Whatever two sessions, send tasks and crashes do, the variables of the
\* sessions keep their types (p2p.rs handle_incoming to messaging_loop).
THEOREM PeerTypes == Spec => []TypeOK
<1>1. PeerInv => TypeOK
  BY DEF PeerInv
<1> QED
  BY <1>1, PeerInvHolds, PTL

\* The pending flag does not lie (db.rs mark_not_pending after write_packet), at
\* every point a crash may hit.
THEOREM PendingIsHonest == Spec => []NotPendingWasWritten
<1>1. PeerInv => NotPendingWasWritten
  BY DEF PeerInv, WrittenInv
<1> QED
  BY <1>1, PeerInvHolds, PTL

-----------------------------------------------------------------------------
(* The stores keep the history                                             *)

\* What the stores amount to.
Wrote == [n \in Node |-> {l \in Line : Stored(n, l) /\ db[n][l].from = n}]
Kept == [n \in Node |-> {l \in Line : Stored(n, l)}]

\* The stores grow as ChatHistory has it.
LEMMA StoresStep ==
  ASSUME PeerInv, RowsKept, Tells
  PROVE  History!Next \/ UNCHANGED <<Wrote, Kept>>
<1>1. \A n \in Node : /\ Peer(n) \in Node \ {n}
                      /\ \A m \in Node : m = n \/ m = Peer(n)
  BY PeerFacts
<1>2. \A k \in Node, l \in Line :
        Stored(k, l) => Stored(k, l)' /\ db'[k][l].from = db[k][l].from
  BY DEF RowsKept
<1>3. ASSUME NEW n \in Node, Learns(n) PROVE History!Next
  <2> DEFINE ls == {l \in Line : Stored(n, l)' /\ ~Stored(n, l)}
  <2>1. ls \in SUBSET Wrote[Peer(n)]
    BY <1>1, <1>3 DEF Learns, Authored, Wrote
  <2>2. Wrote' = Wrote
    <3>1. \A k \in Node, l \in Line : Authored(k, l)' <=> Authored(k, l)
      <4> SUFFICES ASSUME NEW k \in Node, NEW l \in Line
                   PROVE  Authored(k, l)' <=> Authored(k, l)
        OBVIOUS
      <4>1. CASE Stored(k, l)
        BY <1>2, <4>1 DEF Authored
      <4>2. CASE ~Stored(k, l)
        BY <1>1, <1>3, <4>2 DEF Learns, Authored
      <4> QED
        BY <4>1, <4>2
    <3> QED
      BY <3>1 DEF Wrote, Authored
  <2>3. Kept' = [Kept EXCEPT ![n] = Kept[n] \cup ls]
    <3>1. \A k \in Node, l \in Line :
            Stored(k, l)' <=> Stored(k, l) \/ (k = n /\ l \in ls)
      BY <1>2, <1>3 DEF Learns
    <3> HIDE DEF ls
    <3>2. \A k \in Node : Kept'[k] = IF k = n THEN Kept[n] \cup (ls \cap Line) ELSE Kept[k]
      BY <3>1 DEF Kept
    <3>3. ls \subseteq Line
      BY DEF ls
    <3> QED
      BY <3>2, <3>3 DEF Kept
  <2>4. History!Receive(n, Peer(n))
    BY <2>1, <2>2, <2>3 DEF History!Receive, Wrote, Kept
  <2> QED
    BY <1>1, <2>4 DEF History!Next
<1>4. ASSUME NEW n \in Node, NEW l \in Line, Drafts(n, l) PROVE History!Next
  <2>1. \A k \in Node, j \in Line :
          Stored(k, j)' <=> Stored(k, j) \/ (k = n /\ j = l)
    BY <1>2, <1>4 DEF Drafts
  <2>2. \A k \in Node, j \in Line :
          Authored(k, j)' <=> Authored(k, j) \/ (k = n /\ j = l)
    BY <1>2, <1>4, <2>1 DEF Drafts, Authored
  <2>3. /\ \A k \in Node : l \notin Kept[k]
        /\ Kept' = [Kept EXCEPT ![n] = Kept[n] \cup {l}]
    BY <1>4, <2>1 DEF Drafts, Kept
  <2>4. Wrote' = [Wrote EXCEPT ![n] = Wrote[n] \cup {l}]
    <3>1. Wrote = [k \in Node |-> {j \in Line : Authored(k, j)}]
      BY DEF Wrote, Authored
    <3>2. Wrote' = [k \in Node |-> {j \in Line : Authored(k, j)'}]
      BY DEF Wrote, Authored
    <3> QED
      BY <2>2, <3>1, <3>2
  <2>5. History!Write(n, l)
    BY <2>3, <2>4 DEF History!Write, Wrote, Kept
  <2> QED
    BY <2>5 DEF History!Next
<1> QED
  BY <1>3, <1>4 DEF Tells

\* Both stores together keep every message that was ever written, and none but
\* its author's, through crashes and lost connections (db.rs, do_sync,
\* messaging_loop).
THEOREM HistoryIsKept == Spec => KeepsHistory
<1>1. Init => History!Init
  BY DEF Init, History!Init, Stored
<1>2. PeerInv /\ [Next]_vars => History!Next \/ UNCHANGED <<Wrote, Kept>>
  BY PeerStep, StoresStep
<1>3. PeerInv /\ [Next]_vars => [History!Next]_<<Wrote, Kept>>
  BY <1>2
<1> QED
  BY <1>1, <1>3, PeerInvHolds, PTL DEF Spec, KeepsHistory, History!Spec, Wrote, Kept

=============================================================================
