------------------------- MODULE ServerRelayProofs -------------------------
(***************************************************************************)
(* Proofs about relayed packets in Server, for any sets of diddys,         *)
(* connections and channels: their order, and that relay map, channels and *)
(* relay tasks implement Switchboard.                                      *)
(***************************************************************************)
EXTENDS ServerProofs

-----------------------------------------------------------------------------
(* The inductive invariant: numbers identify packets.                        *)

\* A channel without a task leads nowhere yet.
UnboundInv == \A h \in Chan : task[h] = "unused" => chConn[h] = None

\* Only channels of its addressee bring a packet to a socket.
SourceInv ==
  \A c \in Conn : \A i \in Relayed(c) :
    \E h \in Chan : chConn[h] = c /\ chOwner[h] = outbox[c][i].to

\* A packet has the number under which it was accepted.
NumberInv ==
  /\ sent <= MaxRelay
  /\ \A h \in Chan : \A i \in DOMAIN chQueue[h] : chQueue[h][i].n \in 1..sent
  /\ \A c \in Conn : \A i \in Relayed(c) : outbox[c][i].n \in 1..sent

\* A channel holds packets in the order they were accepted, and no two channels
\* the same one.
QueueInv ==
  /\ \A h \in Chan : \A i, j \in DOMAIN chQueue[h] :
       i < j => chQueue[h][i].n < chQueue[h][j].n
  /\ \A h, g \in Chan : h # g =>
       \A i \in DOMAIN chQueue[h], j \in DOMAIN chQueue[g] :
         chQueue[h][i].n # chQueue[g][j].n

\* h is the only channel of its owner on c.
Alone(h, c) ==
  chConn[h] = c /\ \A g \in Chan \ {h} : chConn[g] = c => chOwner[g] # chOwner[h]

\* The order of what was written, and of that before what is still queued.
Ordered(h, c) ==
  /\ \A i, j \in RelayedTo(c, chOwner[h]) :
       i < j => outbox[c][i].n < outbox[c][j].n
  /\ \A i \in RelayedTo(c, chOwner[h]), j \in DOMAIN chQueue[h] :
       outbox[c][i].n < chQueue[h][j].n

OrderInv == \A h \in Chan, c \in Conn : Alone(h, c) => Ordered(h, c)

RelayedInv ==
  SafetyInv /\ UnboundInv /\ SourceInv /\ NumberInv /\ QueueInv /\ OrderInv

-----------------------------------------------------------------------------
(* The steps, as far as relayed packets see them *)

\* A packet gets into the channel of its addressee under the next number.
Accepting ==
  \E h \in Chan, m \in RelayForward :
    /\ task[h] = "running"
    /\ chQueue' = [chQueue EXCEPT ![h] = Append(chQueue[h], m)]
    /\ sent' = sent + 1 /\ m.n = sent' /\ sent < MaxRelay
    /\ m.from \in proved[m.src]
    /\ UNCHANGED <<chConn, chOwner, task, outbox, proved>>

\* A relay task takes the first packet of its channel to the socket.
Writing ==
  \E h \in Chan :
    /\ task[h] = "running"
    /\ chQueue[h] # <<>>
    /\ chQueue' = [chQueue EXCEPT ![h] = Tail(chQueue[h])]
    /\ \/ UNCHANGED outbox
       \/ outbox' = [outbox EXCEPT ![chConn[h]] =
                       Append(outbox[chConn[h]], Head(chQueue[h]))]
    /\ UNCHANGED <<chConn, chOwner, task, sent, proved>>

\* A login makes a channel.
Binding ==
  \E h \in Chan, c \in Conn, d \in Diddy :
    /\ task[h] = "unused"
    /\ task' = [task EXCEPT ![h] = "running"]
    /\ chConn' = [chConn EXCEPT ![h] = c]
    /\ chOwner' = [chOwner EXCEPT ![h] = d]
    /\ UNCHANGED <<chQueue, sent, outbox, proved>>

\* Channels end with what they hold.
Emptying ==
  /\ \A h \in Chan : chQueue'[h] = <<>> \/ chQueue'[h] = chQueue[h]
  /\ \A h \in Chan : task'[h] = "unused" => task[h] = "unused"
  /\ UNCHANGED <<chConn, chOwner, sent, outbox, proved>>

\* A reply is written, or a client reads or closes its socket.
OnSocket(c) ==
  /\ \/ UNCHANGED outbox
     \/ outbox' = [outbox EXCEPT ![c] = Append(outbox[c], Response)]
     \/ /\ outbox[c] # <<>>
        /\ outbox' = [outbox EXCEPT ![c] = Tail(outbox[c])]
     \/ outbox' = [outbox EXCEPT ![c] = <<>>]
  /\ UNCHANGED <<chConn, chOwner, chQueue, task, sent, proved>>

\* A challenge is answered.
Proving ==
  /\ \/ UNCHANGED proved
     \/ \E c \in Conn, d \in Diddy :
          proved' = [proved EXCEPT ![c] = proved[c] \cup {d}]
  /\ UNCHANGED <<chConn, chOwner, chQueue, task, sent, outbox>>

\* Every step is one of these.
LEMMA RelayCases ==
  ASSUME SafetyInv, [Next]_vars
  PROVE  \/ Accepting \/ Writing \/ Binding \/ Emptying \/ Proving
         \/ \E c \in Conn : OnSocket(c)
<1> USE DEF SafetyInv
<1>1. ASSUME NEW c \in Conn, NEW d \in Diddy, RelayPacket(c, d)
      PROVE  Accepting \/ Proving
  <2>1. CASE authed[c] # None /\ Reachable(d)
    <3> DEFINE m == Forward(authed[c], d, c, sent')
    <3>1. Enqueue(c, d) /\ UNCHANGED <<chConn, chOwner, task, outbox, proved>>
      BY <1>1, <2>1 DEF RelayPacket, ghosts
    <3>2. relay[d] \in Chan /\ task[relay[d]] = "running"
      BY <2>1 DEF Reachable, TypeOK
    <3>3. sent' = sent + 1 /\ sent' \in Nat /\ sent < MaxRelay
      BY <3>1 DEF Enqueue, TypeOK
    <3>4. m \in RelayForward /\ m.n = sent' /\ m.from = authed[c] /\ m.src = c
      BY <2>1, <3>3 DEF Forward, RelayForward, TypeOK
    <3>5. chQueue' = [chQueue EXCEPT ![relay[d]] = Append(chQueue[relay[d]], m)]
      BY <3>1 DEF Enqueue
    <3>6. authed[c] \in proved[c]
      BY <2>1 DEF LoginInv
    <3> QED
      BY <3>1, <3>2, <3>3, <3>4, <3>5, <3>6 DEF Accepting
  <2>2. CASE ~(authed[c] # None /\ Reachable(d))
    BY <1>1, <2>2 DEF RelayPacket, Proving, ghosts
  <2> QED
    BY <2>1, <2>2
<1>2. ASSUME NEW h \in Chan, RelayWrite(h) PROVE Writing
  BY <1>2 DEF RelayWrite, Writing, Put, Dequeue, ghosts
<1>3. ASSUME NEW c \in Conn, Bind(c) PROVE Binding
  <2>1. arg[c] \in Diddy /\ UNCHANGED <<chQueue, sent, outbox, proved>>
    BY <1>3, BindShape DEF Bind, ghosts
  <2>2. \E h \in Chan : /\ task[h] = "unused"
                        /\ task' = [task EXCEPT ![h] = "running"]
                        /\ chConn' = [chConn EXCEPT ![h] = c]
                        /\ chOwner' = [chOwner EXCEPT ![h] = arg[c]]
    BY <1>3, BindShape
  <2> QED
    BY <2>1, <2>2 DEF Binding
<1>4. ASSUME NEW h \in Chan, task[h] = "running", RelayStop(h) PROVE Emptying
  BY <1>4 DEF RelayStop, Emptying, TypeOK, ghosts
<1>5. ASSUME Die PROVE Emptying
  BY <1>5 DEF Die, Emptying, TypeOK, ghosts
<1>6. ASSUME NEW c \in Conn, Reply(c) \/ ClientRead(c) \/ ClientClose(c)
      PROVE  OnSocket(c)
  BY <1>6 DEF Reply, ClientRead, ClientClose, OnSocket, Put, channels, ghosts
<1>7. ASSUME NEW c \in Conn, NEW d \in Diddy, NEW ok \in BOOLEAN,
             LoginChallengeResponse(c, d, ok)
      PROVE  Proving
  BY <1>7 DEF LoginChallengeResponse, Proving, channels
<1>8. CASE UNCHANGED <<channels, sent, outbox, proved>>
  BY <1>8 DEF Proving, channels
<1> QED
  BY <1>1, <1>2, <1>3, <1>4, <1>5, <1>6, <1>7, <1>8
  DEF Next, vars, ghosts, Accept, AcceptFails, Crash, Restart, Request,
      Register, LoginRequest, VerifyRequest, Announce, QueryPeer, Continue,
      Insert, ReplyFails, HandlerFails, RelayStep, RelayWriteFails, RelayEnd

\* How a socket changes in a step that is not a relay task's.
LEMMA SocketShape ==
  ASSUME TypeOK, NEW c \in Conn, OnSocket(c)
  PROVE  \A e \in Conn :
           \/ /\ outbox'[e] = outbox[e]
              /\ Relayed(e)' = Relayed(e)
           \/ /\ Relayed(e)' = Relayed(e)
              /\ \A i \in Relayed(e) : outbox'[e][i] = outbox[e][i]
           \/ \A i \in Relayed(e)' : /\ i + 1 \in Relayed(e)
                                     /\ outbox'[e][i] = outbox[e][i + 1]
<1> SUFFICES ASSUME NEW e \in Conn
             PROVE  \/ /\ outbox'[e] = outbox[e]
                       /\ Relayed(e)' = Relayed(e)
                    \/ /\ Relayed(e)' = Relayed(e)
                       /\ \A i \in Relayed(e) : outbox'[e][i] = outbox[e][i]
                    \/ \A i \in Relayed(e)' : /\ i + 1 \in Relayed(e)
                                              /\ outbox'[e][i] = outbox[e][i + 1]
  OBVIOUS
<1> outbox[e] \in Seq(ServerMessage) /\ outbox[c] \in Seq(ServerMessage)
  BY DEF TypeOK
<1>1. CASE outbox'[e] = outbox[e]
  BY <1>1 DEF Relayed
<1>2. CASE e = c /\ outbox' = [outbox EXCEPT ![c] = Append(outbox[c], Response)]
  <2>1. outbox'[e] = Append(outbox[e], Response)
    BY <1>2 DEF TypeOK
  <2>2. /\ DOMAIN outbox'[e] = DOMAIN outbox[e] \cup {Len(outbox[e]) + 1}
        /\ \A i \in DOMAIN outbox[e] : outbox'[e][i] = outbox[e][i]
        /\ outbox'[e][Len(outbox[e]) + 1] = Response
    BY <2>1
  <2>3. ~IsForward(Response)
    BY DEF Response, IsForward
  <2> QED
    BY <2>2, <2>3 DEF Relayed
<1>3. CASE e = c /\ outbox[c] # <<>>
             /\ outbox' = [outbox EXCEPT ![c] = Tail(outbox[c])]
  <2>1. outbox'[e] = Tail(outbox[e]) /\ outbox[e] # <<>>
    BY <1>3 DEF TypeOK
  <2>2. \A i \in DOMAIN outbox'[e] : /\ i + 1 \in DOMAIN outbox[e]
                                     /\ outbox'[e][i] = outbox[e][i + 1]
    BY <2>1
  <2> QED
    BY <2>2 DEF Relayed
<1>4. CASE e = c /\ outbox' = [outbox EXCEPT ![c] = <<>>]
  BY <1>4 DEF Relayed, TypeOK
<1>5. e # c => outbox'[e] = outbox[e]
  BY DEF OnSocket, TypeOK
<1> QED
  BY <1>1, <1>2, <1>3, <1>4, <1>5 DEF OnSocket

-----------------------------------------------------------------------------
(* The invariant is preserved *)

\* What is queued in a channel.
LEMMA QueueFacts ==
  ASSUME RelayedInv, NEW g \in Chan
  PROVE  /\ chQueue[g] \in Seq(RelayForward)
         /\ \A i \in DOMAIN chQueue[g] :
              /\ i \in Nat
              /\ chQueue[g][i] \in RelayForward
              /\ chQueue[g][i].n \in Nat
<1>1. chQueue[g] \in Seq(RelayForward)
  BY DEF RelayedInv, SafetyInv, TypeOK
<1>2. \A i \in DOMAIN chQueue[g] : i \in Nat /\ chQueue[g][i] \in RelayForward
  BY <1>1
<1>3. \A m \in RelayForward : m.n \in Nat
  BY DEF RelayForward
<1> QED
  BY <1>1, <1>2, <1>3

\* What is relayed on a socket.
LEMMA SocketFacts ==
  ASSUME RelayedInv, NEW c \in Conn
  PROVE  /\ outbox[c] \in Seq(ServerMessage)
         /\ \A i \in Relayed(c) : /\ i \in Nat
                                  /\ outbox[c][i] \in RelayForward
                                  /\ outbox[c][i].n \in Nat
<1>1. outbox[c] \in Seq(ServerMessage)
  BY DEF RelayedInv, SafetyInv, TypeOK
<1>2. ~IsForward(Response)
  BY DEF Response, IsForward
<1>3. \A i \in Relayed(c) : i \in Nat /\ outbox[c][i] \in RelayForward
  BY <1>1, <1>2 DEF Relayed, ServerMessage
<1> QED
  BY <1>1, <1>3 DEF RelayForward

\* Accepting a packet keeps the invariant.
LEMMA AcceptingStep ==
  ASSUME RelayedInv, Accepting
  PROVE  /\ UnboundInv' /\ SourceInv' /\ NumberInv' /\ QueueInv' /\ OrderInv'
<1> USE DEF RelayedInv, SafetyInv
<1>1. PICK h \in Chan, m \in RelayForward :
        /\ task[h] = "running"
        /\ chQueue' = [chQueue EXCEPT ![h] = Append(chQueue[h], m)]
        /\ sent' = sent + 1 /\ m.n = sent' /\ sent < MaxRelay
        /\ UNCHANGED <<chConn, chOwner, task, outbox, proved>>
  BY DEF Accepting
<1>2. /\ chQueue[h] \in Seq(RelayForward)
      /\ chQueue'[h] = Append(chQueue[h], m)
      /\ \A g \in Chan \ {h} : chQueue'[g] = chQueue[g]
  BY <1>1 DEF TypeOK
<1>3. /\ DOMAIN chQueue'[h] = DOMAIN chQueue[h] \cup {Len(chQueue[h]) + 1}
      /\ \A i \in DOMAIN chQueue[h] : /\ chQueue'[h][i] = chQueue[h][i]
                                      /\ i < Len(chQueue[h]) + 1
      /\ chQueue'[h][Len(chQueue[h]) + 1] = m
  BY <1>2
<1>4. sent \in Nat /\ MaxRelay \in Nat
  BY ConstantsAssumption DEF TypeOK
<1>5. \A c \in Conn : Relayed(c)' = Relayed(c)
  BY <1>1 DEF Relayed
<1>6. UnboundInv' /\ SourceInv'
  BY <1>1, <1>5 DEF UnboundInv, SourceInv
<1>7. \A g \in Chan : \A i \in DOMAIN chQueue[g] :
        chQueue[g][i].n \in 1..sent /\ chQueue[g][i].n < m.n
  BY <1>1, <1>4 DEF NumberInv
<1>8. NumberInv'
  <2>1. sent' <= MaxRelay /\ m.n \in 1..sent'
    BY <1>1, <1>4
  <2>2. \A g \in Chan : \A i \in DOMAIN chQueue'[g] : chQueue'[g][i].n \in 1..sent'
    BY <1>1, <1>2, <1>3, <1>4, <1>7, <2>1
  <2>3. \A c \in Conn : \A i \in Relayed(c)' : outbox'[c][i].n \in 1..sent'
    BY <1>1, <1>4, <1>5 DEF NumberInv
  <2> QED
    BY <2>1, <2>2, <2>3 DEF NumberInv
<1>9. QueueInv'
  <2>1. \A g \in Chan : \A i, j \in DOMAIN chQueue'[g] :
          i < j => chQueue'[g][i].n < chQueue'[g][j].n
    <3>1. \A i, j \in DOMAIN chQueue'[h] :
            i < j => chQueue'[h][i].n < chQueue'[h][j].n
      BY <1>2, <1>3, <1>7 DEF QueueInv
    <3> QED
      BY <1>2, <3>1 DEF QueueInv
  <2>2. ASSUME NEW g \in Chan \ {h},
               NEW i \in DOMAIN chQueue'[h], NEW j \in DOMAIN chQueue'[g]
        PROVE  chQueue'[h][i].n # chQueue'[g][j].n
    <3>1. chQueue'[g] = chQueue[g] /\ chQueue[g][j].n \in Nat
      BY <1>2, QueueFacts
    <3>2. CASE i \in DOMAIN chQueue[h]
      BY <1>3, <3>1, <3>2 DEF QueueInv
    <3>3. CASE i = Len(chQueue[h]) + 1
      <4>1. chQueue[g][j].n < m.n /\ m.n \in Nat
        BY <1>1, <1>4, <1>7, <3>1
      <4> QED
        BY <1>3, <3>1, <3>3, <4>1
    <3> QED
      BY <1>3, <3>2, <3>3
  <2>3. \A f, g \in Chan : f # g =>
          \A i \in DOMAIN chQueue'[f], j \in DOMAIN chQueue'[g] :
            chQueue'[f][i].n # chQueue'[g][j].n
    <3> SUFFICES ASSUME NEW f \in Chan, NEW g \in Chan, f # g,
                        NEW i \in DOMAIN chQueue'[f],
                        NEW j \in DOMAIN chQueue'[g]
                 PROVE  chQueue'[f][i].n # chQueue'[g][j].n
      OBVIOUS
    <3>1. CASE f = h
      BY <2>2, <3>1
    <3>2. CASE g = h
      BY <2>2, <3>2
    <3>3. CASE f # h /\ g # h
      BY <1>2, <3>3 DEF QueueInv
    <3> QED
      BY <3>1, <3>2, <3>3
  <2> QED
    BY <2>1, <2>3 DEF QueueInv
<1>10. OrderInv'
  <2>1. \A c \in Conn : \A i \in Relayed(c) : outbox[c][i].n < m.n
    BY <1>1, <1>4 DEF NumberInv
  <2> SUFFICES ASSUME NEW g \in Chan, NEW c \in Conn, Alone(g, c)
               PROVE  Ordered(g, c)'
    BY <1>1 DEF OrderInv, Alone
  <2>2. Ordered(g, c)
    BY DEF OrderInv
  <2>3. \A d : RelayedTo(c, d)' = RelayedTo(c, d)
    BY <1>1 DEF Relayed, RelayedTo
  <2>4. \A i \in RelayedTo(c, chOwner[g]) : outbox[c][i].n < m.n
    BY <2>1 DEF RelayedTo
  <2>5. CASE g = h
    BY <1>1, <1>3, <2>2, <2>3, <2>4, <2>5 DEF Ordered
  <2>6. CASE g # h
    BY <1>1, <1>2, <2>2, <2>3, <2>6 DEF Ordered
  <2> QED
    BY <2>5, <2>6
<1> QED
  BY <1>6, <1>8, <1>9, <1>10

\* Taking a packet from a channel to a socket keeps the invariant.
LEMMA WritingStep ==
  ASSUME RelayedInv, Writing
  PROVE  /\ UnboundInv' /\ SourceInv' /\ NumberInv' /\ QueueInv' /\ OrderInv'
<1> USE DEF RelayedInv, SafetyInv
<1>1. PICK h \in Chan :
        /\ task[h] = "running"
        /\ chQueue[h] # <<>>
        /\ chQueue' = [chQueue EXCEPT ![h] = Tail(chQueue[h])]
        /\ \/ UNCHANGED outbox
           \/ outbox' = [outbox EXCEPT ![chConn[h]] =
                           Append(outbox[chConn[h]], Head(chQueue[h]))]
        /\ UNCHANGED <<chConn, chOwner, task, sent, proved>>
  BY DEF Writing
<1> PICK c \in Conn : c = chConn[h]
  BY <1>1 DEF ChannelInv, TypeOK
<1> PICK p : p = Head(chQueue[h])
  OBVIOUS
<1>2. /\ chQueue[h] \in Seq(RelayForward) /\ chQueue'[h] = Tail(chQueue[h])
      /\ \A g \in Chan \ {h} : chQueue'[g] = chQueue[g]
  BY <1>1 DEF TypeOK
<1>3. /\ 1 \in DOMAIN chQueue[h] /\ p = chQueue[h][1]
      /\ \A i \in DOMAIN chQueue'[h] : /\ i + 1 \in DOMAIN chQueue[h]
                                       /\ 1 < i + 1
                                       /\ i \in Nat
                                       /\ chQueue'[h][i] = chQueue[h][i + 1]
  <2> DEFINE q == chQueue[h]
  <2>1. q \in Seq(RelayForward) /\ q # <<>> /\ chQueue'[h] = Tail(q)
    BY <1>1, <1>2
  <2> HIDE DEF q
  <2>2. Len(q) \in Nat /\ Len(q) > 0 /\ DOMAIN q = 1..Len(q) /\ Head(q) = q[1]
    BY <2>1
  <2>3. /\ DOMAIN Tail(q) = 1..(Len(q) - 1)
        /\ \A i \in 1..(Len(q) - 1) : Tail(q)[i] = q[i + 1]
    BY <2>1, <2>2
  <2>4. /\ 1 \in DOMAIN q /\ Head(q) = q[1]
        /\ \A i \in DOMAIN Tail(q) : /\ i + 1 \in DOMAIN q
                                      /\ 1 < i + 1
                                      /\ i \in Nat
                                      /\ Tail(q)[i] = q[i + 1]
    BY <2>2, <2>3
  <2> QED
    BY <2>1, <2>4 DEF q
<1>4. outbox[c] \in Seq(ServerMessage)
  BY DEF TypeOK
<1>5. /\ \A e \in Conn \ {c} : /\ outbox'[e] = outbox[e]
                                 /\ Relayed(e)' = Relayed(e)
      /\ \A i \in Relayed(c)' :
           \/ i \in Relayed(c) /\ outbox'[c][i] = outbox[c][i]
           \/ /\ outbox'[c][i] = p /\ i \in Nat
              /\ \A j \in Relayed(c)' : i # j => j < i /\ j \in Relayed(c)
  <2>1. CASE UNCHANGED outbox
    BY <2>1 DEF Relayed
  <2>2. CASE outbox' = [outbox EXCEPT ![c] = Append(outbox[c], p)]
    <3>1. /\ outbox'[c] = Append(outbox[c], p)
          /\ \A e \in Conn \ {c} : outbox'[e] = outbox[e]
      BY <1>4, <2>2 DEF TypeOK
    <3> DEFINE last == Len(outbox[c]) + 1
    <3>2. /\ DOMAIN outbox'[c] = DOMAIN outbox[c] \cup {last}
          /\ \A i \in DOMAIN outbox[c] : /\ outbox'[c][i] = outbox[c][i]
                                         /\ i < last
          /\ outbox'[c][last] = p /\ last \in Nat
      BY <1>4, <3>1
    <3> HIDE DEF last
    <3>3. \A i \in Relayed(c)' :
            \/ i \in Relayed(c) /\ outbox'[c][i] = outbox[c][i] /\ i < last
            \/ i = last
      BY <3>2 DEF Relayed
    <3>4. \A e \in Conn \ {c} : Relayed(e)' = Relayed(e)
      BY <3>1 DEF Relayed
    <3> QED
      BY <3>1, <3>2, <3>3, <3>4
  <2> QED
    BY <1>1, <2>1, <2>2
<1>6. UnboundInv' /\ SourceInv' /\ p.to = chOwner[h]
  <2>1. p.to = chOwner[h]
    BY <1>3 DEF ChannelInv
  <2>2. ASSUME NEW e \in Conn, NEW i \in Relayed(e)'
        PROVE  \E g \in Chan : chConn[g] = e /\ chOwner[g] = outbox'[e][i].to
    <3>1. CASE i \in Relayed(e) /\ outbox'[e][i] = outbox[e][i]
      BY <3>1 DEF SourceInv
    <3>2. CASE e = c /\ outbox'[e][i] = p
      BY <2>1, <3>2
    <3> QED
      BY <1>5, <3>1, <3>2
  <2> QED
    BY <1>1, <2>1, <2>2 DEF UnboundInv, SourceInv
<1>7. NumberInv'
  <2>1. p.n \in 1..sent
    BY <1>3 DEF NumberInv
  <2>2. ASSUME NEW g \in Chan, NEW i \in DOMAIN chQueue'[g]
        PROVE  chQueue'[g][i].n \in 1..sent
    <3>1. CASE g = h
      BY <1>3, <3>1 DEF NumberInv
    <3>2. CASE g # h
      BY <1>2, <3>2 DEF NumberInv
    <3> QED
      BY <3>1, <3>2
  <2>3. ASSUME NEW e \in Conn, NEW i \in Relayed(e)'
        PROVE  outbox'[e][i].n \in 1..sent
    <3>1. CASE e = c
      BY <1>5, <2>1, <3>1 DEF NumberInv
    <3>2. CASE e # c
      BY <1>5, <3>2 DEF NumberInv
    <3> QED
      BY <3>1, <3>2
  <2> QED
    BY <1>1, <2>2, <2>3 DEF NumberInv
<1>8. QueueInv'
  <2>1. \A i, j \in DOMAIN chQueue'[h] :
          i < j => chQueue'[h][i].n < chQueue'[h][j].n
    <3> SUFFICES ASSUME NEW i \in DOMAIN chQueue'[h],
                        NEW j \in DOMAIN chQueue'[h], i < j
                 PROVE  chQueue'[h][i].n < chQueue'[h][j].n
      OBVIOUS
    <3>1. i + 1 < j + 1
      BY <1>3
    <3> QED
      BY <1>3, <3>1 DEF QueueInv
  <2>2. ASSUME NEW g \in Chan \ {h},
               NEW i \in DOMAIN chQueue'[h], NEW j \in DOMAIN chQueue'[g]
        PROVE  chQueue'[h][i].n # chQueue'[g][j].n
    BY <1>2, <1>3 DEF QueueInv
  <2>3. \A f, g \in Chan : f # g =>
          \A i \in DOMAIN chQueue'[f], j \in DOMAIN chQueue'[g] :
            chQueue'[f][i].n # chQueue'[g][j].n
    <3> SUFFICES ASSUME NEW f \in Chan, NEW g \in Chan, f # g,
                        NEW i \in DOMAIN chQueue'[f],
                        NEW j \in DOMAIN chQueue'[g]
                 PROVE  chQueue'[f][i].n # chQueue'[g][j].n
      OBVIOUS
    <3>1. CASE f = h
      BY <2>2, <3>1
    <3>2. CASE g = h
      BY <2>2, <3>2
    <3>3. CASE f # h /\ g # h
      BY <1>2, <3>3 DEF QueueInv
    <3> QED
      BY <3>1, <3>2, <3>3
  <2>4. \A g \in Chan : \A i, j \in DOMAIN chQueue'[g] :
          i < j => chQueue'[g][i].n < chQueue'[g][j].n
    <3> SUFFICES ASSUME NEW g \in Chan
                 PROVE  \A i, j \in DOMAIN chQueue'[g] :
                          i < j => chQueue'[g][i].n < chQueue'[g][j].n
      OBVIOUS
    <3>1. CASE g = h
      BY <2>1, <3>1
    <3>2. CASE g # h
      BY <1>2, <3>2 DEF QueueInv
    <3> QED
      BY <3>1, <3>2
  <2> QED
    BY <2>3, <2>4 DEF QueueInv
<1>9. OrderInv'
  <2> SUFFICES ASSUME NEW g \in Chan, NEW e \in Conn, Alone(g, e)
               PROVE  Ordered(g, e)'
    BY <1>1 DEF OrderInv, Alone
  <2> PICK d : d = chOwner[g] /\ chOwner'[g] = d
    BY <1>1
  <2>1. /\ \A i, j \in RelayedTo(e, d) : i < j => outbox[e][i].n < outbox[e][j].n
        /\ \A i \in RelayedTo(e, d), j \in DOMAIN chQueue[g] :
             outbox[e][i].n < chQueue[g][j].n
    BY DEF OrderInv, Ordered
  <2>2. CASE g = h
    <3>1. \A j \in DOMAIN chQueue'[h] : /\ p.n < chQueue'[h][j].n
      BY <1>3 DEF QueueInv
    <3>2. \A i \in RelayedTo(e, d) : outbox[e][i].n < p.n
      BY <1>3, <2>1, <2>2
    <3>3. e = c /\ \A i \in Relayed(c) : i \in Nat
      BY <1>4, <2>2, SocketFacts DEF Alone
    <3>4. \A i \in RelayedTo(e, d)' : i \in Relayed(c)'
      BY <3>3 DEF RelayedTo
    <3>5. \A i \in RelayedTo(e, d)' :
            i \in Relayed(c) /\ outbox'[c][i] = outbox[c][i] => i \in RelayedTo(e, d)
      BY <3>3 DEF RelayedTo
    <3>6. \A i, j \in RelayedTo(e, d)' :
            i < j => outbox'[e][i].n < outbox'[e][j].n
      <4> SUFFICES ASSUME NEW i \in RelayedTo(e, d)', NEW j \in RelayedTo(e, d)', i < j
                   PROVE  outbox'[c][i].n < outbox'[c][j].n
        BY <3>3
      <4>1. i \in Relayed(c) /\ outbox'[c][i] = outbox[c][i] /\ i \in Nat
        BY <1>5, <3>3, <3>4
      <4>2. CASE j \in Relayed(c) /\ outbox'[c][j] = outbox[c][j]
        BY <2>1, <3>3, <3>5, <4>1, <4>2
      <4>3. CASE outbox'[c][j] = p
        BY <3>2, <3>3, <3>5, <4>1, <4>3
      <4> QED
        BY <1>5, <3>4, <4>2, <4>3
    <3>7. \A i \in RelayedTo(e, d)', j \in DOMAIN chQueue'[h] :
            outbox'[e][i].n < chQueue'[h][j].n
      <4> SUFFICES ASSUME NEW i \in RelayedTo(e, d)', NEW j \in DOMAIN chQueue'[h]
                   PROVE  outbox'[c][i].n < chQueue'[h][j].n
        BY <3>3
      <4>1. CASE i \in Relayed(c) /\ outbox'[c][i] = outbox[c][i]
        BY <1>3, <2>1, <2>2, <3>3, <3>5, <4>1
      <4>2. CASE outbox'[c][i] = p
        BY <3>1, <4>2
      <4> QED
        BY <1>5, <3>4, <4>1, <4>2
    <3> QED
      BY <2>2, <3>6, <3>7 DEF Ordered
  <2>3. CASE g # h
    <3>1. e = c => d # p.to
      BY <1>6, <2>3 DEF Alone
    <3>2. ASSUME NEW i \in RelayedTo(e, d)'
          PROVE  i \in RelayedTo(e, d) /\ outbox'[e][i] = outbox[e][i]
      <4>1. i \in Relayed(e)' /\ outbox'[e][i].to = d
        BY DEF RelayedTo
      <4>2. i \in Relayed(e) /\ outbox'[e][i] = outbox[e][i]
        BY <1>5, <3>1, <4>1
      <4> QED
        BY <4>1, <4>2 DEF RelayedTo
    <3>3. chQueue'[g] = chQueue[g]
      BY <1>2, <2>3
    <3>4. \A i, j \in RelayedTo(e, d)' : i < j => outbox'[e][i].n < outbox'[e][j].n
      BY <2>1, <3>2
    <3>5. \A i \in RelayedTo(e, d)', j \in DOMAIN chQueue'[g] :
            outbox'[e][i].n < chQueue'[g][j].n
      BY <2>1, <3>2, <3>3
    <3> QED
      BY <3>4, <3>5 DEF Ordered
  <2> QED
    BY <2>2, <2>3
<1> QED
  BY <1>6, <1>7, <1>8, <1>9

\* A login keeps the invariant: a socket that had no channel has no packet.
LEMMA BindingStep ==
  ASSUME RelayedInv, Binding
  PROVE  /\ UnboundInv' /\ SourceInv' /\ NumberInv' /\ QueueInv' /\ OrderInv'
<1> USE DEF RelayedInv, SafetyInv
<1>1. PICK h \in Chan, c \in Conn, d \in Diddy :
        /\ task[h] = "unused"
        /\ task' = [task EXCEPT ![h] = "running"]
        /\ chConn' = [chConn EXCEPT ![h] = c]
        /\ chOwner' = [chOwner EXCEPT ![h] = d]
        /\ UNCHANGED <<chQueue, sent, outbox, proved>>
  BY DEF Binding
<1>2. /\ chConn[h] = None /\ chQueue[h] = <<>> /\ None \notin Conn
      /\ chConn'[h] = c /\ task'[h] = "running" /\ chOwner'[h] = d
      /\ \A g \in Chan \ {h} : /\ chConn'[g] = chConn[g] /\ task'[g] = task[g]
                              /\ chOwner'[g] = chOwner[g]
  BY <1>1, ConstantsAssumption DEF UnboundInv, ChannelInv, TypeOK
<1>3. \A e \in Conn : Relayed(e)' = Relayed(e)
  BY <1>1 DEF Relayed
<1>4. UnboundInv' /\ NumberInv' /\ QueueInv'
  BY <1>1, <1>2, <1>3 DEF UnboundInv, NumberInv, QueueInv
<1>5. SourceInv'
  BY <1>1, <1>2, <1>3 DEF SourceInv
<1>6. OrderInv'
  <2> SUFFICES ASSUME NEW g \in Chan, NEW e \in Conn, Alone(g, e)'
               PROVE  Ordered(g, e)'
    BY DEF OrderInv
  <2>1. \A k : RelayedTo(e, k)' = RelayedTo(e, k)
    BY <1>1 DEF Relayed, RelayedTo
  <2>2. CASE g = h
    <3>1. \A f \in Chan : chConn[f] = e => chOwner[f] # chOwner'[g]
      BY <1>2, <2>2 DEF Alone
    <3>2. RelayedTo(e, chOwner'[g]) = {}
      BY <3>1 DEF SourceInv, RelayedTo
    <3> QED
      BY <1>1, <2>1, <3>2 DEF Ordered
  <2>3. CASE g # h
    <3>1. Alone(g, e)
      BY <1>2, <2>3 DEF Alone
    <3>2. Ordered(g, e)
      BY <3>1 DEF OrderInv
    <3> QED
      BY <1>1, <1>2, <2>1, <2>3, <3>2 DEF Ordered
  <2> QED
    BY <2>2, <2>3
<1> QED
  BY <1>4, <1>5, <1>6

\* Steps that take packets away keep the invariant.
LEMMA EmptyingStep ==
  ASSUME RelayedInv, Emptying
  PROVE  /\ UnboundInv' /\ SourceInv' /\ NumberInv' /\ QueueInv' /\ OrderInv'
<1> USE DEF RelayedInv, SafetyInv
<1>1. \A e \in Conn : Relayed(e)' = Relayed(e)
  BY DEF Emptying, Relayed
<1>2. \A h \in Chan : \A i \in DOMAIN chQueue'[h] :
        i \in DOMAIN chQueue[h] /\ chQueue'[h][i] = chQueue[h][i]
  BY DEF Emptying
<1>3. UnboundInv' /\ SourceInv' /\ NumberInv'
  BY <1>1, <1>2 DEF Emptying, UnboundInv, SourceInv, NumberInv
<1>4. QueueInv'
  BY <1>2 DEF QueueInv
<1>5. OrderInv'
  <2> SUFFICES ASSUME NEW g \in Chan, NEW e \in Conn, Alone(g, e)
               PROVE  Ordered(g, e)'
    BY DEF OrderInv, Alone, Emptying
  <2>1. Ordered(g, e) /\ \A d : RelayedTo(e, d)' = RelayedTo(e, d)
    BY DEF OrderInv, Emptying, Relayed, RelayedTo
  <2> QED
    BY <1>2, <2>1 DEF Emptying, Ordered
<1> QED
  BY <1>3, <1>4, <1>5

\* The socket stays typed in such a step.
LEMMA OnSocketTyped ==
  ASSUME TypeOK, NEW c \in Conn, OnSocket(c)
  PROVE  outbox' \in [Conn -> Seq(ServerMessage)]
<1>1. outbox[c] \in Seq(ServerMessage) /\ Response \in ServerMessage
  BY DEF TypeOK, ServerMessage
<1>2. /\ Append(outbox[c], Response) \in Seq(ServerMessage)
      /\ outbox[c] # <<>> => Tail(outbox[c]) \in Seq(ServerMessage)
      /\ <<>> \in Seq(ServerMessage)
  BY <1>1
<1> QED
  BY <1>2 DEF OnSocket, TypeOK

\* Replies, reads and closed sockets keep the invariant.
LEMMA SocketStep ==
  ASSUME RelayedInv, NEW c \in Conn, OnSocket(c)
  PROVE  /\ UnboundInv' /\ SourceInv' /\ NumberInv' /\ QueueInv' /\ OrderInv'
<1> USE DEF RelayedInv, SafetyInv
<1>1. UNCHANGED <<chConn, chOwner, chQueue, task, sent, proved>>
  BY DEF OnSocket
<1>3. \A e \in Conn : \A i \in Relayed(e)' :
        \E k \in Relayed(e) : outbox'[e][i] = outbox[e][k]
  BY SocketShape
<1>4. UnboundInv' /\ SourceInv' /\ NumberInv' /\ QueueInv'
  BY <1>1, <1>3 DEF UnboundInv, SourceInv, NumberInv, QueueInv
<1>5. OrderInv'
  <2> SUFFICES ASSUME NEW g \in Chan, NEW e \in Conn, Alone(g, e)
               PROVE  Ordered(g, e)'
    BY <1>1 DEF OrderInv, Alone
  <2> PICK d : d = chOwner[g] /\ chOwner'[g] = d
    BY <1>1
  <2>1. /\ \A i, j \in RelayedTo(e, d) : i < j => outbox[e][i].n < outbox[e][j].n
        /\ \A i \in RelayedTo(e, d), j \in DOMAIN chQueue[g] :
             outbox[e][i].n < chQueue[g][j].n
    BY DEF OrderInv, Ordered
  <2>2. CASE Relayed(e)' = Relayed(e)
             /\ \A i \in Relayed(e) : outbox'[e][i] = outbox[e][i]
    <3>1. \A i \in RelayedTo(e, d)' :
            i \in RelayedTo(e, d) /\ outbox'[e][i] = outbox[e][i]
      BY <2>2 DEF RelayedTo
    <3> QED
      BY <1>1, <2>1, <3>1 DEF Ordered
  <2>3. CASE \A i \in Relayed(e)' : /\ i + 1 \in Relayed(e)
                                    /\ outbox'[e][i] = outbox[e][i + 1]
    <3>1. \A i \in Relayed(e)' : i \in Int
      <4>1. outbox'[e] \in Seq(ServerMessage)
        BY OnSocketTyped
      <4> QED
        BY <4>1 DEF Relayed
    <3>2. \A i \in RelayedTo(e, d)' : /\ i \in Int
                                      /\ i + 1 \in RelayedTo(e, d)
                                      /\ outbox'[e][i] = outbox[e][i + 1]
      BY <2>3, <3>1 DEF RelayedTo
    <3>3. \A i, j \in RelayedTo(e, d)' : i < j => i + 1 < j + 1
      BY <3>2
    <3> QED
      BY <1>1, <2>1, <3>2, <3>3 DEF Ordered
  <2>4. CASE outbox'[e] = outbox[e] /\ Relayed(e)' = Relayed(e)
    BY <2>2, <2>4
  <2> QED
    BY <2>2, <2>3, <2>4, SocketShape
<1> QED
  BY <1>4, <1>5

-----------------------------------------------------------------------------
(* The theorems *)

\* Relayed packets keep their numbers and their order in every reachable state.
LEMMA RelayedInvariant == Spec => []RelayedInv
<1>1. Init => UnboundInv /\ SourceInv /\ NumberInv /\ QueueInv /\ OrderInv
  <2> SUFFICES ASSUME Init
               PROVE  UnboundInv /\ SourceInv /\ NumberInv /\ QueueInv /\ OrderInv
    OBVIOUS
  <2>1. /\ \A h \in Chan : chConn[h] = None /\ DOMAIN chQueue[h] = {}
        /\ \A c \in Conn : Relayed(c) = {}
        /\ \A c \in Conn : \A d : RelayedTo(c, d) = {}
        /\ sent = 0
    BY DEF Init, Relayed, RelayedTo
  <2> QED
    BY <2>1, ConstantsAssumption
    DEF UnboundInv, SourceInv, NumberInv, QueueInv, OrderInv, Ordered
<1>2. RelayedInv /\ SafetyInv' /\ [Next]_vars => RelayedInv'
  <2> SUFFICES ASSUME RelayedInv, SafetyInv', [Next]_vars PROVE RelayedInv'
    OBVIOUS
  <2>1. CASE Proving
    <3>1. UNCHANGED <<chConn, chOwner, chQueue, task, sent, outbox>>
      BY <2>1 DEF Proving
    <3> QED
      BY <3>1 DEF RelayedInv, UnboundInv, SourceInv, NumberInv, QueueInv,
                  OrderInv, Alone, Ordered, RelayedTo, Relayed
  <2>2. SafetyInv
    BY DEF RelayedInv
  <2> QED
    BY <2>1, <2>2, RelayCases, AcceptingStep, WritingStep, BindingStep,
       EmptyingStep, SocketStep
    DEF RelayedInv
<1>3. SafetyInv /\ UnboundInv /\ SourceInv /\ NumberInv /\ QueueInv /\ OrderInv
        => RelayedInv
  BY DEF RelayedInv
<1> QED
  BY <1>1, <1>2, <1>3, SafetyInit, SafetyInvariant, PTL DEF Spec

\* However many diddys, connections and logins there are, a diddy that logged in
\* once on a connection gets its packets there in the order they were accepted.
THEOREM RelayInOrderHolds == Spec => []RelayInOrder
<1>1. RelayedInv => RelayInOrder
  BY DEF RelayedInv, QueueInv, OrderInv, Alone, Ordered, RelayInOrder
<1> QED
  BY <1>1, RelayedInvariant, PTL

-----------------------------------------------------------------------------
(* The refinement of Switchboard *)

\* What is on the sockets are packets of Switchboard.
LEMMA WrittenType ==
  ASSUME RelayedInv
  PROVE  Written \in [Conn -> SUBSET Relaying!Packet]
<1> SUFFICES ASSUME NEW c \in Conn, NEW i \in Relayed(c)
             PROVE  Bare(outbox[c][i]) \in Relaying!Packet
  BY DEF Written
<1>1. outbox[c][i] \in RelayForward
  BY SocketFacts
<1>2. outbox[c][i].n \in 1..MaxRelay
  BY ConstantsAssumption DEF RelayedInv, SafetyInv, TypeOK, NumberInv
<1> QED
  BY <1>1, <1>2 DEF Bare, RelayForward, Relaying!Packet

\* Accepting a packet is an Accept.
LEMMA AcceptingRefines ==
  ASSUME RelayedInv, Accepting
  PROVE  Relaying!Next
<1>1. PICK h \in Chan, m \in RelayForward :
        /\ chQueue' = [chQueue EXCEPT ![h] = Append(chQueue[h], m)]
        /\ sent' = sent + 1 /\ m.n = sent' /\ sent < MaxRelay
        /\ m.from \in proved[m.src]
        /\ UNCHANGED <<chConn, task, outbox, proved>>
  BY DEF Accepting
<1>2. sent \in Nat /\ MaxRelay \in Nat /\ chQueue \in [Chan -> Seq(RelayForward)]
  BY ConstantsAssumption DEF RelayedInv, SafetyInv, TypeOK
<1>3. /\ m.src \in Conn /\ Bare(m) \in Relaying!Packet
      /\ Bare(m).from = m.from /\ Bare(m).n = m.n
  BY <1>1, <1>2 DEF RelayForward, Bare, Relaying!Packet
<1>4. m.n \notin 1..sent /\ 1..sent' = (1..sent) \cup {m.n}
  BY <1>1, <1>2
<1>5. Queued' = Queued \cup {Bare(m)}
  <2>1. \A g \in Chan : g # h => chQueue'[g] = chQueue[g]
    BY <1>1, <1>2
  <2>2. /\ DOMAIN chQueue'[h] = DOMAIN chQueue[h] \cup {Len(chQueue[h]) + 1}
        /\ \A i \in DOMAIN chQueue[h] : chQueue'[h][i] = chQueue[h][i]
        /\ chQueue'[h][Len(chQueue[h]) + 1] = m
    BY <1>1, <1>2
  <2>3. ASSUME NEW p, p \in Queued' PROVE p \in Queued \cup {Bare(m)}
    BY <2>1, <2>2, <2>3 DEF Queued
  <2>4. ASSUME NEW p, p \in Queued \cup {Bare(m)} PROVE p \in Queued'
    BY <2>1, <2>2, <2>4 DEF Queued
  <2> QED
    BY <2>3, <2>4
<1>6. Written' = Written
  BY <1>1 DEF Written, Relayed
<1>7. Relaying!Accept(m.src, Bare(m))
  BY <1>1, <1>3, <1>4, <1>5, <1>6 DEF Relaying!Accept
<1> QED
  BY <1>3, <1>7 DEF Relaying!Next

\* What a relay task takes from its channel is written, or lost: a Write or a
\* Take.  The packet leaves Queued because no channel holds it twice.
LEMMA WritingRefines ==
  ASSUME RelayedInv, RelayedInv', Writing
  PROVE  Relaying!Next
<1>1. PICK h \in Chan :
        /\ task[h] = "running"
        /\ chQueue[h] # <<>>
        /\ chQueue' = [chQueue EXCEPT ![h] = Tail(chQueue[h])]
        /\ \/ UNCHANGED outbox
           \/ outbox' = [outbox EXCEPT ![chConn[h]] =
                           Append(outbox[chConn[h]], Head(chQueue[h]))]
        /\ UNCHANGED <<chConn, chOwner, task, sent, proved>>
  BY DEF Writing
<1> PICK c \in Conn : c = chConn[h]
  BY <1>1 DEF RelayedInv, SafetyInv, ChannelInv, TypeOK
<1> PICK q : q = chQueue[h]
  OBVIOUS
<1>2. q \in Seq(RelayForward) /\ q # <<>>
  BY <1>1, QueueFacts
<1>3. /\ chQueue'[h] = Tail(q)
      /\ \A g \in Chan : g # h => chQueue'[g] = chQueue[g]
  BY <1>1 DEF RelayedInv, SafetyInv, TypeOK
<1>4. /\ Head(q) = q[1] /\ 1 \in DOMAIN q /\ DOMAIN q = 1..Len(q) /\ Len(q) \in Nat
      /\ DOMAIN Tail(q) = 1..(Len(q) - 1)
      /\ \A i \in DOMAIN Tail(q) : Tail(q)[i] = q[i + 1]
  BY <1>2
<1> PICK p : p = Bare(Head(q))
  OBVIOUS
<1>5. p \in Queued /\ p.n = q[1].n /\ p.to = q[1].to
  BY <1>4 DEF Queued, Bare
<1>6. p.to \in proved[c]
  BY <1>1, <1>4, <1>5 DEF RelayedInv, SafetyInv, ChannelInv
<1>7. \A g \in Chan : \A i \in DOMAIN chQueue[g] :
        g # h \/ i # 1 => chQueue[g][i].n # p.n
  <2> SUFFICES ASSUME NEW g \in Chan, NEW i \in DOMAIN chQueue[g], g # h \/ i # 1
               PROVE  chQueue[g][i].n # p.n
    OBVIOUS
  <2>1. CASE g # h
    BY <1>4, <1>5, <2>1 DEF RelayedInv, QueueInv
  <2>2. CASE g = h /\ i # 1
    <3>1. 1 < i
      BY <1>4, <2>2
    <3>2. q[1].n < q[i].n /\ q[1].n \in Nat /\ q[i].n \in Nat
      BY <1>4, <2>2, <3>1, QueueFacts DEF RelayedInv, QueueInv
    <3> QED
      BY <1>5, <2>2, <3>2
  <2> QED
    BY <2>1, <2>2
<1>8. Queued' = Queued \ {p}
  <2>1. ASSUME NEW r, r \in Queued' PROVE r \in Queued \ {p}
    <3>1. PICK g \in Chan : \E i \in DOMAIN chQueue'[g] : r = Bare(chQueue'[g][i])
      BY <2>1 DEF Queued
    <3>2. \E k \in DOMAIN chQueue[g] : (g # h \/ k # 1) /\ r = Bare(chQueue[g][k])
      <4>1. CASE g = h
        <5>1. PICK i \in DOMAIN Tail(q) : r = Bare(Tail(q)[i])
          BY <1>3, <3>1, <4>1
        <5>2. i + 1 \in DOMAIN q /\ i + 1 # 1 /\ r = Bare(q[i + 1])
          BY <1>4, <5>1
        <5> QED
          BY <4>1, <5>2
      <4>2. CASE g # h
        BY <1>3, <3>1, <4>2
      <4> QED
        BY <4>1, <4>2
    <3>3. PICK k \in DOMAIN chQueue[g] :
            (g # h \/ k # 1) /\ r = Bare(chQueue[g][k])
      BY <3>2
    <3>4. r.n # p.n
      BY <1>7, <3>3 DEF Bare
    <3> QED
      BY <3>3, <3>4 DEF Queued
  <2>2. ASSUME NEW r, r \in Queued, r # p PROVE r \in Queued'
    <3> PICK g \in Chan : \E k \in DOMAIN chQueue[g] : r = Bare(chQueue[g][k])
      BY <2>2 DEF Queued
    <3>1. PICK k \in DOMAIN chQueue[g] : r = Bare(chQueue[g][k])
      OBVIOUS
    <3>2. CASE g = h
      <4>1. k # 1 /\ k \in DOMAIN q /\ r = Bare(q[k])
        BY <1>4, <2>2, <3>1, <3>2
      <4>2. k - 1 \in DOMAIN Tail(q) /\ r = Bare(Tail(q)[k - 1])
        BY <1>4, <4>1
      <4>3. \E i \in DOMAIN chQueue'[h] : r = Bare(chQueue'[h][i])
        BY <1>3, <4>2
      <4> QED
        BY <4>3 DEF Queued
    <3>3. CASE g # h
      BY <1>3, <3>1, <3>3 DEF Queued
    <3> QED
      BY <3>2, <3>3
  <2>3. p \notin Queued'
    BY <2>1
  <2> QED
    BY <2>1, <2>2, <2>3
<1>9. CASE UNCHANGED outbox
  <2>1. Written' = Written
    BY <1>9 DEF Written, Relayed
  <2>2. Relaying!Take
    BY <1>1, <1>8, <2>1, WrittenType DEF Relaying!Take
  <2> QED
    BY <2>2 DEF Relaying!Next
<1>10. CASE outbox' = [outbox EXCEPT ![c] = Append(outbox[c], Head(q))]
  <2>1. /\ outbox'[c] = Append(outbox[c], Head(q))
        /\ \A e \in Conn : e # c => outbox'[e] = outbox[e]
        /\ outbox[c] \in Seq(ServerMessage)
    BY <1>10 DEF RelayedInv, SafetyInv, TypeOK
  <2> PICK last : last = Len(outbox[c]) + 1
    OBVIOUS
  <2>2. /\ DOMAIN outbox'[c] = DOMAIN outbox[c] \cup {last}
        /\ \A i \in DOMAIN outbox[c] : outbox'[c][i] = outbox[c][i]
        /\ outbox'[c][last] = Head(q) /\ last \notin DOMAIN outbox[c]
    BY <2>1
  <2>3. IsForward(Head(q))
    <3>1. Head(q) \in RelayForward
      BY <1>2
    <3> QED
      BY <3>1 DEF RelayForward, IsForward
  <2>4. Relayed(c)' = Relayed(c) \cup {last}
    BY <2>2, <2>3 DEF Relayed
  <2>5. /\ {Bare(outbox'[c][i]) : i \in Relayed(c)'}
             = {Bare(outbox[c][i]) : i \in Relayed(c)} \cup {p}
        /\ \A e \in Conn : e # c => {Bare(outbox'[e][i]) : i \in Relayed(e)'}
                                      = {Bare(outbox[e][i]) : i \in Relayed(e)}
    BY <2>1, <2>2, <2>4 DEF Relayed
  <2>6. Written' = [Written EXCEPT ![c] = Written[c] \cup {p}]
    <3>1. /\ Written = [e \in Conn |-> {Bare(outbox[e][i]) : i \in Relayed(e)}]
          /\ Written' = [e \in Conn |-> {Bare(outbox'[e][i]) : i \in Relayed(e)'}]
      BY DEF Written
    <3>2. /\ \A e \in Conn : Written[e] = {Bare(outbox[e][i]) : i \in Relayed(e)}
          /\ \A e \in Conn : Written'[e] = {Bare(outbox'[e][i]) : i \in Relayed(e)'}
      BY <3>1, Zenon
    <3>3. Written'[c] = Written[c] \cup {p}
      BY <2>5, <3>2, Zenon
    <3>4. \A e \in Conn : e # c => Written'[e] = Written[e]
      BY <2>5, <3>2, Zenon
    <3> QED
      BY <3>1, <3>3, <3>4
  <2>7. Relaying!Write(p, c)
    BY <1>1, <1>5, <1>6, <1>8, <2>6 DEF Relaying!Write
  <2> QED
    BY <1>5, <2>7 DEF Relaying!Next
<1> QED
  BY <1>1, <1>9, <1>10

\* Logins, answered challenges, ended channels and what happens on a socket.
LEMMA OthersRefine ==
  ASSUME RelayedInv, RelayedInv',
         Binding \/ Emptying \/ Proving \/ \E c \in Conn : OnSocket(c)
  PROVE  Relaying!Next \/ UNCHANGED Relaying!vars
<1>1. CASE Binding
  <2>1. UNCHANGED <<proved, sent, chQueue, outbox>>
    BY <1>1 DEF Binding
  <2> QED
    BY <2>1 DEF Relaying!vars, Queued, Written, Relayed
<1>2. CASE Proving
  <2>1. UNCHANGED <<sent, chQueue, outbox>>
    BY <1>2 DEF Proving
  <2>2. Queued' = Queued /\ Written' = Written
    BY <2>1 DEF Queued, Written, Relayed
  <2>3. ASSUME NEW c \in Conn, NEW d \in Diddy,
               proved' = [proved EXCEPT ![c] = proved[c] \cup {d}]
        PROVE  Relaying!Next
    <3>1. Relaying!Login(c, d)
      BY <2>1, <2>2, <2>3 DEF Relaying!Login
    <3> QED
      BY <3>1 DEF Relaying!Next
  <2> QED
    BY <1>2, <2>1, <2>2, <2>3 DEF Proving, Relaying!vars
<1>3. CASE Emptying
  <2>1. Written' = Written
    BY <1>3 DEF Emptying, Written, Relayed
  <2>2. Queued' \subseteq Queued
    <3>1. ASSUME NEW r, r \in Queued' PROVE r \in Queued
      <4>1. PICK g \in Chan : \E i \in DOMAIN chQueue'[g] : r = Bare(chQueue'[g][i])
        BY <3>1 DEF Queued
      <4>2. chQueue'[g] = chQueue[g]
        BY <1>3, <4>1 DEF Emptying
      <4> QED
        BY <4>1, <4>2 DEF Queued
    <3> QED
      BY <3>1
  <2>3. Relaying!Take
    BY <1>3, <2>1, <2>2, WrittenType DEF Emptying, Relaying!Take
  <2> QED
    BY <2>3 DEF Relaying!Next
<1>4. ASSUME NEW c \in Conn, OnSocket(c) PROVE Relaying!Next
  <2>1. UNCHANGED <<proved, sent, chQueue>>
    BY <1>4 DEF OnSocket
  <2>2. \A e \in Conn : \A i \in Relayed(e)' :
          \E k \in Relayed(e) : outbox'[e][i] = outbox[e][k]
    BY <1>4, SocketShape DEF RelayedInv, SafetyInv
  <2>3. \A e \in Conn : Written'[e] \subseteq Written[e]
    BY <2>2 DEF Written
  <2>4. Queued' = Queued
    BY <2>1 DEF Queued
  <2>5. Written' \in [Conn -> SUBSET Relaying!Packet]
    BY WrittenType, <2>3 DEF Written
  <2>6. Relaying!Take
    BY <2>1, <2>3, <2>4, <2>5 DEF Relaying!Take
  <2> QED
    BY <2>6 DEF Relaying!Next
<1> QED
  BY <1>1, <1>2, <1>3, <1>4

\* Every step of the server is a step of Switchboard or leaves it as it is.
THEOREM RelaysAsPromisedHolds == Spec => RelaysAsPromised
<1>1. Init => Relaying!Init
  <2> SUFFICES ASSUME Init PROVE Relaying!Init
    OBVIOUS
  <2>1. Queued = {}
    BY DEF Init, Queued
  <2>2. Written = [c \in Conn |-> {}]
    BY DEF Init, Written, Relayed
  <2>3. 1..sent = {}
    BY DEF Init
  <2> QED
    BY <2>1, <2>2, <2>3 DEF Init, Relaying!Init
<1>2. RelayedInv /\ RelayedInv' /\ [Next]_vars => [Relaying!Next]_(Relaying!vars)
  <2> SUFFICES ASSUME RelayedInv, RelayedInv', [Next]_vars
               PROVE  Relaying!Next \/ UNCHANGED Relaying!vars
    OBVIOUS
  <2>1. SafetyInv
    BY DEF RelayedInv
  <2> QED
    BY <2>1, RelayCases, AcceptingRefines, WritingRefines, OthersRefine
<1> QED
  BY <1>1, <1>2, RelayedInvariant, PTL DEF Spec, RelaysAsPromised, Relaying!Spec

=============================================================================
