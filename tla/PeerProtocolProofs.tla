------------------------- MODULE PeerProtocolProofs -------------------------
(***************************************************************************)
(* Proof that the two ends of a PeerSession never meet a packet they do not *)
(* expect, for any number of sessions and whatever breaks: each packet has  *)
(* a place in its session, a reader knows which place is due, and a writer  *)
(* which comes next.  So the two never wait for each other, either.         *)
(***************************************************************************)
EXTENDS PeerDeliveryProofs

-----------------------------------------------------------------------------
(* The inductive invariant *)

Role(e) == IF caller[Sess(e)] = At(e) THEN "caller" ELSE "listener"
Other(r) == IF r = "caller" THEN "listener" ELSE "caller"

\* The ends that read, or are about to.
Live == DOMAIN Expected \cup {"giving"}

\* The type at a place: the caller begins, so what a caller gets begins at 2.
Kind(r, k) ==
  IF k = 1 THEN "HandshakeInit"
  ELSE IF k = 2 THEN (IF r = "caller" THEN "Challenge" ELSE "ChallengeResponse")
  ELSE IF k = 3 THEN "SyncRequest"
  ELSE IF k = 4 THEN "SyncGive" ELSE "Message"

\* The place an end reads at, and the one it writes at.
Due(p) ==
  IF p = "init" THEN 1
  ELSE IF p \in {"challenge", "response"} THEN 2
  ELSE IF p = "request" THEN 3
  ELSE IF p \in {"giving", "give"} THEN 4 ELSE 5
Put(p) ==
  IF p \in {"init", "challenge"} THEN 2
  ELSE IF p = "response" THEN 3
  ELSE IF p = "request" THEN 4 ELSE 5

RoleInv ==
  \A e \in End :
    /\ pc[e] = "challenge" => Role(e) = "caller"
    /\ pc[e] \in {"init", "response"} => Role(e) = "listener"
    /\ pc[e] = "off" => wire[e] = <<>>

KindInv ==
  \A e \in End : pc[e] \in Live =>
    \A i \in DOMAIN wire[e] :
      wire[e][i].type = Kind(Role(e), Due(pc[e]) + i - 1)

\* As long as a connection holds, nothing was lost on it.
CountInv ==
  \A e \in End : Sess(e) \notin broken /\ pc[Far(e)] \in Live =>
    /\ pc[e] \in Live /\ Put(pc[e]) < 5 =>
         Due(pc[Far(e)]) + Len(wire[Far(e)]) = Put(pc[e])
    /\ (pc[e] \in Live /\ Put(pc[e]) = 5) \/ send[e] # "off" =>
         Due(pc[Far(e)]) + Len(wire[Far(e)]) >= 5

ProtocolInv == DeliveryInv /\ RoleInv /\ KindInv /\ CountInv

\* Reading moves the place and the wire together,
LEMMA ReadPlace ==
  ASSUME NEW d \in Nat, NEW l \in Nat
  PROVE  (d + 1) + (l - 1) = d + l
OBVIOUS

\* and what is written at place w is read there.
LEMMA WritePlace ==
  ASSUME NEW w \in Nat, NEW k \in Nat, NEW l \in Nat, NEW j \in Nat, w = k + l
  PROVE  w + (j - l) - 1 = k + j - 1
OBVIOUS

\* Places are numbers, and what is expected is what has the place.
LEMMA PlaceFacts ==
  /\ \A p : Due(p) \in {1, 2, 3, 4, 5} /\ Put(p) \in {2, 3, 4, 5}
  /\ Live = {"init", "challenge", "response", "request", "give", "chat", "giving"}
  /\ \A p \in DOMAIN Expected, r \in {"caller", "listener"} :
       /\ p = "challenge" => r = "caller"
       /\ p \in {"init", "response"} => r = "listener"
       => Expected[p] = Kind(r, Due(p))
  /\ \A r, k : k \in Nat /\ k >= 5 => Kind(r, k) = "Message"
<1>1. Live = {"init", "challenge", "response", "request", "give", "chat", "giving"}
  BY DEF Live, Expected
<1>2. ASSUME NEW p \in DOMAIN Expected, NEW r \in {"caller", "listener"},
             p = "challenge" => r = "caller",
             p \in {"init", "response"} => r = "listener"
      PROVE  Expected[p] = Kind(r, Due(p))
  BY <1>2 DEF Expected, Kind, Due
<1>3. \A p : Due(p) \in {1, 2, 3, 4, 5}
  BY DEF Due
<1>4. \A p : Put(p) \in {2, 3, 4, 5}
  BY DEF Put
<1>5. \A r, k : k \in Nat /\ k >= 5 => Kind(r, k) = "Message"
  BY DEF Kind
<1> QED
  BY <1>1, <1>2, <1>3, <1>4, <1>5

\* The two ends have different roles.
LEMMA RoleFacts ==
  ASSUME TypeOK, NEW e \in End
  PROVE  caller[Sess(e)] # None => Role(Far(e)) = Other(Role(e))
<1>1. /\ Sess(Far(e)) = Sess(e) /\ Sess(e) \in Session
      /\ At(e) \in Node /\ At(Far(e)) = Peer(At(e)) /\ At(Far(e)) # At(e)
  BY EndFacts
<1>2. caller[Sess(e)] # None => caller[Sess(e)] = At(e) \/ caller[Sess(e)] = Peer(At(e))
  BY <1>1, PeerFacts DEF TypeOK
<1> QED
  BY <1>1, <1>2 DEF Role, Other

-----------------------------------------------------------------------------
(* The steps *)

\* Ends stop, wires are emptied, lines are drafted and marked.
LEMMA IdleProtocol ==
  ASSUME ProtocolInv, caller' = caller, broken \subseteq broken',
         \A f \in End :
           /\ \/ pc'[f] = pc[f] \/ pc'[f] = "ended"
              \/ (pc[f] = "giving" /\ pc'[f] = "give")
           /\ \/ wire'[f] = wire[f]
              \/ wire'[f] = <<>> /\ (pc'[f] \notin Live \/ Sess(f) \in broken')
           /\ send'[f] # "off" => send[f] # "off"
  PROVE  RoleInv' /\ KindInv' /\ CountInv'
<1>1. \A f \in End :
        /\ pc'[f] \in Live => pc[f] \in Live /\ Due(pc'[f]) = Due(pc[f])
                              /\ Put(pc'[f]) = Put(pc[f])
        /\ Role(f)' = Role(f)
  BY PlaceFacts DEF Due, Put, Role
<1>2. RoleInv'
  BY <1>1 DEF ProtocolInv, RoleInv
<1>3. KindInv'
  <2> SUFFICES ASSUME NEW f \in End, pc'[f] \in Live, NEW i \in DOMAIN wire'[f]
               PROVE  wire'[f][i].type = Kind(Role(f), Due(pc'[f]) + i - 1)
    BY <1>1 DEF KindInv
  <2>1. wire'[f] = wire[f]
    OBVIOUS
  <2> QED
    BY <1>1, <2>1 DEF ProtocolInv, KindInv
<1>4. CountInv'
  <2> SUFFICES ASSUME NEW e \in End, Sess(e) \notin broken', pc'[Far(e)] \in Live
               PROVE  /\ pc'[e] \in Live /\ Put(pc'[e]) < 5 =>
                           Due(pc'[Far(e)]) + Len(wire'[Far(e)]) = Put(pc'[e])
                      /\ (pc'[e] \in Live /\ Put(pc'[e]) = 5) \/ send'[e] # "off" =>
                           Due(pc'[Far(e)]) + Len(wire'[Far(e)]) >= 5
    BY DEF CountInv
  <2>1. Far(e) \in End /\ Sess(Far(e)) = Sess(e)
    BY EndFacts
  <2>2. wire'[Far(e)] = wire[Far(e)]
    BY <2>1
  <2> QED
    BY <1>1, <2>1, <2>2 DEF ProtocolInv, CountInv
<1> QED
  BY <1>2, <1>3, <1>4

\* An end reads the packet that is due, place d, and writes the next, from place
\* w on.
Advances(e, qs, d, w) ==
  /\ wire[e] # <<>>
  /\ pc[e] \in Live /\ Due(pc[e]) = d /\ Put(pc[e]) = w
  /\ pc'[e] \in Live /\ Due(pc'[e]) = d + 1 /\ Put(pc'[e]) = w + Len(qs)
  /\ pc'[e] \notin {"init", "challenge"}
  /\ pc'[e] = "response" => pc[e] = "init"
  /\ send'[e] # "off" => send[e] # "off" \/ pc'[e] = "chat"
  /\ \A f \in End : f # e => pc'[f] = pc[f] /\ send'[f] = send[f]
  /\ \A i \in DOMAIN qs : qs[i].type = Kind(Other(Role(e)), w + i - 1)
  /\ UNCHANGED <<caller, broken>>
  /\ wire' = [f \in End |->
                IF f = e THEN Tail(wire[e])
                ELSE IF f = Far(e) /\ Connected(e) THEN wire[f] \o qs ELSE wire[f]]

\* The places stay right.
LEMMA ExchangeProtocol ==
  ASSUME ProtocolInv, NEW e \in End, NEW qs \in Seq(Packet),
         NEW d \in Nat, NEW w \in Nat, Advances(e, qs, d, w)
  PROVE  RoleInv' /\ KindInv' /\ CountInv'
<1> PICK x \in End : x = Far(e)
  BY EndFacts
<1>1. /\ TypeOK /\ x # e /\ Far(x) = e /\ Far(e) = x /\ Sess(x) = Sess(e)
      /\ \A f \in End : wire[f] \in Seq(Packet)
      /\ \A f \in End : f # e /\ f # x => Far(f) # e /\ Far(f) # x /\ Far(f) \in End
  BY EndFacts DEF ProtocolInv, DeliveryInv, PeerInv, TypeOK
<1>2. /\ wire'[e] = Tail(wire[e])
      /\ Connected(e) => wire'[x] = wire[x] \o qs
      /\ ~Connected(e) => wire'[x] = wire[x]
      /\ \A f \in End : f # e /\ f # x => wire'[f] = wire[f]
  BY <1>1 DEF Advances
<1>3. pc[e] # "off" /\ caller[Sess(e)] # None
  BY PlaceFacts DEF Advances, ProtocolInv, DeliveryInv, StageInv
<1>4. Role(x) = Other(Role(e)) /\ \A f \in End : Role(f)' = Role(f)
  BY <1>1, <1>3, RoleFacts DEF Role, Advances
<1>5. Sess(e) \notin broken /\ pc[x] \in Live => Connected(e)
  BY <1>1, PlaceFacts DEF Connected, Holds
<1>6. /\ wire[e] # <<>> /\ pc[e] \in Live /\ pc'[e] \in Live
      /\ Due(pc[e]) = d /\ Due(pc'[e]) = d + 1
      /\ Put(pc[e]) = w /\ Put(pc'[e]) = w + Len(qs)
      /\ send'[e] # "off" => send[e] # "off" \/ pc'[e] = "chat"
  BY DEF Advances
<1>0. PICK le \in Nat, lx \in Nat, lq \in Nat :
             le = Len(wire[e]) /\ le > 0 /\ lx = Len(wire[x]) /\ lq = Len(qs)
  BY <1>1, <1>6
<1>7. /\ Len(wire'[e]) = le - 1
      /\ \A i \in DOMAIN wire'[e] :
           i \in Nat /\ i + 1 \in DOMAIN wire[e] /\ wire'[e][i] = wire[e][i + 1]
  BY <1>0, <1>1, <1>2
<1>8. ASSUME Connected(e)
      PROVE  /\ Len(wire'[x]) = lx + lq
             /\ \A i \in DOMAIN wire'[x] :
                  /\ i \in Nat
                  /\ \/ i \in DOMAIN wire[x] /\ wire'[x][i] = wire[x][i]
                     \/ /\ i - lx \in DOMAIN qs /\ i - lx \in Nat /\ lq > 0
                        /\ wire'[x][i] = qs[i - lx]
  <2>1. wire'[x] = wire[x] \o qs
    BY <1>2, <1>8
  <2>2. /\ DOMAIN wire[x] = 1..lx /\ DOMAIN qs = 1..lq
        /\ Len(wire[x] \o qs) = lx + lq /\ DOMAIN (wire[x] \o qs) = 1..(lx + lq)
        /\ \A i \in 1..(lx + lq) :
             (wire[x] \o qs)[i] = IF i <= lx THEN wire[x][i] ELSE qs[i - lx]
    BY <1>0, <1>1
  <2> QED
    BY <2>1, <2>2
<1>9. RoleInv'
  <2> SUFFICES ASSUME NEW f \in End
               PROVE  /\ pc'[f] = "challenge" => Role(f) = "caller"
                      /\ pc'[f] \in {"init", "response"} => Role(f) = "listener"
                      /\ pc'[f] = "off" => wire'[f] = <<>>
    BY <1>4 DEF RoleInv
  <2>1. CASE f = e
    BY <2>1, PlaceFacts DEF ProtocolInv, RoleInv, Advances
  <2>2. CASE f = x
    <3>1. pc[x] = "off" => ~Connected(e)
      BY <1>1, <1>3 DEF ProtocolInv, DeliveryInv, StageInv
    <3> QED
      BY <1>1, <1>2, <2>2, <3>1 DEF ProtocolInv, RoleInv, Advances
  <2>3. CASE f # e /\ f # x
    BY <1>2, <2>3 DEF ProtocolInv, RoleInv, Advances
  <2> QED
    BY <2>1, <2>2, <2>3
<1>10. KindInv'
  <2> SUFFICES ASSUME NEW f \in End, pc'[f] \in Live, NEW i \in DOMAIN wire'[f]
               PROVE  wire'[f][i].type = Kind(Role(f), Due(pc'[f]) + i - 1)
    BY <1>4 DEF KindInv
  <2>1. CASE f = e
    <3>1. i + 1 \in DOMAIN wire[e] /\ wire'[e][i] = wire[e][i + 1] /\ i \in Nat
      BY <1>7, <2>1
    <3>2. wire[e][i + 1].type = Kind(Role(e), d + (i + 1) - 1)
      BY <3>1 DEF ProtocolInv, KindInv, Advances
    <3>3. d + (i + 1) - 1 = (d + 1) + i - 1
      BY <3>1
    <3> QED
      BY <2>1, <3>1, <3>2, <3>3 DEF Advances
  <2>2. CASE f = x /\ Connected(e)
    <3>1. pc[x] \in Live /\ pc'[x] = pc[x]
      BY <1>1, <2>2 DEF Advances
    <3>2. CASE i \in DOMAIN wire[x] /\ wire'[x][i] = wire[x][i]
      BY <2>2, <3>1, <3>2 DEF ProtocolInv, KindInv
    <3>3. CASE /\ i - lx \in DOMAIN qs /\ i - lx \in Nat /\ lq > 0
               /\ wire'[x][i] = qs[i - lx]
      <4>1. w < 5
        BY <1>0, <1>6, <3>3, PlaceFacts
      <4>2. Due(pc[x]) + lx = w
        BY <1>0, <1>1, <2>2, <3>1, <4>1 DEF ProtocolInv, CountInv, Connected, Advances
      <4>3. PICK k \in Nat : k = Due(pc[x])
        BY PlaceFacts
      <4>4. i \in Nat
        BY <1>8, <2>2
      <4>5. w + (i - lx) - 1 = k + i - 1
        <5>1. w = k + lx
          BY <4>2, <4>3
        <5> QED
          BY <4>4, <5>1
      <4>6. wire'[x][i].type = Kind(Other(Role(e)), w + (i - lx) - 1)
        BY <3>3 DEF Advances
      <4> QED
        BY <1>4, <2>2, <3>1, <4>3, <4>5, <4>6
    <3> QED
      BY <1>8, <2>2, <3>2, <3>3
  <2>3. CASE f # e /\ (f = x => ~Connected(e))
    <3>1. wire'[f] = wire[f] /\ pc'[f] = pc[f]
      BY <1>2, <2>3 DEF Advances
    <3> QED
      BY <3>1 DEF ProtocolInv, KindInv
  <2> QED
    BY <2>1, <2>2, <2>3
<1>11. CountInv'
  <2> SUFFICES ASSUME NEW f \in End, Sess(f) \notin broken, pc'[Far(f)] \in Live
               PROVE  /\ pc'[f] \in Live /\ Put(pc'[f]) < 5 =>
                           Due(pc'[Far(f)]) + Len(wire'[Far(f)]) = Put(pc'[f])
                      /\ (pc'[f] \in Live /\ Put(pc'[f]) = 5) \/ send'[f] # "off" =>
                           Due(pc'[Far(f)]) + Len(wire'[Far(f)]) >= 5
    BY DEF CountInv, Advances
  <2>1. CASE f = e
    <3>1. Far(f) = x /\ pc'[x] = pc[x] /\ pc[x] \in Live /\ Connected(e)
      BY <1>1, <1>5, <2>1 DEF Advances
    <3>2. PICK k \in Nat : k = Due(pc[x])
      BY PlaceFacts
    <3>3. (w < 5 => k + lx = w) /\ (w = 5 => k + lx >= 5) /\ w <= 5
      <4>1. /\ w < 5 => k + lx = w
            /\ w = 5 => k + lx >= 5
        BY <1>0, <1>6, <2>1, <3>1, <3>2 DEF ProtocolInv, CountInv
      <4>2. w \in {2, 3, 4, 5}
        BY <1>6, PlaceFacts
      <4> QED
        BY <4>1, <4>2
    <3>4. Len(wire'[x]) = lx + lq
      BY <1>8, <3>1
    <3>5. send[e] # "off" \/ pc'[e] = "chat" => w + lq = 5
      <4>1. send[e] # "off" => pc[e] = "chat"
        <5>1. pc[e] # "ended"
          BY <1>6, PlaceFacts
        <5> QED
          BY <5>1 DEF ProtocolInv, DeliveryInv, StageInv
      <4>2. Due("chat") = 5 /\ Put("chat") = 5
        BY DEF Due, Put
      <4> QED
        <5>1. CASE pc'[e] = "chat"
          BY <1>0, <1>6, <4>2, <5>1
        <5>2. CASE send[e] # "off"
          <6>1. w = 5 /\ w + lq \in {2, 3, 4, 5}
            BY <1>0, <1>6, <4>1, <4>2, <5>2, PlaceFacts
          <6> QED
            BY <6>1
        <5> QED
          BY <5>1, <5>2
    <3>6. /\ w + lq < 5 => k + (lx + lq) = w + lq
          /\ w + lq = 5 => k + (lx + lq) >= 5
      BY <3>3
    <3> QED
      BY <1>0, <1>6, <2>1, <3>1, <3>2, <3>4, <3>5, <3>6
  <2>2. CASE f = x
    <3>1. Far(f) = e /\ pc'[f] = pc[f] /\ send'[f] = send[f]
      BY <1>1, <2>2 DEF Advances
    <3>2. (d + 1) + (le - 1) = d + le
      BY ReadPlace, Zenon
    <3>3. Due(pc'[e]) + Len(wire'[e]) = Due(pc[e]) + Len(wire[e])
      BY <1>0, <1>7, <3>2 DEF Advances
    <3> QED
      BY <2>2, <3>1, <3>3 DEF ProtocolInv, CountInv, Advances
  <2>3. CASE f # e /\ f # x
    <3>1. /\ pc'[Far(f)] = pc[Far(f)] /\ wire'[Far(f)] = wire[Far(f)]
          /\ pc'[f] = pc[f] /\ send'[f] = send[f]
      BY <1>1, <1>2, <2>3 DEF Advances
    <3> QED
      BY <3>1 DEF ProtocolInv, CountInv
  <2> QED
    BY <2>1, <2>2, <2>3
<1> QED
  BY <1>9, <1>10, <1>11

\* Handshake and synchronisation follow the places: a read, and what it answers.
LEMMA AdvanceProtocol ==
  ASSUME ProtocolInv, NEW e \in End,
         \/ ReceiveInit(e) \/ ReceiveChallenge(e) \/ ReceiveResponse(e)
         \/ ReceiveSyncRequest(e) \/ ReceiveSyncGive(e)
  PROVE  RoleInv' /\ KindInv' /\ CountInv'
<1>1. /\ TypeOK /\ At(e) \in Node /\ Far(e) \in End /\ Far(e) # e
      /\ \A f \in End : wire[f] \in Seq(Packet) /\ wire[f] \o <<>> = wire[f]
      /\ wire[e] # <<>>
  <2>1. /\ TypeOK /\ At(e) \in Node /\ Far(e) \in End /\ Far(e) # e
    BY EndFacts DEF ProtocolInv, DeliveryInv, PeerInv
  <2>2. \A f \in End : wire[f] \in Seq(Packet) /\ wire[f] \o <<>> = wire[f]
    BY <2>1 DEF TypeOK
  <2>3. wire[e] # <<>>
    BY DEF ReceiveInit, ReceiveChallenge, ReceiveResponse, ReceiveSyncRequest,
         ReceiveSyncGive, Reads
  <2> QED
    BY <2>1, <2>2, <2>3
<1>2. /\ pc[e] = "challenge" => Role(e) = "caller"
      /\ pc[e] \in {"init", "response"} => Role(e) = "listener"
  BY DEF ProtocolInv, RoleInv
<1>3. /\ Due("init") = 1 /\ Put("init") = 2
      /\ Due("challenge") = 2 /\ Put("challenge") = 2
      /\ Due("response") = 2 /\ Put("response") = 3
      /\ Due("request") = 3 /\ Put("request") = 4
      /\ Due("giving") = 4 /\ Put("giving") = 5
      /\ Due("give") = 4 /\ Put("give") = 5
      /\ Due("chat") = 5 /\ Put("chat") = 5
  BY DEF Due, Put
<1>4. /\ Kind(Other("listener"), 2) = "Challenge"
      /\ Kind(Other("caller"), 2) = "ChallengeResponse"
      /\ \A r : Kind(r, 3) = "SyncRequest" /\ Kind(r, 4) = "SyncGive"
  BY DEF Kind, Other
<1>5. ASSUME NEW q \in Packet, Answer(e, q)
      PROVE  wire' = [f \in End |->
                IF f = e THEN Tail(wire[e])
                ELSE IF f = Far(e) /\ Connected(e) THEN wire[f] \o <<q>> ELSE wire[f]]
  <2>1. wire[Far(e)] \o <<q>> = Append(wire[Far(e)], q)
    BY <1>1, AppendIsConcat
  <2> QED
    BY <1>1, <1>5, <2>1, AnswerShape
<1>6. /\ UNCHANGED <<caller, broken>>
      /\ \A f \in End : f # e => pc'[f] = pc[f] /\ send'[f] = send[f]
  BY <1>1 DEF ReceiveInit, ReceiveChallenge, ReceiveResponse, ReceiveSyncRequest,
       ReceiveSyncGive, TypeOK, ghosts
<1>7. CASE ReceiveInit(e)
  <2> DEFINE q == Plain("Challenge")
  <2>1. /\ pc[e] = "init" /\ pc'[e] = "response" /\ send' = send /\ Answer(e, q)
    BY <1>1, <1>7 DEF ReceiveInit, Reads, TypeOK
  <2>2. q \in Packet /\ q.type = "Challenge"
    BY PacketFacts
  <2> HIDE DEF q
  <2>3. Len(<<q>>) = 1 /\ DOMAIN <<q>> = {1} /\ <<q>>[1] = q /\ <<q>> \in Seq(Packet)
    BY <2>2
  <2>4. Advances(e, <<q>>, 1, 2)
    BY <1>1, <1>2, <1>3, <1>4, <1>5, <1>6, <2>1, <2>2, <2>3, PlaceFacts DEF Advances
  <2> QED
    BY <2>3, <2>4, ExchangeProtocol
<1>8. CASE ReceiveChallenge(e)
  <2> DEFINE a == Plain("ChallengeResponse")
             b == SyncRequest(LatestTimestamp(At(e)))
  <2>1. /\ pc[e] = "challenge" /\ pc'[e] = "request" /\ send' = send
        /\ wire' = [wire EXCEPT ![e] = Tail(@),
                     ![Far(e)] = IF Connected(e) THEN @ \o <<a, b>> ELSE @]
    BY <1>1, <1>8 DEF ReceiveChallenge, Reads, TypeOK
  <2>2. /\ a \in Packet /\ a.type = "ChallengeResponse"
        /\ b \in Packet /\ b.type = "SyncRequest"
    BY <1>1, PacketFacts, LatestType
  <2> HIDE DEF a, b
  <2>3. /\ Len(<<a, b>>) = 2 /\ DOMAIN <<a, b>> = {1, 2}
        /\ <<a, b>>[1] = a /\ <<a, b>>[2] = b /\ <<a, b>> \in Seq(Packet)
    BY <2>2
  <2>4. wire' = [f \in End |-> IF f = e THEN Tail(wire[e])
                   ELSE IF f = Far(e) /\ Connected(e) THEN wire[f] \o <<a, b>>
                   ELSE wire[f]]
    BY <1>1, <2>1 DEF TypeOK
  <2>5. \A i \in DOMAIN <<a, b>> : <<a, b>>[i].type = Kind(Other(Role(e)), 2 + i - 1)
    <3>1. 2 + 1 - 1 = 2 /\ 2 + 2 - 1 = 3
      OBVIOUS
    <3>2. a.type = Kind(Other(Role(e)), 2) /\ b.type = Kind(Other(Role(e)), 3)
      BY <1>2, <1>4, <2>1, <2>2
    <3> QED
      BY <2>3, <3>1, <3>2
  <2>6. wire[e] # <<>> /\ "challenge" \in Live /\ "request" \in Live
    BY <1>1, PlaceFacts
  <2>7. /\ Due(pc[e]) = 2 /\ Put(pc[e]) = 2 /\ Due(pc'[e]) = 2 + 1
        /\ Put(pc'[e]) = 2 + Len(<<a, b>>)
        /\ pc'[e] \notin {"init", "challenge", "response"} /\ send'[e] = send[e]
    BY <1>3, <2>1, <2>3
  <2>8. Advances(e, <<a, b>>, 2, 2)
    BY <1>6, <2>1, <2>4, <2>5, <2>6, <2>7, Zenon DEF Advances
  <2> QED
    BY <2>3, <2>8, ExchangeProtocol
<1>9. CASE ReceiveResponse(e)
  <2> DEFINE q == SyncRequest(LatestTimestamp(At(e)))
  <2>1. /\ pc[e] = "response" /\ pc'[e] = "request" /\ send' = send /\ Answer(e, q)
    BY <1>1, <1>9 DEF ReceiveResponse, Reads, TypeOK
  <2>2. q \in Packet /\ q.type = "SyncRequest"
    BY <1>1, PacketFacts, LatestType
  <2> HIDE DEF q
  <2>3. Len(<<q>>) = 1 /\ DOMAIN <<q>> = {1} /\ <<q>>[1] = q /\ <<q>> \in Seq(Packet)
    BY <2>2
  <2>4. Advances(e, <<q>>, 2, 3)
    BY <1>1, <1>2, <1>3, <1>4, <1>5, <1>6, <2>1, <2>2, <2>3, PlaceFacts DEF Advances
  <2> QED
    BY <2>3, <2>4, ExchangeProtocol
<1>10. CASE ReceiveSyncRequest(e)
  <2> DEFINE cs == Missed(At(e), Head(wire[e]).ts)
             q == SyncGive(cs)
  <2>1. /\ pc[e] = "request" /\ pc'[e] = "giving" /\ send' = send /\ Answer(e, q)
    BY <1>1, <1>10 DEF ReceiveSyncRequest, Reads, TypeOK
  <2>2. cs \in SUBSET ChatMessage
    BY <1>1, MissedType
  <2> HIDE DEF cs
  <2>3. q \in Packet /\ q.type = "SyncGive"
    BY <2>2, PacketFacts
  <2> HIDE DEF q
  <2>4. Len(<<q>>) = 1 /\ DOMAIN <<q>> = {1} /\ <<q>>[1] = q /\ <<q>> \in Seq(Packet)
    BY <2>3
  <2>5. Advances(e, <<q>>, 3, 4)
    BY <1>1, <1>2, <1>3, <1>4, <1>5, <1>6, <2>1, <2>3, <2>4, PlaceFacts DEF Advances
  <2> QED
    BY <2>4, <2>5, ExchangeProtocol
<1>11. CASE ReceiveSyncGive(e)
  <2>1. /\ pc[e] = "give" /\ pc'[e] = "chat" /\ Consume(e)
    BY <1>1, <1>11 DEF ReceiveSyncGive, Reads, TypeOK
  <2>2. wire' = [f \in End |-> IF f = e THEN Tail(wire[e])
                   ELSE IF f = Far(e) /\ Connected(e) THEN wire[f] \o <<>>
                   ELSE wire[f]]
    BY <1>1, <2>1 DEF Consume, TypeOK
  <2>3. Len(<<>>) = 0 /\ DOMAIN <<>> = {} /\ <<>> \in Seq(Packet)
    OBVIOUS
  <2>4. Advances(e, <<>>, 4, 5)
    BY <1>1, <1>3, <1>6, <2>1, <2>2, <2>3, PlaceFacts DEF Advances
  <2> QED
    BY <2>3, <2>4, ExchangeProtocol
<1> QED
  BY <1>7, <1>8, <1>9, <1>10, <1>11

\* A line is written only after everything else.
LEMMA TransmitProtocol ==
  ASSUME ProtocolInv, NEW e \in End, Transmit(e)
  PROVE  RoleInv' /\ KindInv' /\ CountInv'
<1> PICK x \in End : x = Far(e)
  BY EndFacts
<1>1. /\ TypeOK /\ x # e /\ Far(x) = e /\ Sess(x) = Sess(e)
      /\ \A f \in End : f # e => Far(f) # x
      /\ \A f \in End : Far(f) \in End
      /\ wire[x] \in Seq(Packet)
  BY EndFacts DEF ProtocolInv, DeliveryInv, PeerInv, TypeOK
<1> PICK q : q = Message(Chat(At(e), cur[e]))
  OBVIOUS
<1>2. q.type = "Message"
  BY DEF Message
<1>3. /\ UNCHANGED <<caller, pc, broken>>
      /\ \A f \in End : send'[f] # "off" <=> send[f] # "off"
      /\ send[e] # "off"
  BY <1>1 DEF Transmit, TypeOK
<1>4. /\ \A f \in End : f # x => wire'[f] = wire[f]
      /\ Connected(e) => wire'[x] = Append(wire[x], q)
      /\ ~Connected(e) => wire'[x] = wire[x]
  BY <1>1 DEF Transmit, Write, TypeOK
<1>5. pc[e] \in {"chat", "ended"} /\ pc[x] # "off"
  BY <1>1, <1>3 DEF ProtocolInv, DeliveryInv, StageInv
<1>6. \A f \in End : Role(f)' = Role(f)
  BY <1>3 DEF Role
<1>7. /\ Len(wire[x]) \in Nat
      /\ Len(wire'[x]) \in {Len(wire[x]), Len(wire[x]) + 1}
      /\ \A i \in DOMAIN wire'[x] :
           \/ i \in DOMAIN wire[x] /\ wire'[x][i] = wire[x][i]
           \/ Connected(e) /\ i = Len(wire[x]) + 1 /\ wire'[x][i] = q
  <2>1. CASE Connected(e)
    <3>1. /\ Len(Append(wire[x], q)) = Len(wire[x]) + 1 /\ Len(wire[x]) \in Nat
          /\ DOMAIN wire[x] = 1..Len(wire[x])
          /\ DOMAIN Append(wire[x], q) = 1..(Len(wire[x]) + 1)
          /\ \A i \in 1..(Len(wire[x]) + 1) :
               Append(wire[x], q)[i] = IF i <= Len(wire[x]) THEN wire[x][i] ELSE q
      BY <1>1
    <3> QED
      BY <1>4, <2>1, <3>1
  <2>2. CASE ~Connected(e)
    BY <1>1, <1>4, <2>2
  <2> QED
    BY <2>1, <2>2
<1>8. RoleInv'
  BY <1>3, <1>4, <1>5, <1>6 DEF ProtocolInv, RoleInv
<1>9. Connected(e) /\ pc[x] \in Live => Due(pc[x]) + Len(wire[x]) >= 5
  BY <1>3 DEF ProtocolInv, CountInv, Connected
<1>10. KindInv'
  <2> SUFFICES ASSUME NEW f \in End, pc[f] \in Live, NEW i \in DOMAIN wire'[f]
               PROVE  wire'[f][i].type = Kind(Role(f), Due(pc[f]) + i - 1)
    BY <1>3, <1>6 DEF KindInv
  <2>1. CASE i \in DOMAIN wire[f] /\ wire'[f][i] = wire[f][i]
    BY <2>1 DEF ProtocolInv, KindInv
  <2>2. CASE f = x /\ Connected(e) /\ i = Len(wire[x]) + 1 /\ wire'[x][i] = q
    <3>1. PICK k \in Nat : k = Due(pc[f])
      BY PlaceFacts
    <3>2. k + i - 1 \in Nat /\ k + i - 1 >= 5
      BY <1>7, <1>9, <2>2, <3>1
    <3>3. Kind(Role(f), k + i - 1) = "Message"
      BY <3>2, PlaceFacts
    <3> QED
      BY <1>2, <2>2, <3>1, <3>3
  <2> QED
    BY <1>4, <1>7, <2>1, <2>2
<1>11. CountInv'
  <2> SUFFICES ASSUME NEW f \in End, Sess(f) \notin broken, pc[Far(f)] \in Live
               PROVE  /\ pc[f] \in Live /\ Put(pc[f]) < 5 =>
                           Due(pc[Far(f)]) + Len(wire'[Far(f)]) = Put(pc[f])
                      /\ (pc[f] \in Live /\ Put(pc[f]) = 5) \/ send[f] # "off" =>
                           Due(pc[Far(f)]) + Len(wire'[Far(f)]) >= 5
    BY <1>3 DEF CountInv
  <2>1. CASE f = e
    <3>1. Put("chat") = 5 /\ "ended" \notin Live
      BY PlaceFacts DEF Put
    <3>2. PICK k \in Nat : k = Due(pc[x])
      BY PlaceFacts
    <3>3. k + Len(wire[x]) >= 5
      BY <1>1, <1>3, <2>1, <3>2 DEF ProtocolInv, CountInv
    <3>4. k + Len(wire'[x]) >= 5
      BY <1>7, <3>3
    <3> QED
      BY <1>5, <2>1, <3>1, <3>2, <3>4
  <2>2. CASE f # e
    <3>1. wire'[Far(f)] = wire[Far(f)]
      BY <1>1, <1>4, <2>2
    <3> QED
      BY <3>1 DEF ProtocolInv, CountInv
  <2> QED
    BY <2>1, <2>2
<1> QED
  BY <1>8, <1>10, <1>11

\* The chat reads its lines one by one.
LEMMA MessageProtocol ==
  ASSUME ProtocolInv, NEW e \in End, ReceiveMessage(e)
  PROVE  RoleInv' /\ KindInv' /\ CountInv'
<1>1. /\ TypeOK /\ wire[e] \in Seq(Packet) /\ wire[e] # <<>> /\ pc[e] = "chat"
      /\ UNCHANGED <<caller, pc, send, broken>>
      /\ \A f \in End : wire'[f] = IF f = e THEN Tail(wire[e]) ELSE wire[f]
  BY DEF ProtocolInv, DeliveryInv, PeerInv, TypeOK, ReceiveMessage, Reads, Consume
<1>2. Due("chat") = 5 /\ "chat" \in Live
  BY PlaceFacts DEF Due
<1>3. \A f \in End : Role(f)' = Role(f)
  BY <1>1 DEF Role
<1>4. /\ Len(Tail(wire[e])) \in Nat
      /\ \A i \in DOMAIN Tail(wire[e]) :
           i \in Nat \ {0} /\ i + 1 \in DOMAIN wire[e] /\ Tail(wire[e])[i] = wire[e][i + 1]
  BY <1>1
<1>5. RoleInv'
  BY <1>1, <1>3 DEF ProtocolInv, RoleInv
<1>6. KindInv'
  <2> SUFFICES ASSUME NEW f \in End, pc[f] \in Live, NEW i \in DOMAIN wire'[f]
               PROVE  wire'[f][i].type = Kind(Role(f), Due(pc[f]) + i - 1)
    BY <1>1, <1>3 DEF KindInv
  <2>1. CASE f = e
    <3>1. /\ i \in Nat \ {0} /\ wire'[e][i] = wire[e][i + 1]
          /\ wire[e][i + 1].type = Kind(Role(e), 5 + (i + 1) - 1)
      <4>1. /\ i \in Nat \ {0} /\ i + 1 \in DOMAIN wire[e]
            /\ wire'[e][i] = wire[e][i + 1]
        BY <1>1, <1>4, <2>1
      <4>2. wire[e][i + 1].type = Kind(Role(e), Due(pc[e]) + (i + 1) - 1)
        BY <1>1, <1>2, <4>1 DEF ProtocolInv, KindInv
      <4> QED
        BY <1>1, <1>2, <4>1, <4>2
    <3>2. /\ 5 + (i + 1) - 1 \in Nat /\ 5 + (i + 1) - 1 >= 5
          /\ 5 + i - 1 \in Nat /\ 5 + i - 1 >= 5
      BY <3>1
    <3>3. Kind(Role(e), 5 + i - 1) = Kind(Role(e), 5 + (i + 1) - 1)
      BY <3>2, PlaceFacts
    <3> QED
      BY <1>1, <1>2, <2>1, <3>1, <3>3
  <2>2. CASE f # e
    BY <1>1, <2>2 DEF ProtocolInv, KindInv
  <2> QED
    BY <2>1, <2>2
<1>7. CountInv'
  <2> SUFFICES ASSUME NEW f \in End, Sess(f) \notin broken, pc[Far(f)] \in Live
               PROVE  /\ pc[f] \in Live /\ Put(pc[f]) < 5 =>
                           Due(pc[Far(f)]) + Len(wire'[Far(f)]) = Put(pc[f])
                      /\ (pc[f] \in Live /\ Put(pc[f]) = 5) \/ send[f] # "off" =>
                           Due(pc[Far(f)]) + Len(wire'[Far(f)]) >= 5
    BY <1>1 DEF CountInv
  <2>1. CASE Far(f) = e
    <3>1. PICK l \in Nat : l = Len(wire[e])
      BY <1>1
    <3>2. PICK t \in Nat : t = Len(wire'[e])
      BY <1>1, <1>4
    <3>3. 5 + l >= 5 /\ 5 + t >= 5
      OBVIOUS
    <3>4. ~(pc[f] \in Live /\ Put(pc[f]) < 5)
      <4>1. PICK w \in Nat : w = Put(pc[f])
        BY PlaceFacts
      <4>2. pc[f] \in Live /\ w < 5 => 5 + l = w
        BY <1>1, <1>2, <2>1, <3>1, <4>1 DEF ProtocolInv, CountInv
      <4> QED
        BY <4>1, <4>2
    <3> QED
      BY <1>1, <1>2, <2>1, <3>2, <3>3, <3>4
  <2>2. CASE Far(f) # e
    <3>1. wire'[Far(f)] = wire[Far(f)]
      BY <1>1, <2>2, EndFacts
    <3> QED
      BY <3>1 DEF ProtocolInv, CountInv
  <2> QED
    BY <2>1, <2>2
<1> QED
  BY <1>5, <1>6, <1>7

\* A connection begins at the first place.
LEMMA ConnectProtocol ==
  ASSUME ProtocolInv, NEW e \in End, Connect(e)
  PROVE  RoleInv' /\ KindInv' /\ CountInv'
<1> PICK x \in End : x = Far(e)
  BY EndFacts
<1>1. /\ TypeOK /\ x # e /\ Far(x) = e /\ Far(e) = x /\ Sess(x) = Sess(e)
      /\ At(e) \in Node /\ At(x) # At(e)
      /\ \A f \in End : Sess(f) \in Session /\ Far(f) \in End
      /\ \A f \in End : f # e /\ f # x => Sess(f) # Sess(e) /\ Far(f) # e /\ Far(f) # x
  BY EndFacts DEF ProtocolInv, DeliveryInv, PeerInv
<1>2. /\ UNCHANGED <<send, broken>>
      /\ caller[Sess(e)] = None
      /\ \A s \in Session : caller'[s] = IF s = Sess(e) THEN At(e) ELSE caller[s]
      /\ \A f \in End : pc'[f] = IF f = e THEN "challenge"
                               ELSE IF f = x THEN "init" ELSE pc[f]
      /\ \A f \in End : wire'[f] = IF f = x THEN <<Plain("HandshakeInit")>> ELSE wire[f]
  BY <1>1 DEF Connect, TypeOK
<1>3. /\ Role(e)' = "caller" /\ Role(x)' = "listener"
      /\ \A f \in End : f # e /\ f # x => Role(f)' = Role(f)
  BY <1>1, <1>2 DEF Role
<1>4. /\ pc[e] = "off" /\ pc[x] = "off" /\ wire[e] = <<>>
      /\ send[e] = "off" /\ send[x] = "off"
  BY <1>1, <1>2 DEF ProtocolInv, DeliveryInv, StageInv, RoleInv
<1>5. /\ DOMAIN wire'[x] = {1} /\ Len(wire'[x]) = 1
      /\ wire'[x][1].type = "HandshakeInit"
      /\ DOMAIN wire'[e] = {} /\ Len(wire'[e]) = 0
  BY <1>1, <1>2, <1>4, PacketFacts
<1>6. /\ Due("init") = 1 /\ Put("init") = 2 /\ Due("challenge") = 2
      /\ Put("challenge") = 2 /\ Kind("listener", 1 + 1 - 1) = "HandshakeInit"
  BY DEF Due, Put, Kind
<1>7. RoleInv'
  BY <1>2, <1>3 DEF ProtocolInv, RoleInv
<1>8. KindInv'
  <2> SUFFICES ASSUME NEW f \in End, pc'[f] \in Live, NEW i \in DOMAIN wire'[f]
               PROVE  wire'[f][i].type = Kind(Role(f)', Due(pc'[f]) + i - 1)
    BY DEF KindInv
  <2>1. CASE f = x
    BY <1>1, <1>2, <1>3, <1>5, <1>6, <2>1
  <2>2. CASE f = e
    BY <1>5, <2>2
  <2>3. CASE f # e /\ f # x
    BY <1>2, <1>3, <2>3 DEF ProtocolInv, KindInv
  <2> QED
    BY <2>1, <2>2, <2>3
<1>9. CountInv'
  <2> SUFFICES ASSUME NEW f \in End, Sess(f) \notin broken, pc'[Far(f)] \in Live
               PROVE  /\ pc'[f] \in Live /\ Put(pc'[f]) < 5 =>
                           Due(pc'[Far(f)]) + Len(wire'[Far(f)]) = Put(pc'[f])
                      /\ (pc'[f] \in Live /\ Put(pc'[f]) = 5) \/ send[f] # "off" =>
                           Due(pc'[Far(f)]) + Len(wire'[Far(f)]) >= 5
    BY <1>2 DEF CountInv
  <2>1. CASE f = e
    <3>1. /\ Far(f) = x /\ pc'[f] = "challenge" /\ pc'[x] = "init"
          /\ Len(wire'[x]) = 1 /\ send[f] = "off"
      BY <1>1, <1>2, <1>4, <1>5, <2>1
    <3> QED
      BY <1>6, <3>1
  <2>2. CASE f = x
    <3>1. /\ Far(f) = e /\ pc'[f] = "init" /\ pc'[e] = "challenge"
          /\ Len(wire'[e]) = 0 /\ send[f] = "off"
      BY <1>1, <1>2, <1>4, <1>5, <2>2
    <3> QED
      BY <1>6, <3>1
  <2>3. CASE f # e /\ f # x
    <3>1. /\ pc'[f] = pc[f] /\ pc'[Far(f)] = pc[Far(f)] /\ wire'[Far(f)] = wire[Far(f)]
      BY <1>1, <1>2, <2>3
    <3> QED
      BY <3>1 DEF ProtocolInv, CountInv
  <2> QED
    BY <2>1, <2>2, <2>3
<1> QED
  BY <1>7, <1>8, <1>9

-----------------------------------------------------------------------------
(* The theorem *)

\* Every step keeps the invariant.
LEMMA ProtocolStep ==
  ASSUME ProtocolInv, [Next]_vars
  PROVE  ProtocolInv'
<1>1. DeliveryInv' /\ TypeOK
  BY DeliveryStep DEF ProtocolInv, DeliveryInv, PeerInv
<1>2. Live = {"init", "challenge", "response", "request", "give", "chat", "giving"}
  BY PlaceFacts
<1>3. ASSUME UNCHANGED vars PROVE RoleInv' /\ KindInv' /\ CountInv'
  BY <1>3, IdleProtocol DEF vars
<1>4. ASSUME NEW e \in End,
             \/ Given(e) \/ ReadFails(e) \/ ReadRefused(e) \/ Reject(e)
             \/ TransmitFails(e) \/ MarkNotPending(e) \/ EndOfInput(e)
             \/ \E l \in Line, t \in Time : Compose(e, l, t)
      PROVE  RoleInv' /\ KindInv' /\ CountInv'
  <2>1. CASE ReadFails(e) \/ ReadRefused(e) \/ Reject(e)
    <3>1. Quit(e)
      BY <2>1 DEF ReadFails, ReadRefused, Reject
    <3>2. /\ UNCHANGED <<caller, broken, send>>
          /\ \A f \in End : /\ pc'[f] = IF f = e THEN "ended" ELSE pc[f]
                            /\ wire'[f] = IF f = e THEN <<>> ELSE wire[f]
      BY <1>1, <3>1 DEF Quit, TypeOK
    <3> QED
      BY <1>2, <3>2, IdleProtocol
  <2>2. CASE Given(e)
    <3>1. /\ UNCHANGED <<caller, broken, send, wire>>
          /\ \A f \in End : \/ pc'[f] = pc[f]
                            \/ (pc[f] = "giving" /\ pc'[f] = "give")
      BY <1>1, <2>2 DEF Given, TypeOK
    <3> QED
      BY <3>1, IdleProtocol
  <2>3. CASE \/ TransmitFails(e) \/ MarkNotPending(e) \/ EndOfInput(e)
             \/ \E l \in Line, t \in Time : Compose(e, l, t)
    <3>1. /\ UNCHANGED <<caller, broken, pc, wire>>
          /\ \A f \in End : send'[f] # "off" => send[f] # "off"
      BY <1>1, <2>3 DEF TransmitFails, MarkNotPending, EndOfInput,
           Compose, TypeOK
    <3> QED
      BY <3>1, IdleProtocol
  <2> QED
    BY <1>4, <2>1, <2>2, <2>3
<1>5. ASSUME NEW s \in Session, Break(s) PROVE RoleInv' /\ KindInv' /\ CountInv'
  <2>1. /\ UNCHANGED <<caller, pc, send>> /\ broken' = broken \cup {s}
        /\ \A f \in End : wire'[f] = IF Sess(f) = s THEN <<>> ELSE wire[f]
    BY <1>5 DEF Break
  <2> QED
    BY <2>1, IdleProtocol
<1>6. ASSUME NEW n \in Node, Exit(n) PROVE RoleInv' /\ KindInv' /\ CountInv'
  <2>1. /\ UNCHANGED <<caller, broken>>
        /\ \A f \in End :
             /\ pc'[f] = IF At(f) = n /\ pc[f] # "off" THEN "ended" ELSE pc[f]
             /\ send'[f] = IF At(f) = n THEN "off" ELSE send[f]
             /\ wire'[f] = IF At(f) = n THEN <<>> ELSE wire[f]
    BY <1>6 DEF Exit
  <2>2. \A f \in End : At(f) = n => pc'[f] \in {"off", "ended"}
    BY <2>1
  <2> QED
    BY <1>2, <2>1, <2>2, IdleProtocol
<1>7. ASSUME NEW e \in End, Read(e) \/ Sending(e)
      PROVE  RoleInv' /\ KindInv' /\ CountInv'
  BY <1>4, <1>7, AdvanceProtocol, MessageProtocol, TransmitProtocol DEF Read, Sending
<1>8. ASSUME Next PROVE RoleInv' /\ KindInv' /\ CountInv'
  BY <1>4, <1>5, <1>6, <1>7, <1>8, ConnectProtocol DEF Next
<1> QED
  BY <1>1, <1>3, <1>8 DEF ProtocolInv

\* It holds at the start.
LEMMA ProtocolInit ==
  ASSUME Init
  PROVE  ProtocolInv
<1>1. DeliveryInv
  BY DeliveryInit
<1>2. \A e \in End : Far(e) \in End
  BY EndFacts
<1>3. "off" \notin Live
  BY PlaceFacts
<1>4. RoleInv /\ KindInv /\ CountInv
  BY <1>2, <1>3 DEF Init, RoleInv, KindInv, CountInv
<1> QED
  BY <1>1, <1>4 DEF ProtocolInv

\* The invariant of the protocol.
LEMMA ProtocolInvHolds == Spec => []ProtocolInv
<1>1. Init => ProtocolInv
  BY ProtocolInit
<1>2. ProtocolInv /\ [Next]_vars => ProtocolInv'
  BY ProtocolStep
<1> QED
  BY <1>1, <1>2, PTL DEF Spec

\* Both ends write their requests, offers and first chats before they have read
\* the other's, yet no read_packet of a handshake, of do_sync or of
\* messaging_loop ever returns another packet than the one awaited.
THEOREM PacketsAreExpected == Spec => []Synchronised
<1>1. ASSUME ProtocolInv PROVE Synchronised
  <2> SUFFICES ASSUME NEW e \in End, pc[e] \in DOMAIN Expected, wire[e] # <<>>
               PROVE  Head(wire[e]).type = Expected[pc[e]]
    BY DEF Synchronised
  <2>1. wire[e] \in Seq(Packet)
    BY <1>1 DEF ProtocolInv, DeliveryInv, PeerInv, TypeOK
  <2>2. 1 \in DOMAIN wire[e] /\ Head(wire[e]) = wire[e][1]
    BY <2>1
  <2>3. PICK k \in Nat : k = Due(pc[e])
    BY PlaceFacts
  <2>4. k + 1 - 1 = k
    OBVIOUS
  <2>5. wire[e][1].type = Kind(Role(e), k)
    BY <1>1, <2>2, <2>3, <2>4 DEF ProtocolInv, KindInv, Live
  <2>6. Expected[pc[e]] = Kind(Role(e), k)
    BY <1>1, <2>3, PlaceFacts DEF ProtocolInv, RoleInv, Role
  <2> QED
    BY <2>2, <2>5, <2>6
<1> QED
  BY <1>1, ProtocolInvHolds, PTL

\* Both ends of handle_incoming, handle_outgoing and do_sync wait for each other in
\* turn, yet never both at once: an empty socket means that the packet that is due
\* there is the very next one the other end writes (CountInv), so that end has not
\* read yet what it answers.
THEOREM NeverBothWaitHolds == Spec => []NeverBothWait
<1>1. ASSUME ProtocolInv PROVE NeverBothWait
  <2> SUFFICES ASSUME NEW e \in End, Awaits(e), wire[e] = <<>>, Connected(e)
               PROVE  Awaits(Far(e)) /\ wire[Far(e)] # <<>>
    BY DEF NeverBothWait
  <2> PICK x \in End : x = Far(e)
    BY EndFacts
  <2>1. /\ TypeOK /\ Far(x) = e /\ Sess(x) = Sess(e) /\ Sess(e) \notin broken
        /\ wire[x] \in Seq(Packet) /\ Len(wire[e]) = 0
    BY <1>1, EndFacts DEF ProtocolInv, DeliveryInv, PeerInv, TypeOK, Connected
  <2>2. /\ pc[e] \in {"init", "challenge", "response", "request", "give"}
        /\ pc[e] \in Live
    BY PlaceFacts DEF Awaits, Expected
  <2>3. Due(pc[e]) \in {1, 2, 3, 4}
    BY <2>2 DEF Due
  <2>4. /\ pc[x] \in Live /\ Put(pc[x]) < 5 => Due(pc[e]) = Put(pc[x])
        /\ ~(pc[x] \in Live /\ Put(pc[x]) = 5)
        /\ send[x] = "off"
    <3>1. PICK k \in {1, 2, 3, 4} : k = Due(pc[e])
      BY <2>3
    <3>2. k + 0 = k /\ ~(k + 0 >= 5)
      OBVIOUS
    <3> QED
      BY <1>1, <2>1, <2>2, <3>1, <3>2 DEF ProtocolInv, CountInv
  <2>5. pc[x] \in Live
    BY <2>1, <2>4, PlaceFacts DEF Connected, Holds, TypeOK, PC, Live
  <2>6. Put(pc[x]) < 5 /\ Due(pc[e]) = Put(pc[x])
    BY <2>4, <2>5, PlaceFacts
  <2>7. pc[x] \in {"init", "challenge", "response", "request"}
    BY <2>5, <2>6, PlaceFacts DEF Put
  <2>8. wire[x] # <<>>
    <3>1. SUFFICES ASSUME Len(wire[x]) = 0
                   PROVE  FALSE
      BY <2>1
    <3>2. PICK k \in {1, 2, 3, 4, 5} : k = Due(pc[x])
      BY PlaceFacts
    <3>3. /\ Put(pc[e]) < 5 => k + 0 = Put(pc[e])
          /\ Put(pc[e]) = 5 => k + 0 >= 5
      BY <1>1, <2>1, <2>2, <2>5, <3>1, <3>2 DEF ProtocolInv, CountInv
    <3>4. /\ Put(pc[e]) < 5 => k = Put(pc[e])
          /\ Put(pc[e]) = 5 => k = 5
      BY <3>3
    <3>5. k # 5
      BY <2>7, <3>2 DEF Due
    <3>6. Due(pc[x]) = Put(pc[e]) /\ pc[e] # "give"
      BY <3>2, <3>4, <3>5, PlaceFacts DEF Put
    <3>7. pc[x] = "challenge" /\ pc[e] = "challenge"
      BY <2>2, <2>6, <2>7, <3>6 DEF Due, Put
    <3>8. Role(e) = "caller" /\ Role(x) = "caller"
      BY <1>1, <3>7 DEF ProtocolInv, RoleInv
    <3> QED
      BY <2>1, <3>8, EndFacts DEF Role
  <2> QED
    BY <2>7, <2>8 DEF Awaits, Expected
<1> QED
  BY <1>1, ProtocolInvHolds, PTL

=============================================================================
