-------------------------- MODULE DiscoveryProofs --------------------------
(***************************************************************************)
(* Proofs about Discovery, for any diddys, lines, addresses and ports:     *)
(* type correctness, what a chat's questions are answered with and that    *)
(* they are, what is dialled, that the server's lines implement            *)
(* Switchboard, and under which keys what they carry is sealed.            *)
(***************************************************************************)
EXTENDS Discovery, TLAPS, SequenceTheorems

-----------------------------------------------------------------------------
(* Queues *)

\* Nothing is in an empty queue.
LEMMA EmptyRange == Range(<<>>) = {}
  BY DEF Range

\* What is in a longer queue.
LEMMA AppendRange ==
  ASSUME NEW S, NEW s \in Seq(S), NEW e \in S
  PROVE  Range(Append(s, e)) = Range(s) \cup {e}
<1>1. PICK n \in Nat : n = Len(s)
  BY LenProperties
<1>2. /\ Append(s, e) \in Seq(S) /\ Len(Append(s, e)) = n + 1
      /\ \A i \in 1..n : Append(s, e)[i] = s[i]
      /\ Append(s, e)[n + 1] = e
  BY <1>1, AppendProperties
<1>3. Range(Append(s, e)) = {Append(s, e)[i] : i \in 1..(n + 1)}
  BY <1>2, RangeEquality
<1>4. Range(s) = {s[i] : i \in 1..n}
  BY <1>1, RangeEquality
<1>5. 1..(n + 1) = 1..n \cup {n + 1}
  OBVIOUS
<1> QED
  BY <1>2, <1>3, <1>4, <1>5

\* A queue without its head.
LEMMA TailFacts ==
  ASSUME NEW S, NEW s \in Seq(S), s # <<>>
  PROVE  \E n \in Nat, t \in Seq(S) :
           /\ t = Tail(s) /\ DOMAIN t = 1..n /\ DOMAIN s = 1..(n + 1)
           /\ \A i \in 1..n : t[i] = s[i + 1]
           /\ Head(s) = s[1]
<1>1. Len(s) \in Nat \ {0} /\ DOMAIN s = 1..Len(s)
  BY EmptySeq, LenProperties
<1>2. PICK n \in Nat : n = Len(s) - 1
  <2>1. Len(s) - 1 \in Nat
    BY <1>1
  <2> QED
    BY <2>1
<1>3. n + 1 = Len(s)
  BY <1>1, <1>2
<1>4. /\ Tail(s) \in Seq(S) /\ Len(Tail(s)) = Len(s) - 1
      /\ \A i \in 1..Len(Tail(s)) : Tail(s)[i] = s[i + 1]
  BY HeadTailProperties
<1>5. DOMAIN Tail(s) = 1..Len(Tail(s))
  BY <1>4, LenProperties
<1>6. Head(s) = s[1]
  OBVIOUS
<1> QED
  BY <1>1, <1>2, <1>3, <1>4, <1>5, <1>6

\* What is in a queue is its head and what is behind it.
LEMMA TailRange ==
  ASSUME NEW S, NEW s \in Seq(S), s # <<>>
  PROVE  Range(s) = {Head(s)} \cup Range(Tail(s))
<1>1. PICK n \in Nat, t \in Seq(S) :
        /\ t = Tail(s) /\ DOMAIN t = 1..n /\ DOMAIN s = 1..(n + 1)
        /\ \A i \in 1..n : t[i] = s[i + 1]
        /\ Head(s) = s[1]
  BY TailFacts
<1>2. Range(s) = {s[i] : i \in 1..(n + 1)} /\ Range(t) = {t[i] : i \in 1..n}
  BY <1>1 DEF Range
<1>3. \A i \in 1..(n + 1) : i = 1 \/ \E j \in 1..n : i = j + 1
  <2> TAKE i \in 1..(n + 1)
  <2>1. i # 1 => i - 1 \in 1..n /\ i = (i - 1) + 1
    OBVIOUS
  <2> QED
    BY <2>1
<1>4. 1 \in 1..(n + 1) /\ \A j \in 1..n : j + 1 \in 1..(n + 1)
  OBVIOUS
<1>5. ASSUME NEW i \in 1..(n + 1) PROVE s[i] \in {Head(s)} \cup Range(t)
  <2>1. CASE i = 1
    BY <1>1, <2>1
  <2>2. CASE i # 1
    <3>1. PICK j \in 1..n : i = j + 1
      BY <1>3, <2>2
    <3>2. s[i] = t[j]
      BY <1>1, <3>1
    <3> QED
      BY <1>2, <3>1, <3>2
  <2> QED
    BY <2>1, <2>2
<1>6. Head(s) \in Range(s) /\ \A j \in 1..n : t[j] \in Range(s)
  BY <1>1, <1>2, <1>4
<1>7. Range(s) \subseteq {Head(s)} \cup Range(t)
  BY <1>2, <1>5
<1>8. {Head(s)} \cup Range(t) \subseteq Range(s)
  BY <1>2, <1>6
<1> QED
  BY <1>1, <1>7, <1>8

\* Behind what is in V there is nothing of Q.
Last(s, V, Q) ==
  \A i, j \in DOMAIN s : i < j /\ s[i] \in V => s[j] \notin Q

\* An empty queue, and one that has nothing of V.
LEMMA LastNone ==
  ASSUME NEW s, NEW V, NEW Q
  PROVE  Range(s) \cap V = {} => Last(s, V, Q)
  BY DEF Range, Last

\* Something is put behind what is there.
LEMMA LastAppend ==
  ASSUME NEW S, NEW s \in Seq(S), NEW e \in S, NEW V, NEW Q
  PROVE  Last(s, V, Q) /\ (e \in Q => Range(s) \cap V = {})
           => Last(Append(s, e), V, Q)
<1> SUFFICES ASSUME Last(s, V, Q), e \in Q => Range(s) \cap V = {}
             PROVE  Last(Append(s, e), V, Q)
  OBVIOUS
<1>1. PICK n \in Nat : n = Len(s) /\ DOMAIN s = 1..n
  BY LenProperties
<1>2. PICK t \in Seq(S) :
        /\ t = Append(s, e) /\ DOMAIN t = 1..(n + 1)
        /\ \A i \in 1..n : t[i] = s[i]
        /\ t[n + 1] = e
  <2>1. /\ Append(s, e) \in Seq(S) /\ Len(Append(s, e)) = n + 1
        /\ \A i \in 1..n : Append(s, e)[i] = s[i]
        /\ Append(s, e)[n + 1] = e
    BY <1>1, AppendProperties
  <2> QED
    BY <2>1, LenProperties
<1>3. ASSUME NEW i \in 1..(n + 1), NEW j \in 1..(n + 1), i < j, t[i] \in V
      PROVE  t[j] \notin Q
  <2>1. i \in 1..n /\ s[i] \in V
    BY <1>2, <1>3
  <2>2. CASE j = n + 1
    BY <1>1, <1>2, <2>1, <2>2 DEF Range
  <2>3. CASE j \in 1..n
    BY <1>1, <1>2, <1>3, <2>1, <2>3 DEF Last
  <2> QED
    BY <2>2, <2>3
<1> QED
  BY <1>2, <1>3 DEF Last

\* The head is taken.
LEMMA LastTail ==
  ASSUME NEW S, NEW s \in Seq(S), s # <<>>, NEW V, NEW Q
  PROVE  Last(s, V, Q)
           => /\ Last(Tail(s), V, Q)
              /\ Head(s) \in V => Range(Tail(s)) \cap Q = {}
<1> SUFFICES ASSUME Last(s, V, Q)
             PROVE  /\ Last(Tail(s), V, Q)
                    /\ Head(s) \in V => Range(Tail(s)) \cap Q = {}
  OBVIOUS
<1>1. PICK n \in Nat, t \in Seq(S) :
        /\ t = Tail(s) /\ DOMAIN t = 1..n /\ DOMAIN s = 1..(n + 1)
        /\ \A i \in 1..n : t[i] = s[i + 1]
        /\ Head(s) = s[1]
  BY TailFacts
<1>2. Last(t, V, Q)
  <2>1. \A i, j \in 1..n : i < j =>
          i + 1 < j + 1 /\ i + 1 \in 1..(n + 1) /\ j + 1 \in 1..(n + 1)
    OBVIOUS
  <2> QED
    BY <1>1, <2>1 DEF Last
<1>3. ASSUME s[1] \in V PROVE Range(t) \cap Q = {}
  <2>1. \A j \in 1..n : 1 < j + 1 /\ 1 \in 1..(n + 1) /\ j + 1 \in 1..(n + 1)
    OBVIOUS
  <2>2. \A j \in 1..n : t[j] \notin Q
    BY <1>1, <1>3, <2>1 DEF Last
  <2> QED
    BY <1>1, <2>2 DEF Range
<1> QED
  BY <1>1, <1>2, <1>3

-----------------------------------------------------------------------------
(* Messages *)

Asked == Question \cup Packet
Sent == Answer \cup Forward
Verdicts == {VerifyResponse, VerifyError}
Verifying == {VerifyRequest(d) : d \in Diddy}

\* What a request is, by its type.
LEMMA QuestionKinds ==
  ASSUME NEW m \in Asked
  PROVE  /\ m.type \in {"Announce", "QueryPeer", "VerifyRequest", "RelayPacket"}
         /\ m.type = "Announce" => m \in Question /\ m.port \in Port \cup {0}
         /\ m.type = "QueryPeer" => m \in Question /\ m.id \in Diddy
         /\ m.type = "VerifyRequest" => m \in Question /\ m.id \in Diddy
         /\ m.type = "VerifyRequest" <=> m \in Verifying
         /\ m.type = "RelayPacket" <=> m \in Packet
         /\ m \in Question <=> m \notin Packet
  BY DEF Asked, Question, Packet, Verifying, Announce, QueryPeer, VerifyRequest,
         RelayPacket

\* A packet on its way to the server.
LEMMA PacketParts ==
  ASSUME NEW m \in Packet
  PROVE  /\ m.to \in Diddy /\ m.key \in Member \X Diddy /\ m.n \in Number
         /\ m.key[2] = m.to
         /\ m.type = "RelayPacket"
         /\ \A d \in Member : RelayForward(d, m) \in Forward
  BY DEF Packet, RelayPacket, RelayKey, Forward, RelayForward

\* What the client reads, by its type.
LEMMA AnswerKinds ==
  ASSUME NEW m \in Sent
  PROVE  /\ m.type = "PeerInfo" => m \in Answer /\ m.addr \in Address
         /\ m \in Answer <=> m \notin Forward
         /\ m \in Verdicts => m \in Answer
         /\ m.type = "PeerInfo" => m \notin Verdicts
  BY DEF Sent, Answer, Forward, AnnounceAck, PeerInfo, PeerNotFound, VerifyResponse,
         VerifyError, Verdicts

\* The answers are answers, and only the last two are verdicts.
LEMMA Answers ==
  /\ AnnounceAck \in Answer \ Verdicts
  /\ PeerNotFound \in Answer \ Verdicts
  /\ \A a \in Address : PeerInfo(a) \in Answer \ Verdicts
  /\ VerifyResponse \in Answer \cap Verdicts
  /\ VerifyError \in Answer \cap Verdicts
  /\ VerifyResponse # VerifyError
  BY DEF Answer, AnnounceAck, PeerInfo, PeerNotFound, VerifyResponse, VerifyError,
         Verdicts

\* The questions are questions, and only the last is one that is verified.
LEMMA Questions ==
  /\ \A p \in Port \cup {0} : Announce(p) \in Question \ Verifying
  /\ \A d \in Diddy : QueryPeer(d) \in Question \ Verifying
  /\ \A d \in Diddy : VerifyRequest(d) \in Question \cap Verifying
  BY DEF Question, Announce, QueryPeer, VerifyRequest, Verifying

-----------------------------------------------------------------------------
(* Types *)

Chatting == {"querying", "dialing", "verifying", "relaying", "direct", "typing"}

\* What a client's stage says about its line.
LineOK(l) ==
  /\ stage[l] = "unused" <=> owner[l] = None
  /\ stage[l] \in {"unused", "joining"} => asked[l] = <<>>
  /\ ~Held(l) => inbox[l] = <<>> /\ channel[l] = <<>>
  /\ owner[l] # None => host[l] # None
  /\ stage[l] \in {"dialing", "direct"} => found[l] # None
  /\ stage[l] \in Chatting => IsChat(l)

\* The map finds a line of the diddy's own.
MapInv == \A d \in Diddy : relay[d] # None => owner[relay[d]] = d

TypeInv == TypeOK /\ (\A l \in Line : LineOK(l)) /\ MapInv

\* The steps of the server on a line, of its client, of a user, and of hosts.
Serve(l) == Handle(l) \/ HandlerFails(l) \/ Push(l) \/ Sever(l)
Use(l) == Continue(l) \/ Type(l) \/ LeaveRelay(l) \/ StopTyping(l) \/ EndDirect(l)
Command(d) ==
  \/ \E p \in Port : Listen(d, p) \/ Bind(d, p)
  \/ \E t \in Diddy : Chat(d, t)
  \/ Quit(d)
Network ==
  \E a \in Address : ListenerFails(a) \/ \E b \in Address : Moves(a, b)

\* There are no others; a crash is one of some line.
LEMMA Steps ==
  Next => \/ \E l \in Line : Serve(l) \/ Use(l) \/ Crash
          \/ \E d \in Member : Command(d)
          \/ Network
<1>1. Crash => \E l \in Line : TRUE
  BY DEF Crash
<1>2. \A l \in Line : Reset(l) \/ RelayTaskEnds(l) => Serve(l)
  BY DEF Reset, RelayTaskEnds, Serve
<1> QED
  BY <1>1, <1>2 DEF Next, Serve, Use, Command, Network

\* A line that is left, by a client that returns or quits.
LEMMA DropTyped ==
  ASSUME NEW L \in SUBSET Line, NEW s \in {"ended", "failed"}
  PROVE  /\ TypeInv /\ Drop(L, s) /\ (\A l \in L : stage[l] # "unused")
         /\ binding' \in SUBSET (Member \X Port)
         /\ listener' \in [Address -> Member \cup {None}]
         => TypeInv'
<1> SUFFICES ASSUME TypeInv, Drop(L, s), \A l \in L : stage[l] # "unused",
                    binding' \in SUBSET (Member \X Port),
                    listener' \in [Address -> Member \cup {None}]
             PROVE  TypeInv'
  OBVIOUS
<1>1. /\ stage' \in [Line -> Stage]
      /\ inbox' \in [Line -> Seq(Answer \cup Forward)]
      /\ channel' \in [Line -> Seq(Forward)]
      /\ found' \in [Line -> Address \cup {None}]
      /\ cut' \in [Line -> BOOLEAN]
  BY EmptySeq DEF TypeInv, TypeOK, Drop, Stage
<1>2. TypeOK'
  BY <1>1 DEF TypeInv, TypeOK, Drop, server, opened
<1>3. ASSUME NEW l \in Line PROVE LineOK(l)'
  BY DEF TypeInv, TypeOK, LineOK, Chatting, Drop, opened, Held, IsChat
<1>4. MapInv'
  BY DEF TypeInv, MapInv, Drop, server, opened
<1> QED
  BY <1>2, <1>3, <1>4 DEF TypeInv

\* The server's steps.
LEMMA ServerTyped ==
  ASSUME NEW l \in Line
  PROVE  TypeInv /\ (Serve(l) \/ Crash) => TypeInv'
<1> SUFFICES ASSUME TypeInv, Serve(l) \/ Crash PROVE TypeInv'
  OBVIOUS
<1>1. TypeOK /\ (\A k \in Line : LineOK(k)) /\ MapInv
  BY DEF TypeInv
<1>2. CASE Handle(l)
  <2>1. asked[l] \in Seq(Asked) /\ asked[l] # <<>>
    BY <1>1, <1>2 DEF TypeOK, Asked, Handle
  <2>2. PICK m \in Asked : m = Head(asked[l]) /\ Tail(asked[l]) \in Seq(Asked)
    BY <2>1, HeadTailProperties
  <2>3. asked' \in [Line -> Seq(Asked)] /\ asked' = [asked EXCEPT ![l] = Tail(@)]
    BY <1>1, <1>2, <2>2 DEF TypeOK, Handle, Asked
  <2>4. owner[l] \in Member /\ host[l] \in Host
    BY <1>1, <2>1 DEF TypeOK, LineOK
  <2>5. UNCHANGED <<relay, deserted, opened, client, cut, sockets, sent>>
    BY <1>2 DEF Handle
  <2>6. ASSUME NEW a \in Answer PROVE Write(l, a) \in [Line -> Seq(Answer \cup Forward)]
    <3>1. inbox[l] \in Seq(Answer \cup Forward) /\ a \in Answer \cup Forward
      BY <1>1 DEF TypeOK
    <3>2. Append(inbox[l], a) \in Seq(Answer \cup Forward)
      BY <3>1, AppendProperties
    <3> QED
      BY <1>1, <3>2 DEF TypeOK, Write
  <2>7. ASSUME NEW k \in Line PROVE ~Held(k) => Write(l, m)[k] = inbox[k]
    BY <1>1 DEF TypeOK, Write
  <2>8. /\ directory' \in [Diddy -> Address \cup {None}]
        /\ inbox' \in [Line -> Seq(Answer \cup Forward)]
        /\ channel' \in [Line -> Seq(Forward)]
        /\ \A k \in Line : ~Held(k) => inbox'[k] = inbox[k] /\ channel'[k] = channel[k]
    <3>1. CASE /\ m.type = "Announce"
               /\ directory' = Recorded(l, m.port)
               /\ inbox' = Write(l, AnnounceAck)
               /\ UNCHANGED channel
      <4>1. [host |-> host[l], port |-> m.port] \in Address
        BY <2>2, <2>4, <3>1, QuestionKinds DEF Address
      <4>2. directory' \in [Diddy -> Address \cup {None}]
        BY <1>1, <3>1, <4>1 DEF TypeOK, Recorded
      <4> QED
        BY <1>1, <2>6, <3>1, <4>2, Answers DEF TypeOK, Write
    <3>2. CASE /\ m.type = "QueryPeer"
               /\ inbox' = Write(l, LookUp(m.id))
               /\ UNCHANGED <<directory, channel>>
      <4>1. LookUp(m.id) \in Answer
        BY <1>1, <2>2, <3>2, QuestionKinds, Answers DEF TypeOK, LookUp
      <4> QED
        BY <1>1, <2>6, <3>2, <4>1 DEF TypeOK, Write
    <3>3. CASE /\ m.type = "VerifyRequest"
               /\ inbox' = Write(l, IF m.id \in Member
                                    THEN VerifyResponse ELSE VerifyError)
               /\ UNCHANGED <<directory, channel>>
      BY <1>1, <2>6, <3>3, Answers DEF TypeOK, Write
    <3>4. CASE /\ m.type = "RelayPacket"
               /\ channel' = [k \in Line |->
                                IF k \in Route(m.to)
                                THEN Append(channel[k], RelayForward(owner[l], m))
                                ELSE channel[k]]
               /\ UNCHANGED <<directory, inbox>>
      <4>1. RelayForward(owner[l], m) \in Forward
        BY <2>2, <2>4, <3>4, QuestionKinds, PacketParts
      <4>2. \A k \in Line : Append(channel[k], RelayForward(owner[l], m)) \in Seq(Forward)
        BY <1>1, <4>1, AppendProperties DEF TypeOK
      <4> QED
        BY <1>1, <3>4, <4>2 DEF TypeOK, Route
    <3> QED
      BY <1>2, <2>2, <3>1, <3>2, <3>3, <3>4 DEF Handle, HandleRequest
  <2>9. TypeOK'
    BY <1>1, <2>3, <2>5, <2>8 DEF TypeOK, Asked, opened, client, sockets
  <2>10. ASSUME NEW k \in Line PROVE LineOK(k)'
    BY <1>1, <2>1, <2>3, <2>5, <2>8 DEF TypeOK, LineOK, opened, client, Held, IsChat
  <2> QED
    BY <1>1, <2>5, <2>9, <2>10 DEF TypeInv, MapInv, opened
<1>3. CASE Push(l)
  <2>1. channel[l] \in Seq(Forward) /\ channel[l] # <<>>
    BY <1>1, <1>3 DEF TypeOK, Push
  <2>2. Head(channel[l]) \in Forward /\ Tail(channel[l]) \in Seq(Forward)
    BY <2>1, HeadTailProperties
  <2>3. channel' \in [Line -> Seq(Forward)]
    BY <1>1, <1>3, <2>2 DEF TypeOK, Push, Dequeued
  <2>4. Append(inbox[l], Head(channel[l])) \in Seq(Answer \cup Forward)
    BY <1>1, <2>2, AppendProperties DEF TypeOK
  <2>5. inbox' \in [Line -> Seq(Answer \cup Forward)]
    BY <1>1, <1>3, <2>4 DEF TypeOK, Push, Write
  <2>6. TypeOK'
    BY <1>1, <1>3, <2>3, <2>5 DEF TypeOK, Push, server, opened, client, sockets
  <2>7. ASSUME NEW k \in Line PROVE LineOK(k)'
    BY <1>1, <1>3, <2>1 DEF TypeOK, LineOK, Push, Write, Dequeued, opened, client, Held, IsChat
  <2> QED
    BY <1>1, <1>3, <2>6, <2>7 DEF TypeInv, MapInv, Push, server, opened
<1>4. CASE HandlerFails(l)
  <2>1. TypeOK'
    BY <1>1, <1>4, EmptySeq DEF TypeOK, HandlerFails, opened, client, sockets
  <2>2. ASSUME NEW k \in Line PROVE LineOK(k)'
    BY <1>1, <1>4 DEF TypeOK, LineOK, HandlerFails, opened, client, Held, IsChat
  <2> QED
    BY <1>1, <1>4, <2>1, <2>2 DEF TypeInv, MapInv, HandlerFails, opened
<1>5. CASE Sever(l)
  <2>1. TypeOK'
    BY <1>1, <1>5, EmptySeq DEF TypeOK, Sever, server, opened, client, sockets
  <2>2. ASSUME NEW k \in Line PROVE LineOK(k)'
    BY <1>1, <1>5 DEF TypeOK, LineOK, Sever, opened, client, Held, IsChat
  <2> QED
    BY <1>1, <1>5, <2>1, <2>2 DEF TypeInv, MapInv, Sever, server, opened
<1>6. CASE Crash
  <2>1. TypeOK'
    BY <1>1, <1>6, EmptySeq DEF TypeOK, Crash, opened, client, sockets, Held
  <2>2. ASSUME NEW k \in Line PROVE LineOK(k)'
    BY <1>1, <1>6 DEF TypeOK, LineOK, Crash, opened, client, Held, IsChat
  <2> QED
    BY <1>6, <2>1, <2>2 DEF TypeInv, MapInv, Crash
<1> QED
  BY <1>2, <1>3, <1>4, <1>5, <1>6 DEF Serve

\* Commands, tasks that bind, and clients that quit.
LEMMA CommandsTyped ==
  ASSUME NEW d \in Member
  PROVE  TypeInv /\ Command(d) => TypeInv'
<1> SUFFICES ASSUME TypeInv, Command(d) PROVE TypeInv'
  OBVIOUS
<1>1. TypeOK /\ (\A k \in Line : LineOK(k)) /\ MapInv
  BY DEF TypeInv
<1>2. ASSUME NEW t \in Diddy \cup {None}, NEW p \in Port \cup {0}, Open(d, t, p),
             binding' \in SUBSET (Member \X Port)
      PROVE  TypeInv'
  <2>1. PICK l \in Line, h \in Host :
          /\ At(l, "unused")
          /\ host' = [host EXCEPT ![l] = h]
          /\ owner' = [owner EXCEPT ![l] = d]
          /\ target' = [target EXCEPT ![l] = t]
          /\ port' = [port EXCEPT ![l] = p]
          /\ stage' = [stage EXCEPT ![l] = "joining"]
          /\ UNCHANGED <<server, found, cut, wire, listener, sent>>
    BY <1>2 DEF Open
  <2>2. TypeOK'
    BY <1>1, <1>2, <2>1 DEF TypeOK, Stage, server, wire
  <2>3. ASSUME NEW k \in Line PROVE LineOK(k)'
    BY <1>1, <2>1, ConstantsAssumption DEF TypeOK, LineOK, Chatting, At, wire, Held, IsChat
  <2>4. MapInv'
    BY <1>1, <2>1, ConstantsAssumption DEF TypeOK, LineOK, MapInv, At, server
  <2> QED
    BY <2>2, <2>3, <2>4 DEF TypeInv
<1>3. ASSUME NEW p \in Port, Listen(d, p) PROVE TypeInv'
  <2>1. Open(d, None, p)
    BY <1>3 DEF Listen
  <2>2. binding' \in SUBSET (Member \X Port)
    BY <1>1, <1>3 DEF Listen, TypeOK
  <2> QED
    BY <1>2, <2>1, <2>2
<1>4. ASSUME NEW t \in Diddy, Chat(d, t) PROVE TypeInv'
  <2>1. Open(d, t, 0)
    BY <1>4 DEF Chat
  <2>2. binding' \in SUBSET (Member \X Port)
    BY <1>1, <1>4 DEF Chat, TypeOK
  <2> QED
    BY <1>2, <2>1, <2>2
<1>5. ASSUME UNCHANGED <<server, opened, client, cut, wire, sent>>,
             binding' \in SUBSET (Member \X Port),
             listener' \in [Address -> Member \cup {None}]
      PROVE  TypeInv'
  <2>1. TypeOK'
    BY <1>1, <1>5 DEF TypeOK, server, opened, client, wire
  <2>2. ASSUME NEW k \in Line PROVE LineOK(k)'
    BY <1>1, <1>5 DEF LineOK, opened, client, wire, Held, IsChat
  <2> QED
    BY <1>1, <1>5, <2>1, <2>2 DEF TypeInv, MapInv, server, opened
<1>6. ASSUME NEW p \in Port, Bind(d, p) PROVE TypeInv'
  <2>1. listener' \in [Address -> Member \cup {None}]
    BY <1>1, <1>6 DEF TypeOK, Bind
  <2>2. binding' \in SUBSET (Member \X Port)
    BY <1>1, <1>6 DEF TypeOK, Bind
  <2> QED
    BY <1>5, <1>6, <2>1, <2>2 DEF Bind
<1>7. CASE Quit(d)
  <2>1. PICK L \in SUBSET Line :
          /\ L = {l \in Line : owner[l] = d /\ stage[l] \notin {"ended", "failed"}}
          /\ Drop(L, "ended")
    BY <1>7 DEF Quit
  <2>2. \A l \in L : stage[l] # "unused"
    BY <1>1, <2>1, ConstantsAssumption DEF LineOK
  <2>3. /\ binding' \in SUBSET (Member \X Port)
        /\ listener' \in [Address -> Member \cup {None}]
    BY <1>1, <1>7 DEF TypeOK, Quit
  <2> QED
    BY <2>1, <2>2, <2>3, DropTyped
<1> QED
  BY <1>3, <1>4, <1>6, <1>7 DEF Command

\* Where clients listen is on no line.
LEMMA NetworkSteps ==
  Network => UNCHANGED <<server, opened, client, cut, wire, binding, sent>>
  BY DEF Network, ListenerFails, Moves

\* Hosts fail and move.
LEMMA NetworkTyped == TypeInv /\ Network => TypeInv'
<1> SUFFICES ASSUME TypeInv, Network PROVE TypeInv'
  OBVIOUS
<1>1. TypeOK /\ (\A k \in Line : LineOK(k)) /\ MapInv
  BY DEF TypeInv
<1>2. UNCHANGED <<server, opened, client, cut, wire, binding, sent>>
  BY NetworkSteps
<1>3. listener' \in [Address -> Member \cup {None}]
  BY <1>1 DEF TypeOK, Network, ListenerFails, Moves
<1>4. TypeOK'
  BY <1>1, <1>2, <1>3 DEF TypeOK, server, opened, client, wire
<1>5. ASSUME NEW k \in Line PROVE LineOK(k)'
  BY <1>1, <1>2 DEF LineOK, opened, client, wire, Held, IsChat
<1> QED
  BY <1>1, <1>2, <1>4, <1>5 DEF TypeInv, MapInv, server, opened

\* Nothing happens to the other lines.
OnlyLine(l) ==
  \A k \in Line \ {l} :
    /\ stage'[k] = stage[k] /\ asked'[k] = asked[k] /\ inbox'[k] = inbox[k]
    /\ found'[k] = found[k]

\* A step of the client that leaves it on the line.
Moved(l, s) ==
  /\ stage' = [stage EXCEPT ![l] = s]
  /\ asked' \in [Line -> Seq(Asked)]
  /\ inbox' \in [Line -> Seq(Sent)]
  /\ found' \in [Line -> Address \cup {None}]
  /\ OnlyLine(l)
  /\ UNCHANGED <<directory, deserted, opened, cut, channel, sockets>>

\* Such a step keeps the types.
LEMMA MovedTyped ==
  ASSUME NEW l \in Line, NEW s \in Stage \ {"unused", "joining", "ended", "failed"}
  PROVE  /\ TypeInv /\ Moved(l, s) /\ stage[l] # "unused"
         /\ s \in {"dialing", "direct"} => found'[l] # None
         /\ s \in Chatting => IsChat(l)
         /\ \/ UNCHANGED relay
            \/ relay' = [relay EXCEPT ![owner[l]] = l]
         /\ sent' \in 0..MaxSent
         => TypeInv'
<1> SUFFICES ASSUME TypeInv, Moved(l, s), stage[l] # "unused",
                    s \in {"dialing", "direct"} => found'[l] # None,
                    s \in Chatting => IsChat(l),
                    \/ UNCHANGED relay
                    \/ relay' = [relay EXCEPT ![owner[l]] = l],
                    sent' \in 0..MaxSent
             PROVE  TypeInv'
  OBVIOUS
<1>1. TypeOK /\ (\A k \in Line : LineOK(k)) /\ MapInv
  BY DEF TypeInv
<1>2. TypeOK'
  <2>1. relay' \in [Diddy -> Line \cup {None}]
    BY <1>1 DEF TypeOK
  <2> QED
    BY <1>1, <2>1 DEF TypeOK, Moved, Asked, Sent, opened, sockets
<1>3. ASSUME NEW k \in Line PROVE LineOK(k)'
  <2>1. CASE k = l
    BY <1>1, <2>1 DEF TypeOK, LineOK, Moved, opened, Held, IsChat
  <2>2. CASE k # l
    BY <1>1, <2>2 DEF TypeOK, LineOK, Moved, OnlyLine, opened, Held, IsChat
  <2> QED
    BY <2>1, <2>2
<1>4. MapInv'
  BY <1>1, ConstantsAssumption DEF TypeOK, MapInv, Moved, opened
<1> QED
  BY <1>2, <1>3, <1>4 DEF TypeInv

\* What the client reads.
LEMMA ReceiveTyped ==
  ASSUME NEW l \in Line, NEW m
  PROVE  TypeInv /\ Receive(l, m)
           => /\ inbox[l] \in Seq(Sent) /\ inbox[l] # <<>> /\ m = Head(inbox[l])
              /\ m \in Sent /\ Tail(inbox[l]) \in Seq(Sent)
              /\ inbox' = [inbox EXCEPT ![l] = Tail(inbox[l])]
              /\ inbox' \in [Line -> Seq(Sent)]
<1> SUFFICES ASSUME TypeInv, Receive(l, m)
             PROVE  /\ inbox[l] \in Seq(Sent) /\ inbox[l] # <<>> /\ m = Head(inbox[l])
                    /\ m \in Sent /\ Tail(inbox[l]) \in Seq(Sent)
                    /\ inbox' = [inbox EXCEPT ![l] = Tail(inbox[l])]
                    /\ inbox' \in [Line -> Seq(Sent)]
  OBVIOUS
<1>1. inbox \in [Line -> Seq(Sent)]
  BY DEF TypeInv, TypeOK, Sent
<1>2. inbox[l] # <<>> /\ m = Head(inbox[l]) /\ inbox' = [inbox EXCEPT ![l] = Tail(inbox[l])]
  BY DEF Receive, Incoming
<1>3. Head(inbox[l]) \in Sent /\ Tail(inbox[l]) \in Seq(Sent)
  BY <1>1, <1>2, HeadTailProperties
<1> QED
  BY <1>1, <1>2, <1>3

\* What the client asks.
LEMMA AskTyped ==
  ASSUME NEW l \in Line, NEW m \in Asked
  PROVE  TypeInv /\ Ask(l, m)
           => /\ asked' \in [Line -> Seq(Asked)]
              /\ \A k \in Line \ {l} : asked'[k] = asked[k]
              /\ asked'[l] \in {asked[l], Append(asked[l], m)}
<1> SUFFICES ASSUME TypeInv, Ask(l, m)
             PROVE  /\ asked' \in [Line -> Seq(Asked)]
                    /\ \A k \in Line \ {l} : asked'[k] = asked[k]
                    /\ asked'[l] \in {asked[l], Append(asked[l], m)}
  OBVIOUS
<1>1. asked \in [Line -> Seq(Asked)]
  BY DEF TypeInv, TypeOK, Asked
<1>2. Append(asked[l], m) \in Seq(Asked)
  BY <1>1, AppendProperties
<1> QED
  BY <1>1, <1>2 DEF Ask

\* The client's steps on a line.
LEMMA ClientTyped ==
  ASSUME NEW l \in Line
  PROVE  TypeInv /\ Use(l) => TypeInv'
<1> SUFFICES ASSUME TypeInv, Use(l) PROVE TypeInv'
  OBVIOUS
<1>1. TypeOK /\ (\A k \in Line : LineOK(k)) /\ MapInv
  BY DEF TypeInv
<1>2. /\ stage \in [Line -> Stage] /\ asked \in [Line -> Seq(Asked)]
      /\ inbox \in [Line -> Seq(Sent)] /\ found \in [Line -> Address \cup {None}]
      /\ sent \in 0..MaxSent
      /\ target[l] \in Diddy \cup {None} /\ port[l] \in Port \cup {0}
  BY <1>1 DEF TypeOK, Asked, Sent
<1>3. ASSUME NEW s \in {"ended", "failed"}, Leave(l, s), stage[l] # "unused"
      PROVE  TypeInv'
  <2>1. Drop({l}, s) /\ UNCHANGED sockets
    BY <1>3 DEF Leave
  <2>2. /\ binding' \in SUBSET (Member \X Port)
        /\ listener' \in [Address -> Member \cup {None}]
    BY <1>1, <2>1 DEF TypeOK, sockets
  <2> QED
    BY <1>3, <2>1, <2>2, DropTyped
<1>4. CASE Login(l)
  <2>1. Announce(port[l]) \in Asked
    BY <1>2, Questions DEF Asked
  <2>2. <<Announce(port[l])>> \in Seq(Asked)
    BY <2>1
  <2>3. asked' \in [Line -> Seq(Asked)]
    BY <1>2, <1>4, <2>2 DEF Login
  <2>4. Moved(l, "announcing")
    BY <1>2, <1>4, <2>3 DEF Login, Moved, OnlyLine, sockets, opened
  <2> QED
    BY <1>2, <1>4, <2>4, MovedTyped DEF Login, At, Stage, Chatting
<1>5. CASE LoginFails(l)
  BY <1>3, <1>5 DEF LoginFails, At
<1>6. CASE ReadAnnounceAnswer(l)
  <2>1. PICK m \in Answer \cup Forward :
          /\ At(l, "announcing") /\ ~IsChat(l)
          /\ Receive(l, m) /\ Enter(l, "reading")
          /\ UNCHANGED <<server, opened, cut, asked, channel, sockets, sent>>
    BY <1>6 DEF ReadAnnounceAnswer
  <2>2. Moved(l, "reading")
    BY <1>2, <2>1, ReceiveTyped DEF Moved, OnlyLine, Enter, server
  <2> QED
    BY <1>2, <2>1, <2>2, MovedTyped DEF At, Stage, Chatting, server
<1>7. CASE Notice(l)
  <2>1. PICK m \in Answer \cup Forward :
          /\ At(l, "reading") /\ Receive(l, m)
          /\ UNCHANGED <<server, opened, client, cut, asked, channel, sockets, sent>>
    BY <1>7 DEF Notice
  <2>2. Moved(l, "reading")
    BY <1>2, <2>1, ReceiveTyped DEF Moved, OnlyLine, At, client, server
  <2> QED
    BY <1>2, <2>1, <2>2, MovedTyped DEF At, Stage, Chatting, server
<1>8. CASE AnnounceAnswered(l)
  <2>1. PICK m \in Answer \cup Forward :
          /\ At(l, "announcing") /\ IsChat(l)
          /\ Receive(l, m) /\ Enter(l, "querying")
          /\ Ask(l, QueryPeer(target[l]))
          /\ UNCHANGED <<server, opened, cut, channel, sockets, sent>>
    BY <1>8 DEF AnnounceAnswered
  <2>2. QueryPeer(target[l]) \in Asked
    BY <1>2, <2>1, Questions DEF Asked, IsChat
  <2>3. /\ asked' \in [Line -> Seq(Asked)]
        /\ \A k \in Line \ {l} : asked'[k] = asked[k]
    BY <2>1, <2>2, AskTyped
  <2>4. Moved(l, "querying")
    BY <1>2, <2>1, <2>3, ReceiveTyped DEF Moved, OnlyLine, Enter, server
  <2> QED
    BY <1>2, <2>1, <2>4, MovedTyped DEF At, Stage, server
<1>9. CASE QueryAnswered(l)
  <2>1. PICK m \in Answer \cup Forward :
          /\ At(l, "querying") /\ Receive(l, m)
          /\ IF m.type = "PeerInfo"
             THEN /\ stage' = [stage EXCEPT ![l] = "dialing"]
                  /\ found' = [found EXCEPT ![l] = m.addr]
                  /\ UNCHANGED asked
             ELSE /\ Enter(l, "verifying")
                  /\ Ask(l, VerifyRequest(target[l]))
          /\ UNCHANGED <<server, opened, cut, channel, sockets, sent>>
    BY <1>9 DEF QueryAnswered
  <2>2. IsChat(l)
    BY <1>1, <2>1 DEF LineOK, At, Chatting
  <2>3. CASE m.type = "PeerInfo"
    <3>1. m.addr \in Address
      BY <2>3, AnswerKinds DEF Sent
    <3>2. Moved(l, "dialing")
      BY <1>2, <2>1, <2>3, <3>1, ReceiveTyped DEF Moved, OnlyLine, server
    <3>3. found'[l] # None
      BY <1>2, <2>1, <2>3, <3>1, ConstantsAssumption
    <3> QED
      BY <1>2, <2>1, <2>2, <3>2, <3>3, MovedTyped DEF At, Stage, server
  <2>4. CASE m.type # "PeerInfo"
    <3>1. VerifyRequest(target[l]) \in Asked
      BY <1>2, <2>2, Questions DEF Asked, IsChat
    <3>2. /\ asked' \in [Line -> Seq(Asked)]
          /\ \A k \in Line \ {l} : asked'[k] = asked[k]
      BY <2>1, <2>4, <3>1, AskTyped
    <3>3. Moved(l, "verifying")
      BY <1>2, <2>1, <2>4, <3>2, ReceiveTyped DEF Moved, OnlyLine, Enter, server
    <3> QED
      BY <1>2, <2>1, <2>2, <3>3, MovedTyped DEF At, Stage, server
  <2> QED
    BY <2>3, <2>4
<1>10. CASE Dial(l)
  <2>1. found[l] # None /\ IsChat(l)
    BY <1>1, <1>10 DEF LineOK, Dial, At, Chatting
  <2>2. Moved(l, "direct")
    BY <1>2, <1>10 DEF Dial, Moved, OnlyLine, Enter, wire, server
  <2> QED
    BY <1>2, <1>10, <2>1, <2>2, MovedTyped DEF Dial, At, Enter, Stage, server
<1>11. CASE DialFails(l)
  <2>1. IsChat(l)
    BY <1>1, <1>11 DEF LineOK, At, DialFails, Chatting
  <2>2. VerifyRequest(target[l]) \in Asked
    BY <1>2, <2>1, Questions DEF Asked, IsChat
  <2>3. /\ asked' \in [Line -> Seq(Asked)]
        /\ \A k \in Line \ {l} : asked'[k] = asked[k]
    BY <1>11, <2>2, AskTyped DEF DialFails
  <2>4. Moved(l, "verifying")
    BY <1>2, <1>11, <2>3 DEF DialFails, Moved, OnlyLine, Enter, server
  <2> QED
    BY <1>2, <1>11, <2>1, <2>4, MovedTyped DEF DialFails, At, Stage, server
<1>12. CASE VerifyAnswered(l)
  <2>1. PICK m \in Answer \cup Forward :
          /\ At(l, "verifying")
          /\ IF Verdict(m) = "failed"
             THEN Leave(l, "failed")
             ELSE /\ Receive(l, m)
                  /\ stage' = [stage EXCEPT ![l] = Verdict(m)]
                  /\ found' = [found EXCEPT ![l] = None]
                  /\ UNCHANGED <<server, opened, cut, asked, channel, sockets, sent>>
    BY <1>12 DEF VerifyAnswered
  <2>2. CASE Verdict(m) = "failed"
    BY <1>3, <2>1, <2>2 DEF At
  <2>3. CASE Verdict(m) = "relaying"
    <3>1. Moved(l, "relaying")
      BY <1>2, <2>1, <2>3, ReceiveTyped DEF Moved, OnlyLine, server
    <3>2. IsChat(l)
      BY <1>1, <2>1 DEF LineOK, At, Chatting
    <3> QED
      BY <1>2, <2>1, <2>3, <3>1, <3>2, MovedTyped DEF At, Stage, server
  <2> QED
    BY <2>2, <2>3 DEF Verdict
<1>13. CASE Type(l)
  <2>1. sent' \in Number /\ sent' \in 0..MaxSent
    BY <1>2, <1>13, ConstantsAssumption DEF Type, Number
  <2>2. IsChat(l) /\ owner[l] \in Member
    BY <1>1, <1>13 DEF TypeOK, LineOK, Chatting, Type
  <2>3. RelayPacket(owner[l], target[l], sent') \in Asked
    BY <1>2, <2>1, <2>2 DEF Asked, Packet, IsChat
  <2>4. /\ asked' \in [Line -> Seq(Asked)]
        /\ \A k \in Line \ {l} : asked'[k] = asked[k]
    BY <1>13, <2>3, AskTyped DEF Type
  <2>5. Moved(l, stage[l])
    BY <1>2, <1>13, <2>4 DEF Type, Moved, OnlyLine, client, server
  <2> QED
    BY <1>13, <2>1, <2>2, <2>5, MovedTyped DEF Type, Stage, server
<1>14. CASE Watch(l)
  <2>1. PICK m \in Answer \cup Forward :
          /\ stage[l] \in {"relaying", "left"} /\ Receive(l, m)
          /\ UNCHANGED <<server, opened, client, cut, asked, channel, sockets, sent>>
    BY <1>14 DEF Watch
  <2>2. Moved(l, stage[l])
    BY <1>2, <2>1, ReceiveTyped DEF Moved, OnlyLine, client, server
  <2>3. stage[l] \in Chatting => IsChat(l)
    BY <1>1 DEF LineOK
  <2> QED
    BY <1>2, <2>1, <2>2, <2>3, MovedTyped DEF Stage, server
<1>15. CASE LeaveRelay(l)
  <2>1. Moved(l, "left")
    BY <1>2, <1>15 DEF LeaveRelay, Moved, OnlyLine, Enter, wire, server
  <2> QED
    BY <1>2, <1>15, <2>1, MovedTyped DEF LeaveRelay, At, Stage, Chatting, server
<1>16. CASE EndDirect(l) \/ StopTyping(l)
  BY <1>3, <1>16 DEF EndDirect, StopTyping, At
<1>17. CASE ReadFails(l)
  BY <1>3, <1>17 DEF ReadFails, Held
<1>18. CASE ReceiveTaskFails(l)
  <2>1. Moved(l, "typing")
    BY <1>2, <1>18 DEF ReceiveTaskFails, Moved, OnlyLine, Enter, wire, server
  <2>2. IsChat(l)
    BY <1>1, <1>18 DEF LineOK, At, ReceiveTaskFails, Chatting
  <2> QED
    BY <1>2, <1>18, <2>1, <2>2, MovedTyped DEF ReceiveTaskFails, At, Stage, server
<1> QED
  BY <1>4, <1>5, <1>6, <1>7, <1>8, <1>9, <1>10, <1>11, <1>12, <1>13, <1>14, <1>15,
     <1>16, <1>17, <1>18 DEF Use, Continue

\* The types hold at first.
LEMMA InitTyped == Init => TypeInv
<1> SUFFICES ASSUME Init PROVE TypeInv
  OBVIOUS
<1>1. TypeOK
  <2>1. <<>> \in Seq(Question \cup Packet) /\ <<>> \in Seq(Forward)
        /\ <<>> \in Seq(Answer \cup Forward)
    BY EmptySeq
  <2> QED
    BY <2>1, ConstantsAssumption DEF Init, TypeOK, Stage
<1>2. (\A l \in Line : LineOK(l)) /\ MapInv
  BY DEF Init, LineOK, Chatting, MapInv, Held
<1> QED
  BY <1>1, <1>2 DEF TypeInv

\* Every step keeps them.
LEMMA NextTyped == TypeInv /\ [Next]_vars => TypeInv'
<1> SUFFICES ASSUME TypeInv, [Next]_vars PROVE TypeInv'
  OBVIOUS
<1>1. CASE UNCHANGED vars
  <2>1. TypeOK'
    BY <1>1 DEF TypeInv, TypeOK, vars, server, opened, client, wire, sockets
  <2>2. ASSUME NEW k \in Line PROVE LineOK(k)'
    BY <1>1 DEF TypeInv, LineOK, Held, IsChat, vars, opened, client, wire
  <2> QED
    BY <1>1, <2>1, <2>2 DEF TypeInv, MapInv, vars, server, opened
<1> QED
  BY <1>1, Steps, ServerTyped, ClientTyped, CommandsTyped, NetworkTyped

\* Every variable keeps its type: the server answers, and the clients ask and
\* read, nothing but the messages of the protocol.
THEOREM DiscoveryTyped == Spec => []TypeOK
<1>1. Spec => []TypeInv
  BY InitTyped, NextTyped, PTL DEF Spec
<1>2. TypeInv => TypeOK
  BY DEF TypeInv
<1> QED
  BY <1>1, <1>2, PTL

-----------------------------------------------------------------------------
(* Questions and answers *)

Early == {"unused", "joining", "announcing", "querying", "dialing", "reading"}

\* Before chat verifies it has asked for no verdict; while it verifies, its
\* request is the last question and the verdict the last answer; after that
\* there is neither.
InStep(s, a, b) ==
  /\ s \in Early => /\ Range(a) \cap Verifying = {}
                    /\ Range(b) \cap Verdicts = {}
  /\ s = "verifying" => /\ Last(a, Verifying, Question)
                        /\ Last(b, Verdicts, Answer)
                        /\ \/ Range(a) \cap Verifying = {}
                           \/ Range(b) \cap Verdicts = {}
                        /\ \/ Range(a) \cap Question = {}
                           \/ Range(b) \cap Verdicts = {}
  /\ s \in {"relaying", "left"} => /\ Range(a) \cap Question = {}
                                   /\ Range(b) \cap Answer = {}

\* Verdicts are answers, and what asks for them is a question.
LEMMA SomeOf == Verifying \subseteq Question /\ Verdicts \subseteq Answer
  BY Questions, Answers DEF Verifying, Verdicts

\* Requests are lost.
LEMMA InStepLost ==
  ASSUME NEW s, NEW a, NEW b
  PROVE  InStep(s, a, b) => InStep(s, <<>>, b)
<1>1. Range(<<>>) = {} /\ Last(<<>>, Verifying, Question)
  BY EmptyRange, LastNone
<1> QED
  BY <1>1 DEF InStep

\* The server takes up a request, and answers a question.
LEMMA InStepHandled ==
  ASSUME NEW s, NEW a \in Seq(Asked), NEW b \in Seq(Sent), a # <<>>, NEW r \in Answer
  PROVE  InStep(s, a, b)
           => /\ InStep(s, Tail(a), b)
              /\ (Head(a) \in Question /\ (r \in Verdicts <=> Head(a) \in Verifying))
                   => InStep(s, Tail(a), Append(b, r))
<1> SUFFICES ASSUME InStep(s, a, b)
             PROVE  /\ InStep(s, Tail(a), b)
                    /\ (Head(a) \in Question /\ (r \in Verdicts <=> Head(a) \in Verifying))
                         => InStep(s, Tail(a), Append(b, r))
  OBVIOUS
<1>1. Range(a) = {Head(a)} \cup Range(Tail(a))
  BY TailRange
<1>2. Last(a, Verifying, Question)
        => /\ Last(Tail(a), Verifying, Question)
           /\ Head(a) \in Verifying => Range(Tail(a)) \cap Question = {}
  BY LastTail
<1>3. InStep(s, Tail(a), b)
  BY <1>1, <1>2 DEF InStep
<1>4. ASSUME Head(a) \in Question, r \in Verdicts <=> Head(a) \in Verifying
      PROVE  InStep(s, Tail(a), Append(b, r))
  <2>1. r \in Sent
    BY DEF Sent
  <2>2. Range(Append(b, r)) = Range(b) \cup {r}
    BY <2>1, AppendRange
  <2>3. Last(b, Verdicts, Answer) /\ Range(b) \cap Verdicts = {}
          => Last(Append(b, r), Verdicts, Answer)
    BY <2>1, LastAppend
  <2>4. s \in Early => Range(Tail(a)) \cap Verifying = {}
                       /\ Range(Append(b, r)) \cap Verdicts = {}
    BY <1>1, <1>4, <2>2 DEF InStep
  <2>5. s \notin {"relaying", "left"}
    BY <1>1, <1>4 DEF InStep
  <2>6. ASSUME s = "verifying"
        PROVE  /\ Last(Tail(a), Verifying, Question)
               /\ Last(Append(b, r), Verdicts, Answer)
               /\ \/ Range(Tail(a)) \cap Verifying = {}
                  \/ Range(Append(b, r)) \cap Verdicts = {}
               /\ \/ Range(Tail(a)) \cap Question = {}
                  \/ Range(Append(b, r)) \cap Verdicts = {}
    <3>1. Range(b) \cap Verdicts = {}
      BY <1>1, <1>4, <2>6 DEF InStep
    <3>2. Head(a) \in Verifying => Range(Tail(a)) \cap Question = {}
      BY <1>2, <2>6 DEF InStep
    <3>3. Head(a) \notin Verifying => Range(Append(b, r)) \cap Verdicts = {}
      BY <1>4, <2>2, <3>1
    <3> QED
      BY <1>2, <2>3, <2>6, <3>1, <3>2, <3>3, SomeOf DEF InStep
  <2> QED
    BY <2>4, <2>5, <2>6 DEF InStep
<1> QED
  BY <1>3, <1>4

\* A packet is relayed to the line.
LEMMA InStepPushed ==
  ASSUME NEW s, NEW a, NEW b \in Seq(Sent), NEW e \in Forward
  PROVE  InStep(s, a, b) => InStep(s, a, Append(b, e))
<1>1. e \in Sent /\ e \notin Answer /\ e \notin Verdicts
  BY AnswerKinds DEF Sent
<1>2. Range(Append(b, e)) = Range(b) \cup {e}
  BY <1>1, AppendRange
<1>3. Last(b, Verdicts, Answer) => Last(Append(b, e), Verdicts, Answer)
  BY <1>1, LastAppend
<1> QED
  BY <1>1, <1>2, <1>3 DEF InStep

\* The client reads a message and stays, or goes to another early stage.
LEMMA InStepRead ==
  ASSUME NEW s, NEW t, NEW a, NEW b \in Seq(Sent), b # <<>>
  PROVE  InStep(s, a, b) /\ (s = t \/ {s, t} \subseteq Early) => InStep(t, a, Tail(b))
<1>1. Range(b) = {Head(b)} \cup Range(Tail(b))
  BY TailRange
<1>2. Last(b, Verdicts, Answer) => Last(Tail(b), Verdicts, Answer)
  BY LastTail
<1> QED
  BY <1>1, <1>2 DEF InStep, Early

\* The client asks something else than to verify, or sends a packet.
LEMMA InStepAsked ==
  ASSUME NEW s, NEW a \in Seq(Asked), NEW b, NEW m \in Asked
  PROVE  /\ InStep(s, a, b)
         /\ \/ s \in Early /\ m \in Question \ Verifying
            \/ s = "relaying" /\ m \in Packet
         => InStep(s, Append(a, m), b)
<1>1. Range(Append(a, m)) = Range(a) \cup {m}
  BY AppendRange
<1>2. m \in Packet => m \notin Question
  BY QuestionKinds
<1> QED
  BY <1>1, <1>2 DEF InStep, Early

\* The client begins to verify.
LEMMA InStepVerifies ==
  ASSUME NEW s \in Early, NEW a \in Seq(Asked), NEW b, NEW d \in Diddy
  PROVE  InStep(s, a, b)
           => /\ InStep("verifying", a, b)
              /\ InStep("verifying", Append(a, VerifyRequest(d)), b)
<1> SUFFICES ASSUME InStep(s, a, b)
             PROVE  /\ InStep("verifying", a, b)
                    /\ InStep("verifying", Append(a, VerifyRequest(d)), b)
  OBVIOUS
<1>1. Range(a) \cap Verifying = {} /\ Range(b) \cap Verdicts = {}
  BY DEF InStep
<1>2. Last(a, Verifying, Question) /\ Last(b, Verdicts, Answer)
  BY <1>1, LastNone
<1>3. VerifyRequest(d) \in Asked
  BY Questions DEF Asked
<1>4. Last(Append(a, VerifyRequest(d)), Verifying, Question)
  BY <1>1, <1>2, <1>3, LastAppend
<1> QED
  BY <1>1, <1>2, <1>4 DEF InStep, Early

\* The client reads VerifyResponse.
LEMMA InStepVerified ==
  ASSUME NEW a, NEW b \in Seq(Sent), b # <<>>
  PROVE  InStep("verifying", a, b) /\ Head(b) = VerifyResponse
           => InStep("relaying", a, Tail(b))
<1> SUFFICES ASSUME InStep("verifying", a, b), Head(b) = VerifyResponse
             PROVE  InStep("relaying", a, Tail(b))
  OBVIOUS
<1>1. Head(b) \in Verdicts
  BY DEF Verdicts
<1>2. Range(b) = {Head(b)} \cup Range(Tail(b))
  BY TailRange
<1>3. Range(Tail(b)) \cap Answer = {}
  BY <1>1, LastTail DEF InStep
<1> QED
  BY <1>1, <1>2, <1>3 DEF InStep, Early

StepInv == \A l \in Line : InStep(stage[l], asked[l], inbox[l])

\* The server keeps the lines in step.
LEMMA ServerInStep ==
  ASSUME NEW l \in Line
  PROVE  TypeInv /\ StepInv /\ (Serve(l) \/ Crash) => StepInv'
<1> SUFFICES ASSUME TypeInv, StepInv, Serve(l) \/ Crash, NEW k \in Line
             PROVE  InStep(stage[k], asked[k], inbox[k])'
  BY DEF StepInv
<1>1. InStep(stage[k], asked[k], inbox[k])
  BY DEF StepInv
<1>2. /\ asked \in [Line -> Seq(Asked)] /\ inbox \in [Line -> Seq(Sent)]
      /\ stage \in [Line -> Stage]
      /\ channel \in [Line -> Seq(Forward)]
  BY DEF TypeInv, TypeOK, Asked, Sent
<1>3. CASE Handle(l)
  <2>1. asked[l] # <<>> /\ asked' = [asked EXCEPT ![l] = Tail(@)]
        /\ stage' = stage /\ HandleRequest(l, Head(asked[l]))
    BY <1>3 DEF Handle, client
  <2>2. CASE k # l
    <3>1. asked'[k] = asked[k]
      BY <1>2, <2>1, <2>2
    <3>2. inbox'[k] = inbox[k]
      BY <1>2, <2>1, <2>2 DEF HandleRequest, Write
    <3> QED
      BY <1>1, <2>1, <3>1, <3>2
  <2>3. CASE k = l
    <3>1. PICK m \in Asked : m = Head(asked[l])
      BY <1>2, <2>1, HeadTailProperties
    <3>2. asked'[l] = Tail(asked[l])
      BY <1>2, <2>1
    <3>3. ASSUME NEW r \in Answer, inbox' = Write(l, r), m \in Question,
                 r \in Verdicts <=> m \in Verifying
          PROVE  InStep(stage[l], Tail(asked[l]), inbox'[l])
      <4>1. inbox'[l] \in {inbox[l], Append(inbox[l], r)}
        BY <1>2, <3>3 DEF Write
      <4> QED
        BY <1>1, <1>2, <2>1, <2>3, <3>1, <3>3, <4>1, InStepHandled
    <3>4. InStep(stage[l], Tail(asked[l]), inbox'[l])
      <4>1. CASE m.type = "Announce" /\ inbox' = Write(l, AnnounceAck)
        BY <3>1, <3>3, <4>1, QuestionKinds, Answers
      <4>2. CASE m.type = "QueryPeer" /\ inbox' = Write(l, LookUp(m.id))
        <5>1. LookUp(m.id) \in Answer \ Verdicts
          BY <3>1, <4>2, QuestionKinds, Answers DEF TypeInv, TypeOK, LookUp
        <5> QED
          BY <3>1, <3>3, <4>2, <5>1, QuestionKinds
      <4>3. CASE /\ m.type = "VerifyRequest"
                 /\ inbox' = Write(l, IF m.id \in Member
                                      THEN VerifyResponse ELSE VerifyError)
        BY <3>1, <3>3, <4>3, QuestionKinds, Answers
      <4>4. CASE m.type = "RelayPacket" /\ inbox' = inbox
        <5>1. AnnounceAck \in Answer
          BY Answers
        <5> QED
          BY <1>1, <1>2, <2>1, <2>3, <4>4, <5>1, InStepHandled
      <4> QED
        BY <2>1, <3>1, <4>1, <4>2, <4>3, <4>4 DEF HandleRequest
    <3> QED
      BY <2>1, <2>3, <3>2, <3>4
  <2> QED
    BY <2>2, <2>3
<1>4. CASE Push(l)
  <2>1. channel[l] # <<>> /\ inbox' = Write(l, Head(channel[l]))
        /\ stage' = stage /\ asked' = asked
    BY <1>4 DEF Push, client
  <2>2. Head(channel[l]) \in Forward
    BY <1>2, <2>1, HeadTailProperties
  <2>3. inbox'[k] \in {inbox[k], Append(inbox[k], Head(channel[l]))}
    BY <1>2, <2>1 DEF Write
  <2>4. InStep(stage[k], asked[k], Append(inbox[k], Head(channel[l])))
    BY <1>1, <1>2, <2>2, InStepPushed
  <2> QED
    BY <1>1, <2>1, <2>3, <2>4
<1>5. CASE HandlerFails(l) \/ Sever(l) \/ Crash
  <2>1. /\ asked'[k] \in {asked[k], <<>>}
        /\ stage' = stage /\ inbox' = inbox
    BY <1>2, <1>5 DEF HandlerFails, Sever, Crash, client
  <2> QED
    BY <1>1, <2>1, InStepLost
<1> QED
  BY <1>3, <1>4, <1>5 DEF Serve

\* A line that is left is in step.
LEMMA DropInStep ==
  ASSUME NEW L, NEW s \in {"ended", "failed"}
  PROVE  TypeInv /\ StepInv /\ Drop(L, s) => StepInv'
<1> SUFFICES ASSUME TypeInv, StepInv, Drop(L, s), NEW k \in Line
             PROVE  InStep(stage[k], asked[k], inbox[k])'
  BY DEF StepInv
<1>1. CASE k \in L
  BY <1>1 DEF Drop, InStep, Early
<1>2. CASE k \notin L
  <2>1. stage'[k] = stage[k] /\ asked'[k] = asked[k] /\ inbox'[k] = inbox[k]
    BY <1>2 DEF Drop
  <2> QED
    BY <2>1 DEF StepInv
<1> QED
  BY <1>1, <1>2

\* Commands keep the lines in step.
LEMMA CommandsInStep ==
  ASSUME NEW d \in Member
  PROVE  TypeInv /\ StepInv /\ Command(d) => StepInv'
<1> SUFFICES ASSUME TypeInv, StepInv, Command(d) PROVE StepInv'
  OBVIOUS
<1>1. ASSUME NEW t, NEW p, Open(d, t, p) PROVE StepInv'
  <2>1. PICK l \in Line :
          /\ At(l, "unused")
          /\ stage' = [stage EXCEPT ![l] = "joining"]
          /\ UNCHANGED <<asked, inbox>>
    BY <1>1 DEF Open, wire
  <2>2. ASSUME NEW k \in Line PROVE InStep(stage[k], asked[k], inbox[k])'
    BY <2>1 DEF TypeInv, TypeOK, StepInv, InStep, Early, At
  <2> QED
    BY <2>2 DEF StepInv
<1>2. ASSUME UNCHANGED <<stage, asked, inbox>> PROVE StepInv'
  BY <1>2 DEF StepInv
<1>3. ASSUME NEW p \in Port, Listen(d, p) PROVE StepInv'
  BY <1>1, <1>3 DEF Listen
<1>4. ASSUME NEW p \in Port, Bind(d, p) PROVE StepInv'
  BY <1>2, <1>4 DEF Bind, client, wire
<1>5. ASSUME NEW t \in Diddy, Chat(d, t) PROVE StepInv'
  BY <1>1, <1>5 DEF Chat
<1>6. CASE Quit(d)
  BY <1>6, DropInStep DEF Quit
<1> QED
  BY <1>3, <1>4, <1>5, <1>6 DEF Command

\* The client keeps its line in step.
LEMMA ClientInStep ==
  ASSUME NEW l \in Line
  PROVE  TypeInv /\ StepInv /\ Use(l) => StepInv'
<1> SUFFICES ASSUME TypeInv, StepInv, Use(l) PROVE StepInv'
  OBVIOUS
<1>1. InStep(stage[l], asked[l], inbox[l])
  BY DEF StepInv
<1>2. /\ asked \in [Line -> Seq(Asked)] /\ inbox \in [Line -> Seq(Sent)]
      /\ stage \in [Line -> Stage] /\ target[l] \in Diddy \cup {None}
      /\ port[l] \in Port \cup {0}
      /\ LineOK(l)
  BY DEF TypeInv, TypeOK, Asked, Sent
<1>3. ASSUME \A k \in Line \ {l} :
               stage'[k] = stage[k] /\ asked'[k] = asked[k] /\ inbox'[k] = inbox[k],
             InStep(stage'[l], asked'[l], inbox'[l])
      PROVE  StepInv'
  BY <1>3 DEF StepInv
<1>4. ASSUME NEW s \in {"ended", "failed"}, Leave(l, s) PROVE StepInv'
  BY <1>4, DropInStep DEF Leave
<1>5. CASE Login(l)
  <2>1. Announce(port[l]) \in Question \ Verifying /\ Announce(port[l]) \in Asked
    BY <1>2, Questions DEF Asked
  <2>2. asked[l] = <<>> /\ stage[l] = "joining"
    BY <1>2, <1>5 DEF LineOK, Login, At
  <2>3. InStep("joining", <<Announce(port[l])>>, inbox[l])
    <3>1. <<Announce(port[l])>> = Append(asked[l], Announce(port[l]))
      BY <2>2
    <3>2. InStep(stage[l], Append(asked[l], Announce(port[l])), inbox[l])
      BY <1>1, <1>2, <2>1, <2>2, InStepAsked DEF Early
    <3> QED
      BY <2>2, <3>1, <3>2, Zenon
  <2>4. InStep(stage'[l], asked'[l], inbox'[l])
    BY <1>2, <1>5, <2>3 DEF Login, InStep, Early
  <2> QED
    BY <1>2, <1>3, <1>5, <2>4 DEF Login
<1>6. CASE LoginFails(l)
  BY <1>4, <1>6 DEF LoginFails
<1>7. CASE ReadAnnounceAnswer(l) \/ Notice(l) \/ Watch(l)
  <2>1. PICK m \in Sent, t \in Stage :
          /\ Receive(l, m) /\ UNCHANGED asked
          /\ stage' = [stage EXCEPT ![l] = t]
          /\ stage[l] = t \/ {stage[l], t} \subseteq Early
    <3>1. stage' = [stage EXCEPT ![l] = stage[l]] <=> stage' = stage
      BY <1>2 DEF TypeInv, TypeOK
    <3>2. CASE ReadAnnounceAnswer(l)
      BY <3>2 DEF ReadAnnounceAnswer, At, Enter, Early, Stage, Sent
    <3>3. CASE Notice(l) \/ Watch(l)
      BY <1>2, <3>1, <3>3 DEF Notice, Watch, client, Sent
    <3> QED
      BY <1>7, <3>2, <3>3
  <2>2. InStep(t, asked[l], Tail(inbox[l]))
    BY <1>1, <1>2, <2>1, ReceiveTyped, InStepRead
  <2>3. InStep(stage'[l], asked'[l], inbox'[l])
    BY <1>2, <2>1, <2>2, ReceiveTyped
  <2> QED
    BY <1>2, <1>3, <2>1, <2>3 DEF Receive
<1>8. CASE AnnounceAnswered(l)
  <2>1. PICK m : /\ At(l, "announcing") /\ IsChat(l)
                 /\ Receive(l, m) /\ Enter(l, "querying")
                 /\ Ask(l, QueryPeer(target[l]))
    BY <1>8 DEF AnnounceAnswered
  <2>2. QueryPeer(target[l]) \in Question \ Verifying /\ QueryPeer(target[l]) \in Asked
    BY <1>2, <2>1, Questions DEF Asked, IsChat
  <2>3. /\ \A k \in Line \ {l} : asked'[k] = asked[k]
        /\ asked'[l] \in {asked[l], Append(asked[l], QueryPeer(target[l]))}
    BY <2>1, <2>2, AskTyped
  <2>4. /\ \A k \in Line \ {l} : stage'[k] = stage[k] /\ inbox'[k] = inbox[k]
        /\ stage[l] = "announcing" /\ stage'[l] = "querying"
        /\ inbox'[l] = Tail(inbox[l]) /\ inbox[l] # <<>>
    BY <1>2, <2>1, ReceiveTyped DEF At, Enter, Receive
  <2>5. InStep("querying", asked[l], Tail(inbox[l]))
    BY <1>1, <1>2, <2>4, InStepRead DEF Early
  <2>6. InStep("querying", Append(asked[l], QueryPeer(target[l])), Tail(inbox[l]))
    BY <1>2, <2>2, <2>5, InStepAsked DEF Early
  <2> QED
    BY <1>3, <2>3, <2>4, <2>5, <2>6
<1>9. CASE QueryAnswered(l)
  <2>1. PICK m :
          /\ At(l, "querying") /\ Receive(l, m)
          /\ IF m.type = "PeerInfo"
             THEN /\ stage' = [stage EXCEPT ![l] = "dialing"]
                  /\ UNCHANGED asked
             ELSE /\ stage' = [stage EXCEPT ![l] = "verifying"]
                  /\ Ask(l, VerifyRequest(target[l]))
    BY <1>9 DEF QueryAnswered, Enter
  <2>2. target[l] \in Diddy
    BY <1>2, <2>1 DEF LineOK, Chatting, At, IsChat
  <2>3. /\ \A k \in Line \ {l} : stage'[k] = stage[k] /\ inbox'[k] = inbox[k]
        /\ stage[l] = "querying"
        /\ inbox'[l] = Tail(inbox[l]) /\ inbox[l] # <<>>
    BY <1>2, <2>1, ReceiveTyped DEF At, Receive
  <2>4. \A s \in Early : InStep(s, asked[l], Tail(inbox[l]))
    BY <1>1, <1>2, <2>3, InStepRead DEF Early
  <2>5. CASE m.type = "PeerInfo"
    BY <1>2, <1>3, <2>1, <2>3, <2>4, <2>5 DEF Early
  <2>6. CASE m.type # "PeerInfo"
    <3>1. VerifyRequest(target[l]) \in Asked
      BY <2>2, Questions DEF Asked
    <3>2. /\ \A k \in Line \ {l} : asked'[k] = asked[k]
          /\ asked'[l] \in {asked[l], Append(asked[l], VerifyRequest(target[l]))}
      BY <2>1, <2>6, <3>1, AskTyped
    <3>3. /\ InStep("verifying", asked[l], Tail(inbox[l]))
          /\ InStep("verifying", Append(asked[l], VerifyRequest(target[l])),
                    Tail(inbox[l]))
      BY <1>2, <2>2, <2>4, InStepVerifies DEF Early
    <3> QED
      BY <1>2, <1>3, <2>1, <2>3, <2>6, <3>2, <3>3
  <2> QED
    BY <2>5, <2>6
<1>10. CASE Dial(l) \/ LeaveRelay(l) \/ ReceiveTaskFails(l)
  <2>1. /\ UNCHANGED <<asked, inbox>>
        /\ \/ stage[l] = "dialing" /\ stage' = [stage EXCEPT ![l] = "direct"]
           \/ stage[l] = "relaying" /\ stage' = [stage EXCEPT ![l] = "left"]
           \/ stage[l] = "relaying" /\ stage' = [stage EXCEPT ![l] = "typing"]
    BY <1>10 DEF Dial, LeaveRelay, ReceiveTaskFails, At, Enter, wire
  <2>2. InStep(stage'[l], asked'[l], inbox'[l])
    BY <1>1, <1>2, <2>1 DEF InStep, Early
  <2> QED
    BY <1>2, <1>3, <2>1, <2>2
<1>11. CASE DialFails(l)
  <2>1. /\ stage[l] = "dialing" /\ stage' = [stage EXCEPT ![l] = "verifying"]
        /\ Ask(l, VerifyRequest(target[l])) /\ UNCHANGED inbox
    BY <1>11 DEF DialFails, At, Enter
  <2>2. target[l] \in Diddy
    BY <1>2, <2>1 DEF LineOK, Chatting, IsChat
  <2>3. VerifyRequest(target[l]) \in Asked
    BY <2>2, Questions DEF Asked
  <2>4. /\ \A k \in Line \ {l} : asked'[k] = asked[k]
        /\ asked'[l] \in {asked[l], Append(asked[l], VerifyRequest(target[l]))}
    BY <2>1, <2>3, AskTyped
  <2>5. /\ InStep("verifying", asked[l], inbox[l])
        /\ InStep("verifying", Append(asked[l], VerifyRequest(target[l])), inbox[l])
    BY <1>1, <1>2, <2>1, <2>2, InStepVerifies DEF Early
  <2> QED
    BY <1>2, <1>3, <2>1, <2>4, <2>5
<1>12. CASE VerifyAnswered(l)
  <2>1. PICK m :
          /\ At(l, "verifying")
          /\ IF Verdict(m) = "failed"
             THEN Leave(l, "failed")
             ELSE /\ Receive(l, m)
                  /\ stage' = [stage EXCEPT ![l] = Verdict(m)]
                  /\ UNCHANGED asked
    BY <1>12 DEF VerifyAnswered
  <2>2. CASE Verdict(m) = "failed"
    BY <1>4, <2>1, <2>2
  <2>3. CASE Verdict(m) # "failed"
    <3>1. m = VerifyResponse /\ Verdict(m) = "relaying"
      BY <2>3 DEF Verdict
    <3>2. inbox[l] # <<>> /\ Head(inbox[l]) = m
          /\ inbox' = [inbox EXCEPT ![l] = Tail(inbox[l])]
      BY <2>1, <2>3, ReceiveTyped
    <3>3. InStep("relaying", asked[l], Tail(inbox[l]))
      BY <1>1, <1>2, <2>1, <3>1, <3>2, InStepVerified DEF At
    <3> QED
      BY <1>2, <1>3, <2>1, <3>1, <3>2, <3>3
  <2> QED
    BY <2>2, <2>3
<1>13. CASE Type(l)
  <2>1. owner[l] \in Member /\ target[l] \in Diddy /\ sent' \in Number
        /\ stage[l] \in {"relaying", "typing"} /\ UNCHANGED <<stage, inbox>>
        /\ Ask(l, RelayPacket(owner[l], target[l], sent'))
    BY <1>2, <1>13, ConstantsAssumption
       DEF TypeInv, TypeOK, LineOK, Chatting, IsChat, Type, Number, client
  <2>2. PICK e \in Packet : e = RelayPacket(owner[l], target[l], sent')
    BY <2>1 DEF Packet
  <2>3. e \in Asked
    BY DEF Asked
  <2>4. /\ \A k \in Line \ {l} : asked'[k] = asked[k]
        /\ asked'[l] \in {asked[l], Append(asked[l], e)}
    BY <2>1, <2>2, <2>3, AskTyped
  <2>5. InStep(stage[l], Append(asked[l], e), inbox[l])
    <3>1. CASE stage[l] = "relaying"
      BY <1>1, <1>2, <2>1, <2>3, <3>1, InStepAsked
    <3>2. CASE stage[l] = "typing"
      BY <3>2 DEF InStep, Early
    <3> QED
      BY <2>1, <3>1, <3>2
  <2> QED
    BY <1>1, <1>3, <2>1, <2>4, <2>5
<1>14. CASE EndDirect(l) \/ StopTyping(l)
  BY <1>4, <1>14 DEF EndDirect, StopTyping
<1>15. CASE ReadFails(l)
  BY <1>4, <1>15 DEF ReadFails
<1> QED
  BY <1>5, <1>6, <1>7, <1>8, <1>9, <1>10, <1>11, <1>12, <1>13, <1>14, <1>15
     DEF Use, Continue

\* Every step keeps the lines in step.
LEMMA NextInStep == TypeInv /\ StepInv /\ [Next]_vars => StepInv'
<1> SUFFICES ASSUME TypeInv, StepInv, [Next]_vars PROVE StepInv'
  OBVIOUS
<1>1. CASE UNCHANGED vars \/ Network
  <2>1. UNCHANGED <<stage, asked, inbox>>
    BY <1>1, NetworkSteps DEF vars, client, wire
  <2> QED
    BY <2>1 DEF StepInv
<1> QED
  BY <1>1, Steps, ServerInStep, ClientInStep, CommandsInStep

\* A relay chat starts in step: when p2p::chat goes on to relay_chat, no
\* question of its discovery is open and no answer is unread.
THEOREM RelayChatInStepHolds == Spec => []RelayChatInStep
<1>1. Init => StepInv
  <2> SUFFICES ASSUME Init, NEW l \in Line PROVE InStep(stage[l], asked[l], inbox[l])
    BY DEF StepInv
  <2>1. stage[l] = "unused" /\ asked[l] = <<>> /\ inbox[l] = <<>>
    BY DEF Init
  <2> QED
    BY <2>1, EmptyRange DEF InStep
<1>2. Spec => [](TypeInv /\ StepInv)
  BY <1>1, InitTyped, NextTyped, NextInStep, PTL DEF Spec
<1>3. StepInv => RelayChatInStep
  BY DEF StepInv, InStep, RelayChatInStep, Settled, Range
<1> QED
  BY <1>2, <1>3, PTL

-----------------------------------------------------------------------------
(* Answers on the way *)

\* Nobody takes up what is asked on the line.
Gone(l) == cut[l] \/ l \in deserted

\* A client that waits for an answer to what is in a has something to read in
\* b, or nobody is there to answer, or a question is on the way.
Served(s, c, a, b) ==
  s \in {"announcing", "querying", "verifying"}
    => c \/ b # <<>> \/ Range(a) \cap Question # {}

ServedInv == \A l \in Line : Served(stage[l], Gone(l), asked[l], inbox[l])

\* Something was put on a queue.
LEMMA SomeAppended ==
  ASSUME NEW S, NEW s \in Seq(S), NEW e \in S
  PROVE  Append(s, e) # <<>>
<1>1. e \in Range(Append(s, e))
  BY AppendRange
<1> QED
  BY <1>1, EmptyRange

\* The server takes up a request and answers it, if it is a question.
LEMMA ServedHandled ==
  ASSUME NEW s, NEW c, NEW a \in Seq(Asked), a # <<>>, NEW b \in Seq(Sent),
         NEW r \in Answer
  PROVE  Served(s, c, a, b)
           => /\ Served(s, c, Tail(a), Append(b, r))
              /\ Head(a) \in Packet => Served(s, c, Tail(a), b)
<1>1. Range(a) = {Head(a)} \cup Range(Tail(a)) /\ Head(a) \in Asked
  BY TailRange, HeadTailProperties
<1>2. Append(b, r) # <<>>
  BY SomeAppended DEF Sent
<1>3. Head(a) \in Packet => Head(a) \notin Question
  BY <1>1, QuestionKinds
<1> QED
  BY <1>1, <1>2, <1>3 DEF Served

\* The client asks, unless nobody is there.
LEMMA ServedAsked ==
  ASSUME NEW l \in Line, NEW q \in Question, NEW s, NEW b
  PROVE  TypeInv /\ Ask(l, q) => Served(s, Gone(l), asked'[l], b)
<1> SUFFICES ASSUME TypeInv, Ask(l, q), ~Gone(l)
             PROVE  Range(asked'[l]) \cap Question # {}
  BY DEF Served
<1>1. asked[l] \in Seq(Asked) /\ asked \in [Line -> Seq(Asked)] /\ q \in Asked
  BY DEF TypeInv, TypeOK, Asked
<1>2. asked'[l] = Append(asked[l], q)
  BY <1>1 DEF Ask, Gone
<1>3. q \in Range(asked'[l])
  BY <1>1, <1>2, AppendRange
<1> QED
  BY <1>3

\* The server leaves no client without an answer.
LEMMA ServerServes ==
  ASSUME NEW l \in Line
  PROVE  TypeInv /\ ServedInv /\ (Serve(l) \/ Crash) => ServedInv'
<1> SUFFICES ASSUME TypeInv, ServedInv, Serve(l) \/ Crash, NEW k \in Line
             PROVE  Served(stage[k], Gone(k), asked[k], inbox[k])'
  BY DEF ServedInv
<1>1. Served(stage[k], Gone(k), asked[k], inbox[k])
  BY DEF ServedInv
<1>2. /\ asked \in [Line -> Seq(Asked)] /\ inbox \in [Line -> Seq(Sent)]
      /\ channel \in [Line -> Seq(Forward)] /\ cut \in [Line -> BOOLEAN]
  BY DEF TypeInv, TypeOK, Asked, Sent
<1>3. CASE Handle(l)
  <2>1. /\ asked[l] # <<>> /\ asked' = [asked EXCEPT ![l] = Tail(@)]
        /\ stage' = stage /\ Gone(k)' = Gone(k) /\ HandleRequest(l, Head(asked[l]))
    BY <1>3 DEF Handle, client, Gone
  <2>2. CASE k # l
    <3>1. asked'[k] = asked[k] /\ inbox'[k] = inbox[k]
      BY <1>2, <2>1, <2>2 DEF HandleRequest, Write
    <3> QED
      BY <1>1, <2>1, <3>1
  <2>3. CASE k = l /\ Held(l)
    <3>1. PICK m \in Asked : m = Head(asked[l])
      BY <1>2, <2>1, HeadTailProperties
    <3>2. asked'[l] = Tail(asked[l])
      BY <1>2, <2>1
    <3>3. ASSUME NEW r \in Answer, inbox' = Write(l, r)
          PROVE  Served(stage[l], Gone(l), Tail(asked[l]), inbox'[l])
      <4>1. inbox'[l] = Append(inbox[l], r)
        BY <1>2, <2>3, <3>3 DEF Write
      <4> QED
        BY <1>1, <1>2, <2>1, <2>3, <4>1, ServedHandled
    <3>4. Served(stage[l], Gone(l), Tail(asked[l]), inbox'[l])
      <4>1. CASE m.type = "Announce" /\ inbox' = Write(l, AnnounceAck)
        BY <3>3, <4>1, Answers
      <4>2. CASE m.type = "QueryPeer" /\ inbox' = Write(l, LookUp(m.id))
        <5>1. LookUp(m.id) \in Answer
          BY <3>1, <4>2, QuestionKinds, Answers DEF TypeInv, TypeOK, LookUp
        <5> QED
          BY <3>3, <4>2, <5>1
      <4>3. CASE /\ m.type = "VerifyRequest"
                 /\ inbox' = Write(l, IF m.id \in Member
                                      THEN VerifyResponse ELSE VerifyError)
        BY <3>3, <4>3, Answers
      <4>4. CASE m.type = "RelayPacket" /\ inbox' = inbox
        <5>1. AnnounceAck \in Answer /\ m \in Packet
          BY <3>1, <4>4, Answers, QuestionKinds
        <5> QED
          BY <1>1, <1>2, <2>1, <2>3, <3>1, <4>4, <5>1, ServedHandled
      <4> QED
        BY <2>1, <3>1, <4>1, <4>2, <4>3, <4>4 DEF HandleRequest
    <3> QED
      BY <2>1, <2>3, <3>2, <3>4
  <2>4. CASE ~Held(k)
    BY <2>1, <2>4 DEF Held, Served
  <2> QED
    BY <2>2, <2>3, <2>4
<1>4. CASE Push(l)
  <2>1. channel[l] # <<>> /\ inbox' = Write(l, Head(channel[l]))
        /\ stage' = stage /\ asked' = asked /\ Gone(k)' = Gone(k)
    BY <1>4 DEF Push, client, server, Gone
  <2>2. Head(channel[l]) \in Sent
    BY <1>2, <2>1, HeadTailProperties DEF Sent
  <2>3. Append(inbox[l], Head(channel[l])) # <<>>
    BY <1>2, <2>2, SomeAppended
  <2>4. inbox'[k] = inbox[k] \/ inbox'[k] # <<>>
    BY <1>2, <2>1, <2>3 DEF Write
  <2> QED
    BY <1>1, <2>1, <2>4 DEF Served
<1>5. CASE HandlerFails(l) \/ Sever(l)
  <2>1. /\ stage' = stage /\ inbox' = inbox
        /\ Gone(k) => Gone(k)'
        /\ k # l => asked'[k] = asked[k]
        /\ k = l => Gone(k)'
    BY <1>2, <1>5 DEF HandlerFails, Sever, client, server, Gone
  <2> QED
    BY <1>1, <2>1 DEF Served
<1>6. CASE Crash
  BY <1>1, <1>2, <1>6 DEF Crash, client, Served, Gone, Held
<1> QED
  BY <1>3, <1>4, <1>5, <1>6 DEF Serve

\* Lines that are left wait for nothing.
LEMMA DropServes ==
  ASSUME NEW L, NEW s \in {"ended", "failed"}
  PROVE  TypeInv /\ ServedInv /\ Drop(L, s) => ServedInv'
<1> SUFFICES ASSUME TypeInv, ServedInv, Drop(L, s), NEW k \in Line
             PROVE  Served(stage[k], Gone(k), asked[k], inbox[k])'
  BY DEF ServedInv
<1>1. CASE k \in L
  BY <1>1 DEF Drop, Served
<1>2. CASE k \notin L
  <2>1. stage'[k] = stage[k] /\ asked'[k] = asked[k] /\ inbox'[k] = inbox[k]
        /\ Gone(k)' = Gone(k)
    BY <1>2 DEF Drop, TypeInv, TypeOK, server, Gone
  <2> QED
    BY <2>1 DEF ServedInv
<1> QED
  BY <1>1, <1>2

\* Commands leave no client without an answer.
LEMMA CommandsServe ==
  ASSUME NEW d \in Member
  PROVE  TypeInv /\ ServedInv /\ Command(d) => ServedInv'
<1> SUFFICES ASSUME TypeInv, ServedInv, Command(d) PROVE ServedInv'
  OBVIOUS
<1>1. ASSUME NEW t, NEW p, Open(d, t, p) PROVE ServedInv'
  <2>1. PICK l \in Line :
          /\ stage' = [stage EXCEPT ![l] = "joining"]
          /\ UNCHANGED <<asked, inbox, cut, deserted>>
    BY <1>1 DEF Open, wire, server
  <2>2. ASSUME NEW k \in Line PROVE Served(stage[k], Gone(k), asked[k], inbox[k])'
    BY <2>1 DEF TypeInv, TypeOK, ServedInv, Served, Gone
  <2> QED
    BY <2>2 DEF ServedInv
<1>2. ASSUME NEW p \in Port, Listen(d, p) PROVE ServedInv'
  BY <1>1, <1>2 DEF Listen
<1>3. ASSUME NEW p \in Port, Bind(d, p) PROVE ServedInv'
  BY <1>3 DEF Bind, client, wire, server, Gone, ServedInv
<1>4. ASSUME NEW t \in Diddy, Chat(d, t) PROVE ServedInv'
  BY <1>1, <1>4 DEF Chat
<1>5. CASE Quit(d)
  BY <1>5, DropServes DEF Quit
<1> QED
  BY <1>2, <1>3, <1>4, <1>5 DEF Command

\* The client waits for nothing that it has not asked for.
LEMMA ClientServes ==
  ASSUME NEW l \in Line
  PROVE  TypeInv /\ ServedInv /\ Use(l) => ServedInv'
<1> SUFFICES ASSUME TypeInv, ServedInv, Use(l) PROVE ServedInv'
  OBVIOUS
<1>1. Served(stage[l], Gone(l), asked[l], inbox[l])
  BY DEF ServedInv
<1>2. /\ asked \in [Line -> Seq(Asked)] /\ inbox \in [Line -> Seq(Sent)]
      /\ stage \in [Line -> Stage] /\ target[l] \in Diddy \cup {None}
      /\ port[l] \in Port \cup {0}
      /\ LineOK(l)
  BY DEF TypeInv, TypeOK, Asked, Sent
<1>3. ASSUME /\ UNCHANGED <<cut, deserted>>
             /\ \A k \in Line \ {l} :
                  stage'[k] = stage[k] /\ asked'[k] = asked[k] /\ inbox'[k] = inbox[k],
             Served(stage'[l], Gone(l), asked'[l], inbox'[l])
      PROVE  ServedInv'
  BY <1>3 DEF ServedInv, Gone
<1>4. ASSUME NEW s \in {"ended", "failed"}, Leave(l, s) PROVE ServedInv'
  BY <1>4, DropServes DEF Leave
<1>5. ASSUME UNCHANGED <<cut, deserted, asked>>,
             \E s \in Stage \ {"announcing", "querying", "verifying"} :
               stage' = [stage EXCEPT ![l] = s],
             inbox' = inbox \/ inbox' = [inbox EXCEPT ![l] = Tail(@)]
      PROVE  ServedInv'
  <2>1. Served(stage'[l], Gone(l), asked'[l], inbox'[l])
    BY <1>2, <1>5 DEF Served
  <2> QED
    BY <1>2, <1>3, <1>5, <2>1
<1>6. ASSUME NEW q \in Question, NEW s, Ask(l, q),
             stage' = [stage EXCEPT ![l] = s],
             inbox' = inbox \/ inbox' = [inbox EXCEPT ![l] = Tail(@)],
             UNCHANGED <<cut, deserted>>
      PROVE  ServedInv'
  <2>1. Served(stage'[l], Gone(l), asked'[l], inbox'[l])
    BY <1>6, ServedAsked
  <2>2. \A k \in Line \ {l} : asked'[k] = asked[k]
    BY <1>2, <1>6 DEF Ask
  <2> QED
    BY <1>2, <1>3, <1>6, <2>1, <2>2
<1>7. CASE Login(l)
  <2>1. Announce(port[l]) \in Question
    BY <1>2, Questions
  <2>2. asked'[l] = <<Announce(port[l])>>
    BY <1>2, <1>7 DEF Login
  <2>3. Announce(port[l]) \in Range(asked'[l])
    BY <2>2 DEF Range
  <2>4. Served(stage'[l], Gone(l), asked'[l], inbox'[l])
    BY <2>1, <2>3 DEF Served
  <2> QED
    BY <1>2, <1>3, <1>7, <2>4 DEF Login
<1>8. CASE LoginFails(l) \/ EndDirect(l) \/ StopTyping(l) \/ ReadFails(l)
  BY <1>4, <1>8 DEF LoginFails, EndDirect, StopTyping, ReadFails
<1>9. CASE ReadAnnounceAnswer(l)
  <2>1. PICK m : /\ Receive(l, m) /\ Enter(l, "reading")
                 /\ UNCHANGED <<cut, deserted, asked>>
    BY <1>9 DEF ReadAnnounceAnswer, server
  <2> QED
    BY <1>5, <2>1 DEF Receive, Enter, Stage
<1>10. CASE Notice(l) \/ Watch(l)
  <2>1. PICK m : Receive(l, m) /\ UNCHANGED <<stage, cut, deserted, asked>>
    BY <1>10 DEF Notice, Watch, client, server
  <2>2. stage[l] \in Stage \ {"announcing", "querying", "verifying"}
    BY <1>2, <1>10 DEF Notice, Watch, At
  <2>3. stage' = [stage EXCEPT ![l] = stage[l]]
    BY <1>2, <2>1
  <2> QED
    BY <1>5, <2>1, <2>2, <2>3 DEF Receive
<1>11. CASE AnnounceAnswered(l)
  <2>1. PICK m : /\ IsChat(l) /\ Receive(l, m) /\ Enter(l, "querying")
                 /\ Ask(l, QueryPeer(target[l])) /\ UNCHANGED <<cut, deserted>>
    BY <1>11 DEF AnnounceAnswered, server
  <2>2. QueryPeer(target[l]) \in Question
    BY <1>2, <2>1, Questions DEF IsChat
  <2> QED
    BY <1>6, <2>1, <2>2 DEF Receive, Enter
<1>12. CASE QueryAnswered(l)
  <2>1. PICK m :
          /\ At(l, "querying") /\ Receive(l, m) /\ UNCHANGED <<cut, deserted>>
          /\ IF m.type = "PeerInfo"
             THEN /\ stage' = [stage EXCEPT ![l] = "dialing"]
                  /\ UNCHANGED asked
             ELSE /\ stage' = [stage EXCEPT ![l] = "verifying"]
                  /\ Ask(l, VerifyRequest(target[l]))
    BY <1>12 DEF QueryAnswered, Enter, server
  <2>2. VerifyRequest(target[l]) \in Question
    BY <1>2, <2>1, Questions DEF LineOK, Chatting, At, IsChat
  <2>3. CASE m.type = "PeerInfo"
    BY <1>5, <2>1, <2>3 DEF Receive, Stage
  <2>4. CASE m.type # "PeerInfo"
    BY <1>6, <2>1, <2>2, <2>4 DEF Receive
  <2> QED
    BY <2>3, <2>4
<1>13. CASE Dial(l) \/ LeaveRelay(l) \/ ReceiveTaskFails(l)
  BY <1>5, <1>13 DEF Dial, LeaveRelay, ReceiveTaskFails, Enter, wire, server, Stage
<1>14. CASE DialFails(l)
  <2>1. /\ stage[l] = "dialing" /\ stage' = [stage EXCEPT ![l] = "verifying"]
        /\ Ask(l, VerifyRequest(target[l])) /\ UNCHANGED <<inbox, cut, deserted>>
    BY <1>14 DEF DialFails, At, Enter, server
  <2>2. VerifyRequest(target[l]) \in Question
    BY <1>2, <2>1, Questions DEF LineOK, Chatting, IsChat
  <2> QED
    BY <1>6, <2>1, <2>2
<1>15. CASE VerifyAnswered(l)
  <2>1. PICK m :
          IF Verdict(m) = "failed"
          THEN Leave(l, "failed")
          ELSE /\ Receive(l, m)
               /\ stage' = [stage EXCEPT ![l] = Verdict(m)]
               /\ UNCHANGED <<cut, deserted, asked>>
    BY <1>15 DEF VerifyAnswered, server
  <2>2. CASE Verdict(m) = "failed"
    BY <1>4, <2>1, <2>2
  <2>3. CASE Verdict(m) # "failed"
    <3>1. Verdict(m) = "relaying"
      BY <2>3 DEF Verdict
    <3> QED
      BY <1>5, <2>1, <2>3, <3>1 DEF Receive, Stage
  <2> QED
    BY <2>2, <2>3
<1>16. CASE Type(l)
  <2>1. /\ stage[l] \in {"relaying", "typing"}
        /\ UNCHANGED <<stage, inbox, cut, deserted>>
        /\ \A k \in Line \ {l} : asked'[k] = asked[k]
    BY <1>2, <1>16 DEF Type, client, server, Ask
  <2>2. Served(stage'[l], Gone(l), asked'[l], inbox'[l])
    BY <2>1 DEF Served
  <2> QED
    BY <1>3, <2>1, <2>2
<1> QED
  BY <1>7, <1>8, <1>9, <1>10, <1>11, <1>12, <1>13, <1>14, <1>15, <1>16
     DEF Use, Continue

\* Every step leaves an answer on the way to who waits for one.
LEMMA NextServes == TypeInv /\ ServedInv /\ [Next]_vars => ServedInv'
<1> SUFFICES ASSUME TypeInv, ServedInv, [Next]_vars PROVE ServedInv'
  OBVIOUS
<1>1. CASE UNCHANGED vars \/ Network
  <2>1. UNCHANGED <<stage, cut, deserted, asked, inbox>>
    BY <1>1, NetworkSteps DEF vars, client, wire, server
  <2> QED
    BY <2>1 DEF ServedInv, Gone
<1> QED
  BY <1>1, Steps, ServerServes, ClientServes, CommandsServe

\* The reads of a chat's discovery, which have no time-out, do not wait for
\* what was never asked for or is never answered: a message is there or on the
\* way, or the end of the connection is; or the line's handler has failed.
THEOREM AnswerOnTheWayHolds == Spec => []AnswerOnTheWay
<1>1. Init => ServedInv
  BY DEF Init, ServedInv, Served
<1>2. Spec => [](TypeInv /\ ServedInv)
  BY <1>1, InitTyped, NextTyped, NextServes, PTL DEF Spec
<1>3. ServedInv => AnswerOnTheWay
  BY DEF ServedInv, Served, Gone, AnswerOnTheWay, Range
<1> QED
  BY <1>2, <1>3, PTL

-----------------------------------------------------------------------------
(* Addresses *)

\* Which diddy came from which address, on one of its lines.
Came == {<<owner[k], Seen(k)>> : k \in {l \in Line : owner[l] # None}}

\* Announced is the line's own port, and looked up is the peer of its chat.
Fits(m, p, d) ==
  /\ m.type = "Announce" => m.port = p
  /\ m.type = "QueryPeer" => m.id = d

\* What is known on a line of a chat about where its peer is.
Finds(l) ==
  /\ \A m \in Range(asked[l]) : Fits(m, port[l], target[l])
  /\ \A a \in Address : PeerInfo(a) \in Range(inbox[l]) => <<target[l], a>> \in Came
  /\ found[l] # None => <<target[l], found[l]>> \in Came
  /\ stage[l] = "unused" => found[l] = None

Located == \A d \in Diddy : directory[d] # None => <<d, directory[d]>> \in Came

FindInv == Located /\ \A l \in Line : Finds(l)

\* Other questions fit any line.
LEMMA OthersFit ==
  ASSUME NEW p, NEW d
  PROVE  /\ Fits(Announce(p), p, d)
         /\ Fits(QueryPeer(d), p, d)
         /\ Fits(VerifyRequest(d), p, d)
         /\ \A m \in Packet : Fits(m, p, d)
  BY DEF Fits, Announce, QueryPeer, VerifyRequest, Packet, RelayPacket

\* Where a line came from stays known, when others are opened too.
LEMMA CameStays ==
  TypeInv /\ (UNCHANGED opened \/ \E d, t, p : Open(d, t, p)) => Came \subseteq Came'
<1> SUFFICES ASSUME TypeInv, UNCHANGED opened \/ \E d, t, p : Open(d, t, p)
             PROVE  Came \subseteq Came'
  OBVIOUS
<1>1. /\ owner \in [Line -> Member \cup {None}] /\ port \in [Line -> Port \cup {0}]
      /\ host \in [Line -> Host \cup {None}]
      /\ \A l \in Line : LineOK(l)
  BY DEF TypeInv, TypeOK
<1>2. CASE UNCHANGED opened
  BY <1>2 DEF Came, Seen, opened
<1>3. CASE \E d, t, p : Open(d, t, p)
  <2>1. PICK d, t, p : Open(d, t, p)
    BY <1>3
  <2>2. PICK l \in Line, h \in Host :
          /\ At(l, "unused")
          /\ host' = [host EXCEPT ![l] = h]
          /\ owner' = [owner EXCEPT ![l] = d]
          /\ port' = [port EXCEPT ![l] = p]
    BY <2>1 DEF Open
  <2>3. owner[l] = None
    BY <1>1, <2>2 DEF LineOK, At
  <2>4. ASSUME NEW k \in Line, owner[k] # None
        PROVE  owner'[k] = owner[k] /\ Seen(k)' = Seen(k)
    BY <1>1, <2>2, <2>3, <2>4 DEF Seen
  <2> QED
    BY <2>4 DEF Came
<1> QED
  BY <1>2, <1>3

\* The owner of a line came from its address.
LEMMA Comes ==
  ASSUME NEW l \in Line
  PROVE  owner[l] # None => <<owner[l], Seen(l)>> \in Came
  BY DEF Came

\* A row of the directory is of a line of its diddy, and one of a message
\* that fits.
LEMMA NextLocated == TypeInv /\ FindInv /\ [Next]_vars => Located'
<1> SUFFICES ASSUME TypeInv, FindInv, [Next]_vars PROVE Located'
  OBVIOUS
<1>1. directory \in [Diddy -> Address \cup {None}] /\ Located
  BY DEF TypeInv, TypeOK, FindInv
<1>2. ASSUME UNCHANGED directory,
             \/ UNCHANGED opened
             \/ \E d, t, p : Open(d, t, p)
      PROVE  Located'
  BY <1>1, <1>2, CameStays DEF Located
<1>3. ASSUME NEW l \in Line, Handle(l) PROVE Located'
  <2>1. /\ asked[l] \in Seq(Asked) /\ asked[l] # <<>>
        /\ owner[l] \in Member
    BY <1>3 DEF TypeInv, TypeOK, LineOK, Asked, Handle
  <2>2. PICK m \in Asked : m = Head(asked[l])
    BY <2>1, HeadTailProperties
  <2>3. UNCHANGED opened /\ HandleRequest(l, m)
    BY <1>3, <2>2 DEF Handle
  <2>4. CASE m.type = "Announce" /\ directory' = Recorded(l, m.port)
    <3>1. m \in Range(asked[l])
      BY <2>1, <2>2, TailRange
    <3>2. m.port = port[l]
      BY <2>4, <3>1 DEF FindInv, Finds, Fits
    <3>3. directory' = [directory EXCEPT ![owner[l]] = Seen(l)]
      BY <2>4, <3>2 DEF Recorded, Seen
    <3>4. owner[l] \in Diddy /\ <<owner[l], Seen(l)>> \in Came
      BY <2>1, Comes, ConstantsAssumption
    <3>5. \A d \in Diddy : directory'[d] # None => <<d, directory'[d]>> \in Came
      BY <1>1, <3>3, <3>4 DEF Located
    <3> QED
      BY <2>3, <3>5, CameStays DEF Located
  <2> QED
    BY <1>2, <2>3, <2>4 DEF HandleRequest
<1>4. ASSUME NEW l \in Line,
             HandlerFails(l) \/ Push(l) \/ Sever(l) \/ Crash \/ Use(l)
      PROVE  Located'
  BY <1>2, <1>4
     DEF HandlerFails, Push, Sever, Crash, Use, Continue, Type, LeaveRelay, EndDirect,
         Login, LoginFails, ReadAnnounceAnswer, Notice, AnnounceAnswered,
         QueryAnswered, Dial, DialFails, VerifyAnswered, Watch, ReadFails,
         ReceiveTaskFails, StopTyping, Leave, Drop, server
<1>5. ASSUME NEW d \in Member, Command(d) PROVE Located'
  BY <1>2, <1>5 DEF Command, Listen, Bind, Chat, Quit, Open, Drop, server
<1>6. CASE UNCHANGED vars \/ Network
  BY <1>2, <1>6, NetworkSteps DEF vars, server
<1> QED
  BY <1>3, <1>4, <1>5, <1>6, Steps DEF Serve

\* The server answers a query with what the directory says.
LEMMA ServerFinds ==
  ASSUME NEW l \in Line, NEW k \in Line
  PROVE  TypeInv /\ FindInv /\ (Serve(l) \/ Crash) => Finds(k)'
<1> SUFFICES ASSUME TypeInv, FindInv, Serve(l) \/ Crash PROVE Finds(k)'
  OBVIOUS
<1>1. Finds(k) /\ UNCHANGED <<stage, found, opened>>
  BY DEF FindInv, Serve, Handle, HandlerFails, Push, Sever, Crash, client
<1>2. /\ asked \in [Line -> Seq(Asked)] /\ inbox \in [Line -> Seq(Sent)]
      /\ channel \in [Line -> Seq(Forward)]
      /\ directory \in [Diddy -> Address \cup {None}]
  BY DEF TypeInv, TypeOK, Asked, Sent
<1>3. ASSUME Range(asked'[k]) \subseteq Range(asked[k]),
             \A a \in Address : PeerInfo(a) \in Range(inbox'[k]) =>
               PeerInfo(a) \in Range(inbox[k]) \/ <<target[k], a>> \in Came
      PROVE  Finds(k)'
  <2>1. Came \subseteq Came' /\ UNCHANGED <<port, target>>
    BY <1>1, CameStays DEF opened
  <2>2. \A a \in Address : PeerInfo(a) \in Range(inbox'[k]) => <<target[k], a>> \in Came
    BY <1>1, <1>3 DEF Finds
  <2> QED
    BY <1>1, <1>3, <2>1, <2>2 DEF Finds
<1>4. CASE Handle(l)
  <2>1. asked[l] # <<>> /\ asked' = [asked EXCEPT ![l] = Tail(@)]
        /\ HandleRequest(l, Head(asked[l]))
    BY <1>4 DEF Handle
  <2>2. CASE k # l
    BY <1>2, <1>3, <2>1, <2>2 DEF HandleRequest, Write
  <2>3. CASE k = l
    <3>1. PICK m \in Asked : m = Head(asked[l])
      BY <1>2, <2>1, HeadTailProperties
    <3>2. Range(asked[l]) = {m} \cup Range(Tail(asked[l]))
      BY <1>2, <2>1, <3>1, TailRange
    <3>3. Range(asked'[l]) \subseteq Range(asked[l])
      BY <1>2, <2>1, <3>2
    <3>4. ASSUME NEW r \in Answer, inbox' = Write(l, r),
                 \A a \in Address : r = PeerInfo(a) => <<target[l], a>> \in Came
          PROVE  Finds(k)'
      <4>1. r \in Sent
        BY DEF Sent
      <4>2. Range(Append(inbox[l], r)) = Range(inbox[l]) \cup {r}
        BY <1>2, <4>1, AppendRange
      <4>3. inbox'[l] \in {inbox[l], Append(inbox[l], r)}
        BY <1>2, <3>4 DEF Write
      <4> QED
        BY <1>3, <2>3, <3>3, <3>4, <4>2, <4>3
    <3>5. CASE inbox' = Write(l, AnnounceAck)
      BY <3>4, <3>5, Answers DEF AnnounceAck, PeerInfo
    <3>6. CASE m.type = "QueryPeer" /\ inbox' = Write(l, LookUp(m.id))
      <4>1. m.id \in Diddy
        BY <3>1, <3>6, QuestionKinds
      <4>2. m.id = target[l]
        BY <1>1, <2>3, <3>2, <3>6 DEF Finds, Fits
      <4>3. LookUp(m.id) \in Answer
        BY <1>2, <4>1, Answers DEF LookUp
      <4>4. ASSUME NEW a \in Address, LookUp(m.id) = PeerInfo(a)
            PROVE  <<target[l], a>> \in Came
        <5>1. directory[m.id] # None /\ a = directory[m.id]
          BY <4>4 DEF LookUp, PeerInfo, PeerNotFound
        <5> QED
          BY <4>1, <4>2, <5>1 DEF FindInv, Located
      <4> QED
        BY <3>4, <3>6, <4>3, <4>4
    <3>7. CASE inbox' = Write(l, IF m.id \in Member THEN VerifyResponse ELSE VerifyError)
      BY <3>4, <3>7, Answers DEF VerifyResponse, VerifyError, PeerInfo
    <3>8. CASE inbox' = inbox
      BY <1>3, <2>3, <3>3, <3>8
    <3> QED
      BY <2>1, <3>1, <3>5, <3>6, <3>7, <3>8 DEF HandleRequest
  <2> QED
    BY <2>2, <2>3
<1>5. CASE Push(l)
  <2>1. asked' = asked /\ channel[l] # <<>> /\ inbox' = Write(l, Head(channel[l]))
    BY <1>5 DEF Push
  <2>2. PICK e \in Forward : e = Head(channel[l])
    BY <1>2, <2>1, HeadTailProperties
  <2>3. e \in Sent /\ \A a \in Address : e # PeerInfo(a)
    BY DEF Sent, Forward, PeerInfo
  <2>4. Range(Append(inbox[k], e)) = Range(inbox[k]) \cup {e}
    BY <1>2, <2>3, AppendRange
  <2>5. inbox'[k] \in {inbox[k], Append(inbox[k], e)}
    BY <1>2, <2>1, <2>2 DEF Write
  <2>6. \A a \in Address : PeerInfo(a) \in Range(inbox'[k]) =>
          PeerInfo(a) \in Range(inbox[k])
    <3>1. Range(inbox'[k]) \subseteq Range(inbox[k]) \cup {e}
      BY <2>4, <2>5
    <3> QED
      BY <2>3, <3>1
  <2> QED
    BY <1>3, <2>1, <2>6
<1>6. CASE HandlerFails(l) \/ Sever(l) \/ Crash
  <2>1. asked'[k] \in {asked[k], <<>>} /\ inbox' = inbox
    BY <1>2, <1>6 DEF HandlerFails, Sever, Crash
  <2> QED
    BY <1>3, <2>1, EmptyRange
<1> QED
  BY <1>4, <1>5, <1>6 DEF Serve

\* On a line that is left nothing is found.
LEMMA DropFinds ==
  ASSUME NEW L, NEW s \in {"ended", "failed"}, NEW k \in Line
  PROVE  TypeInv /\ FindInv /\ Drop(L, s) => Finds(k)'
<1> SUFFICES ASSUME TypeInv, FindInv, Drop(L, s) PROVE Finds(k)'
  OBVIOUS
<1>1. Finds(k) /\ UNCHANGED <<asked, opened>>
  BY DEF FindInv, Drop
<1>2. UNCHANGED <<port, target>>
  BY <1>1 DEF opened
<1>3. Came \subseteq Came'
  BY <1>1, CameStays
<1>4. CASE k \in L
  <2>1. inbox'[k] = <<>> /\ found'[k] = None /\ stage'[k] = s
    BY <1>4 DEF Drop
  <2> QED
    BY <1>1, <1>2, <2>1, EmptyRange DEF Finds
<1>5. CASE k \notin L
  <2>1. inbox'[k] = inbox[k] /\ found'[k] = found[k] /\ stage'[k] = stage[k]
    BY <1>5 DEF Drop
  <2> QED
    BY <1>1, <1>2, <1>3, <2>1 DEF Finds
<1> QED
  BY <1>4, <1>5

\* On a new line nothing is known, and the others are left alone.
LEMMA CommandsFind ==
  ASSUME NEW d \in Member, NEW k \in Line
  PROVE  TypeInv /\ FindInv /\ Command(d) => Finds(k)'
<1> SUFFICES ASSUME TypeInv, FindInv, Command(d) PROVE Finds(k)'
  OBVIOUS
<1>1. Finds(k)
  BY DEF FindInv
<1>2. /\ stage \in [Line -> Stage] /\ target \in [Line -> Diddy \cup {None}]
      /\ port \in [Line -> Port \cup {0}]
      /\ LineOK(k)
  BY DEF TypeInv, TypeOK
<1>3. ASSUME NEW t, NEW p, Open(d, t, p) PROVE Finds(k)'
  <2>1. PICK l \in Line :
          /\ stage[l] = "unused"
          /\ target' = [target EXCEPT ![l] = t]
          /\ port' = [port EXCEPT ![l] = p]
          /\ stage' = [stage EXCEPT ![l] = "joining"]
          /\ UNCHANGED <<found, asked, inbox>>
    BY <1>3 DEF Open, At, wire
  <2>2. CASE k = l
    <3>1. asked[k] = <<>> /\ inbox[k] = <<>> /\ found[k] = None
      BY <1>1, <1>2, <2>1, <2>2 DEF LineOK, Held, Finds
    <3>2. Range(asked'[k]) = {} /\ Range(inbox'[k]) = {} /\ found'[k] = None
          /\ stage'[k] = "joining"
      BY <1>2, <2>1, <2>2, <3>1, EmptyRange
    <3> QED
      BY <3>2 DEF Finds
  <2>3. CASE k # l
    <3>1. stage'[k] = stage[k] /\ target'[k] = target[k] /\ port'[k] = port[k]
      BY <1>2, <2>1, <2>3
    <3>2. Came \subseteq Came'
      BY <1>3, CameStays
    <3> QED
      BY <1>1, <2>1, <3>1, <3>2 DEF Finds
  <2> QED
    BY <2>2, <2>3
<1>4. ASSUME NEW p \in Port, Listen(d, p) PROVE Finds(k)'
  BY <1>3, <1>4 DEF Listen
<1>5. ASSUME NEW p \in Port, Bind(d, p) PROVE Finds(k)'
  <2>1. Came \subseteq Came' /\ UNCHANGED <<port, target>>
    BY <1>5, CameStays DEF Bind, opened
  <2> QED
    BY <1>1, <1>5, <2>1 DEF Bind, Finds, client, wire
<1>6. ASSUME NEW t \in Diddy, Chat(d, t) PROVE Finds(k)'
  BY <1>3, <1>6 DEF Chat
<1>7. CASE Quit(d)
  BY <1>7, DropFinds DEF Quit
<1> QED
  BY <1>4, <1>5, <1>6, <1>7 DEF Command

\* The client dials the address it read, and nowhere else.
LEMMA ClientFinds ==
  ASSUME NEW l \in Line, NEW k \in Line
  PROVE  TypeInv /\ FindInv /\ Use(l) => Finds(k)'
<1> SUFFICES ASSUME TypeInv, FindInv, Use(l) PROVE Finds(k)'
  OBVIOUS
<1>1. Finds(k)
  BY DEF FindInv
<1>2. /\ asked \in [Line -> Seq(Asked)] /\ inbox \in [Line -> Seq(Sent)]
      /\ stage \in [Line -> Stage] /\ target \in [Line -> Diddy \cup {None}]
      /\ found \in [Line -> Address \cup {None}]
      /\ port[l] \in Port \cup {0}
      /\ LineOK(l)
  BY DEF TypeInv, TypeOK, Asked, Sent
<1>3. ASSUME UNCHANGED opened,
             \A m \in Range(asked'[k]) :
               m \in Range(asked[k]) \/ Fits(m, port[k], target[k]),
             Range(inbox'[k]) \subseteq Range(inbox[k]),
             found'[k] # None =>
               found'[k] = found[k] \/ <<target[k], found'[k]>> \in Came,
             stage'[k] = "unused" => stage[k] = "unused" /\ found'[k] = found[k]
      PROVE  Finds(k)'
  <2>1. Came \subseteq Came' /\ UNCHANGED <<port, target>>
    BY <1>3, CameStays DEF opened
  <2>2. found'[k] # None => <<target[k], found'[k]>> \in Came
    BY <1>1, <1>3 DEF Finds
  <2>3. /\ \A m \in Range(asked'[k]) : Fits(m, port[k], target[k])
        /\ \A a \in Address : PeerInfo(a) \in Range(inbox'[k]) => <<target[k], a>> \in Came
    BY <1>1, <1>3 DEF Finds
  <2> QED
    BY <1>1, <1>3, <2>1, <2>2, <2>3 DEF Finds
<1>4. ASSUME NEW m, Receive(l, m)
      PROVE  /\ m \in Range(inbox[l]) /\ m \in Sent
             /\ \A j \in Line : Range(inbox'[j]) \subseteq Range(inbox[j])
  <2>1. /\ inbox[l] # <<>> /\ m = Head(inbox[l]) /\ m \in Sent
        /\ inbox' = [inbox EXCEPT ![l] = Tail(inbox[l])]
    BY <1>4, ReceiveTyped
  <2>2. Range(inbox[l]) = {Head(inbox[l])} \cup Range(Tail(inbox[l]))
    BY <1>2, <2>1, TailRange
  <2>3. inbox'[l] = Tail(inbox[l]) /\ \A j \in Line \ {l} : inbox'[j] = inbox[j]
    BY <1>2, <2>1
  <2> QED
    BY <2>1, <2>2, <2>3
<1>5. ASSUME NEW m \in Asked, Ask(l, m), Fits(m, port[l], target[l])
      PROVE  \A e \in Range(asked'[k]) :
               e \in Range(asked[k]) \/ Fits(e, port[k], target[k])
  <2>1. /\ \A j \in Line \ {l} : asked'[j] = asked[j]
        /\ asked'[l] \in {asked[l], Append(asked[l], m)}
    BY <1>5, AskTyped
  <2>2. Range(Append(asked[l], m)) = Range(asked[l]) \cup {m}
    BY <1>2, AppendRange
  <2>3. Range(asked'[l]) \subseteq Range(asked[l]) \cup {m}
    BY <2>1, <2>2
  <2> QED
    BY <1>5, <2>1, <2>3
<1>6. ASSUME NEW s \in {"ended", "failed"}, Leave(l, s) PROVE Finds(k)'
  BY <1>6, DropFinds DEF Leave
<1>7. CASE Login(l)
  <2>1. /\ asked' = [asked EXCEPT ![l] = <<Announce(port[l])>>]
        /\ stage' = [stage EXCEPT ![l] = "announcing"]
        /\ UNCHANGED <<opened, found, inbox>>
    BY <1>7 DEF Login
  <2>2. Range(<<Announce(port[l])>>) = {Announce(port[l])}
    BY DEF Range
  <2>3. \A m \in Range(asked'[k]) :
          m \in Range(asked[k]) \/ Fits(m, port[k], target[k])
    BY <1>2, <2>1, <2>2, OthersFit
  <2>4. stage'[k] = stage[k] \/ stage'[k] = "announcing"
    BY <1>2, <2>1
  <2> QED
    BY <1>3, <2>1, <2>3, <2>4
<1>8. CASE LoginFails(l) \/ EndDirect(l) \/ StopTyping(l) \/ ReadFails(l)
  BY <1>6, <1>8 DEF LoginFails, EndDirect, StopTyping, ReadFails
<1>9. CASE ReadAnnounceAnswer(l) \/ Notice(l) \/ Watch(l)
  <2>1. PICK m : /\ Receive(l, m)
                 /\ UNCHANGED <<opened, found, asked>>
                 /\ stage'[k] = stage[k] \/ stage'[k] = "reading"
    BY <1>2, <1>9 DEF ReadAnnounceAnswer, Notice, Watch, Enter, client
  <2> QED
    BY <1>3, <1>4, <2>1
<1>10. CASE AnnounceAnswered(l)
  <2>1. PICK m : /\ Receive(l, m) /\ IsChat(l)
                 /\ stage' = [stage EXCEPT ![l] = "querying"]
                 /\ Ask(l, QueryPeer(target[l]))
                 /\ UNCHANGED <<opened, found>>
    BY <1>10 DEF AnnounceAnswered, Enter
  <2>2. QueryPeer(target[l]) \in Asked
    BY <1>2, <2>1, Questions DEF Asked, IsChat
  <2>3. stage'[k] = stage[k] \/ stage'[k] = "querying"
    BY <1>2, <2>1
  <2> QED
    BY <1>3, <1>4, <1>5, <2>1, <2>2, <2>3, OthersFit
<1>11. ASSUME Ask(l, VerifyRequest(target[l])), target[l] \in Diddy
       PROVE  \A m \in Range(asked'[k]) :
                m \in Range(asked[k]) \/ Fits(m, port[k], target[k])
  <2>1. VerifyRequest(target[l]) \in Asked
    BY <1>11, Questions DEF Asked
  <2> QED
    BY <1>5, <1>11, <2>1, OthersFit
<1>12. CASE QueryAnswered(l)
  <2>1. PICK m : /\ At(l, "querying") /\ Receive(l, m)
                 /\ IF m.type = "PeerInfo"
                    THEN /\ stage' = [stage EXCEPT ![l] = "dialing"]
                         /\ found' = [found EXCEPT ![l] = m.addr]
                         /\ UNCHANGED asked
                    ELSE /\ stage' = [stage EXCEPT ![l] = "verifying"]
                         /\ UNCHANGED found
                         /\ Ask(l, VerifyRequest(target[l]))
                 /\ UNCHANGED opened
    BY <1>12 DEF QueryAnswered, Enter
  <2>2. Range(inbox'[k]) \subseteq Range(inbox[k]) /\ target[l] \in Diddy
    BY <1>2, <1>4, <2>1 DEF LineOK, Chatting, At, IsChat
  <2>3. stage'[k] = stage[k] \/ stage'[k] \in {"dialing", "verifying"}
    BY <1>2, <2>1
  <2>4. CASE m.type # "PeerInfo"
    BY <1>3, <1>11, <2>1, <2>2, <2>3, <2>4
  <2>5. CASE m.type = "PeerInfo"
    <3>1. m \in Sent /\ m \in Range(inbox[l])
      BY <1>4, <2>1
    <3>2. m.addr \in Address /\ m = PeerInfo(m.addr)
      BY <2>5, <3>1
         DEF Sent, Answer, Forward, AnnounceAck, PeerInfo, PeerNotFound, VerifyResponse,
             VerifyError
    <3>3. <<target[l], m.addr>> \in Came
      BY <3>1, <3>2 DEF FindInv, Finds
    <3>4. found'[k] # None =>
            found'[k] = found[k] \/ <<target[k], found'[k]>> \in Came
      BY <1>2, <2>1, <2>5, <3>3
    <3>5. stage'[k] = "unused" => found'[k] = found[k]
      BY <1>2, <2>1, <2>5
    <3> QED
      BY <1>3, <2>1, <2>2, <2>3, <2>5, <3>4, <3>5
  <2> QED
    BY <2>4, <2>5
<1>13. CASE DialFails(l)
  <2>1. /\ At(l, "dialing") /\ stage' = [stage EXCEPT ![l] = "verifying"]
        /\ Ask(l, VerifyRequest(target[l]))
        /\ UNCHANGED <<opened, found, inbox>>
    BY <1>13 DEF DialFails, Enter
  <2>2. target[l] \in Diddy
    BY <1>2, <2>1 DEF LineOK, Chatting, At, IsChat
  <2>3. stage'[k] = stage[k] \/ stage'[k] = "verifying"
    BY <1>2, <2>1
  <2> QED
    BY <1>3, <1>11, <2>1, <2>2, <2>3
<1>14. CASE VerifyAnswered(l)
  <2>1. PICK m :
          IF Verdict(m) = "failed"
          THEN Leave(l, "failed")
          ELSE /\ Receive(l, m)
               /\ stage' = [stage EXCEPT ![l] = Verdict(m)]
               /\ found' = [found EXCEPT ![l] = None]
               /\ UNCHANGED <<opened, asked>>
    BY <1>14 DEF VerifyAnswered
  <2>2. CASE Verdict(m) = "failed"
    BY <1>6, <2>1, <2>2
  <2>3. CASE Verdict(m) = "relaying"
    <3>1. Range(inbox'[k]) \subseteq Range(inbox[k])
      BY <1>4, <2>1, <2>3
    <3>2. stage'[k] = stage[k] \/ stage'[k] = "relaying"
      BY <1>2, <2>1, <2>3
    <3>3. found'[k] \in {found[k], None}
      BY <1>2, <2>1, <2>3
    <3>4. stage'[k] = "unused" => found'[k] = found[k]
      BY <1>2, <2>1, <2>3
    <3> QED
      BY <1>3, <2>1, <2>3, <3>1, <3>2, <3>3, <3>4
  <2> QED
    BY <2>2, <2>3 DEF Verdict
<1>15. CASE Type(l)
  <2>1. owner[l] \in Member /\ target[l] \in Diddy /\ sent' \in Number
        /\ UNCHANGED <<stage, opened, found, inbox>>
        /\ Ask(l, RelayPacket(owner[l], target[l], sent'))
    BY <1>2, <1>15, ConstantsAssumption
       DEF TypeInv, TypeOK, LineOK, Chatting, IsChat, Type, Number, client
  <2>2. PICK e \in Packet : e = RelayPacket(owner[l], target[l], sent')
    BY <2>1 DEF Packet
  <2>3. e \in Asked /\ Fits(e, port[l], target[l])
    BY OthersFit DEF Asked
  <2>4. \A m \in Range(asked'[k]) :
          m \in Range(asked[k]) \/ Fits(m, port[k], target[k])
    BY <1>5, <2>1, <2>2, <2>3
  <2> QED
    BY <1>3, <2>1, <2>4
<1>16. CASE Dial(l) \/ LeaveRelay(l) \/ ReceiveTaskFails(l)
  <2>1. PICK s \in {"direct", "left", "typing"} :
          /\ stage' = [stage EXCEPT ![l] = s]
          /\ UNCHANGED <<opened, found, asked, inbox>>
    BY <1>16 DEF Dial, LeaveRelay, ReceiveTaskFails, Enter, wire
  <2>2. stage'[k] = stage[k] \/ stage'[k] = s
    BY <1>2, <2>1
  <2> QED
    BY <1>3, <2>1, <2>2
<1> QED
  BY <1>7, <1>8, <1>9, <1>10, <1>12, <1>13, <1>14, <1>15, <1>16 DEF Use, Continue

\* Every step keeps what is known.
LEMMA NextFinds == TypeInv /\ FindInv /\ [Next]_vars => FindInv'
<1> SUFFICES ASSUME TypeInv, FindInv, [Next]_vars PROVE FindInv'
  OBVIOUS
<1>1. Located'
  BY NextLocated
<1>2. ASSUME NEW k \in Line PROVE Finds(k)'
  <2>1. CASE UNCHANGED vars \/ Network
    <3>1. UNCHANGED <<stage, found, asked, inbox, opened>>
      BY <2>1, NetworkSteps DEF vars, client, wire
    <3>2. Came \subseteq Came' /\ UNCHANGED <<port, target>>
      BY <3>1, CameStays DEF opened
    <3> QED
      BY <3>1, <3>2 DEF FindInv, Finds
  <2> QED
    BY <2>1, Steps, ServerFinds, ClientFinds, CommandsFind
<1> QED
  BY <1>1, <1>2 DEF FindInv

\* p2p::chat dials no other diddy's address: the one it dials is where the diddy
\* it was called for came from on one of its lines, with the port announced
\* there, whatever was taken for which answer.
THEOREM DialsAnnouncedHolds == Spec => []DialsAnnounced
<1>1. Init => FindInv
  BY EmptyRange DEF Init, FindInv, Located, Finds
<1>2. Spec => [](TypeInv /\ FindInv)
  BY <1>1, InitTyped, NextTyped, NextFinds, PTL DEF Spec
<1>3. TypeInv /\ FindInv => DialsAnnounced
  BY DEF TypeInv, LineOK, FindInv, Finds, Came, DialsAnnounced
<1> QED
  BY <1>2, <1>3, PTL

-----------------------------------------------------------------------------
(* Packets *)

Numbers(s) == {p.n : p \in PacketsIn(s)}

\* No packet is in a queue twice.
Once(s) ==
  \A i, j \in DOMAIN s :
    s[i] \in Carrier /\ s[j] \in Carrier /\ s[i].n = s[j].n => i = j

\* t is s after packets were lost, and other messages lost or put.
Fewer(s, t) == PacketsIn(t) \subseteq PacketsIn(s) /\ (Once(s) => Once(t))

\* The packets of a longer queue.
LEMMA PacketsAppend ==
  ASSUME NEW S, NEW s \in Seq(S), NEW e \in S
  PROVE  PacketsIn(Append(s, e)) =
           PacketsIn(s) \cup (IF e \in Carrier THEN {Bare(e)} ELSE {})
<1>1. Range(Append(s, e)) = Range(s) \cup {e}
  BY AppendRange
<1>2. \A q : PacketsIn(q) = {Bare(m) : m \in Range(q) \cap Carrier}
  BY DEF PacketsIn, Range
<1>3. /\ PacketsIn(Append(s, e)) = {Bare(m) : m \in (Range(s) \cup {e}) \cap Carrier}
      /\ PacketsIn(s) = {Bare(m) : m \in Range(s) \cap Carrier}
  BY <1>1, <1>2, Zenon
<1> QED
  BY <1>3

\* The packets behind the head.
LEMMA PacketsTail ==
  ASSUME NEW S, NEW s \in Seq(S), s # <<>>
  PROVE  PacketsIn(s) =
           PacketsIn(Tail(s)) \cup (IF Head(s) \in Carrier THEN {Bare(Head(s))} ELSE {})
<1>1. Range(s) = {Head(s)} \cup Range(Tail(s))
  BY TailRange
<1>2. \A q : PacketsIn(q) = {Bare(m) : m \in Range(q) \cap Carrier}
  BY DEF PacketsIn, Range
<1>3. /\ PacketsIn(s) = {Bare(m) : m \in ({Head(s)} \cup Range(Tail(s))) \cap Carrier}
      /\ PacketsIn(Tail(s)) = {Bare(m) : m \in Range(Tail(s)) \cap Carrier}
  BY <1>1, <1>2, Zenon
<1> QED
  BY <1>3

\* A number is that of a packet.
LEMMA NumberOf ==
  ASSUME NEW s
  PROVE  Numbers(s) = {s[i].n : i \in {j \in DOMAIN s : s[j] \in Carrier}}
<1>1. \A m : Bare(m).n = m.n
  BY DEF Bare
<1> QED
  BY <1>1 DEF Numbers, PacketsIn

\* A packet of another number is put.
LEMMA OnceAppend ==
  ASSUME NEW S, NEW s \in Seq(S), NEW e \in S
  PROVE  Once(s) /\ (e \in Carrier => e.n \notin Numbers(s)) => Once(Append(s, e))
<1> SUFFICES ASSUME Once(s), e \in Carrier => e.n \notin Numbers(s)
             PROVE  Once(Append(s, e))
  OBVIOUS
<1>1. PICK n \in Nat : n = Len(s) /\ DOMAIN s = 1..n
  BY LenProperties
<1>2. PICK t \in Seq(S) :
        /\ t = Append(s, e) /\ DOMAIN t = 1..(n + 1)
        /\ \A i \in 1..n : t[i] = s[i]
        /\ t[n + 1] = e
  <2>1. /\ Append(s, e) \in Seq(S) /\ Len(Append(s, e)) = n + 1
        /\ \A i \in 1..n : Append(s, e)[i] = s[i]
        /\ Append(s, e)[n + 1] = e
    BY <1>1, AppendProperties
  <2> QED
    BY <2>1, LenProperties
<1>3. \A i \in 1..n : s[i] \in Carrier => s[i].n \in Numbers(s)
  BY <1>1, NumberOf
<1>4. \A i \in 1..(n + 1) : i \in 1..n \/ i = n + 1
  OBVIOUS
<1>5. ASSUME NEW i \in 1..(n + 1), NEW j \in 1..(n + 1),
             t[i] \in Carrier, t[j] \in Carrier, t[i].n = t[j].n
      PROVE  i = j
  <2>1. CASE i \in 1..n /\ j \in 1..n
    BY <1>1, <1>2, <1>5, <2>1 DEF Once
  <2>2. CASE i \notin 1..n \/ j \notin 1..n
    BY <1>2, <1>3, <1>4, <1>5, <2>2
  <2> QED
    BY <2>1, <2>2
<1> QED
  BY <1>2, <1>5 DEF Once

\* The head is taken.
LEMMA OnceTail ==
  ASSUME NEW S, NEW s \in Seq(S), s # <<>>
  PROVE  Once(s) => /\ Once(Tail(s))
                    /\ Head(s) \in Carrier => Head(s).n \notin Numbers(Tail(s))
<1> SUFFICES ASSUME Once(s)
             PROVE  /\ Once(Tail(s))
                    /\ Head(s) \in Carrier => Head(s).n \notin Numbers(Tail(s))
  OBVIOUS
<1>1. PICK n \in Nat, t \in Seq(S) :
        /\ t = Tail(s) /\ DOMAIN t = 1..n /\ DOMAIN s = 1..(n + 1)
        /\ \A i \in 1..n : t[i] = s[i + 1]
        /\ Head(s) = s[1]
  BY TailFacts
<1>2. \A i, j \in 1..n : i + 1 \in 1..(n + 1) /\ (i + 1 = j + 1 => i = j)
  OBVIOUS
<1>3. Once(t)
  BY <1>1, <1>2 DEF Once
<1>4. ASSUME s[1] \in Carrier PROVE s[1].n \notin Numbers(t)
  <2>1. Numbers(t) = {t[i].n : i \in {j \in 1..n : t[j] \in Carrier}}
    BY <1>1, NumberOf
  <2>2. \A i \in 1..n : i + 1 \in 1..(n + 1) /\ i + 1 # 1 /\ 1 \in 1..(n + 1)
    OBVIOUS
  <2>3. \A i \in 1..n : t[i] \in Carrier => t[i].n # s[1].n
    BY <1>1, <1>4, <2>2 DEF Once
  <2> QED
    BY <2>1, <2>3
<1> QED
  BY <1>1, <1>3, <1>4

\* Queues with fewer packets: the same, none, without the head, with something
\* that is no packet, and with fewer than that.
LEMMA FewerOnes ==
  ASSUME NEW S, NEW s \in Seq(S), NEW e \in S
  PROVE  /\ Fewer(s, s) /\ Fewer(s, <<>>)
         /\ s # <<>> => Fewer(s, Tail(s))
         /\ e \notin Carrier => Fewer(s, Append(s, e))
<1>1. Fewer(s, <<>>)
  <2>1. DOMAIN <<>> = {}
    OBVIOUS
  <2> QED
    BY <2>1 DEF Fewer, PacketsIn, Once
<1>2. s # <<>> => Fewer(s, Tail(s))
  BY PacketsTail, OnceTail DEF Fewer
<1>3. e \notin Carrier => Fewer(s, Append(s, e))
  BY PacketsAppend, OnceAppend DEF Fewer
<1> QED
  BY <1>1, <1>2, <1>3 DEF Fewer

\* Only packets carry something.
LEMMA Carriers ==
  /\ \A m \in Question \cup Answer : m \notin Carrier
  /\ \A m \in Asked : m \in Carrier <=> m \in Packet
  /\ \A m \in Sent : m \in Carrier <=> m \in Forward
<1>1. \A m \in Question : m \notin Carrier
  BY DEF Question, Carrier, Packet, Forward, Announce, QueryPeer, VerifyRequest,
         RelayPacket
<1>2. \A m \in Answer : m \notin Carrier
  BY DEF Answer, Carrier, Packet, Forward, AnnounceAck, PeerInfo, PeerNotFound,
         VerifyResponse, VerifyError, RelayPacket
<1>3. Packet \cap Forward = {}
  BY DEF Packet, Forward, RelayPacket
<1> QED
  BY <1>1, <1>2, <1>3 DEF Asked, Sent, Carrier

\* A packet is once on its way to the server or once on its way from it, on a
\* line of its sender or of its addressee.
PostOK(l) ==
  /\ Once(asked[l]) /\ Once(channel[l])
  /\ \A p \in PacketsIn(asked[l]) : p.from = owner[l]
  /\ \A p \in PacketsIn(channel[l]) : p.to = owner[l]
  /\ Numbers(asked[l]) \subseteq 1..sent
  /\ Numbers(channel[l]) \subseteq 1..sent

Apart(k, l) ==
  /\ Numbers(asked[k]) \cap Numbers(channel[l]) = {}
  /\ k # l => /\ Numbers(asked[k]) \cap Numbers(asked[l]) = {}
              /\ Numbers(channel[k]) \cap Numbers(channel[l]) = {}

PostInv == (\A l \in Line : PostOK(l)) /\ (\A k, l \in Line : Apart(k, l))

\* What Switchboard sees has its types.
LEMMA WrittenTyped == TypeInv => Written \in [Line -> SUBSET Relaying!Packet]
<1> SUFFICES ASSUME TypeInv, NEW l \in Line, NEW p \in PacketsIn(inbox[l])
             PROVE  p \in Relaying!Packet
  BY DEF Written
<1>1. inbox[l] \in Seq(Sent)
  BY DEF TypeInv, TypeOK, Sent
<1>2. PICK m \in Carrier : m \in Sent /\ p = Bare(m)
  <2>1. \A i \in DOMAIN inbox[l] : inbox[l][i] \in Sent
    BY <1>1, ElementOfSeq, LenProperties
  <2> QED
    BY <2>1 DEF PacketsIn
<1>3. m \in Forward
  BY <1>2, Carriers
<1>4. m.key[1] \in Member /\ m.key[2] \in Diddy /\ m.n \in Number
  BY <1>3 DEF Forward
<1> QED
  BY <1>2, <1>4, ConstantsAssumption DEF Bare, Relaying!Packet

\* Packets may be lost, and nothing else happens that matters.
Loses ==
  /\ UNCHANGED <<owner, sent>>
  /\ \A l \in Line : /\ Fewer(asked[l], asked'[l])
                     /\ Fewer(channel[l], channel'[l])
                     /\ PacketsIn(inbox'[l]) \subseteq PacketsIn(inbox[l])

\* Losing packets keeps each where it belongs, and Switchboard allows it.
LEMMA LosesRelays ==
  TypeInv /\ PostInv /\ Loses => PostInv' /\ Relaying!Next
<1> SUFFICES ASSUME TypeInv, PostInv, Loses PROVE PostInv' /\ Relaying!Next
  OBVIOUS
<1>1. ASSUME NEW l \in Line
      PROVE  /\ Fewer(asked[l], asked'[l]) /\ Fewer(channel[l], channel'[l])
             /\ Numbers(asked'[l]) \subseteq Numbers(asked[l])
             /\ Numbers(channel'[l]) \subseteq Numbers(channel[l])
  BY DEF Loses, Fewer, Numbers
<1>2. ASSUME NEW l \in Line PROVE PostOK(l)'
  <2>1. PostOK(l) /\ owner'[l] = owner[l] /\ sent' = sent
    BY DEF PostInv, Loses
  <2> QED
    BY <1>1, <2>1 DEF PostOK, Fewer
<1>3. ASSUME NEW k \in Line, NEW l \in Line PROVE Apart(k, l)'
  <2>1. Apart(k, l)
    BY DEF PostInv
  <2> QED
    BY <1>1, <2>1 DEF Apart
<1>4. PostInv'
  BY <1>2, <1>3 DEF PostInv
<1>5. Users' = Users
  BY DEF Loses, Users
<1>6. Taken \subseteq Taken'
  BY DEF Loses, Fewer, Taken
<1>7. Queued' \subseteq Queued
  BY DEF Loses, Fewer, Queued
<1>8. /\ \A l \in Line : Written'[l] \subseteq Written[l]
      /\ Written' \in [Line -> SUBSET Relaying!Packet]
  <2>1. Written \in [Line -> SUBSET Relaying!Packet]
    BY WrittenTyped
  <2>2. \A l \in Line : Written'[l] \subseteq Written[l]
    BY DEF Loses, Written
  <2>3. Written' = [l \in Line |-> Written'[l]]
    BY DEF Written
  <2> QED
    BY <2>1, <2>2, <2>3
<1>9. Relaying!Take
  BY <1>5, <1>6, <1>7, <1>8 DEF Relaying!Take
<1> QED
  BY <1>4, <1>9 DEF Relaying!Next

\* The server takes up a packet.
LEMMA HandleRelays ==
  ASSUME NEW l \in Line
  PROVE  /\ TypeInv /\ PostInv /\ Handle(l) /\ Head(asked[l]).type = "RelayPacket"
         => PostInv' /\ Relaying!Next
<1> SUFFICES ASSUME TypeInv, PostInv, Handle(l), Head(asked[l]).type = "RelayPacket"
             PROVE  PostInv' /\ Relaying!Next
  OBVIOUS
<1>1. /\ asked \in [Line -> Seq(Asked)] /\ channel \in [Line -> Seq(Forward)]
      /\ owner \in [Line -> Member \cup {None}]
      /\ relay \in [Diddy -> Line \cup {None}]
      /\ sent \in Nat /\ MapInv /\ LineOK(l)
  <2>1. sent \in Nat
    BY ConstantsAssumption DEF TypeInv, TypeOK
  <2> QED
    BY <2>1 DEF TypeInv, TypeOK, Asked
<1>2. /\ asked[l] # <<>> /\ asked' = [asked EXCEPT ![l] = Tail(@)]
      /\ UNCHANGED <<owner, sent, inbox>>
      /\ channel' = [k \in Line |->
                       IF k \in Route(Head(asked[l]).to)
                       THEN Append(channel[k], RelayForward(owner[l], Head(asked[l])))
                       ELSE channel[k]]
  BY DEF Handle, HandleRequest, opened
<1>3. PICK m \in Packet : m = Head(asked[l])
  <2>1. Head(asked[l]) \in Asked
    BY <1>1, <1>2, HeadTailProperties
  <2> QED
    BY <2>1, QuestionKinds
<1>4. /\ m \in Carrier /\ m.to \in Diddy /\ m.key \in Member \X Diddy
      /\ m.key[2] = m.to /\ m.n \in Number
  BY PacketParts DEF Carrier
<1>5. /\ PacketsIn(asked[l]) = PacketsIn(asked'[l]) \cup {Bare(m)}
      /\ m.n \notin Numbers(asked'[l])
      /\ Once(asked'[l])
      /\ \A k \in Line \ {l} : asked'[k] = asked[k]
  <2>1. asked'[l] = Tail(asked[l]) /\ asked[l] \in Seq(Asked)
    BY <1>1, <1>2
  <2>2. Once(asked[l])
    BY DEF PostInv, PostOK
  <2>3. PacketsIn(asked[l]) = PacketsIn(Tail(asked[l])) \cup {Bare(m)}
    BY <1>2, <1>3, <1>4, <2>1, PacketsTail
  <2>4. Once(Tail(asked[l])) /\ m.n \notin Numbers(Tail(asked[l]))
    BY <1>2, <1>3, <1>4, <2>1, <2>2, OnceTail
  <2> QED
    BY <1>1, <1>2, <2>1, <2>3, <2>4
<1>6. PICK p : p = Bare(m)
  OBVIOUS
<1>7. /\ p.n = m.n /\ p.to = m.to /\ p.from = owner[l]
      /\ p \in Relaying!Packet /\ owner[l] \in Member
  <2>1. p.n = m.n /\ p.to = m.to /\ p.from = m.key[1]
    BY <1>4, <1>6 DEF Bare
  <2>2. p.from = owner[l]
    BY <1>5, <1>6 DEF PostInv, PostOK
  <2>3. p \in Relaying!Packet
    BY <1>4, <1>6, ConstantsAssumption DEF Bare, Relaying!Packet
  <2>4. m.key[1] \in Member
    BY <1>4
  <2> QED
    BY <2>1, <2>2, <2>3, <2>4
<1>8. /\ Numbers(asked[l]) = Numbers(asked'[l]) \cup {m.n}
      /\ \A k \in Line : Numbers(asked'[k]) \subseteq Numbers(asked[k])
      /\ \A k \in Line : m.n \notin Numbers(asked'[k])
      /\ \A k \in Line : m.n \notin Numbers(channel[k])
  <2>1. Numbers(asked[l]) = Numbers(asked'[l]) \cup {m.n}
    BY <1>5, <1>6, <1>7 DEF Numbers
  <2>2. \A k \in Line : Apart(l, k)
    BY DEF PostInv
  <2> QED
    BY <1>5, <2>1, <2>2 DEF Apart
<1>9. PICK e \in Forward : e = RelayForward(owner[l], m)
  BY <1>7, PacketParts
<1>10. e \in Carrier /\ e.n = m.n /\ Bare(e) = p
  BY <1>6, <1>9 DEF Carrier, RelayForward, Bare
<1>11. \A k \in Line :
         \/ channel'[k] = channel[k]
         \/ /\ relay[m.to] = k
            /\ PacketsIn(channel'[k]) = PacketsIn(channel[k]) \cup {p}
            /\ Numbers(channel'[k]) = Numbers(channel[k]) \cup {m.n}
            /\ Once(channel'[k])
  <2> SUFFICES ASSUME NEW k \in Line, channel'[k] # channel[k]
               PROVE  /\ relay[m.to] = k
                      /\ PacketsIn(channel'[k]) = PacketsIn(channel[k]) \cup {p}
                      /\ Numbers(channel'[k]) = Numbers(channel[k]) \cup {m.n}
                      /\ Once(channel'[k])
    OBVIOUS
  <2>1. k \in Route(m.to) /\ channel'[k] = Append(channel[k], e)
    BY <1>2, <1>3, <1>9
  <2>2. channel[k] \in Seq(Forward)
    BY <1>1
  <2>3. PacketsIn(Append(channel[k], e)) = PacketsIn(channel[k]) \cup {p}
    BY <1>10, <2>2, PacketsAppend
  <2>4. Once(channel[k])
    BY DEF PostInv, PostOK
  <2>5. Once(Append(channel[k], e))
    BY <1>8, <1>10, <2>2, <2>4, OnceAppend
  <2>6. relay[m.to] = k
    BY <2>1 DEF Route
  <2>7. Numbers(channel'[k]) = Numbers(channel[k]) \cup {m.n}
    BY <1>7, <2>1, <2>3 DEF Numbers
  <2> QED
    BY <2>1, <2>3, <2>5, <2>6, <2>7
<1>12. ASSUME NEW k \in Line PROVE PostOK(k)'
  <2>1. PostOK(k) /\ m.n \in 1..sent
    BY <1>8 DEF PostInv, PostOK
  <2>2. Once(asked'[k]) /\ PacketsIn(asked'[k]) \subseteq PacketsIn(asked[k])
    BY <1>5, <2>1 DEF PostOK
  <2>3. CASE channel'[k] = channel[k]
    BY <1>2, <1>8, <2>1, <2>2, <2>3 DEF PostOK
  <2>4. CASE channel'[k] # channel[k]
    <3>1. /\ relay[m.to] = k
          /\ PacketsIn(channel'[k]) = PacketsIn(channel[k]) \cup {p}
          /\ Numbers(channel'[k]) = Numbers(channel[k]) \cup {m.n}
          /\ Once(channel'[k])
      BY <1>11, <2>4
    <3>2. owner[k] = p.to
      BY <1>1, <1>4, <1>7, <3>1, ConstantsAssumption DEF MapInv
    <3> QED
      BY <1>2, <1>8, <2>1, <2>2, <3>1, <3>2 DEF PostOK
  <2> QED
    BY <2>3, <2>4
<1>13. ASSUME NEW j \in Line, NEW k \in Line PROVE Apart(j, k)'
  <2>1. Apart(j, k)
    BY DEF PostInv
  <2>2. /\ Numbers(asked'[j]) \cap Numbers(channel'[k]) = {}
        /\ j # k => Numbers(asked'[j]) \cap Numbers(asked'[k]) = {}
    BY <1>8, <1>11, <2>1 DEF Apart
  <2>3. j # k => Numbers(channel'[j]) \cap Numbers(channel'[k]) = {}
    BY <1>8, <1>11, <2>1 DEF Apart
  <2> QED
    BY <2>2, <2>3 DEF Apart
<1>14. PostInv'
  BY <1>12, <1>13 DEF PostInv
<1>15. Users' = Users /\ Written' = Written
  BY <1>2 DEF Users, Written
<1>16. Taken' = Taken \cup {p.n} /\ p.n \notin Taken
  <2>1. p.n \in 1..sent
    BY <1>7, <1>8 DEF PostInv, PostOK
  <2>2. Taken = {n \in 1..sent : \A k \in Line : n \notin Numbers(asked[k])}
    BY DEF Taken, Numbers
  <2>3. Taken' = {n \in 1..sent : \A k \in Line : n \notin Numbers(asked'[k])}
    BY <1>2 DEF Taken, Numbers
  <2>4. \A n : n # p.n =>
          ((\A k \in Line : n \notin Numbers(asked[k]))
             <=> \A k \in Line : n \notin Numbers(asked'[k]))
    BY <1>5, <1>7, <1>8
  <2> QED
    BY <1>7, <1>8, <2>1, <2>2, <2>3, <2>4
<1>17. CASE \A k \in Line : channel'[k] = channel[k]
  <2>1. Queued' = Queued
    BY <1>17 DEF Queued
  <2>2. Relaying!Take
    BY <1>15, <1>16, <2>1, WrittenTyped DEF Relaying!Take
  <2> QED
    BY <1>14, <2>2 DEF Relaying!Next
<1>18. CASE \E k \in Line : channel'[k] # channel[k]
  <2>1. Queued' = Queued \cup {p}
    BY <1>11, <1>18 DEF Queued
  <2>2. p.from \in Users[l]
    BY <1>7, ConstantsAssumption DEF Users
  <2>3. Relaying!Accept(l, p)
    BY <1>15, <1>16, <2>1, <2>2 DEF Relaying!Accept
  <2> QED
    BY <1>7, <1>14, <2>3 DEF Relaying!Next
<1> QED
  BY <1>17, <1>18

\* A relay task writes a packet.
LEMMA PushRelays ==
  ASSUME NEW l \in Line
  PROVE  TypeInv /\ PostInv /\ Push(l) => PostInv' /\ Relaying!Next
<1> SUFFICES ASSUME TypeInv, PostInv, Push(l) PROVE PostInv' /\ Relaying!Next
  OBVIOUS
<1>1. /\ channel \in [Line -> Seq(Forward)] /\ inbox \in [Line -> Seq(Sent)]
      /\ asked \in [Line -> Seq(Asked)]
      /\ LineOK(l) /\ PostOK(l)
  BY DEF TypeInv, TypeOK, Asked, Sent, PostInv
<1>2. /\ channel[l] # <<>> /\ Held(l)
      /\ channel' = [channel EXCEPT ![l] = Tail(@)]
      /\ inbox' = [inbox EXCEPT ![l] = Append(@, Head(channel[l]))]
      /\ UNCHANGED <<owner, asked, sent>>
  BY <1>1 DEF Push, Write, Dequeued, LineOK, opened
<1>3. PICK e \in Forward : e = Head(channel[l])
  BY <1>1, <1>2, HeadTailProperties
<1>4. e \in Carrier /\ e \in Sent
  BY DEF Carrier, Sent
<1>5. PICK p : p = Bare(e) /\ p.n = e.n
  <2>1. Bare(e).n = e.n
    BY DEF Bare
  <2> QED
    BY <2>1
<1>6. /\ PacketsIn(channel[l]) = PacketsIn(channel'[l]) \cup {p}
      /\ Once(channel'[l]) /\ p.n \notin Numbers(channel'[l])
      /\ \A k \in Line \ {l} : channel'[k] = channel[k]
  <2>1. channel'[l] = Tail(channel[l]) /\ channel[l] \in Seq(Forward)
    BY <1>1, <1>2
  <2>2. PacketsIn(channel[l]) = PacketsIn(Tail(channel[l])) \cup {p}
    BY <1>2, <1>3, <1>4, <1>5, <2>1, PacketsTail
  <2>3. Once(Tail(channel[l])) /\ e.n \notin Numbers(Tail(channel[l]))
    BY <1>1, <1>2, <1>3, <1>4, <2>1, OnceTail DEF PostOK
  <2> QED
    BY <1>1, <1>2, <1>5, <2>1, <2>2, <2>3
<1>7. PostInv'
  <2>1. \A k \in Line : Numbers(channel'[k]) \subseteq Numbers(channel[k])
    BY <1>6 DEF Numbers
  <2>2. ASSUME NEW k \in Line PROVE PostOK(k)'
    <3>1. PostOK(k)
      BY DEF PostInv
    <3> QED
      BY <1>2, <1>6, <2>1, <3>1 DEF PostOK
  <2>3. ASSUME NEW j \in Line, NEW k \in Line PROVE Apart(j, k)'
    <3>1. Apart(j, k)
      BY DEF PostInv
    <3> QED
      BY <1>2, <2>1, <3>1 DEF Apart
  <2> QED
    BY <2>2, <2>3 DEF PostInv
<1>8. Users' = Users /\ Taken' = Taken
  BY <1>2 DEF Users, Taken
<1>9. p \in Queued /\ Queued' = Queued \ {p}
  <2>1. p \in PacketsIn(channel[l])
    BY <1>6
  <2>2. \A k \in Line : p \notin PacketsIn(channel'[k])
    <3>1. p \notin PacketsIn(channel'[l])
      BY <1>6 DEF Numbers
    <3>2. \A k \in Line \ {l} : p \notin PacketsIn(channel[k])
      <4>1. \A k \in Line \ {l} : Numbers(channel[k]) \cap Numbers(channel[l]) = {}
        BY DEF PostInv, Apart
      <4> QED
        BY <2>1, <4>1 DEF Numbers
    <3> QED
      BY <1>6, <3>1, <3>2
  <2>3. \A k \in Line : /\ PacketsIn(channel'[k]) \subseteq PacketsIn(channel[k])
                        /\ PacketsIn(channel[k]) \subseteq PacketsIn(channel'[k]) \cup {p}
    BY <1>6
  <2> QED
    BY <2>1, <2>2, <2>3 DEF Queued
<1>10. Written' = [Written EXCEPT ![l] = @ \cup {p}]
  <2>1. /\ inbox'[l] = Append(inbox[l], e) /\ inbox[l] \in Seq(Sent)
        /\ \A k \in Line \ {l} : inbox'[k] = inbox[k]
    BY <1>1, <1>2, <1>3
  <2>2. PacketsIn(inbox'[l]) = PacketsIn(inbox[l]) \cup {p}
    BY <1>4, <1>5, <2>1, PacketsAppend
  <2> QED
    BY <2>1, <2>2 DEF Written
<1>11. p.to \in Users[l]
  <2>1. p.to = owner[l]
    BY <1>1, <1>6 DEF PostOK
  <2>2. owner[l] # None
    BY <1>1, <1>2 DEF LineOK, Held
  <2> QED
    BY <2>1, <2>2 DEF Users
<1>12. Relaying!Write(p, l)
  BY <1>8, <1>9, <1>10, <1>11 DEF Relaying!Write
<1> QED
  BY <1>7, <1>9, <1>12 DEF Relaying!Next

\* A line is typed in a relay chat.
LEMMA TypeRelays ==
  ASSUME NEW l \in Line
  PROVE  TypeInv /\ PostInv /\ Type(l) => PostInv' /\ Relaying!Next
<1> SUFFICES ASSUME TypeInv, PostInv, Type(l) PROVE PostInv' /\ Relaying!Next
  OBVIOUS
<1>1. /\ owner[l] \in Member /\ target[l] \in Diddy /\ sent \in Nat /\ sent' = sent + 1
      /\ sent' \in Number /\ asked \in [Line -> Seq(Asked)]
      /\ UNCHANGED <<owner, channel, inbox>>
      /\ Ask(l, RelayPacket(owner[l], target[l], sent'))
  <2>1. sent \in Nat /\ sent' = sent + 1 /\ sent' \in Number
    BY ConstantsAssumption DEF TypeInv, TypeOK, Type, Number
  <2>2. owner[l] \in Member /\ target[l] \in Diddy /\ asked \in [Line -> Seq(Asked)]
    BY DEF TypeInv, TypeOK, LineOK, Chatting, IsChat, Type, Asked
  <2>3. /\ UNCHANGED <<owner, channel, inbox>>
        /\ Ask(l, RelayPacket(owner[l], target[l], sent'))
    BY DEF Type, opened
  <2> QED
    BY <2>1, <2>2, <2>3
<1>2. PICK e \in Packet : e = RelayPacket(owner[l], target[l], sent')
  BY <1>1 DEF Packet
<1>3. /\ e \in Asked /\ e \in Carrier /\ e.n = sent'
      /\ Bare(e).from = owner[l] /\ Bare(e).n = sent'
  BY <1>2 DEF Asked, Carrier, RelayPacket, RelayKey, Bare
<1>4. /\ \A k \in Line \ {l} : asked'[k] = asked[k]
      /\ asked'[l] \in {asked[l], Append(asked[l], e)}
  BY <1>1, <1>2, <1>3, AskTyped
<1>5. \A k \in Line : sent' \notin Numbers(asked[k]) /\ sent' \notin Numbers(channel[k])
  <2>1. sent' \notin 1..sent
    BY <1>1
  <2> QED
    BY <2>1 DEF PostInv, PostOK
<1>6. PacketsIn(Append(asked[l], e)) = PacketsIn(asked[l]) \cup {Bare(e)}
  BY <1>1, <1>3, PacketsAppend
<1>7. Once(Append(asked[l], e))
  <2>1. Once(asked[l]) /\ asked[l] \in Seq(Asked)
    BY <1>1 DEF PostInv, PostOK
  <2> QED
    BY <1>3, <1>5, <2>1, OnceAppend
<1>8. \A k \in Line : /\ PacketsIn(asked[k]) \subseteq PacketsIn(asked'[k])
                      /\ \A p \in PacketsIn(asked'[k]) :
                           p \in PacketsIn(asked[k]) \/ (k = l /\ p = Bare(e))
  BY <1>4, <1>6
<1>9. \A k \in Line : \A n \in Numbers(asked'[k]) :
        n \in Numbers(asked[k]) \/ (k = l /\ n = sent')
  BY <1>3, <1>8 DEF Numbers
<1>10. ASSUME NEW k \in Line PROVE PostOK(k)'
  <2>1. PostOK(k)
    BY DEF PostInv
  <2>2. Once(asked'[k])
    BY <1>4, <1>7, <2>1 DEF PostOK
  <2>3. 1..sent \subseteq 1..sent' /\ sent' \in 1..sent'
    BY <1>1
  <2>4. Numbers(asked'[k]) \subseteq 1..sent'
    BY <1>9, <2>1, <2>3 DEF PostOK
  <2>5. Numbers(channel'[k]) \subseteq 1..sent'
    BY <1>1, <2>1, <2>3 DEF PostOK
  <2>6. \A p \in PacketsIn(asked'[k]) : p.from = owner'[k]
    BY <1>1, <1>3, <1>8, <2>1 DEF PostOK
  <2> QED
    BY <1>1, <2>1, <2>2, <2>4, <2>5, <2>6 DEF PostOK
<1>11. ASSUME NEW j \in Line, NEW k \in Line PROVE Apart(j, k)'
  <2>1. Apart(j, k)
    BY DEF PostInv
  <2> QED
    BY <1>1, <1>5, <1>9, <2>1 DEF Apart
<1>12. PostInv'
  BY <1>10, <1>11 DEF PostInv
<1>13. Users' = Users /\ Queued' = Queued /\ Written' = Written
  BY <1>1 DEF Users, Queued, Written
<1>14. Taken \subseteq Taken'
  <2>1. Taken = {n \in 1..sent : \A k \in Line : n \notin Numbers(asked[k])}
    BY DEF Taken, Numbers
  <2>2. Taken' = {n \in 1..sent' : \A k \in Line : n \notin Numbers(asked'[k])}
    BY DEF Taken, Numbers
  <2>3. 1..sent \subseteq 1..sent' /\ sent' \notin 1..sent
    BY <1>1
  <2> QED
    BY <1>9, <2>1, <2>2, <2>3
<1>15. Relaying!Take
  BY <1>13, <1>14, WrittenTyped DEF Relaying!Take
<1> QED
  BY <1>12, <1>15 DEF Relaying!Next

\* A line is opened: to Switchboard, its diddy logs in.
LEMMA OpenRelays ==
  ASSUME NEW d \in Member, NEW t, NEW p
  PROVE  TypeInv /\ PostInv /\ Open(d, t, p) => PostInv' /\ Relaying!Next
<1> SUFFICES ASSUME TypeInv, PostInv, Open(d, t, p) PROVE PostInv' /\ Relaying!Next
  OBVIOUS
<1>1. PICK l \in Line : /\ stage[l] = "unused"
                        /\ owner' = [owner EXCEPT ![l] = d]
                        /\ UNCHANGED <<asked, channel, inbox, sent>>
  BY DEF Open, At, wire
<1>2. /\ owner[l] = None /\ asked[l] = <<>> /\ channel[l] = <<>>
      /\ owner \in [Line -> Member \cup {None}]
  BY <1>1 DEF TypeInv, TypeOK, LineOK, Held
<1>3. PacketsIn(asked[l]) = {} /\ PacketsIn(channel[l]) = {}
  <2>1. DOMAIN <<>> = {}
    OBVIOUS
  <2>2. PacketsIn(<<>>) = {}
    BY <2>1 DEF PacketsIn
  <2> QED
    BY <1>2, <2>2
<1>4. ASSUME NEW k \in Line PROVE PostOK(k)'
  <2>1. PostOK(k)
    BY DEF PostInv
  <2>2. k # l => owner'[k] = owner[k]
    BY <1>1, <1>2
  <2> QED
    BY <1>1, <1>3, <2>1, <2>2 DEF PostOK
<1>5. ASSUME NEW j \in Line, NEW k \in Line PROVE Apart(j, k)'
  BY <1>1 DEF PostInv, Apart
<1>6. PostInv'
  BY <1>4, <1>5 DEF PostInv
<1>7. Taken' = Taken /\ Queued' = Queued /\ Written' = Written
  BY <1>1 DEF Taken, Queued, Written
<1>8. Users' = [Users EXCEPT ![l] = @ \cup {d}]
  BY <1>1, <1>2, ConstantsAssumption DEF Users
<1>9. Relaying!Login(l, d)
  BY <1>7, <1>8 DEF Relaying!Login
<1> QED
  BY <1>6, <1>9, ConstantsAssumption DEF Relaying!Next

\* What only a line's queues lose.
LEMMA LineLoses ==
  ASSUME NEW l \in Line
  PROVE  /\ TypeInv /\ UNCHANGED <<owner, sent>>
         /\ \A k \in Line \ {l} : /\ asked'[k] = asked[k] /\ channel'[k] = channel[k]
                                  /\ inbox'[k] = inbox[k]
         /\ Fewer(asked[l], asked'[l]) /\ Fewer(channel[l], channel'[l])
         /\ Fewer(inbox[l], inbox'[l])
         => Loses
  BY DEF Loses, Fewer

\* A queue that stays, that is emptied, whose head is taken.
LEMMA FewerHere ==
  ASSUME NEW l \in Line
  PROVE  TypeInv
           => /\ Fewer(asked[l], asked[l]) /\ Fewer(asked[l], <<>>)
              /\ Fewer(channel[l], channel[l]) /\ Fewer(channel[l], <<>>)
              /\ Fewer(inbox[l], inbox[l]) /\ Fewer(inbox[l], <<>>)
              /\ asked[l] # <<>> => Fewer(asked[l], Tail(asked[l]))
              /\ inbox[l] # <<>> => Fewer(inbox[l], Tail(inbox[l]))
              /\ \A m \in Question : Fewer(asked[l], Append(asked[l], m))
              /\ \A m \in Answer : Fewer(inbox[l], Append(inbox[l], m))
<1> SUFFICES ASSUME TypeInv
             PROVE  /\ Fewer(asked[l], asked[l]) /\ Fewer(asked[l], <<>>)
                    /\ Fewer(channel[l], channel[l]) /\ Fewer(channel[l], <<>>)
                    /\ Fewer(inbox[l], inbox[l]) /\ Fewer(inbox[l], <<>>)
                    /\ asked[l] # <<>> => Fewer(asked[l], Tail(asked[l]))
                    /\ inbox[l] # <<>> => Fewer(inbox[l], Tail(inbox[l]))
                    /\ \A m \in Question : Fewer(asked[l], Append(asked[l], m))
                    /\ \A m \in Answer : Fewer(inbox[l], Append(inbox[l], m))
  OBVIOUS
<1>1. asked[l] \in Seq(Asked) /\ inbox[l] \in Seq(Sent) /\ channel[l] \in Seq(Forward)
  BY DEF TypeInv, TypeOK, Asked, Sent
<1>2. \A s : Fewer(s, s) /\ Fewer(s, <<>>)
  <2>1. DOMAIN <<>> = {}
    OBVIOUS
  <2> QED
    BY <2>1 DEF Fewer, PacketsIn, Once
<1>3. AnnounceAck \in Sent
  BY Answers DEF Sent
<1>4. inbox[l] # <<>> => Fewer(inbox[l], Tail(inbox[l]))
  BY <1>1, <1>3, FewerOnes
<1>5. ASSUME NEW m \in Question PROVE Fewer(asked[l], Append(asked[l], m))
  <2>1. m \in Asked /\ m \notin Carrier
    BY Carriers DEF Asked
  <2> QED
    BY <1>1, <2>1, FewerOnes
<1>6. ASSUME NEW m \in Answer PROVE Fewer(inbox[l], Append(inbox[l], m))
  <2>1. m \in Sent /\ m \notin Carrier
    BY Carriers DEF Sent
  <2> QED
    BY <1>1, <2>1, FewerOnes
<1>7. asked[l] # <<>> => Fewer(asked[l], Tail(asked[l]))
  <2>1. asked[l] # <<>> => Head(asked[l]) \in Asked
    BY <1>1, HeadTailProperties
  <2> QED
    BY <1>1, <2>1, FewerOnes
<1> QED
  BY <1>2, <1>4, <1>5, <1>6, <1>7

\* The server answers a question, stops reading a line, or loses one or all.
LEMMA ServerLoses ==
  ASSUME NEW l \in Line
  PROVE  /\ TypeInv
         /\ \/ Handle(l) /\ Head(asked[l]).type # "RelayPacket"
            \/ HandlerFails(l) \/ Sever(l)
            \/ Crash
         => Loses
<1> SUFFICES ASSUME TypeInv,
                    \/ Handle(l) /\ Head(asked[l]).type # "RelayPacket"
                    \/ HandlerFails(l) \/ Sever(l)
                    \/ Crash
             PROVE  Loses
  OBVIOUS
<1>1. /\ asked \in [Line -> Seq(Asked)] /\ channel \in [Line -> Seq(Forward)]
      /\ inbox \in [Line -> Seq(Sent)]
      /\ directory \in [Diddy -> Address \cup {None}]
  BY DEF TypeInv, TypeOK, Asked, Sent
<1>2. CASE Handle(l) /\ Head(asked[l]).type # "RelayPacket"
  <2>1. /\ asked[l] # <<>> /\ asked' = [asked EXCEPT ![l] = Tail(@)]
        /\ HandleRequest(l, Head(asked[l]))
        /\ UNCHANGED <<owner, sent>>
    BY <1>2 DEF Handle, opened
  <2>2. PICK m \in Asked : m = Head(asked[l])
    BY <1>1, <2>1, HeadTailProperties
  <2>3. PICK r \in Answer : UNCHANGED channel /\ inbox' = Write(l, r)
    <3>1. m.type = "QueryPeer" => LookUp(m.id) \in Answer
      BY <1>1, QuestionKinds, Answers DEF LookUp
    <3> QED
      BY <1>2, <2>1, <2>2, <3>1, Answers DEF HandleRequest
  <2>4. inbox'[l] \in {inbox[l], Append(inbox[l], r)} /\ asked'[l] = Tail(asked[l])
    BY <1>1, <2>1, <2>3 DEF Write
  <2>5. Fewer(asked[l], asked'[l]) /\ Fewer(inbox[l], inbox'[l])
        /\ Fewer(channel[l], channel'[l])
    BY <2>1, <2>3, <2>4, FewerHere
  <2>6. \A k \in Line \ {l} : /\ asked'[k] = asked[k] /\ channel'[k] = channel[k]
                              /\ inbox'[k] = inbox[k]
    BY <1>1, <2>1, <2>3 DEF Write
  <2> QED
    BY <2>1, <2>5, <2>6, LineLoses
<1>3. CASE HandlerFails(l) \/ Sever(l) \/ Crash
  <2>1. UNCHANGED <<owner, sent, inbox>>
    BY <1>3 DEF HandlerFails, Sever, Crash, opened
  <2>2. \A k \in Line : asked'[k] \in {asked[k], <<>>} /\ channel'[k] \in {channel[k], <<>>}
    BY <1>1, <1>3 DEF HandlerFails, Sever, Crash
  <2> QED
    BY <2>1, <2>2, FewerHere DEF Loses
<1> QED
  BY <1>2, <1>3

\* A client drops a line.
LEMMA DropLoses ==
  ASSUME NEW L, NEW s
  PROVE  TypeInv /\ Drop(L, s) => Loses
<1> SUFFICES ASSUME TypeInv, Drop(L, s) PROVE Loses
  OBVIOUS
<1>1. UNCHANGED <<owner, sent, asked>>
  BY DEF Drop, opened
<1>2. \A k \in Line : inbox'[k] \in {inbox[k], <<>>} /\ channel'[k] \in {channel[k], <<>>}
  BY DEF Drop
<1>3. \A k \in Line : /\ Fewer(asked[k], asked'[k]) /\ Fewer(channel[k], channel'[k])
                      /\ Fewer(inbox[k], inbox'[k])
  BY <1>1, <1>2, FewerHere
<1> QED
  BY <1>1, <1>3 DEF Loses, Fewer

\* A client reads, and asks what is no packet.
LEMMA ClientLoses ==
  ASSUME NEW l \in Line
  PROVE  /\ TypeInv
         /\ Continue(l) \/ LeaveRelay(l) \/ StopTyping(l) \/ EndDirect(l)
         => Loses
<1> SUFFICES ASSUME TypeInv,
                    Continue(l) \/ LeaveRelay(l) \/ StopTyping(l) \/ EndDirect(l)
             PROVE  Loses
  OBVIOUS
<1>1. /\ asked \in [Line -> Seq(Asked)] /\ inbox \in [Line -> Seq(Sent)]
      /\ target[l] \in Diddy \cup {None} /\ port[l] \in Port \cup {0}
      /\ LineOK(l)
  BY DEF TypeInv, TypeOK, Asked, Sent
<1>2. ASSUME UNCHANGED <<owner, sent, channel>>,
             asked' = asked \/ \E m \in Question : Ask(l, m),
             inbox' = inbox \/ \E m : Receive(l, m)
      PROVE  Loses
  <2>1. /\ \A k \in Line \ {l} : asked'[k] = asked[k]
        /\ \/ asked'[l] = asked[l]
           \/ \E m \in Question : asked'[l] = Append(asked[l], m)
    BY <1>1, <1>2 DEF Ask
  <2>2. /\ \A k \in Line \ {l} : inbox'[k] = inbox[k]
        /\ \/ inbox'[l] = inbox[l]
           \/ inbox[l] # <<>> /\ inbox'[l] = Tail(inbox[l])
    BY <1>1, <1>2 DEF Receive, Incoming
  <2>3. Fewer(asked[l], asked'[l]) /\ Fewer(inbox[l], inbox'[l])
        /\ Fewer(channel[l], channel'[l])
    BY <1>2, <2>1, <2>2, FewerHere
  <2> QED
    BY <1>2, <2>1, <2>2, <2>3, LineLoses
<1>3. ASSUME NEW s, Leave(l, s) PROVE Loses
  BY <1>3, DropLoses DEF Leave
<1>4. CASE Login(l)
  <2>1. asked[l] = <<>> /\ Announce(port[l]) \in Question
    BY <1>1, <1>4, Questions DEF LineOK, Login, At
  <2>2. asked'[l] = Append(asked[l], Announce(port[l]))
    BY <1>1, <1>4, <2>1 DEF Login
  <2>3. /\ UNCHANGED <<owner, sent, channel, inbox>>
        /\ \A k \in Line \ {l} : asked'[k] = asked[k]
    BY <1>1, <1>4 DEF Login, opened
  <2>4. Fewer(asked[l], asked'[l]) /\ Fewer(inbox[l], inbox'[l])
        /\ Fewer(channel[l], channel'[l])
    BY <2>1, <2>2, <2>3, FewerHere
  <2> QED
    BY <2>3, <2>4, LineLoses
<1>5. CASE ReadAnnounceAnswer(l) \/ Notice(l) \/ Watch(l)
  BY <1>2, <1>5 DEF ReadAnnounceAnswer, Notice, Watch, opened
<1>6. CASE AnnounceAnswered(l)
  <2>1. target[l] \in Diddy
    BY <1>1, <1>6 DEF AnnounceAnswered, IsChat
  <2>2. QueryPeer(target[l]) \in Question
    BY <2>1, Questions
  <2> QED
    BY <1>2, <1>6, <2>2 DEF AnnounceAnswered, opened
<1>7. CASE QueryAnswered(l) \/ DialFails(l)
  <2>1. target[l] \in Diddy
    BY <1>1, <1>7 DEF QueryAnswered, DialFails, LineOK, Chatting, At, IsChat
  <2>2. VerifyRequest(target[l]) \in Question
    BY <2>1, Questions
  <2>3. /\ UNCHANGED <<owner, sent, channel>>
        /\ asked' = asked \/ Ask(l, VerifyRequest(target[l]))
        /\ inbox' = inbox \/ \E m : Receive(l, m)
    BY <1>7 DEF QueryAnswered, DialFails, opened
  <2> QED
    BY <1>2, <2>2, <2>3
<1>8. CASE Dial(l) \/ LeaveRelay(l) \/ ReceiveTaskFails(l)
  BY <1>2, <1>8 DEF Dial, LeaveRelay, ReceiveTaskFails, opened, wire
<1>9. CASE VerifyAnswered(l)
  <2>1. \/ Leave(l, "failed")
        \/ /\ UNCHANGED <<owner, sent, channel, asked>>
           /\ \E m : Receive(l, m)
    BY <1>9 DEF VerifyAnswered, opened
  <2> QED
    BY <1>2, <1>3, <2>1
<1>10. CASE LoginFails(l) \/ StopTyping(l) \/ EndDirect(l) \/ ReadFails(l)
  BY <1>3, <1>10 DEF LoginFails, StopTyping, EndDirect, ReadFails
<1> QED
  BY <1>4, <1>5, <1>6, <1>7, <1>8, <1>9, <1>10 DEF Continue

\* Every step keeps the packets where they belong and is one of Switchboard.
LEMMA NextRelays == TypeInv /\ PostInv /\ [Next]_vars => PostInv' /\ Relaying!Next
<1> SUFFICES ASSUME TypeInv, PostInv, [Next]_vars PROVE PostInv' /\ Relaying!Next
  OBVIOUS
<1>1. ASSUME UNCHANGED <<owner, sent, asked, channel, inbox>>
      PROVE  PostInv' /\ Relaying!Next
  <2>1. Loses
    BY <1>1, FewerHere DEF Loses
  <2> QED
    BY <2>1, LosesRelays
<1>2. ASSUME NEW l \in Line, Serve(l) \/ Crash PROVE PostInv' /\ Relaying!Next
  <2>1. CASE Handle(l)
    BY <2>1, HandleRelays, ServerLoses, LosesRelays
  <2>2. CASE HandlerFails(l) \/ Sever(l) \/ Crash
    BY <2>2, ServerLoses, LosesRelays
  <2> QED
    BY <1>2, <2>1, <2>2, PushRelays DEF Serve
<1>3. ASSUME NEW l \in Line, Use(l) PROVE PostInv' /\ Relaying!Next
  <2>1. CASE Continue(l) \/ LeaveRelay(l) \/ StopTyping(l) \/ EndDirect(l)
    BY <2>1, ClientLoses, LosesRelays
  <2> QED
    BY <1>3, <2>1, TypeRelays DEF Use
<1>4. ASSUME NEW d \in Member, Command(d) PROVE PostInv' /\ Relaying!Next
  <2>1. CASE Quit(d)
    BY <2>1, DropLoses, LosesRelays DEF Quit
  <2>2. ASSUME NEW p \in Port, Listen(d, p) PROVE PostInv' /\ Relaying!Next
    BY <2>2, OpenRelays DEF Listen
  <2>3. ASSUME NEW t \in Diddy, Chat(d, t) PROVE PostInv' /\ Relaying!Next
    BY <2>3, OpenRelays DEF Chat
  <2>4. ASSUME NEW p \in Port, Bind(d, p) PROVE PostInv' /\ Relaying!Next
    BY <1>1, <2>4 DEF Bind, opened, wire
  <2> QED
    BY <1>4, <2>1, <2>2, <2>3, <2>4 DEF Command
<1>5. CASE Network
  BY <1>1, <1>5, NetworkSteps DEF opened, wire
<1>6. CASE UNCHANGED vars
  BY <1>1, <1>6 DEF vars, opened, wire
<1> QED
  BY <1>2, <1>3, <1>4, <1>5, <1>6, Steps

\* No packet is on its way at first.
LEMMA InitPosted == Init => PostInv /\ Relaying!Init
<1> SUFFICES ASSUME Init PROVE PostInv /\ Relaying!Init
  OBVIOUS
<1>1. DOMAIN <<>> = {}
  OBVIOUS
<1>2. PacketsIn(<<>>) = {} /\ Numbers(<<>>) = {} /\ Once(<<>>)
  BY <1>1 DEF PacketsIn, Numbers, Once
<1>3. /\ \A l \in Line : asked[l] = <<>> /\ channel[l] = <<>> /\ inbox[l] = <<>>
      /\ \A l \in Line : owner[l] = None
      /\ sent = 0
  BY DEF Init
<1>4. PostInv
  BY <1>2, <1>3 DEF PostInv, PostOK, Apart
<1>5. Users = [l \in Line |-> {}] /\ Written = [l \in Line |-> {}] /\ Queued = {}
  BY <1>2, <1>3 DEF Users, Written, Queued
<1>6. Taken = {}
  <2>1. 1..sent = {}
    BY <1>3
  <2> QED
    BY <2>1 DEF Taken
<1> QED
  BY <1>4, <1>5, <1>6 DEF Relaying!Init

\* Relay chats get what Switchboard promises: a packet goes at most once, and
\* to a line of its addressee.
THEOREM DiscoveryRelays == Spec => RelaysAsPromised
<1>1. Init => PostInv /\ Relaying!Init
  BY InitPosted
<1>2. TypeInv /\ PostInv /\ [Next]_vars => PostInv' /\ [Relaying!Next]_(Relaying!vars)
  BY NextRelays
<1> QED
  BY <1>1, <1>2, InitTyped, NextTyped, PTL DEF Spec, RelaysAsPromised, Relaying!Spec

-----------------------------------------------------------------------------
(* Keys *)

\* A packet was sealed by whom the server says, for the owner of its line.
SealedFor(m, d) == m \in Forward => m.key = RelayKey(m.from, d)

SealInv ==
  \A l \in Line : \A m \in Range(channel[l]) \cup Range(inbox[l]) : SealedFor(m, owner[l])

\* Nothing is put on a line but what is sealed for its owner.
Seals ==
  \A l \in Line :
    /\ owner'[l] = owner[l] \/ Range(channel[l]) \cup Range(inbox[l]) = {}
    /\ \A m \in Range(channel'[l]) \cup Range(inbox'[l]) :
         \/ m \in Range(channel[l]) \cup Range(inbox[l])
         \/ SealedFor(m, owner'[l])

\* Such a step keeps what is sealed.
LEMMA SealsKeep == SealInv /\ Seals => SealInv'
<1> SUFFICES ASSUME SealInv, Seals, NEW l \in Line,
                    NEW m \in Range(channel'[l]) \cup Range(inbox'[l])
             PROVE  SealedFor(m, owner'[l])
  BY DEF SealInv
<1> QED
  BY DEF Seals, SealInv

\* What is in a queue that stays, that is emptied, whose head is taken, and that
\* an answer is put on.
LEMMA QueueRanges ==
  ASSUME NEW l \in Line
  PROVE  TypeInv
           => /\ channel[l] # <<>> =>
                   /\ Head(channel[l]) \in Range(channel[l]) \cap Sent
                   /\ Range(Tail(channel[l])) \subseteq Range(channel[l])
              /\ inbox[l] # <<>> => Range(Tail(inbox[l])) \subseteq Range(inbox[l])
              /\ \A m \in Sent : Range(Append(inbox[l], m)) = Range(inbox[l]) \cup {m}
              /\ \A m \in Forward :
                   Range(Append(channel[l], m)) = Range(channel[l]) \cup {m}
<1> SUFFICES ASSUME TypeInv
             PROVE  /\ channel[l] # <<>> =>
                         /\ Head(channel[l]) \in Range(channel[l]) \cap Sent
                         /\ Range(Tail(channel[l])) \subseteq Range(channel[l])
                    /\ inbox[l] # <<>> => Range(Tail(inbox[l])) \subseteq Range(inbox[l])
                    /\ \A m \in Sent :
                         Range(Append(inbox[l], m)) = Range(inbox[l]) \cup {m}
                    /\ \A m \in Forward :
                         Range(Append(channel[l], m)) = Range(channel[l]) \cup {m}
  OBVIOUS
<1>1. inbox[l] \in Seq(Sent) /\ channel[l] \in Seq(Forward)
  BY DEF TypeInv, TypeOK, Sent
<1>2. ASSUME channel[l] # <<>>
      PROVE  /\ Head(channel[l]) \in Range(channel[l]) \cap Sent
             /\ Range(Tail(channel[l])) \subseteq Range(channel[l])
  <2>1. Range(channel[l]) = {Head(channel[l])} \cup Range(Tail(channel[l]))
    BY <1>1, <1>2, TailRange
  <2>2. Head(channel[l]) \in Sent
    BY <1>1, <1>2, HeadTailProperties DEF Sent
  <2> QED
    BY <2>1, <2>2
<1>3. ASSUME inbox[l] # <<>> PROVE Range(Tail(inbox[l])) \subseteq Range(inbox[l])
  <2>1. Range(inbox[l]) = {Head(inbox[l])} \cup Range(Tail(inbox[l]))
    BY <1>1, <1>3, TailRange
  <2> QED
    BY <2>1
<1>4. \A m \in Sent : Range(Append(inbox[l], m)) = Range(inbox[l]) \cup {m}
  BY <1>1, AppendRange
<1>5. \A m \in Forward : Range(Append(channel[l], m)) = Range(channel[l]) \cup {m}
  BY <1>1, AppendRange
<1> QED
  BY <1>2, <1>3, <1>4, <1>5

\* The server names the sender, and routes to a line of the addressee.
LEMMA HandleSeals ==
  ASSUME NEW l \in Line
  PROVE  TypeInv /\ PostInv /\ Handle(l) => Seals
<1> SUFFICES ASSUME TypeInv, PostInv, Handle(l), NEW k \in Line,
                    NEW e \in Range(channel'[k]) \cup Range(inbox'[k])
             PROVE  /\ owner'[k] = owner[k]
                    /\ \/ e \in Range(channel[k]) \cup Range(inbox[k])
                       \/ SealedFor(e, owner[k])
  BY DEF Seals, Handle, opened
<1>1. /\ asked \in [Line -> Seq(Asked)] /\ channel \in [Line -> Seq(Forward)]
      /\ inbox \in [Line -> Seq(Sent)] /\ directory \in [Diddy -> Address \cup {None}]
      /\ relay \in [Diddy -> Line \cup {None}]
      /\ MapInv
  BY DEF TypeInv, TypeOK, Asked, Sent
<1>2. /\ asked[l] # <<>> /\ HandleRequest(l, Head(asked[l])) /\ owner' = owner
  BY DEF Handle, opened
<1>3. PICK m \in Asked : m = Head(asked[l])
  BY <1>1, <1>2, HeadTailProperties
<1>4. CASE m.type = "RelayPacket"
  <2>1. /\ inbox' = inbox
        /\ channel' = [j \in Line |->
                         IF j \in Route(m.to)
                         THEN Append(channel[j], RelayForward(owner[l], m))
                         ELSE channel[j]]
    BY <1>2, <1>3, <1>4 DEF HandleRequest
  <2>2. m \in Packet /\ m.to \in Diddy /\ m.key \in Member \X Diddy /\ m.key[2] = m.to
    BY <1>3, <1>4, QuestionKinds, PacketParts
  <2>3. m.key[1] = owner[l]
    <3>1. Bare(m) \in PacketsIn(asked[l]) /\ Bare(m).from = m.key[1]
      BY <1>1, <1>2, <1>3, <2>2, PacketsTail DEF Carrier, Bare
    <3> QED
      BY <3>1 DEF PostInv, PostOK
  <2>4. RelayForward(owner[l], m) \in Forward
    BY <2>2, <2>3, PacketParts
  <2>5. CASE k \notin Route(m.to)
    BY <1>2, <2>1, <2>5
  <2>6. CASE k \in Route(m.to)
    <3>1. owner[k] = m.to
      BY <1>1, <2>2, <2>6, ConstantsAssumption DEF Route, MapInv
    <3>2. SealedFor(RelayForward(owner[l], m), owner[k])
      BY <2>2, <2>3, <3>1 DEF SealedFor, RelayForward, RelayKey
    <3>3. Range(channel'[k]) = Range(channel[k]) \cup {RelayForward(owner[l], m)}
      BY <1>1, <2>1, <2>4, <2>6, QueueRanges
    <3> QED
      BY <1>2, <2>1, <3>2, <3>3
  <2> QED
    BY <2>5, <2>6
<1>5. CASE m.type # "RelayPacket"
  <2>1. PICK r \in Answer : channel' = channel /\ inbox' = Write(l, r)
    <3>1. m.type = "QueryPeer" => LookUp(m.id) \in Answer
      BY <1>1, <1>3, QuestionKinds, Answers DEF LookUp
    <3> QED
      BY <1>2, <1>3, <1>5, <3>1, Answers DEF HandleRequest
  <2>2. r \in Sent /\ SealedFor(r, owner[k])
    BY AnswerKinds DEF Sent, SealedFor
  <2>3. Range(inbox'[k]) \subseteq Range(inbox[k]) \cup {r}
    <3>1. inbox'[k] \in {inbox[k], Append(inbox[k], r)}
      BY <1>1, <2>1 DEF Write
    <3>2. Range(Append(inbox[k], r)) = Range(inbox[k]) \cup {r}
      BY <2>2, QueueRanges
    <3>3. CASE inbox'[k] = inbox[k]
      BY <3>3
    <3>4. CASE inbox'[k] = Append(inbox[k], r)
      BY <3>2, <3>4
    <3> QED
      BY <3>1, <3>3, <3>4
  <2> QED
    BY <1>2, <2>1, <2>2, <2>3
<1> QED
  BY <1>4, <1>5

\* A relay task writes what is in its channel.
LEMMA PushSeals ==
  ASSUME NEW l \in Line
  PROVE  TypeInv /\ Push(l) => Seals
<1> SUFFICES ASSUME TypeInv, Push(l), NEW k \in Line
             PROVE  /\ owner'[k] = owner[k]
                    /\ Range(channel'[k]) \cup Range(inbox'[k])
                         \subseteq Range(channel[k]) \cup Range(inbox[k])
  BY DEF Seals
<1>1. inbox \in [Line -> Seq(Sent)] /\ channel \in [Line -> Seq(Forward)]
  BY DEF TypeInv, TypeOK, Sent
<1>2. /\ channel[l] # <<>> /\ inbox' = Write(l, Head(channel[l]))
      /\ channel' = [channel EXCEPT ![l] = Tail(@)] /\ owner' = owner
  BY DEF Push, Dequeued, opened
<1>3. CASE k # l
  BY <1>1, <1>2, <1>3 DEF Write
<1>4. CASE k = l
  <2>1. Range(channel'[l]) \subseteq Range(channel[l])
    BY <1>1, <1>2, QueueRanges
  <2>2. /\ Head(channel[l]) \in Range(channel[l])
        /\ Range(Append(inbox[l], Head(channel[l]))) = Range(inbox[l]) \cup {Head(channel[l])}
    BY <1>2, QueueRanges
  <2>3. inbox'[l] \in {inbox[l], Append(inbox[l], Head(channel[l]))}
    BY <1>1, <1>2 DEF Write
  <2> QED
    BY <1>2, <1>4, <2>1, <2>2, <2>3
<1> QED
  BY <1>3, <1>4

\* What is only lost or read.
LEMMA LostSeals ==
  ASSUME UNCHANGED owner,
         \A l \in Line : /\ channel'[l] = channel[l] \/ channel'[l] = <<>>
                         /\ \/ inbox'[l] = inbox[l] \/ inbox'[l] = <<>>
                            \/ inbox[l] # <<>> /\ inbox'[l] = Tail(inbox[l])
  PROVE  TypeInv => Seals
<1> SUFFICES ASSUME TypeInv, NEW l \in Line
             PROVE  Range(channel'[l]) \cup Range(inbox'[l])
                      \subseteq Range(channel[l]) \cup Range(inbox[l])
  BY DEF Seals
<1>1. Range(channel'[l]) \subseteq Range(channel[l])
  BY EmptyRange
<1>2. Range(inbox'[l]) \subseteq Range(inbox[l])
  BY EmptyRange, QueueRanges
<1> QED
  BY <1>1, <1>2

\* A client reads and leaves, or the server loses the line.
LEMMA ClientSeals ==
  ASSUME NEW l \in Line
  PROVE  TypeInv /\ (Use(l) \/ HandlerFails(l) \/ Sever(l) \/ Crash) => Seals
<1> SUFFICES ASSUME TypeInv, Use(l) \/ HandlerFails(l) \/ Sever(l) \/ Crash
             PROVE  Seals
  OBVIOUS
<1>1. inbox \in [Line -> Seq(Sent)] /\ channel \in [Line -> Seq(Forward)]
  BY DEF TypeInv, TypeOK, Sent
<1>2. ASSUME UNCHANGED <<owner, channel>>, inbox' = inbox \/ \E m : Receive(l, m)
      PROVE  Seals
  <2>1. \A k \in Line : \/ inbox'[k] = inbox[k]
                        \/ inbox[k] # <<>> /\ inbox'[k] = Tail(inbox[k])
    BY <1>1, <1>2 DEF Receive, Incoming
  <2> QED
    BY <1>2, <2>1, LostSeals
<1>3. ASSUME NEW s, Leave(l, s) PROVE Seals
  <2>1. /\ UNCHANGED owner
        /\ \A k \in Line : /\ channel'[k] = channel[k] \/ channel'[k] = <<>>
                           /\ inbox'[k] = inbox[k] \/ inbox'[k] = <<>>
    BY <1>3 DEF Leave, Drop, opened
  <2> QED
    BY <2>1, LostSeals
<1>4. CASE \/ Login(l) \/ Dial(l) \/ DialFails(l) \/ Type(l) \/ LeaveRelay(l)
           \/ ReceiveTaskFails(l)
  BY <1>2, <1>4 DEF Login, Dial, DialFails, Type, LeaveRelay, ReceiveTaskFails,
                    opened, wire
<1>5. CASE \/ ReadAnnounceAnswer(l) \/ Notice(l) \/ Watch(l) \/ AnnounceAnswered(l)
           \/ QueryAnswered(l)
  BY <1>2, <1>5 DEF ReadAnnounceAnswer, Notice, Watch, AnnounceAnswered,
                    QueryAnswered, opened
<1>6. CASE VerifyAnswered(l)
  <2>1. \/ Leave(l, "failed")
        \/ UNCHANGED <<owner, channel>> /\ \E m : Receive(l, m)
    BY <1>6 DEF VerifyAnswered, opened
  <2> QED
    BY <1>2, <1>3, <2>1
<1>7. CASE LoginFails(l) \/ StopTyping(l) \/ EndDirect(l) \/ ReadFails(l)
  BY <1>3, <1>7 DEF LoginFails, StopTyping, EndDirect, ReadFails
<1>8. CASE HandlerFails(l) \/ Sever(l) \/ Crash
  <2>1. UNCHANGED <<owner, inbox>>
    BY <1>8 DEF HandlerFails, Sever, Crash, opened
  <2>2. \A k \in Line : channel'[k] = channel[k] \/ channel'[k] = <<>>
    BY <1>1, <1>8 DEF HandlerFails, Sever, Crash
  <2> QED
    BY <2>1, <2>2, LostSeals
<1> QED
  BY <1>4, <1>5, <1>6, <1>7, <1>8 DEF Use, Continue

\* A new line has nothing on it.
LEMMA OpenSeals ==
  ASSUME NEW d, NEW t, NEW p
  PROVE  TypeInv /\ Open(d, t, p) => Seals
<1> SUFFICES ASSUME TypeInv, Open(d, t, p) PROVE Seals
  OBVIOUS
<1>1. PICK l \in Line : /\ At(l, "unused") /\ owner' = [owner EXCEPT ![l] = d]
                        /\ UNCHANGED <<channel, inbox>>
  BY DEF Open, wire
<1>2. Range(channel[l]) \cup Range(inbox[l]) = {}
  BY <1>1, EmptyRange DEF TypeInv, LineOK, Held, At
<1>3. \A k \in Line : k # l => owner'[k] = owner[k]
  BY <1>1 DEF TypeInv, TypeOK
<1> QED
  BY <1>1, <1>2, <1>3 DEF Seals

\* Every step puts on a line only what is sealed for its owner.
LEMMA NextSeals == TypeInv /\ PostInv /\ [Next]_vars => Seals
<1> SUFFICES ASSUME TypeInv, PostInv, [Next]_vars PROVE Seals
  OBVIOUS
<1>1. ASSUME UNCHANGED <<owner, channel, inbox>> PROVE Seals
  BY <1>1 DEF Seals
<1>2. ASSUME NEW l \in Line, Serve(l) \/ Use(l) \/ Crash PROVE Seals
  BY <1>2, HandleSeals, PushSeals, ClientSeals DEF Serve
<1>3. ASSUME NEW d \in Member, Command(d) PROVE Seals
  <2>1. ASSUME NEW p \in Port, Listen(d, p) PROVE Seals
    BY <2>1, OpenSeals DEF Listen
  <2>2. ASSUME NEW t \in Diddy, Chat(d, t) PROVE Seals
    BY <2>2, OpenSeals DEF Chat
  <2>3. ASSUME NEW p \in Port, Bind(d, p) PROVE Seals
    BY <1>1, <2>3 DEF Bind, opened, wire
  <2>4. CASE Quit(d)
    <3>1. PICK L : Drop(L, "ended")
      BY <2>4 DEF Quit
    <3>2. /\ UNCHANGED owner
          /\ \A k \in Line : /\ channel'[k] = channel[k] \/ channel'[k] = <<>>
                             /\ inbox'[k] = inbox[k] \/ inbox'[k] = <<>>
      BY <3>1 DEF Drop, opened
    <3> QED
      BY <3>2, LostSeals
  <2> QED
    BY <1>3, <2>1, <2>2, <2>3, <2>4 DEF Command
<1>4. CASE Network
  BY <1>1, <1>4, NetworkSteps DEF opened, wire
<1>5. CASE UNCHANGED vars
  BY <1>1, <1>5 DEF vars, opened, wire
<1> QED
  BY <1>2, <1>3, <1>4, <1>5, Steps

\* Packets and keys, in every state.
LEMMA SealInvariant == Spec => [](TypeInv /\ SealInv)
<1>1. Init => SealInv
  BY EmptyRange DEF Init, SealInv
<1>2. SealInv /\ TypeInv /\ PostInv /\ [Next]_vars => SealInv'
  BY NextSeals, SealsKeep
<1>3. Init => TypeInv /\ PostInv
  BY InitTyped, InitPosted
<1>4. TypeInv /\ PostInv /\ [Next]_vars => TypeInv' /\ PostInv'
  BY NextTyped, NextRelays
<1> QED
  BY <1>1, <1>2, <1>3, <1>4, PTL DEF Spec

\* What the server says of a relayed packet's sender, and the line it puts the
\* packet on, agree with the key the packet was sealed with.
THEOREM SealedAsSaidHolds == Spec => []SealedAsSaid
<1>1. SealInv => SealedAsSaid
  BY DEF SealInv, SealedFor, SealedAsSaid, Range
<1> QED
  BY <1>1, SealInvariant, PTL

\* For every number of clients and lines, p2p::relay_chat opens nothing: unless
\* a diddy chats with itself, no packet of the peer that reaches the line of a
\* relay chat was sealed with the key the chat was given.
THEOREM RelayOpensNothing ==
  Spec => [](\A l \in Line : stage[l] \in {"relaying", "left"} =>
               \A i \in DOMAIN inbox[l] :
                 /\ inbox[l][i] \in Forward
                 /\ inbox[l][i].from = target[l]
                 /\ inbox[l][i].key = RelayKey(owner[l], target[l])
                 => target[l] = owner[l])
<1>1. SealedAsSaid =>
        \A l \in Line : stage[l] \in {"relaying", "left"} =>
          \A i \in DOMAIN inbox[l] :
            /\ inbox[l][i] \in Forward
            /\ inbox[l][i].from = target[l]
            /\ inbox[l][i].key = RelayKey(owner[l], target[l])
            => target[l] = owner[l]
  BY DEF SealedAsSaid, RelayKey
<1> QED
  BY <1>1, SealedAsSaidHolds, PTL

=============================================================================
