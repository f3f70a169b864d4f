---------------------------- MODULE ServerProofs ----------------------------
(***************************************************************************)
(* Proofs about the authority server: type correctness, the safety         *)
(* invariants of Server and what its steps never do to a channel, for any  *)
(* sets of diddys, connections and channels.                               *)
(***************************************************************************)
EXTENDS Server, TLAPS

-----------------------------------------------------------------------------
(* Type correctness *)

\* A handler that inserts a row, binds a channel or reports a success has a
\* diddy to do it for.  TypeOK alone is not inductive: Insert needs this.
ArgInv ==
  \A c \in Conn :
    pc[c] \in {"insert", "bind"} \/ reply[c] \in {"RegistrationSuccess", "LoginSuccess"}
      => arg[c] \in Diddy

\* Moving a handler to another point keeps the handler's state typed.
LEMMA GotoType ==
  ASSUME TypeOK, NEW c \in Conn, NEW p \in PC, NEW d \in Diddy \cup {None},
         NEW r \in ReplyType \cup {None}, Goto(c, p, d, r)
  PROVE  /\ pc' \in [Conn -> PC]
         /\ arg' \in [Conn -> Diddy \cup {None}]
         /\ reply' \in [Conn -> ReplyType \cup {None}]
  BY DEF TypeOK, Goto

\* A framed write keeps the socket buffers typed.
LEMMA PutType ==
  ASSUME TypeOK, NEW c \in Conn \cup {None}, NEW m \in ServerMessage, Put(c, m)
  PROVE  outbox' \in [Conn -> Seq(ServerMessage)]
<1>1. CASE outbox' = [outbox EXCEPT ![c] = Append(@, m)]
  <2>1. c \in Conn => Append(outbox[c], m) \in Seq(ServerMessage)
    BY DEF TypeOK
  <2> QED
    BY <1>1, <2>1 DEF TypeOK
<1>2. CASE UNCHANGED outbox
  BY <1>2 DEF TypeOK
<1> QED
  BY <1>1, <1>2 DEF Put

\* Leaving handle_conn keeps the handler, its session and the lock typed.
LEMMA LeaveType ==
  ASSUME TypeOK, NEW c \in Conn, Leave(c)
  PROVE  /\ pc' \in [Conn -> PC]
         /\ arg' \in [Conn -> Diddy \cup {None}]
         /\ reply' \in [Conn -> ReplyType \cup {None}]
         /\ authed' \in [Conn -> Diddy \cup {None}]
         /\ challenge' \in [Conn -> BOOLEAN]
         /\ dbLock' \in Conn \cup {None}
<1>1. Goto(c, "ended", None, None)
  BY DEF Leave
<1>2. "ended" \in PC
  BY DEF PC
<1>3. /\ pc' \in [Conn -> PC]
      /\ arg' \in [Conn -> Diddy \cup {None}]
      /\ reply' \in [Conn -> ReplyType \cup {None}]
  BY <1>1, <1>2, GotoType
<1> QED
  BY <1>3 DEF Leave, Unlock, TypeOK

\* The server starts typed, with no request under way.
LEMMA TypeInit == Init => TypeOK /\ ArgInv
<1> SUFFICES ASSUME Init PROVE TypeOK /\ ArgInv
  OBVIOUS
<1>1. ArgInv
  BY ConstantsAssumption DEF Init, ArgInv, ReplyType
<1>2. chQueue \in [Chan -> Seq(RelayForward)]
  BY DEF Init
<1>3. outbox \in [Conn -> Seq(ServerMessage)]
  BY DEF Init
<1>4. welcomed \in [Conn -> BOOLEAN] /\ challenge \in [Conn -> BOOLEAN]
  BY Zenon DEF Init
<1>5. grants \in [Diddy -> Nat] /\ proved \in [Conn -> SUBSET Diddy]
  BY DEF Init
<1> QED
  BY <1>1, <1>2, <1>3, <1>4, <1>5, ConstantsAssumption DEF Init, TypeOK, PC

\* Every step keeps every variable in its type.
LEMMA TypeStep == TypeOK /\ ArgInv /\ [Next]_vars => TypeOK'
<1> SUFFICES ASSUME TypeOK, ArgInv, [Next]_vars PROVE TypeOK'
  OBVIOUS
<1> USE DEF PC, ReplyType
<1>1. ASSUME NEW c \in Conn, Accept(c) PROVE TypeOK'
  <2>1. Goto(c, "recv", None, None)
    BY <1>1 DEF Accept
  <2> QED
    BY <1>1, <2>1, GotoType DEF Accept, TypeOK, channels, durable, session, ghosts
<1>2. ASSUME Die PROVE TypeOK'
  <2>1. /\ task' \in [Chan -> {"unused", "running", "done"}]
        /\ pc' \in [Conn -> PC]
    BY <1>2 DEF Die, TypeOK
  <2>2. /\ chQueue' \in [Chan -> Seq(RelayForward)]
        /\ relay' \in [Diddy -> Chan \cup {None}]
    BY <1>2 DEF Die
  <2>3. /\ arg' \in [Conn -> Diddy \cup {None}]
        /\ reply' \in [Conn -> ReplyType \cup {None}]
        /\ authed' \in [Conn -> Diddy \cup {None}]
        /\ challenge' \in [Conn -> BOOLEAN]
    BY <1>2 DEF Die
  <2> QED
    BY <1>2, <2>1, <2>2, <2>3 DEF Die, TypeOK, durable, ghosts
<1>3. ASSUME Restart PROVE TypeOK'
  BY <1>3 DEF Restart, TypeOK, durable, channels, handler, session, ghosts
<1>4. ASSUME NEW c \in Conn, NEW d \in Diddy, Register(c, d) PROVE TypeOK'
  <2>1. Goto(c, "reply", None, "Refusal") \/ Goto(c, "insert", d, None)
    BY <1>4 DEF Register, Refuse
  <2> QED
    BY <1>4, <2>1, GotoType DEF Register, TypeOK, channels, durable, session, ghosts
<1>5. ASSUME NEW c \in Conn, Insert(c) PROVE TypeOK'
  <2>1. \/ Goto(c, "reply", None, "Refusal")
        \/ Goto(c, "reply", arg[c], "RegistrationSuccess")
    BY <1>5 DEF Insert, Refuse
  <2>2. /\ pc' \in [Conn -> PC]
        /\ arg' \in [Conn -> Diddy \cup {None}]
        /\ reply' \in [Conn -> ReplyType \cup {None}]
    BY <2>1, GotoType DEF TypeOK
  <2>3. registered' \in SUBSET Diddy /\ dbLock' \in Conn \cup {None}
    BY <1>5 DEF Insert, TypeOK, ArgInv
  <2> QED
    BY <1>5, <2>2, <2>3 DEF Insert, TypeOK, channels, session, ghosts
<1>6. ASSUME NEW c \in Conn, NEW d \in Diddy, LoginRequest(c, d) PROVE TypeOK'
  <2>1. Goto(c, "reply", None, "Refusal") \/ Goto(c, "reply", None, "Answer")
    BY <1>6 DEF LoginRequest, Refuse, Serve
  <2>2. challenge' \in [Conn -> BOOLEAN] /\ UNCHANGED authed
    BY <1>6 DEF LoginRequest, Issue, TypeOK, session
  <2> QED
    BY <1>6, <2>1, <2>2, GotoType
    DEF LoginRequest, TypeOK, channels, durable, ghosts
<1>7. ASSUME NEW c \in Conn, NEW d \in Diddy, NEW ok \in BOOLEAN,
             LoginChallengeResponse(c, d, ok)
      PROVE  TypeOK'
  <2>1. \/ Goto(c, "reply", None, "Refusal")
        \/ Goto(c, "reply", d, "LoginSuccess")
    BY <1>7 DEF LoginChallengeResponse, Refuse, Welcome
  <2>2. challenge' \in [Conn -> BOOLEAN]
    BY <1>7 DEF LoginChallengeResponse, TypeOK
  <2>3. proved' \in [Conn -> SUBSET Diddy]
    <3>1. proved[c] \cup {d} \in SUBSET Diddy
      BY DEF TypeOK
    <3>2. \/ proved' = [proved EXCEPT ![c] = proved[c] \cup {d}]
          \/ proved' = proved
      BY <1>7 DEF LoginChallengeResponse
    <3> QED
      BY <3>1, <3>2 DEF TypeOK
  <2> QED
    BY <1>7, <2>1, <2>2, <2>3, GotoType
    DEF LoginChallengeResponse, TypeOK, channels, durable
<1>8. ASSUME NEW c \in Conn, Bind(c) PROVE TypeOK'
  <2>1. Goto(c, "recv", None, None)
    BY <1>8 DEF Bind
  <2>2. authed' \in [Conn -> Diddy \cup {None}]
    BY <1>8 DEF Bind, TypeOK
  <2>3. /\ task' \in [Chan -> {"unused", "running", "done"}]
        /\ chConn' \in [Chan -> Conn \cup {None}]
        /\ chOwner' \in [Chan -> Diddy \cup {None}]
        /\ relay' \in [Diddy -> Chan \cup {None}]
    <3>1. PICK h \in Chan :
            /\ task' = [task EXCEPT ![h] = "running"]
            /\ chConn' = [chConn EXCEPT ![h] = c]
            /\ chOwner' = [chOwner EXCEPT ![h] = arg[c]]
            /\ relay' = [relay EXCEPT ![arg[c]] = h]
      BY <1>8 DEF Bind
    <3> QED
      BY <3>1 DEF TypeOK
  <2> QED
    BY <1>8, <2>1, <2>2, <2>3, GotoType DEF Bind, TypeOK, durable, ghosts
<1>9. ASSUME NEW c \in Conn, NEW d \in Diddy,
             VerifyRequest(c, d) \/ QueryPeer(c, d)
      PROVE  TypeOK'
  <2>1. Goto(c, "reply", None, "Refusal") \/ Goto(c, "reply", None, "Answer")
    BY <1>9 DEF VerifyRequest, QueryPeer, Refuse, Serve
  <2> QED
    BY <1>9, <2>1, GotoType
    DEF VerifyRequest, QueryPeer, TypeOK, channels, durable, session, ghosts
<1>10. ASSUME NEW c \in Conn, Announce(c) PROVE TypeOK'
  <2>1. Goto(c, "reply", None, "Refusal") \/ Goto(c, "reply", None, "Answer")
    BY <1>10 DEF Announce, Refuse, Serve
  <2>2. location' \in [Diddy -> Conn \cup {None}]
    BY <1>10 DEF Announce, TypeOK
  <2> QED
    BY <1>10, <2>1, <2>2, GotoType DEF Announce, TypeOK, channels, session, ghosts
<1>11. ASSUME NEW c \in Conn, NEW d \in Diddy, RelayPacket(c, d) PROVE TypeOK'
  <2>1. CASE authed[c] = None
    <3>1. Goto(c, "reply", None, "Refusal")
      BY <1>11, <2>1 DEF RelayPacket, Refuse
    <3> QED
      BY <1>11, <2>1, <3>1, GotoType DEF RelayPacket, TypeOK, durable, session, ghosts
  <2>2. CASE authed[c] # None /\ ~Reachable(d)
    BY <1>11, <2>2 DEF RelayPacket, TypeOK, durable, handler, session, ghosts
  <2>3. CASE authed[c] # None /\ Reachable(d)
    <3>1. Enqueue(c, d) /\ UNCHANGED handler
      BY <1>11, <2>3 DEF RelayPacket
    <3>2. sent' \in Nat /\ chQueue' \in [Chan -> Seq(RelayForward)]
      <4>1. sent' \in Nat
        BY <3>1 DEF Enqueue, TypeOK
      <4>2. Forward(authed[c], d, c, sent') \in RelayForward
        BY <2>3, <4>1 DEF Forward, RelayForward, TypeOK
      <4>3. relay[d] \in Chan
        BY <2>3 DEF Reachable, TypeOK
      <4>4. Append(chQueue[relay[d]], Forward(authed[c], d, c, sent'))
              \in Seq(RelayForward)
        BY <4>2, <4>3 DEF TypeOK
      <4> QED
        BY <3>1, <4>1, <4>3, <4>4 DEF Enqueue, TypeOK
    <3> QED
      BY <1>11, <3>1, <3>2 DEF RelayPacket, TypeOK, durable, handler, session, ghosts
  <2> QED
    BY <2>1, <2>2, <2>3
<1>12. ASSUME NEW c \in Conn, Reply(c) PROVE TypeOK'
  <2>1. outbox' \in [Conn -> Seq(ServerMessage)]
    BY <1>12, PutType DEF Reply, ServerMessage
  <2>2. Goto(c, "recv", None, None) \/ Goto(c, "bind", arg[c], None)
    BY <1>12 DEF Reply
  <2>3. /\ pc' \in [Conn -> PC]
        /\ arg' \in [Conn -> Diddy \cup {None}]
        /\ reply' \in [Conn -> ReplyType \cup {None}]
    BY <2>2, GotoType DEF TypeOK
  <2>4. dbLock' \in Conn \cup {None} /\ welcomed' \in [Conn -> BOOLEAN]
    BY <1>12 DEF Reply, Unlock, TypeOK
  <2>5. grants' \in [Diddy -> Nat]
    <3>1. CASE reply[c] = "RegistrationSuccess"
      <4>1. grants[arg[c]] + 1 \in Nat
        BY <3>1 DEF ArgInv, TypeOK
      <4> QED
        BY <1>12, <3>1, <4>1 DEF Reply, TypeOK
    <3>2. CASE reply[c] # "RegistrationSuccess"
      BY <1>12, <3>2 DEF Reply, TypeOK
    <3> QED
      BY <3>1, <3>2
  <2> QED
    BY <1>12, <2>1, <2>3, <2>4, <2>5 DEF Reply, TypeOK, durable, channels, session
<1>13. ASSUME NEW c \in Conn, ReplyFails(c) \/ HandlerFails(c) PROVE TypeOK'
  <2>1. Leave(c)
    BY <1>13 DEF ReplyFails, HandlerFails
  <2> QED
    BY <1>13, <2>1, LeaveType
    DEF ReplyFails, HandlerFails, TypeOK, durable, channels, ghosts
<1>14. ASSUME NEW h \in Chan, RelayWrite(h) PROVE TypeOK'
  <2>1. chQueue[h] \in Seq(RelayForward) /\ chQueue[h] # <<>>
    BY <1>14 DEF RelayWrite, TypeOK
  <2>2. Head(chQueue[h]) \in ServerMessage /\ Tail(chQueue[h]) \in Seq(RelayForward)
    BY <2>1 DEF ServerMessage
  <2>3. chQueue' \in [Chan -> Seq(RelayForward)]
    BY <1>14, <2>2 DEF RelayWrite, Dequeue, TypeOK
  <2>4. outbox' \in [Conn -> Seq(ServerMessage)]
    <3>1. Put(chConn[h], Head(chQueue[h])) /\ chConn[h] \in Conn \cup {None}
      BY <1>14 DEF RelayWrite, TypeOK
    <3> QED
      BY <2>2, <3>1, PutType
  <2> QED
    BY <1>14, <2>3, <2>4 DEF RelayWrite, TypeOK, durable, handler, session, ghosts
<1>15. ASSUME NEW h \in Chan, RelayStop(h) PROVE TypeOK'
  BY <1>15 DEF RelayStop, TypeOK, durable, handler, session, ghosts
<1>16. ASSUME NEW c \in Conn, ClientRead(c) PROVE TypeOK'
  <2>1. Tail(outbox[c]) \in Seq(ServerMessage)
    BY <1>16 DEF ClientRead, TypeOK
  <2> QED
    BY <1>16, <2>1 DEF ClientRead, TypeOK, durable, channels, handler, session, ghosts
<1>17. ASSUME NEW c \in Conn, ClientClose(c) PROVE TypeOK'
  BY <1>17 DEF ClientClose, TypeOK, durable, channels, handler, session, ghosts
<1>18. ASSUME UNCHANGED vars PROVE TypeOK'
  BY <1>18 DEF vars, TypeOK, durable, channels, handler, session, ghosts
<1> QED
  BY <1>1, <1>2, <1>3, <1>4, <1>5, <1>6, <1>7, <1>8, <1>9, <1>10, <1>11, <1>12,
     <1>13, <1>14, <1>15, <1>16, <1>17, <1>18
  DEF Next, Request, Continue, RelayStep, RelayWriteFails, RelayEnd,
      AcceptFails, Crash

\* A handler that moves keeps ArgInv if it takes a diddy where it needs one.
LEMMA GotoArg ==
  ASSUME TypeOK, ArgInv, NEW c \in Conn, NEW p, NEW d, NEW r, Goto(c, p, d, r),
         \/ d \in Diddy
         \/ /\ p \notin {"insert", "bind"}
            /\ r \notin {"RegistrationSuccess", "LoginSuccess"}
  PROVE  ArgInv'
<1> SUFFICES ASSUME NEW e \in Conn,
                    \/ pc'[e] \in {"insert", "bind"}
                    \/ reply'[e] \in {"RegistrationSuccess", "LoginSuccess"}
             PROVE  arg'[e] \in Diddy
  BY DEF ArgInv
<1>1. CASE e = c
  BY <1>1 DEF Goto, TypeOK
<1>2. CASE e # c
  BY <1>2 DEF Goto, TypeOK, ArgInv
<1> QED
  BY <1>1, <1>2

\* Every step keeps a diddy at hand where a request under way needs one.
LEMMA ArgStep == TypeOK /\ ArgInv /\ [Next]_vars => ArgInv'
<1> SUFFICES ASSUME TypeOK, ArgInv, [Next]_vars PROVE ArgInv'
  OBVIOUS
<1>1. ASSUME NEW c \in Conn,
             \/ Goto(c, "recv", None, None)
             \/ Goto(c, "reply", None, "Refusal")
             \/ Goto(c, "reply", None, "Answer")
             \/ Goto(c, "ended", None, None)
      PROVE  ArgInv'
  BY <1>1, GotoArg, ConstantsAssumption DEF ReplyType
<1>2. ASSUME UNCHANGED handler PROVE ArgInv'
  BY <1>2 DEF ArgInv, handler
<1>3. ASSUME NEW c \in Conn, Accept(c) PROVE ArgInv'
  BY <1>1, <1>3 DEF Accept
<1>4. ASSUME Die PROVE ArgInv'
  BY <1>4, ConstantsAssumption DEF Die, ArgInv, ReplyType
<1>5. ASSUME Restart PROVE ArgInv'
  BY <1>2, <1>5 DEF Restart
<1>6. ASSUME NEW c \in Conn, NEW d \in Diddy, Register(c, d) PROVE ArgInv'
  <2>1. Goto(c, "reply", None, "Refusal") \/ Goto(c, "insert", d, None)
    BY <1>6 DEF Register, Refuse
  <2> QED
    BY <1>1, <2>1, GotoArg, ConstantsAssumption DEF ReplyType
<1>7. ASSUME NEW c \in Conn, Insert(c) PROVE ArgInv'
  <2>1. \/ Goto(c, "reply", None, "Refusal")
        \/ Goto(c, "reply", arg[c], "RegistrationSuccess")
    BY <1>7 DEF Insert, Refuse
  <2>2. arg[c] \in Diddy
    BY <1>7 DEF Insert, ArgInv
  <2> QED
    BY <1>1, <2>1, <2>2, GotoArg
<1>8. ASSUME NEW c \in Conn, NEW d \in Diddy,
             LoginRequest(c, d) \/ VerifyRequest(c, d) \/ QueryPeer(c, d)
      PROVE  ArgInv'
  BY <1>1, <1>8 DEF LoginRequest, VerifyRequest, QueryPeer, Refuse, Serve
<1>9. ASSUME NEW c \in Conn, NEW d \in Diddy, NEW ok \in BOOLEAN,
             LoginChallengeResponse(c, d, ok)
      PROVE  ArgInv'
  <2>1. \/ Goto(c, "reply", None, "Refusal")
        \/ Goto(c, "reply", d, "LoginSuccess")
    BY <1>9 DEF LoginChallengeResponse, Refuse, Welcome
  <2> QED
    BY <1>1, <2>1, GotoArg, ConstantsAssumption DEF ReplyType
<1>10. ASSUME NEW c \in Conn, Bind(c) PROVE ArgInv'
  BY <1>1, <1>10 DEF Bind
<1>11. ASSUME NEW c \in Conn, Announce(c) PROVE ArgInv'
  BY <1>1, <1>11 DEF Announce, Refuse, Serve
<1>12. ASSUME NEW c \in Conn, NEW d \in Diddy, RelayPacket(c, d) PROVE ArgInv'
  BY <1>1, <1>2, <1>12 DEF RelayPacket, Refuse
<1>13. ASSUME NEW c \in Conn, Reply(c) PROVE ArgInv'
  <2>1. CASE reply[c] = "LoginSuccess"
    <3>1. Goto(c, "bind", arg[c], None) /\ arg[c] \in Diddy
      BY <1>13, <2>1 DEF Reply, ArgInv
    <3> QED
      BY <3>1, GotoArg
  <2>2. CASE reply[c] # "LoginSuccess"
    BY <1>1, <1>13, <2>2 DEF Reply
  <2> QED
    BY <2>1, <2>2
<1>14. ASSUME NEW c \in Conn, ReplyFails(c) \/ HandlerFails(c) PROVE ArgInv'
  BY <1>1, <1>14 DEF ReplyFails, HandlerFails, Leave
<1>15. ASSUME NEW h \in Chan, RelayWrite(h) \/ RelayStop(h) PROVE ArgInv'
  BY <1>2, <1>15 DEF RelayWrite, RelayStop
<1>16. ASSUME NEW c \in Conn, ClientRead(c) \/ ClientClose(c) PROVE ArgInv'
  BY <1>2, <1>16 DEF ClientRead, ClientClose
<1>17. ASSUME UNCHANGED vars PROVE ArgInv'
  BY <1>2, <1>17 DEF vars
<1> QED
  BY <1>3, <1>4, <1>5, <1>6, <1>7, <1>8, <1>9, <1>10, <1>11, <1>12, <1>13,
     <1>14, <1>15, <1>16, <1>17
  DEF Next, Request, Continue, RelayStep, RelayWriteFails, RelayEnd,
      AcceptFails, Crash

\* Types and pending requests are in order in every reachable state.
LEMMA TypeArgCorrect == Spec => [](TypeOK /\ ArgInv)
<1> QED
  BY TypeInit, TypeStep, ArgStep, PTL DEF Spec

\* The server's state is well typed in every reachable state.
THEOREM TypeCorrect == Spec => []TypeOK
<1> QED
  BY TypeArgCorrect, PTL

-----------------------------------------------------------------------------
(* The inductive invariant behind NoMisdelivery, ActsInOwnName and           *)
(* WelcomedBeforeRelay: what connects a packet in a channel, the channel, the *)
(* map entry and the handler's locals to the challenge that was answered.     *)

\* A handler acts for a diddy whose challenge its connection answered, and
\* binds a channel only after LoginSuccess was written.
LoginInv ==
  \A c \in Conn :
    /\ authed[c] # None => authed[c] \in proved[c]
    /\ reply[c] = "LoginSuccess" \/ pc[c] = "bind" => arg[c] \in proved[c]
    /\ pc[c] = "bind" => welcomed[c]

\* A channel leads to a connection that proved its owner, and holds packets for
\* its owner only.
ChannelInv ==
  \A h \in Chan :
    /\ task[h] = "unused" => chQueue[h] = <<>>
    /\ task[h] # "unused" => /\ chConn[h] \in Conn
                             /\ chOwner[h] \in proved[chConn[h]]
                             /\ welcomed[chConn[h]]
    /\ \A i \in DOMAIN chQueue[h] :
         /\ chQueue[h][i].to = chOwner[h]
         /\ chQueue[h][i].from \in proved[chQueue[h][i].src]

\* The map finds a diddy's own channel.
RelayInv ==
  \A d \in Diddy : relay[d] # None => /\ task[relay[d]] # "unused"
                                      /\ chOwner[relay[d]] = d

LocationInv ==
  \A d \in Diddy : location[d] # None => d \in proved[location[d]]

OutboxInv ==
  \A c \in Conn : \A i \in DOMAIN outbox[c] :
    IsForward(outbox[c][i]) => outbox[c][i].to \in proved[c] /\ welcomed[c]

SafetyInv == /\ TypeOK /\ ArgInv /\ LoginInv
             /\ ChannelInv /\ RelayInv /\ LocationInv /\ OutboxInv

\* What was proved and welcomed stays so.
Grows == \A c \in Conn : /\ proved[c] \subseteq proved'[c]
                         /\ welcomed[c] => welcomed'[c]

\* No step takes back what a connection proved or that it was welcomed.
LEMMA GhostsGrow == TypeOK /\ [Next]_vars => Grows
<1> SUFFICES ASSUME TypeOK, [Next]_vars PROVE Grows
  OBVIOUS
<1>1. CASE UNCHANGED <<proved, welcomed>>
  BY <1>1 DEF Grows
<1>2. ASSUME NEW c \in Conn, NEW d \in Diddy, NEW ok \in BOOLEAN,
             LoginChallengeResponse(c, d, ok)
      PROVE  Grows
  <2>1. \/ proved' = [proved EXCEPT ![c] = proved[c] \cup {d}]
        \/ proved' = proved
    BY <1>2 DEF LoginChallengeResponse
  <2>2. UNCHANGED welcomed
    BY <1>2 DEF LoginChallengeResponse
  <2> QED
    BY <2>1, <2>2 DEF Grows, TypeOK
<1>3. ASSUME NEW c \in Conn, Reply(c) PROVE Grows
  <2>1. welcomed' = [welcomed EXCEPT ![c] = TRUE] \/ welcomed' = welcomed
    BY <1>3 DEF Reply
  <2>2. UNCHANGED proved
    BY <1>3 DEF Reply
  <2> QED
    BY <2>1, <2>2 DEF Grows, TypeOK
<1> QED
  BY <1>1, <1>2, <1>3
  DEF Next, vars, ghosts, Accept, AcceptFails, Crash, Die, Restart, Request,
      Register, LoginRequest, VerifyRequest, Announce, QueryPeer, RelayPacket,
      Continue, Insert, ReplyFails, Bind, HandlerFails, RelayStep, RelayWrite,
      RelayWriteFails, RelayEnd, RelayStop, ClientRead, ClientClose

\* Only these steps touch the channels and the map.
LEMMA ChannelSteps ==
  ASSUME [Next]_vars
  PROVE  \/ Die
         \/ \E c \in Conn : Bind(c)
         \/ \E c \in Conn, d \in Diddy : RelayPacket(c, d)
         \/ \E h \in Chan : RelayWrite(h) \/ (task[h] = "running" /\ RelayStop(h))
         \/ UNCHANGED <<channels, relay>>
  BY DEF Next, vars, Accept, AcceptFails, Crash, Restart, Request, Register,
         LoginRequest, LoginChallengeResponse, VerifyRequest, Announce,
         QueryPeer, Continue, Insert, Reply, ReplyFails, HandlerFails,
         RelayStep, RelayWriteFails, RelayEnd, ClientRead, ClientClose

\* Only these steps write a socket or read one.
LEMMA OutboxSteps ==
  ASSUME [Next]_vars
  PROVE  \/ \E c \in Conn : Reply(c) \/ ClientRead(c) \/ ClientClose(c)
         \/ \E h \in Chan : RelayWrite(h)
         \/ UNCHANGED outbox
  BY DEF Next, vars, Accept, AcceptFails, Crash, Die, Restart, Request, Register,
         LoginRequest, LoginChallengeResponse, VerifyRequest, Announce,
         QueryPeer, RelayPacket, Continue, Insert, ReplyFails, Bind,
         HandlerFails, RelayStep, RelayWriteFails, RelayEnd, RelayStop

\* Only Announce changes the table of announcements.
LEMMA LocationSteps ==
  ASSUME [Next]_vars
  PROVE  (\E c \in Conn : Announce(c)) \/ UNCHANGED location
  BY DEF Next, vars, durable, Accept, AcceptFails, Crash, Die, Restart, Request,
         Register, LoginRequest, LoginChallengeResponse, VerifyRequest,
         QueryPeer, RelayPacket, Continue, Insert, Reply, ReplyFails, Bind,
         HandlerFails, RelayStep, RelayWrite, RelayWriteFails, RelayEnd,
         RelayStop, ClientRead, ClientClose

\* A handler that moves keeps LoginInv if its goal is backed by a proof.
LEMMA GotoLogin ==
  ASSUME TypeOK, LoginInv, Grows, NEW c \in Conn, NEW p, NEW d, NEW r,
         Goto(c, p, d, r),
         r = "LoginSuccess" \/ p = "bind" => d \in proved'[c],
         p = "bind" => welcomed'[c],
         authed' = authed \/ authed' = [authed EXCEPT ![c] = None]
  PROVE  LoginInv'
<1> SUFFICES ASSUME NEW e \in Conn
             PROVE  /\ authed'[e] # None => authed'[e] \in proved'[e]
                    /\ reply'[e] = "LoginSuccess" \/ pc'[e] = "bind"
                         => arg'[e] \in proved'[e]
                    /\ pc'[e] = "bind" => welcomed'[e]
  BY DEF LoginInv
<1>1. authed'[e] # None => authed'[e] \in proved'[e]
  BY DEF LoginInv, Grows, TypeOK
<1>2. CASE e = c
  BY <1>1, <1>2 DEF Goto, TypeOK
<1>3. CASE e # c
  BY <1>1, <1>3 DEF Goto, TypeOK, LoginInv, Grows
<1> QED
  BY <1>2, <1>3

\* Every step keeps a login under way, and a session, backed by a proof.
LEMMA LoginStep == TypeOK /\ LoginInv /\ [Next]_vars => LoginInv'
<1> SUFFICES ASSUME TypeOK, LoginInv, [Next]_vars PROVE LoginInv'
  OBVIOUS
<1> Grows
  BY GhostsGrow
<1>1. ASSUME NEW c \in Conn,
             \/ Goto(c, "recv", None, None)
             \/ Goto(c, "reply", None, "Refusal")
             \/ Goto(c, "reply", None, "Answer")
             \/ Goto(c, "ended", None, None),
             authed' = authed \/ authed' = [authed EXCEPT ![c] = None]
      PROVE  LoginInv'
  BY <1>1, GotoLogin, ConstantsAssumption DEF ReplyType
<1>2. ASSUME UNCHANGED <<handler, authed>> PROVE LoginInv'
  BY <1>2 DEF LoginInv, Grows, handler
<1>3. ASSUME NEW c \in Conn, Accept(c) PROVE LoginInv'
  BY <1>1, <1>3 DEF Accept, session
<1>4. ASSUME Die PROVE LoginInv'
  BY <1>4, ConstantsAssumption DEF Die, LoginInv, ReplyType
<1>5. ASSUME Restart PROVE LoginInv'
  BY <1>2, <1>5 DEF Restart, session
<1>6. ASSUME NEW c \in Conn, NEW d \in Diddy, Register(c, d) PROVE LoginInv'
  <2>1. Goto(c, "reply", None, "Refusal") \/ Goto(c, "insert", d, None)
    BY <1>6 DEF Register, Refuse
  <2>2. UNCHANGED authed
    BY <1>6 DEF Register, session
  <2> QED
    BY <1>1, <2>1, <2>2, GotoLogin, ConstantsAssumption DEF ReplyType
<1>7. ASSUME NEW c \in Conn, Insert(c) PROVE LoginInv'
  <2>1. \/ Goto(c, "reply", None, "Refusal")
        \/ Goto(c, "reply", arg[c], "RegistrationSuccess")
    BY <1>7 DEF Insert, Refuse
  <2>2. UNCHANGED authed
    BY <1>7 DEF Insert, session
  <2> QED
    BY <1>1, <2>1, <2>2, GotoLogin
<1>8. ASSUME NEW c \in Conn, NEW d \in Diddy,
             LoginRequest(c, d) \/ VerifyRequest(c, d) \/ QueryPeer(c, d)
      PROVE  LoginInv'
  BY <1>1, <1>8
  DEF LoginRequest, VerifyRequest, QueryPeer, Refuse, Serve, Issue, session
<1>9. ASSUME NEW c \in Conn, NEW d \in Diddy, NEW ok \in BOOLEAN,
             LoginChallengeResponse(c, d, ok)
      PROVE  LoginInv'
  <2>1. UNCHANGED authed
    BY <1>9 DEF LoginChallengeResponse
  <2>2. CASE challenge[c] /\ d \in registered /\ ok
    <3>1. Goto(c, "reply", d, "LoginSuccess") /\ d \in proved'[c]
      BY <1>9, <2>2 DEF LoginChallengeResponse, Welcome, TypeOK
    <3> QED
      BY <2>1, <3>1, GotoLogin
  <2>3. CASE ~(challenge[c] /\ d \in registered /\ ok)
    BY <1>1, <1>9, <2>1, <2>3 DEF LoginChallengeResponse, Refuse
  <2> QED
    BY <2>2, <2>3
<1>10. ASSUME NEW c \in Conn, Bind(c) PROVE LoginInv'
  <2>1. arg[c] \in proved[c] /\ UNCHANGED proved
    BY <1>10 DEF Bind, LoginInv, ghosts
  <2>2. /\ authed' = [authed EXCEPT ![c] = arg[c]]
        /\ Goto(c, "recv", None, None)
        /\ UNCHANGED <<proved, welcomed>>
    BY <1>10 DEF Bind, ghosts
  <2>3. None # "LoginSuccess"
    BY ConstantsAssumption DEF ReplyType
  <2>4. ASSUME NEW e \in Conn
        PROVE  /\ authed'[e] # None => authed'[e] \in proved[e]
               /\ ~(reply'[e] = "LoginSuccess" \/ pc'[e] = "bind")
                  \/ (e # c /\ UNCHANGED <<reply[e], pc[e], arg[e]>>)
    BY <2>1, <2>2, <2>3 DEF Goto, LoginInv, TypeOK
  <2> QED
    BY <2>2, <2>4 DEF LoginInv
<1>11. ASSUME NEW c \in Conn, Announce(c) PROVE LoginInv'
  BY <1>1, <1>11 DEF Announce, Refuse, Serve, session
<1>12. ASSUME NEW c \in Conn, NEW d \in Diddy, RelayPacket(c, d) PROVE LoginInv'
  BY <1>1, <1>2, <1>12 DEF RelayPacket, Refuse, session
<1>13. ASSUME NEW c \in Conn, Reply(c) PROVE LoginInv'
  <2>1. UNCHANGED <<authed, proved>>
    BY <1>13 DEF Reply, session
  <2>2. CASE reply[c] = "LoginSuccess"
    <3>1. Goto(c, "bind", arg[c], None) /\ arg[c] \in proved'[c] /\ welcomed'[c]
      BY <1>13, <2>1, <2>2 DEF Reply, LoginInv, TypeOK
    <3> QED
      BY <2>1, <3>1, GotoLogin
  <2>3. CASE reply[c] # "LoginSuccess"
    BY <1>1, <1>13, <2>1, <2>3 DEF Reply
  <2> QED
    BY <2>2, <2>3
<1>14. ASSUME NEW c \in Conn, ReplyFails(c) \/ HandlerFails(c) PROVE LoginInv'
  BY <1>1, <1>14 DEF ReplyFails, HandlerFails, Leave
<1>15. ASSUME NEW h \in Chan, RelayWrite(h) \/ RelayStop(h) PROVE LoginInv'
  BY <1>2, <1>15 DEF RelayWrite, RelayStop, session
<1>16. ASSUME NEW c \in Conn, ClientRead(c) \/ ClientClose(c) PROVE LoginInv'
  BY <1>2, <1>16 DEF ClientRead, ClientClose, session
<1>17. ASSUME UNCHANGED vars PROVE LoginInv'
  BY <1>2, <1>17 DEF vars, session
<1> QED
  BY <1>3, <1>4, <1>5, <1>6, <1>7, <1>8, <1>9, <1>10, <1>11, <1>12, <1>13,
     <1>14, <1>15, <1>16, <1>17
  DEF Next, Request, Continue, RelayStep, RelayWriteFails, RelayEnd,
      AcceptFails, Crash

\* What a login changes in the channels.
LEMMA BindShape ==
  ASSUME TypeOK, ArgInv, NEW c \in Conn, Bind(c)
  PROVE  /\ arg[c] \in Diddy
         /\ UNCHANGED <<chQueue, ghosts>>
         /\ \E h \in Chan : /\ task[h] = "unused"
                            /\ task' = [task EXCEPT ![h] = "running"]
                            /\ chConn' = [chConn EXCEPT ![h] = c]
                            /\ chOwner' = [chOwner EXCEPT ![h] = arg[c]]
                            /\ relay' = [relay EXCEPT ![arg[c]] = h]
  BY DEF Bind, ArgInv

\* A packet that is taken up goes into one running channel, the target's.
LEMMA RelayPacketShape ==
  ASSUME TypeOK, LoginInv, RelayInv, NEW c \in Conn, NEW d \in Diddy,
         RelayPacket(c, d)
  PROVE  /\ UNCHANGED <<chConn, chOwner, task, relay, proved>>
         /\ \/ UNCHANGED chQueue
            \/ \E h \in Chan, m \in RelayForward :
                 /\ task[h] = "running"
                 /\ chQueue' = [chQueue EXCEPT ![h] = Append(chQueue[h], m)]
                 /\ m.to = chOwner[h]
                 /\ m.from \in proved[m.src]
<1>1. UNCHANGED <<chConn, chOwner, task, relay, proved>>
  BY DEF RelayPacket, ghosts
<1>2. CASE authed[c] # None /\ Reachable(d)
  <2> DEFINE m == Forward(authed[c], d, c, sent')
  <2>1. Enqueue(c, d)
    BY <1>2 DEF RelayPacket
  <2>2. relay[d] \in Chan /\ task[relay[d]] = "running" /\ chOwner[relay[d]] = d
    BY <1>2 DEF Reachable, RelayInv, TypeOK
  <2>3. m \in RelayForward /\ m.to = d /\ m.from = authed[c] /\ m.src = c
    BY <1>2, <2>1 DEF Forward, RelayForward, Enqueue, TypeOK
  <2>4. authed[c] \in proved[c]
    BY <1>2 DEF LoginInv
  <2>5. chQueue' = [chQueue EXCEPT ![relay[d]] = Append(chQueue[relay[d]], m)]
    BY <2>1 DEF Enqueue
  <2> QED
    BY <1>1, <2>2, <2>3, <2>4, <2>5
<1>3. CASE ~(authed[c] # None /\ Reachable(d))
  BY <1>1, <1>3 DEF RelayPacket
<1> QED
  BY <1>2, <1>3

\* Every step keeps channels, their owners and the relay map consistent.
LEMMA ChannelStep ==
  TypeOK /\ ArgInv /\ LoginInv /\ ChannelInv /\ RelayInv /\ [Next]_vars
    => ChannelInv'
<1> SUFFICES ASSUME TypeOK, ArgInv, LoginInv, ChannelInv, RelayInv, [Next]_vars
             PROVE  ChannelInv'
  OBVIOUS
<1> Grows /\ TypeOK'
  BY GhostsGrow, TypeStep
<1>1. CASE Die
  <2>1. \A h \in Chan : /\ chQueue'[h] = <<>>
                        /\ (task'[h] = "unused") = (task[h] = "unused")
    BY <1>1 DEF Die, TypeOK
  <2>2. UNCHANGED <<chConn, chOwner, proved, welcomed>>
    BY <1>1 DEF Die, ghosts
  <2> QED
    BY <2>1, <2>2 DEF ChannelInv
<1>2. ASSUME NEW c \in Conn, Bind(c) PROVE ChannelInv'
  <2>1. /\ arg[c] \in proved[c] /\ welcomed[c]
        /\ UNCHANGED <<chQueue, proved, welcomed>>
    BY <1>2 DEF Bind, LoginInv, ghosts
  <2>2. PICK h \in Chan : /\ task[h] = "unused"
                          /\ task' = [task EXCEPT ![h] = "running"]
                          /\ chConn' = [chConn EXCEPT ![h] = c]
                          /\ chOwner' = [chOwner EXCEPT ![h] = arg[c]]
    BY <1>2, BindShape
  <2>3. chQueue[h] = <<>>
    BY <2>2 DEF ChannelInv
  <2>4. /\ task'[h] = "running" /\ chConn'[h] = c /\ chOwner'[h] = arg[c]
        /\ \A g \in Chan \ {h} : UNCHANGED <<task[g], chConn[g], chOwner[g]>>
    BY <2>2 DEF TypeOK
  <2> QED
    BY <2>1, <2>3, <2>4 DEF ChannelInv
<1>3. ASSUME NEW c \in Conn, NEW d \in Diddy, RelayPacket(c, d)
      PROVE  ChannelInv'
  <2>1. UNCHANGED <<chConn, chOwner, task, proved, welcomed>>
    BY <1>3 DEF RelayPacket, ghosts
  <2>2. CASE UNCHANGED chQueue
    BY <2>1, <2>2 DEF ChannelInv
  <2>3. ASSUME NEW h \in Chan, NEW m \in RelayForward,
               task[h] = "running",
               chQueue' = [chQueue EXCEPT ![h] = Append(chQueue[h], m)],
               m.to = chOwner[h], m.from \in proved[m.src]
        PROVE  ChannelInv'
    <3>1. /\ \A g \in Chan \ {h} : UNCHANGED chQueue[g]
          /\ chQueue'[h] = Append(chQueue[h], m)
          /\ chQueue[h] \in Seq(RelayForward)
      BY <2>3 DEF TypeOK
    <3>2. \A i \in DOMAIN chQueue'[h] : chQueue'[h][i] = m \/
            (i \in DOMAIN chQueue[h] /\ chQueue'[h][i] = chQueue[h][i])
      BY <3>1
    <3>3. \A i \in DOMAIN chQueue'[h] :
            /\ chQueue'[h][i].to = chOwner[h]
            /\ chQueue'[h][i].from \in proved[chQueue'[h][i].src]
      BY <2>3, <3>2 DEF ChannelInv
    <3> QED
      BY <2>1, <2>3, <3>1, <3>3 DEF ChannelInv
  <2> QED
    BY <1>3, <2>2, <2>3, RelayPacketShape
<1>4. ASSUME NEW h \in Chan, RelayWrite(h) PROVE ChannelInv'
  <2>1. /\ UNCHANGED <<chConn, chOwner, task, proved, welcomed>>
        /\ task[h] = "running"
    BY <1>4 DEF RelayWrite, ghosts
  <2>2. /\ \A g \in Chan \ {h} : UNCHANGED chQueue[g]
        /\ chQueue'[h] = Tail(chQueue[h])
        /\ chQueue[h] \in Seq(RelayForward) /\ chQueue[h] # <<>>
    BY <1>4 DEF RelayWrite, Dequeue, TypeOK
  <2>3. \A i \in DOMAIN chQueue'[h] :
          i + 1 \in DOMAIN chQueue[h] /\ chQueue'[h][i] = chQueue[h][i + 1]
    BY <2>2
  <2>4. \A i \in DOMAIN chQueue'[h] :
          /\ chQueue'[h][i].to = chOwner[h]
          /\ chQueue'[h][i].from \in proved[chQueue'[h][i].src]
    BY <2>3 DEF ChannelInv
  <2>5. \A g \in Chan \ {h} :
          /\ task[g] = "unused" => chQueue'[g] = <<>>
          /\ \A i \in DOMAIN chQueue'[g] :
               /\ chQueue'[g][i].to = chOwner[g]
               /\ chQueue'[g][i].from \in proved[chQueue'[g][i].src]
    BY <2>2 DEF ChannelInv
  <2>6. \A g \in Chan : task[g] # "unused" => /\ chConn[g] \in Conn
                                              /\ chOwner[g] \in proved[chConn[g]]
                                              /\ welcomed[chConn[g]]
    BY DEF ChannelInv
  <2> QED
    BY <2>1, <2>4, <2>5, <2>6 DEF ChannelInv
<1>5. ASSUME NEW h \in Chan, task[h] = "running", RelayStop(h) PROVE ChannelInv'
  <2>1. UNCHANGED <<chConn, chOwner, proved, welcomed>>
    BY <1>5 DEF RelayStop, ghosts
  <2>2. \A g \in Chan : chQueue'[g] = <<>> \/ UNCHANGED chQueue[g]
    BY <1>5 DEF RelayStop, TypeOK
  <2>3. \A g \in Chan : UNCHANGED task[g] \/ (g = h /\ task'[g] = "done")
    BY <1>5 DEF RelayStop, TypeOK
  <2>4. task[h] # "unused"
    BY <1>5
  <2> QED
    BY <2>1, <2>2, <2>3, <2>4 DEF ChannelInv
<1>6. CASE UNCHANGED channels
  <2>1. \A c \in Conn : /\ proved[c] \subseteq proved'[c]
                        /\ welcomed[c] => welcomed'[c]
    BY DEF Grows
  <2>2. ASSUME NEW h \in Chan, NEW i \in DOMAIN chQueue[h]
        PROVE  chQueue[h][i].src \in Conn
    <3>1. chQueue[h] \in Seq(RelayForward)
      BY DEF TypeOK
    <3>2. chQueue[h][i] \in RelayForward
      BY <3>1
    <3> QED
      BY <3>2 DEF RelayForward
  <2> QED
    BY <1>6, <2>1, <2>2 DEF ChannelInv, channels
<1> QED
  BY <1>1, <1>2, <1>3, <1>4, <1>5, <1>6, ChannelSteps

\* Every step keeps the relay map pointing to channels of the right diddy.
LEMMA RelayInvStep ==
  TypeOK /\ ArgInv /\ LoginInv /\ RelayInv /\ [Next]_vars => RelayInv'
<1> SUFFICES ASSUME TypeOK, ArgInv, LoginInv, RelayInv, [Next]_vars PROVE RelayInv'
  OBVIOUS
<1>1. CASE Die
  BY <1>1 DEF Die, RelayInv
<1>2. ASSUME NEW c \in Conn, Bind(c) PROVE RelayInv'
  <2>1. arg[c] \in Diddy
    BY <1>2, BindShape
  <2>2. PICK h \in Chan : /\ task[h] = "unused"
                          /\ task' = [task EXCEPT ![h] = "running"]
                          /\ chOwner' = [chOwner EXCEPT ![h] = arg[c]]
                          /\ relay' = [relay EXCEPT ![arg[c]] = h]
    BY <1>2, BindShape
  <2>3. ASSUME NEW d \in Diddy, relay'[d] # None
        PROVE  task'[relay'[d]] # "unused" /\ chOwner'[relay'[d]] = d
    <3>1. CASE d = arg[c]
      BY <2>1, <2>2, <3>1 DEF TypeOK
    <3>2. CASE d # arg[c]
      <4>1. relay'[d] = relay[d] /\ relay[d] \in Chan /\ relay[d] # h
        BY <2>2, <2>3, <3>2 DEF TypeOK, RelayInv
      <4> QED
        BY <2>2, <2>3, <4>1 DEF TypeOK, RelayInv
    <3> QED
      BY <3>1, <3>2
  <2> QED
    BY <2>3 DEF RelayInv
<1>3. ASSUME NEW c \in Conn, NEW d \in Diddy, RelayPacket(c, d) PROVE RelayInv'
  BY <1>3 DEF RelayPacket, RelayInv
<1>4. ASSUME NEW h \in Chan, RelayWrite(h) PROVE RelayInv'
  BY <1>4 DEF RelayWrite, RelayInv
<1>5. ASSUME NEW h \in Chan, RelayStop(h) PROVE RelayInv'
  BY <1>5 DEF RelayStop, RelayInv, TypeOK
<1>6. CASE UNCHANGED <<channels, relay>>
  BY <1>6 DEF RelayInv, channels
<1> QED
  BY <1>1, <1>2, <1>3, <1>4, <1>5, <1>6, ChannelSteps

\* Every step keeps announcements backed by a proof.
LEMMA LocationStep ==
  TypeOK /\ LoginInv /\ LocationInv /\ [Next]_vars => LocationInv'
<1> SUFFICES ASSUME TypeOK, LoginInv, LocationInv, [Next]_vars PROVE LocationInv'
  OBVIOUS
<1> Grows
  BY GhostsGrow
<1>1. ASSUME NEW c \in Conn, Announce(c) PROVE LocationInv'
  <2>1. \/ UNCHANGED location
        \/ authed[c] # None /\ location' = [location EXCEPT ![authed[c]] = c]
    BY <1>1 DEF Announce
  <2> QED
    BY <2>1 DEF LocationInv, LoginInv, Grows, TypeOK
<1>2. CASE UNCHANGED location
  BY <1>2 DEF LocationInv, Grows, TypeOK
<1> QED
  BY <1>1, <1>2, LocationSteps

\* Every step keeps what is written to a socket addressed to its connection.
LEMMA OutboxStep ==
  TypeOK /\ ChannelInv /\ OutboxInv /\ [Next]_vars => OutboxInv'
<1> SUFFICES ASSUME TypeOK, ChannelInv, OutboxInv, [Next]_vars PROVE OutboxInv'
  OBVIOUS
<1> Grows
  BY GhostsGrow
<1>1. ASSUME NEW c \in Conn, NEW m \in ServerMessage, Put(c, m),
             IsForward(m) => m.to \in proved'[c] /\ welcomed'[c]
      PROVE  OutboxInv'
  <2>1. CASE UNCHANGED outbox
    BY <2>1 DEF OutboxInv, Grows
  <2>2. CASE outbox' = [outbox EXCEPT ![c] = Append(outbox[c], m)]
    <3>1. \A e \in Conn : \A i \in DOMAIN outbox'[e] :
            \/ e = c /\ outbox'[e][i] = m
            \/ i \in DOMAIN outbox[e] /\ outbox'[e][i] = outbox[e][i]
      BY <2>2 DEF TypeOK
    <3> QED
      BY <1>1, <3>1 DEF OutboxInv, Grows
  <2> QED
    BY <1>1, <2>1, <2>2 DEF Put
<1>2. ASSUME NEW c \in Conn, Reply(c) PROVE OutboxInv'
  <2>1. Put(c, Response) /\ Response \in ServerMessage /\ ~IsForward(Response)
    BY <1>2 DEF Reply, Response, ServerMessage, IsForward
  <2> QED
    BY <1>1, <2>1
<1>3. ASSUME NEW h \in Chan, RelayWrite(h) PROVE OutboxInv'
  <2>1. /\ chQueue[h] \in Seq(RelayForward) /\ chQueue[h] # <<>>
        /\ task[h] # "unused" /\ Put(chConn[h], Head(chQueue[h]))
    BY <1>3 DEF RelayWrite, TypeOK
  <2>2. Head(chQueue[h]) = chQueue[h][1] /\ 1 \in DOMAIN chQueue[h]
    BY <2>1
  <2>3. /\ chConn[h] \in Conn
        /\ Head(chQueue[h]).to \in proved[chConn[h]] /\ welcomed[chConn[h]]
    BY <2>1, <2>2 DEF ChannelInv
  <2>4. Head(chQueue[h]) \in ServerMessage
    BY <2>1 DEF ServerMessage
  <2> QED
    BY <1>1, <2>1, <2>3, <2>4 DEF Grows
<1>4. ASSUME NEW c \in Conn, ClientRead(c) PROVE OutboxInv'
  <2>1. /\ outbox[c] \in Seq(ServerMessage) /\ outbox[c] # <<>>
        /\ outbox' = [outbox EXCEPT ![c] = Tail(outbox[c])]
    BY <1>4 DEF ClientRead, TypeOK
  <2>2. \A e \in Conn : \A i \in DOMAIN outbox'[e] :
          \E j \in DOMAIN outbox[e] : outbox'[e][i] = outbox[e][j]
    <3>1. \A i \in DOMAIN Tail(outbox[c]) : /\ i + 1 \in DOMAIN outbox[c]
                                            /\ Tail(outbox[c])[i] = outbox[c][i + 1]
      BY <2>1
    <3> QED
      BY <2>1, <3>1 DEF TypeOK
  <2> QED
    BY <2>2 DEF OutboxInv, Grows
<1>5. ASSUME NEW c \in Conn, ClientClose(c) PROVE OutboxInv'
  BY <1>5 DEF ClientClose, OutboxInv, Grows, TypeOK
<1>6. CASE UNCHANGED outbox
  BY <1>6 DEF OutboxInv, Grows
<1> QED
  BY <1>2, <1>3, <1>4, <1>5, <1>6, OutboxSteps

\* The inductive invariant holds when the server starts.
LEMMA SafetyInit == Init => SafetyInv
<1> SUFFICES ASSUME Init PROVE SafetyInv
  OBVIOUS
<1>1. LoginInv
  BY ConstantsAssumption DEF Init, LoginInv, ReplyType
<1>2. ChannelInv /\ RelayInv /\ LocationInv /\ OutboxInv
  BY DEF Init, ChannelInv, RelayInv, LocationInv, OutboxInv
<1> QED
  BY <1>1, <1>2, TypeInit DEF SafetyInv

\* The inductive invariant holds in every reachable state.
LEMMA SafetyInvariant == Spec => []SafetyInv
<1>1. SafetyInv /\ [Next]_vars => SafetyInv'
  BY TypeStep, ArgStep, LoginStep, ChannelStep, RelayInvStep, LocationStep,
     OutboxStep DEF SafetyInv
<1> QED
  BY <1>1, SafetyInit, PTL DEF Spec

\* Relayed packets reach only connections that proved to be the addressee.
THEOREM NoMisdeliveryHolds == Spec => []NoMisdelivery
<1>1. SafetyInv => NoMisdelivery
  BY DEF SafetyInv, OutboxInv, NoMisdelivery
<1> QED
  BY <1>1, SafetyInvariant, PTL

\* Nothing in the server stands in the name of a diddy that did not log in.
THEOREM ActsInOwnNameHolds == Spec => []ActsInOwnName
<1>1. SafetyInv => ActsInOwnName
  BY DEF SafetyInv, ChannelInv, RelayInv, LocationInv, ActsInOwnName, TypeOK
<1> QED
  BY <1>1, SafetyInvariant, PTL

\* No relayed packet is written before LoginSuccess.
THEOREM WelcomedBeforeRelayHolds == Spec => []WelcomedBeforeRelay
<1>1. SafetyInv => WelcomedBeforeRelay
  BY DEF SafetyInv, OutboxInv, WelcomedBeforeRelay
<1> QED
  BY <1>1, SafetyInvariant, PTL

-----------------------------------------------------------------------------
(* Registration: RegistrationGrantedOnce is not inductive, the replies under  *)
(* way count too.                                                            *)

Granting(c) == reply[c] = "RegistrationSuccess"

GrantInv ==
  /\ RegistrationGrantedOnce
  /\ \A c \in Conn : Granting(c) => /\ arg[c] \in registered
                                    /\ grants[arg[c]] = 0
  /\ \A c, e \in Conn : Granting(c) /\ Granting(e) /\ arg[c] = arg[e] => c = e

\* A handler that moves and grants nothing keeps GrantInv.
LEMMA GotoGrant ==
  ASSUME TypeOK, GrantInv, NEW c \in Conn, NEW p, NEW d, NEW r,
         Goto(c, p, d, r), r # "RegistrationSuccess",
         UNCHANGED <<registered, grants>>
  PROVE  GrantInv'
<1>1. /\ ~Granting(c)'
      /\ \A e \in Conn \ {c} : UNCHANGED <<arg[e], reply[e]>>
  BY DEF Goto, Granting, TypeOK
<1>2. RegistrationGrantedOnce'
  BY DEF GrantInv, RegistrationGrantedOnce
<1> QED
  BY <1>1, <1>2 DEF GrantInv, Granting

\* Every step keeps registrations that were granted, or are about to be, unique.
LEMMA GrantStep == TypeOK /\ ArgInv /\ GrantInv /\ [Next]_vars => GrantInv'
<1> SUFFICES ASSUME TypeOK, ArgInv, GrantInv, [Next]_vars PROVE GrantInv'
  OBVIOUS
<1> None # "RegistrationSuccess"
  BY ConstantsAssumption DEF ReplyType
<1>1. ASSUME NEW c \in Conn, Insert(c) PROVE GrantInv'
  <2>1. UNCHANGED grants /\ arg[c] \in Diddy
    BY <1>1 DEF Insert, ghosts, ArgInv
  <2>2. CASE Refuse(c) /\ UNCHANGED registered
    BY <2>1, <2>2, GotoGrant DEF Refuse
  <2>3. CASE /\ arg[c] \notin registered
             /\ registered' = registered \cup {arg[c]}
             /\ Goto(c, "reply", arg[c], "RegistrationSuccess")
    <3>1. /\ arg'[c] = arg[c]
          /\ \A e \in Conn \ {c} : UNCHANGED <<arg[e], reply[e]>>
      BY <2>3 DEF Goto, TypeOK
    <3>2. grants[arg[c]] = 0
      BY <2>1, <2>3 DEF GrantInv, RegistrationGrantedOnce, TypeOK
    <3>3. RegistrationGrantedOnce'
      BY <2>1, <2>3 DEF GrantInv, RegistrationGrantedOnce
    <3>4. \A e \in Conn \ {c} : Granting(e) => arg[e] # arg[c]
      BY <2>3 DEF GrantInv
    <3> QED
      BY <2>1, <2>3, <3>1, <3>2, <3>3, <3>4 DEF GrantInv, Granting
  <2> QED
    BY <1>1, <2>2, <2>3 DEF Insert, Unique
<1>2. ASSUME NEW c \in Conn, Reply(c) PROVE GrantInv'
  <2>1. UNCHANGED registered
    BY <1>2 DEF Reply, durable
  <2>2. \/ Goto(c, "recv", None, None)
        \/ Goto(c, "bind", arg[c], None)
    BY <1>2 DEF Reply
  <2>3. CASE ~Granting(c)
    BY <1>2, <2>1, <2>2, <2>3, GotoGrant DEF Reply, Granting
  <2>4. CASE Granting(c)
    <3>1. /\ arg[c] \in Diddy /\ arg[c] \in registered /\ grants[arg[c]] = 0
          /\ grants' = [grants EXCEPT ![arg[c]] = grants[arg[c]] + 1]
      BY <1>2, <2>4 DEF Reply, Granting, GrantInv, ArgInv
    <3>2. grants'[arg[c]] = 1 /\ \A d \in Diddy \ {arg[c]} : UNCHANGED grants[d]
      BY <3>1 DEF TypeOK
    <3>3. RegistrationGrantedOnce'
      BY <2>1, <3>1, <3>2 DEF GrantInv, RegistrationGrantedOnce
    <3>4. /\ ~Granting(c)'
          /\ \A e \in Conn \ {c} : UNCHANGED <<arg[e], reply[e]>>
      BY <2>2 DEF Goto, Granting, TypeOK
    <3>5. \A e \in Conn \ {c} : Granting(e) => /\ arg[e] # arg[c]
                                               /\ arg[e] \in Diddy
      BY <2>4 DEF GrantInv, Granting, ArgInv
    <3> QED
      BY <2>1, <3>2, <3>3, <3>4, <3>5 DEF GrantInv, Granting
  <2> QED
    BY <2>3, <2>4
<1>3. ASSUME NEW c \in Conn, NEW p, NEW d, NEW r,
             Goto(c, p, d, r), r # "RegistrationSuccess",
             UNCHANGED <<registered, grants>>
      PROVE  GrantInv'
  BY <1>3, GotoGrant
<1>4. ASSUME UNCHANGED <<handler, registered, grants>> PROVE GrantInv'
  BY <1>4 DEF GrantInv, Granting, RegistrationGrantedOnce, handler
<1>5. ASSUME Die PROVE GrantInv'
  <2>1. \A c \in Conn : ~Granting(c)'
    BY <1>5 DEF Die, Granting
  <2>2. UNCHANGED <<registered, grants>>
    BY <1>5 DEF Die, durable, ghosts
  <2> QED
    BY <2>1, <2>2 DEF GrantInv, RegistrationGrantedOnce
<1>6. ASSUME NEW c \in Conn, Accept(c) PROVE GrantInv'
  BY <1>3, <1>6 DEF Accept, durable, ghosts
<1>7. ASSUME Restart PROVE GrantInv'
  BY <1>4, <1>7 DEF Restart, durable, ghosts
<1>8. ASSUME NEW c \in Conn, NEW d \in Diddy,
             \/ Register(c, d) \/ LoginRequest(c, d)
             \/ VerifyRequest(c, d) \/ QueryPeer(c, d)
      PROVE  GrantInv'
  <2>1. UNCHANGED <<registered, grants>>
    BY <1>8 DEF Register, LoginRequest, VerifyRequest, QueryPeer, durable, ghosts
  <2>2. \/ Goto(c, "reply", None, "Refusal")
        \/ Goto(c, "reply", None, "Answer")
        \/ Goto(c, "insert", d, None)
    BY <1>8
    DEF Register, LoginRequest, VerifyRequest, QueryPeer, Refuse, Serve
  <2> QED
    BY <2>1, <2>2, <1>3
<1>9. ASSUME NEW c \in Conn, NEW d \in Diddy, NEW ok \in BOOLEAN,
             LoginChallengeResponse(c, d, ok)
      PROVE  GrantInv'
  BY <1>3, <1>9 DEF LoginChallengeResponse, Refuse, Welcome, durable
<1>10. ASSUME NEW c \in Conn, Bind(c) PROVE GrantInv'
  BY <1>3, <1>10 DEF Bind, durable, ghosts
<1>11. ASSUME NEW c \in Conn, Announce(c) PROVE GrantInv'
  BY <1>3, <1>11 DEF Announce, Refuse, Serve, ghosts
<1>12. ASSUME NEW c \in Conn, NEW d \in Diddy, RelayPacket(c, d) PROVE GrantInv'
  BY <1>3, <1>4, <1>12 DEF RelayPacket, Refuse, durable, ghosts
<1>13. ASSUME NEW c \in Conn, ReplyFails(c) \/ HandlerFails(c) PROVE GrantInv'
  BY <1>3, <1>13 DEF ReplyFails, HandlerFails, Leave, durable, ghosts
<1>14. ASSUME NEW h \in Chan, RelayWrite(h) \/ RelayStop(h) PROVE GrantInv'
  BY <1>4, <1>14 DEF RelayWrite, RelayStop, durable, ghosts
<1>15. ASSUME NEW c \in Conn, ClientRead(c) \/ ClientClose(c) PROVE GrantInv'
  BY <1>4, <1>15 DEF ClientRead, ClientClose, durable, ghosts
<1>16. ASSUME UNCHANGED vars PROVE GrantInv'
  BY <1>4, <1>16 DEF vars, durable, ghosts
<1> QED
  BY <1>1, <1>2, <1>5, <1>6, <1>7, <1>8, <1>9, <1>10, <1>11, <1>12, <1>13,
     <1>14, <1>15, <1>16
  DEF Next, Request, Continue, RelayStep, RelayWriteFails, RelayEnd,
      AcceptFails, Crash

\* However registrations of a key race, one at most is told it succeeded, and
\* the row it was told of is there for good.
THEOREM RegistrationGrantedOnceHolds == Spec => []RegistrationGrantedOnce
<1>1. Init => GrantInv
  BY ConstantsAssumption
  DEF Init, GrantInv, Granting, RegistrationGrantedOnce, ReplyType
<1>2. GrantInv => RegistrationGrantedOnce
  BY DEF GrantInv
<1> QED
  BY <1>1, <1>2, GrantStep, TypeArgCorrect, PTL DEF Spec

-----------------------------------------------------------------------------
(* The database lock *)

\* A handler that moves without the lock leaves it as it is.
LEMMA GotoLocked ==
  ASSUME TypeOK, LockedToRefuse, NEW c \in Conn, NEW p, NEW d, NEW r,
         Goto(c, p, d, r), dbLock # c, UNCHANGED dbLock
  PROVE  LockedToRefuse'
<1>1. \A e \in Conn \ {c} : pc'[e] = pc[e] /\ reply'[e] = reply[e]
  BY DEF Goto, TypeOK
<1> QED
  BY <1>1 DEF LockedToRefuse, TypeOK

\* A handler that gives back the lock if it has it may go anywhere.
LEMMA GotoUnlocked ==
  ASSUME TypeOK, LockedToRefuse, NEW c \in Conn, NEW p, NEW d, NEW r,
         Goto(c, p, d, r), Unlock(c)
  PROVE  LockedToRefuse'
<1>1. CASE dbLock = c
  BY <1>1 DEF Unlock, LockedToRefuse
<1>2. CASE dbLock # c
  BY <1>2, GotoLocked DEF Unlock
<1> QED
  BY <1>1, <1>2

\* Every step leaves the lock to a handler that is sending an error.
LEMMA LockStep == TypeOK /\ LockedToRefuse /\ [Next]_vars => LockedToRefuse'
<1> SUFFICES ASSUME TypeOK, LockedToRefuse, [Next]_vars PROVE LockedToRefuse'
  OBVIOUS
<1>1. \A c \in Conn : pc[c] # "reply" => dbLock # c
  BY ConstantsAssumption DEF LockedToRefuse
<1>2. ASSUME NEW c \in Conn, NEW p, NEW d, NEW r,
             Goto(c, p, d, r), pc[c] # "reply", UNCHANGED dbLock
      PROVE  LockedToRefuse'
  BY <1>1, <1>2, GotoLocked
<1>3. ASSUME UNCHANGED <<handler, dbLock>> PROVE LockedToRefuse'
  BY <1>3 DEF LockedToRefuse, handler
<1>4. ASSUME NEW c \in Conn, Insert(c) PROVE LockedToRefuse'
  <2>1. CASE Goto(c, "reply", arg[c], "RegistrationSuccess") /\ UNCHANGED dbLock
    BY <1>2, <1>4, <2>1 DEF Insert
  <2>2. CASE Refuse(c) /\ dbLock' = c
    BY <2>2 DEF Refuse, Goto, LockedToRefuse, TypeOK
  <2> QED
    BY <1>4, <2>1, <2>2 DEF Insert
<1>5. ASSUME NEW c \in Conn, Reply(c) PROVE LockedToRefuse'
  <2>1. Unlock(c) /\ (Goto(c, "recv", None, None) \/ Goto(c, "bind", arg[c], None))
    BY <1>5 DEF Reply
  <2> QED
    BY <2>1, GotoUnlocked
<1>6. ASSUME NEW c \in Conn, ReplyFails(c) \/ HandlerFails(c) PROVE LockedToRefuse'
  BY <1>6, GotoUnlocked DEF ReplyFails, HandlerFails, Leave
<1>7. ASSUME Die PROVE LockedToRefuse'
  BY <1>7 DEF Die, LockedToRefuse
<1>8. ASSUME NEW c \in Conn, Accept(c) \/ Bind(c) PROVE LockedToRefuse'
  BY <1>2, <1>8 DEF Accept, Bind
<1>9. ASSUME NEW c \in Conn, NEW d \in Diddy,
             \/ Register(c, d) \/ LoginRequest(c, d)
             \/ VerifyRequest(c, d) \/ QueryPeer(c, d)
      PROVE  LockedToRefuse'
  <2>1. pc[c] # "reply" /\ UNCHANGED dbLock
    BY <1>9 DEF Register, LoginRequest, VerifyRequest, QueryPeer, Receive
  <2>2. \/ Goto(c, "reply", None, "Refusal")
        \/ Goto(c, "reply", None, "Answer")
        \/ Goto(c, "insert", d, None)
    BY <1>9
    DEF Register, LoginRequest, VerifyRequest, QueryPeer, Refuse, Serve
  <2> QED
    BY <1>2, <2>1, <2>2
<1>10. ASSUME NEW c \in Conn, NEW d \in Diddy, NEW ok \in BOOLEAN,
              LoginChallengeResponse(c, d, ok)
       PROVE  LockedToRefuse'
  BY <1>2, <1>10 DEF LoginChallengeResponse, Receive, Refuse, Welcome
<1>11. ASSUME NEW c \in Conn, Announce(c) PROVE LockedToRefuse'
  BY <1>2, <1>11 DEF Announce, Receive, Refuse, Serve
<1>12. ASSUME NEW c \in Conn, NEW d \in Diddy, RelayPacket(c, d)
       PROVE  LockedToRefuse'
  BY <1>2, <1>3, <1>12 DEF RelayPacket, Receive, Refuse
<1>13. ASSUME NEW h \in Chan, RelayWrite(h) \/ RelayStop(h) PROVE LockedToRefuse'
  BY <1>3, <1>13 DEF RelayWrite, RelayStop
<1>14. ASSUME NEW c \in Conn, ClientRead(c) \/ ClientClose(c) PROVE LockedToRefuse'
  BY <1>3, <1>14 DEF ClientRead, ClientClose
<1>15. ASSUME Restart \/ UNCHANGED vars PROVE LockedToRefuse'
  BY <1>3, <1>15 DEF Restart, vars
<1> QED
  BY <1>4, <1>5, <1>6, <1>7, <1>8, <1>9, <1>10, <1>11, <1>12, <1>13, <1>14, <1>15
  DEF Next, Request, Continue, RelayStep, RelayWriteFails, RelayEnd,
      AcceptFails, Crash

\* Whatever handlers compete for the database, the one that keeps it across an
\* await waits for its own client only.
THEOREM LockedToRefuseHolds == Spec => []LockedToRefuse
<1>1. Init => LockedToRefuse
  BY DEF Init, LockedToRefuse
<1> QED
  BY <1>1, LockStep, TypeArgCorrect, PTL DEF Spec

-----------------------------------------------------------------------------
(* Channels that were superseded, and what they hold *)

\* A step as far as it is about the map and the packets in channels.
LEMMA SupersededStep ==
  ASSUME SafetyInv, [Next]_vars, NEW h \in Chan,
         task[h] # "unused", relay[chOwner[h]] # h
  PROVE  relay'[chOwner[h]] # h /\ QueuedIn(h)' \subseteq QueuedIn(h)
<1>1. /\ TypeOK /\ ArgInv /\ LoginInv /\ RelayInv /\ chOwner[h] \in Diddy
  BY DEF SafetyInv, ChannelInv, TypeOK
<1>2. relay \in [Diddy -> Chan \cup {None}] /\ None \notin Chan
      /\ chQueue[h] \in Seq(RelayForward)
  BY <1>1, ConstantsAssumption DEF TypeOK
<1>3. ASSUME Die PROVE relay'[chOwner[h]] # h /\ QueuedIn(h)' \subseteq QueuedIn(h)
  <2>1. relay'[chOwner[h]] = None /\ chQueue'[h] = <<>>
    BY <1>1, <1>3 DEF Die
  <2> QED
    BY <1>2, <2>1 DEF QueuedIn
<1>4. ASSUME NEW c \in Conn, Bind(c)
      PROVE  relay'[chOwner[h]] # h /\ QueuedIn(h)' \subseteq QueuedIn(h)
  <2>1. PICK g \in Chan : task[g] = "unused" /\ relay' = [relay EXCEPT ![arg[c]] = g]
    BY <1>1, <1>4, BindShape
  <2>2. UNCHANGED chQueue
    BY <1>4 DEF Bind
  <2> QED
    BY <1>1, <1>2, <2>1, <2>2 DEF QueuedIn
<1>5. ASSUME NEW c \in Conn, NEW d \in Diddy, RelayPacket(c, d)
      PROVE  relay'[chOwner[h]] # h /\ QueuedIn(h)' \subseteq QueuedIn(h)
  <2>1. relay' = relay
    BY <1>5 DEF RelayPacket
  <2>2. chQueue'[h] = chQueue[h]
    <3>1. CASE UNCHANGED chQueue
      BY <3>1
    <3>2. CASE Enqueue(c, d) /\ Reachable(d)
      <4>1. relay[d] # h
        BY <1>1, <3>2 DEF Reachable, RelayInv
      <4> QED
        BY <1>1, <3>2, <4>1 DEF Enqueue, TypeOK
    <3> QED
      BY <1>5, <3>1, <3>2 DEF RelayPacket
  <2> QED
    BY <2>1, <2>2 DEF QueuedIn
<1>6. ASSUME NEW g \in Chan, RelayWrite(g)
      PROVE  relay'[chOwner[h]] # h /\ QueuedIn(h)' \subseteq QueuedIn(h)
  <2>1. relay' = relay /\ chQueue[g] # <<>> /\ chQueue' = [chQueue EXCEPT ![g] = Tail(@)]
    BY <1>6 DEF RelayWrite, Dequeue
  <2>2. CASE g = h
    <3>1. /\ chQueue'[h] = Tail(chQueue[h]) /\ chQueue[h] # <<>>
      BY <1>1, <2>1, <2>2 DEF TypeOK
    <3>2. \A i \in DOMAIN chQueue'[h] :
            i + 1 \in DOMAIN chQueue[h] /\ chQueue'[h][i] = chQueue[h][i + 1]
      BY <1>2, <3>1
    <3> QED
      BY <2>1, <3>2 DEF QueuedIn
  <2>3. CASE g # h
    BY <1>1, <2>1, <2>3 DEF TypeOK, QueuedIn
  <2> QED
    BY <2>2, <2>3
<1>7. ASSUME NEW g \in Chan, RelayStop(g)
      PROVE  relay'[chOwner[h]] # h /\ QueuedIn(h)' \subseteq QueuedIn(h)
  <2>1. relay' = relay /\ chQueue'[h] \in {<<>>, chQueue[h]}
    BY <1>1, <1>7 DEF RelayStop, TypeOK
  <2> QED
    BY <2>1 DEF QueuedIn
<1>8. CASE UNCHANGED <<channels, relay>>
  BY <1>8 DEF channels, QueuedIn
<1> QED
  BY <1>3, <1>4, <1>5, <1>6, <1>7, <1>8, ChannelSteps

\* A login supersedes the channel of the diddy's earlier one for good: the map
\* does not lead there again, and no packet is put into it.
THEOREM SupersededForGoodHolds == Spec => SupersededForGood
<1>1. SafetyInv /\ [Next]_vars
        => [\A h \in Chan : task[h] # "unused" /\ relay[chOwner[h]] # h =>
              /\ relay'[chOwner[h]] # h
              /\ QueuedIn(h)' \subseteq QueuedIn(h)]_vars
  BY SupersededStep
<1> QED
  BY <1>1, SafetyInvariant, PTL DEF Spec, SupersededForGood

\* How a packet leaves a channel.
LEMMA LeavingStep ==
  ASSUME SafetyInv, [Next]_vars, NEW h \in Chan, NEW m \in QueuedIn(h) \ QueuedIn(h)'
  PROVE  \/ peer[chConn[h]] # "open"
         \/ m \in {outbox'[chConn[h]][i] : i \in DOMAIN outbox'[chConn[h]]}
         \/ ~up'
<1> DEFINE Goal == \/ peer[chConn[h]] # "open"
                   \/ m \in {outbox'[chConn[h]][i] : i \in DOMAIN outbox'[chConn[h]]}
                   \/ ~up'
<1>1. /\ TypeOK /\ ArgInv /\ LoginInv /\ RelayInv
      /\ chQueue[h] \in Seq(RelayForward) /\ chQueue[h] # <<>> /\ chQueue'[h] # chQueue[h]
      /\ chConn[h] \in Conn
  <2>1. chQueue[h] # <<>> /\ chQueue'[h] # chQueue[h]
    BY DEF QueuedIn
  <2> QED
    BY <2>1 DEF SafetyInv, ChannelInv, TypeOK
<1>2. ASSUME Die PROVE Goal
  BY <1>2 DEF Die
<1>3. ASSUME NEW c \in Conn, Bind(c) PROVE Goal
  BY <1>1, <1>3 DEF Bind
<1>4. ASSUME NEW c \in Conn, NEW d \in Diddy, RelayPacket(c, d) PROVE Goal
  <2>1. PICK g \in Chan, p \in RelayForward :
          chQueue' = [chQueue EXCEPT ![g] = Append(chQueue[g], p)]
    BY <1>1, <1>4, RelayPacketShape
  <2>2. chQueue'[h] = Append(chQueue[h], p)
    BY <1>1, <2>1 DEF TypeOK
  <2>3. \A i \in DOMAIN chQueue[h] :
          i \in DOMAIN chQueue'[h] /\ chQueue'[h][i] = chQueue[h][i]
    BY <1>1, <2>2
  <2> QED
    BY <2>3 DEF QueuedIn
<1>5. ASSUME NEW g \in Chan, RelayWrite(g) PROVE Goal
  <2>1. /\ g = h
    BY <1>1, <1>5 DEF RelayWrite, Dequeue, TypeOK
  <2>2. chQueue'[h] = Tail(chQueue[h])
    BY <1>1, <1>5, <2>1 DEF RelayWrite, Dequeue, TypeOK
  <2>3. m = Head(chQueue[h])
    <3>1. PICK i \in DOMAIN chQueue[h] : m = chQueue[h][i]
      BY DEF QueuedIn
    <3>2. CASE i = 1
      BY <1>1, <3>1, <3>2
    <3>3. CASE i # 1
      <4>1. i - 1 \in DOMAIN chQueue'[h] /\ chQueue'[h][i - 1] = chQueue[h][i]
        BY <1>1, <2>2, <3>3
      <4> QED
        BY <3>1, <4>1 DEF QueuedIn
    <3> QED
      BY <3>2, <3>3
  <2>4. CASE peer[chConn[h]] = "open"
    <3>1. outbox'[chConn[h]] = Append(outbox[chConn[h]], m)
      BY <1>1, <1>5, <2>1, <2>3, <2>4 DEF RelayWrite, Put, TypeOK
    <3>2. outbox[chConn[h]] \in Seq(ServerMessage)
      BY <1>1 DEF TypeOK
    <3>3. /\ Len(outbox[chConn[h]]) + 1 \in DOMAIN outbox'[chConn[h]]
          /\ outbox'[chConn[h]][Len(outbox[chConn[h]]) + 1] = m
      BY <3>1, <3>2
    <3> QED
      BY <3>3
  <2> QED
    BY <2>4
<1>6. ASSUME NEW g \in Chan, RelayWriteFails(g) \/ RelayEnd(g) PROVE Goal
  <2>1. g = h
    BY <1>1, <1>6 DEF RelayWriteFails, RelayEnd, RelayStop, TypeOK
  <2> QED
    BY <1>1, <1>6, <2>1 DEF RelayWriteFails, RelayEnd, Drained
<1>7. CASE UNCHANGED chQueue
  BY <1>1, <1>7
<1> QED
  BY <1>2, <1>3, <1>4, <1>5, <1>6, <1>7
  DEF Next, vars, channels, Accept, AcceptFails, Crash, Restart, Request, Register,
      LoginRequest, LoginChallengeResponse, VerifyRequest, Announce, QueryPeer,
      Continue, Insert, Reply, ReplyFails, HandlerFails, RelayStep, ClientRead,
      ClientClose

\* No login, relay task or other connection makes a channel lose a packet: it
\* goes to the socket, unless the client has closed or the server dies.
THEOREM LeavesForSocketHolds == Spec => LeavesForSocket
<1>1. SafetyInv /\ [Next]_vars
        => [\A h \in Chan : \A m \in QueuedIn(h) \ QueuedIn(h)' :
              \/ peer[chConn[h]] # "open"
              \/ m \in {outbox'[chConn[h]][i] : i \in DOMAIN outbox'[chConn[h]]}
              \/ ~up']_vars
  BY LeavingStep
<1> QED
  BY <1>1, SafetyInvariant, PTL DEF Spec, LeavesForSocket

=============================================================================
