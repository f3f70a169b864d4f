------------------------- MODULE PeerDeliveryProofs -------------------------
(***************************************************************************)
(* Proofs about the delivery of lines in PeerSession: a line arrives as    *)
(* new once, and none is lost while its connection and its reader last.    *)
(* Both follow from what a key tells: a synchronisation never offers a     *)
(* line of its own session, so only the live chat brings it.               *)
(***************************************************************************)
EXTENDS PeerProofs, SequenceTheorems

-----------------------------------------------------------------------------
(* The inductive invariant *)

\* The i-th packet on the way to an end is the chat of line l.
Brings(e, i, l) ==
  /\ i \in DOMAIN wire[e]
  /\ wire[e][i].type = "Message"
  /\ wire[e][i].chat.id = l

\* No line has the key of a session that does not chat yet, neither in its
\* author's store nor in what is offered in this session.
StageInv ==
  \A e \in End :
    /\ pc[e] = "off" <=> caller[Sess(e)] = None
    /\ pc[e] \notin {"chat", "ended"} =>
         /\ send[e] = "off"
         /\ \A l \in Line : Authored(At(e), l) => db[At(e)][l].key # Sess(e)
    /\ \A i \in DOMAIN wire[e] : wire[e][i].type = "SyncGive" =>
         \A m \in wire[e][i].chats : m.key # Sess(e)

\* A line is written once, under the key of its session.
LiveInv ==
  \A e \in End :
    /\ send[e] = "stored" => cur[e] \notin written
    /\ \A i \in Nat, l \in Line : Brings(e, i, l) =>
         /\ l \in written
         /\ ~Stored(At(e), l)
         /\ wire[e][i].chat.key = Sess(e)
         /\ \A j \in Nat : Brings(e, j, l) => j = i

\* A line has one author, and only a written line is stored by the other.
LineInv ==
  /\ \A n \in Node, l \in Line : Authored(n, l) => ~Authored(Peer(n), l)
  /\ \A l \in written : \E n \in Node : Stored(n, l)
  /\ \A n \in Node, l \in Line : Stored(n, l) => Authored(n, l) \/ l \in written

DeliveryInv ==
  /\ PeerInv
  /\ StageInv /\ LiveInv /\ LineInv
  /\ NothingDropped

-----------------------------------------------------------------------------
(* The steps, as far as lines see them *)

\* The wires of some ends are emptied.
Empties(S) == wire' = [e \in End |-> IF e \in S THEN <<>> ELSE wire[e]]

\* An end reads what is no chat and may answer with what is none.
Exchanges(e, qs) ==
  /\ wire[e] # <<>> /\ Head(wire[e]).type # "Message"
  /\ \A i \in DOMAIN qs :
       /\ qs[i].type # "Message"
       /\ qs[i].type = "SyncGive" => \A m \in qs[i].chats : m.key # Sess(e)
  /\ wire' = [f \in End |-> IF f = e THEN Tail(wire[e])
                            ELSE IF f = Far(e) THEN wire[f] \o qs ELSE wire[f]]

\* Nothing new comes on the way,
Dwindles(f) ==
  \E k \in Nat : \A i \in Nat, l \in Line :
    Brings(f, i, l)' => Brings(f, i + k, l) /\ wire'[f][i] = wire[f][i + k]

\* and what is on the way stays there.
Carries(f) == \A l \in Line : OnTheWay(f, l) => OnTheWay(f, l)'

\* Offers stay without keys of the session.
Offers ==
  \A f \in End : \A i \in DOMAIN wire'[f] : wire'[f][i].type = "SyncGive" =>
    \A m \in wire'[f][i].chats : m.key # Sess(f)

\* Emptying wires brings nothing.
LEMMA EmptiesEffect ==
  ASSUME DeliveryInv, NEW S, Empties(S)
  PROVE  /\ Offers
         /\ \A f \in End : Dwindles(f) /\ (f \notin S => Carries(f))
<1>1. \A f \in End : wire'[f] = IF f \in S THEN <<>> ELSE wire[f]
  BY DEF Empties
<1>2. Offers
  BY <1>1 DEF Offers, DeliveryInv, StageInv
<1>3. ASSUME NEW f \in End PROVE Dwindles(f)
  <2>1. \A i \in Nat, l \in Line :
          Brings(f, i, l)' => Brings(f, i + 0, l) /\ wire'[f][i] = wire[f][i + 0]
    BY <1>1 DEF Brings
  <2> QED
    BY <2>1 DEF Dwindles
<1>4. ASSUME NEW f \in End, f \notin S PROVE Carries(f)
  BY <1>1, <1>4 DEF Carries, OnTheWay
<1> QED
  BY <1>2, <1>3, <1>4

\* Nor does an exchange of packets that are no chats.
LEMMA ExchangesEffect ==
  ASSUME DeliveryInv, NEW e \in End, NEW qs \in Seq(Packet), Exchanges(e, qs)
  PROVE  /\ Offers
         /\ \A f \in End : Dwindles(f) /\ Carries(f)
<1> DEFINE x == Far(e)
<1>1. x \in End /\ x # e /\ Sess(x) = Sess(e)
  BY EndFacts
<1>2. wire[e] \in Seq(Packet) /\ wire[x] \in Seq(Packet)
  BY <1>1 DEF DeliveryInv, PeerInv, TypeOK
<1>3. /\ wire'[e] = Tail(wire[e]) /\ wire'[x] = wire[x] \o qs
      /\ \A f \in End : f # e /\ f # x => wire'[f] = wire[f]
  BY <1>1 DEF Exchanges
<1> HIDE DEF x
<1>4. /\ DOMAIN wire'[e] = 1..(Len(wire[e]) - 1) /\ Len(wire[e]) \in Nat \ {0}
      /\ DOMAIN wire[e] = 1..Len(wire[e])
      /\ \A i \in DOMAIN wire'[e] : wire'[e][i] = wire[e][i + 1]
      /\ Head(wire[e]) = wire[e][1]
  BY <1>2, <1>3 DEF Exchanges
<1>5. /\ Len(wire[x]) \in Nat /\ Len(qs) \in Nat
      /\ DOMAIN wire[x] = 1..Len(wire[x]) /\ DOMAIN qs = 1..Len(qs)
      /\ DOMAIN wire'[x] = 1..(Len(wire[x]) + Len(qs))
      /\ \A i \in DOMAIN wire'[x] :
           \/ i \in DOMAIN wire[x] /\ wire'[x][i] = wire[x][i]
           \/ i - Len(wire[x]) \in DOMAIN qs /\ wire'[x][i] = qs[i - Len(wire[x])]
      /\ \A i \in DOMAIN wire[x] : wire'[x][i] = wire[x][i]
  BY <1>2, <1>3
<1>6. Offers
  <2> SUFFICES ASSUME NEW f \in End, NEW i \in DOMAIN wire'[f],
                      wire'[f][i].type = "SyncGive", NEW m \in wire'[f][i].chats
               PROVE  m.key # Sess(f)
    BY DEF Offers
  <2>1. CASE f = e
    BY <1>4, <2>1 DEF DeliveryInv, StageInv
  <2>2. CASE f = x
    BY <1>1, <1>5, <2>2 DEF DeliveryInv, StageInv, Exchanges
  <2>3. CASE f # e /\ f # x
    BY <1>3, <2>3 DEF DeliveryInv, StageInv
  <2> QED
    BY <2>1, <2>2, <2>3
<1>7. Dwindles(e) /\ Carries(e)
  <2>1. \A i \in Nat, l \in Line :
          Brings(e, i, l)' => Brings(e, i + 1, l) /\ wire'[e][i] = wire[e][i + 1]
    BY <1>4 DEF Brings
  <2>2. \A i \in DOMAIN wire[e] : wire[e][i].type = "Message" =>
          i - 1 \in DOMAIN wire'[e] /\ wire'[e][i - 1] = wire[e][i]
    BY <1>4 DEF Exchanges
  <2> QED
    BY <2>1, <2>2 DEF Dwindles, Carries, OnTheWay
<1>8. Dwindles(x) /\ Carries(x)
  <2>1. \A i \in Nat, l \in Line :
          Brings(x, i, l)' => Brings(x, i + 0, l) /\ wire'[x][i] = wire[x][i + 0]
    <3> SUFFICES ASSUME NEW i \in Nat, NEW l \in Line, Brings(x, i, l)'
                 PROVE  Brings(x, i, l) /\ wire'[x][i] = wire[x][i]
      OBVIOUS
    <3>1. i \in DOMAIN wire'[x] /\ wire'[x][i].type = "Message"
      BY DEF Brings
    <3>2. i \in DOMAIN wire[x] /\ wire'[x][i] = wire[x][i]
      BY <1>5, <3>1 DEF Exchanges
    <3> QED
      BY <3>2 DEF Brings
  <2>2. \A i \in DOMAIN wire[x] : i \in DOMAIN wire'[x] /\ wire'[x][i] = wire[x][i]
    BY <1>5
  <2> QED
    BY <2>1, <2>2 DEF Dwindles, Carries, OnTheWay
<1>9. ASSUME NEW f \in End, f # e, f # x PROVE Dwindles(f) /\ Carries(f)
  <2>1. \A i \in Nat, l \in Line :
          Brings(f, i, l)' => Brings(f, i + 0, l) /\ wire'[f][i] = wire[f][i + 0]
    BY <1>3, <1>9 DEF Brings
  <2> QED
    BY <1>3, <1>9, <2>1 DEF Dwindles, Carries, OnTheWay
<1> QED
  BY <1>6, <1>7, <1>8, <1>9

-----------------------------------------------------------------------------
(* The parts of the invariant that a step keeps *)

\* Written lines are nobody's draft.
LEMMA WrittenIsAuthored ==
  ASSUME DeliveryInv, RowsKept, Tells,
         NEW n \in Node, NEW l \in written, Authored(n, l)'
  PROVE  Authored(n, l) /\ db'[n][l].key = db[n][l].key
<1>1. l \in Line /\ Peer(n) # n
  BY PeerFacts DEF DeliveryInv, PeerInv, TypeOK
<1>2. \E m \in Node : Stored(m, l)
  BY DEF DeliveryInv, LineInv
<1>3. Stored(n, l)
  BY <1>1, <1>2, PeerFacts DEF Tells, Learns, Drafts, Authored
<1> QED
  BY <1>1, <1>3 DEF Authored, RowsKept

\* A line keeps its one author.
LEMMA OneAuthorStays ==
  ASSUME DeliveryInv, RowsKept, Tells
  PROVE  \A n \in Node, l \in Line : Authored(n, l)' => ~Authored(Peer(n), l)'
<1> SUFFICES ASSUME NEW n \in Node, NEW l \in Line,
                    Authored(n, l)', Authored(Peer(n), l)'
             PROVE  FALSE
  OBVIOUS
<1> DEFINE p == Peer(n)
<1>1. p \in Node /\ p # n /\ Peer(p) = n
  BY PeerFacts
<1>2. \A k \in Node : Stored(k, l) => db'[k][l].from = db[k][l].from
  BY DEF RowsKept
<1> HIDE DEF p
<1>3. ~(Authored(n, l) /\ Authored(p, l))
  BY DEF DeliveryInv, LineInv, p
<1>4. Authored(p, l)'
  BY DEF p
<1>5. ASSUME NEW k \in Node, Learns(k) PROVE FALSE
  <2>1. Stored(n, l) /\ Stored(p, l)
    BY <1>1, <1>4, <1>5 DEF Learns, Authored
  <2> QED
    BY <1>1, <1>2, <1>3, <1>4, <2>1 DEF Authored
<1>6. ASSUME NEW k \in Node, NEW j \in Line, Drafts(k, j) PROVE FALSE
  <2>1. (Stored(n, l) /\ Stored(p, l)) \/ (\A i \in Node : ~Stored(i, l))
    BY <1>1, <1>4, <1>6 DEF Drafts, Authored
  <2>2. CASE Stored(n, l) /\ Stored(p, l)
    BY <1>1, <1>2, <1>3, <1>4, <2>2 DEF Authored
  <2>3. CASE \A i \in Node : ~Stored(i, l)
    BY <1>1, <1>4, <1>6, <2>3 DEF Drafts, Authored
  <2> QED
    BY <2>1, <2>2, <2>3
<1> QED
  BY <1>5, <1>6 DEF Tells

\* Rows are added for drafts alone.
DraftsOnly ==
  \A n \in Node, l \in Line :
    Stored(n, l)' => Stored(n, l) \/ (Authored(n, l)' /\ l \notin written)

\* A step that writes no line and stores none of the peer's.
LEMMA UnwrittenStep ==
  ASSUME DeliveryInv, RowsKept, Tells, DraftsOnly, UNCHANGED written,
         \A f \in End : Dwindles(f),
         broken \subseteq broken',
         \A f \in End :
           /\ pc[f] = "ended" => pc'[f] = "ended"
           /\ \/ Carries(f) \/ pc'[f] = "ended"
              \/ Sess(f) \in broken' \/ pc[f] = "off",
         \A f \in End : send'[f] = "stored" => cur'[f] \notin written
  PROVE  LiveInv' /\ LineInv' /\ NothingDropped'
<1>1. LiveInv'
  <2> SUFFICES ASSUME NEW f \in End, NEW i \in Nat, NEW l \in Line, Brings(f, i, l)'
               PROVE  /\ l \in written
                      /\ ~Stored(At(f), l)'
                      /\ wire'[f][i].chat.key = Sess(f)
                      /\ \A j \in Nat : Brings(f, j, l)' => j = i
    BY DEF LiveInv
  <2>1. PICK k \in Nat : \A j \in Nat, m \in Line :
          Brings(f, j, m)' => Brings(f, j + k, m) /\ wire'[f][j] = wire[f][j + k]
    BY DEF Dwindles
  <2>2. Brings(f, i + k, l) /\ wire'[f][i] = wire[f][i + k] /\ i + k \in Nat
    BY <2>1
  <2>3. \A j \in Nat : Brings(f, j + k, l) => j + k = i + k
    BY <2>2 DEF DeliveryInv, LiveInv
  <2>4. ASSUME NEW j \in Nat, Brings(f, j, l)' PROVE j = i
    <3>1. j + k = i + k
      BY <2>1, <2>3, <2>4
    <3> QED
      BY <3>1
  <2>5. l \in written /\ ~Stored(At(f), l) /\ wire[f][i + k].chat.key = Sess(f)
    BY <2>2 DEF DeliveryInv, LiveInv
  <2>6. ~Stored(At(f), l)'
    BY <2>5, EndFacts DEF DraftsOnly
  <2> QED
    BY <2>2, <2>4, <2>5, <2>6
<1>2. LineInv'
  <2>1. \A l \in written : l \in Line
    BY DEF DeliveryInv, PeerInv, TypeOK
  <2>2. \A n \in Node, l \in Line : Authored(n, l) => Authored(n, l)'
    BY DEF Authored, Stored, RowsKept
  <2>3. \A n \in Node, l \in Line :
          Stored(n, l)' => Authored(n, l)' \/ l \in written'
    BY <2>2 DEF DeliveryInv, LineInv, DraftsOnly
  <2>4. \A l \in written' : \E n \in Node : Stored(n, l)'
    BY <2>1 DEF DeliveryInv, LineInv, RowsKept
  <2> QED
    BY <2>3, <2>4, OneAuthorStays DEF LineInv
<1>3. NothingDropped'
  <2> SUFFICES ASSUME NEW e \in End, NEW l \in written,
                      Sess(e) \notin broken', pc'[Far(e)] # "ended",
                      Authored(At(e), l)', db'[At(e)][l].key = Sess(e)
               PROVE  OnTheWay(Far(e), l)' \/ Stored(At(Far(e)), l)'
    BY DEF NothingDropped, Authored
  <2>1. /\ Far(e) \in End /\ Sess(Far(e)) = Sess(e) /\ l \in Line
        /\ At(e) \in Node /\ At(Far(e)) \in Node
    BY EndFacts DEF DeliveryInv, PeerInv, TypeOK
  <2>2. Authored(At(e), l) /\ db[At(e)][l].key = Sess(e)
    BY <2>1, WrittenIsAuthored
  <2>3. OnTheWay(Far(e), l) \/ Stored(At(Far(e)), l)
    BY <2>1, <2>2 DEF DeliveryInv, NothingDropped, Authored
  <2>4. Stored(At(Far(e)), l) => Stored(At(Far(e)), l)'
    BY <2>1 DEF RowsKept
  <2>5. pc[Far(e)] # "off"
    <3>1. pc[e] \in {"chat", "ended"}
      BY <2>1, <2>2 DEF DeliveryInv, StageInv
    <3> QED
      BY <2>1, <3>1 DEF DeliveryInv, StageInv
  <2>6. Carries(Far(e))
    BY <2>1, <2>5
  <2> QED
    BY <2>1, <2>3, <2>4, <2>6 DEF Carries
<1> QED
  BY <1>1, <1>2, <1>3

\* A step that begins no chat and drafts no line.
LEMMA StageStep ==
  ASSUME DeliveryInv, RowsKept, Offers,
         \A n \in Node, l \in Line : Authored(n, l)' => Authored(n, l),
         \A f \in End :
           /\ pc'[f] = "off" <=> caller'[Sess(f)] = None
           /\ pc'[f] \notin {"chat", "ended"} =>
                pc[f] \notin {"chat", "ended"} /\ send'[f] \in {send[f], "off"}
  PROVE  StageInv'
<1> SUFFICES ASSUME NEW f \in End, pc'[f] \notin {"chat", "ended"}
             PROVE  /\ send'[f] = "off"
                    /\ \A l \in Line :
                         Authored(At(f), l)' => db'[At(f)][l].key # Sess(f)
  BY DEF StageInv, Offers
<1>1. pc[f] \notin {"chat", "ended"} /\ At(f) \in Node
  BY EndFacts
<1>2. send'[f] = "off"
  BY <1>1 DEF DeliveryInv, StageInv
<1>3. ASSUME NEW l \in Line, Authored(At(f), l)'
      PROVE  db'[At(f)][l].key # Sess(f)
  <2>1. Authored(At(f), l)
    BY <1>1, <1>3
  <2>2. db'[At(f)][l].key = db[At(f)][l].key
    BY <1>1, <2>1 DEF RowsKept, Authored
  <2> QED
    BY <1>1, <2>1, <2>2 DEF DeliveryInv, StageInv
<1> QED
  BY <1>2, <1>3

-----------------------------------------------------------------------------
(* The steps *)

\* Tasks end, connections break, rows are marked.
LEMMA IdleDelivery ==
  ASSUME DeliveryInv, PeerInv', RowsKept, Tells,
         UNCHANGED <<caller, written>>,
         NEW S, Empties(S), broken \subseteq broken',
         \A n \in Node, l \in Line : /\ Authored(n, l)' => Authored(n, l)
                                     /\ Stored(n, l)' => Stored(n, l),
         \A f \in End :
           /\ pc'[f] = "off" <=> pc[f] = "off"
           /\ pc[f] \in {"chat", "ended"} => pc'[f] \in {"chat", "ended"}
           /\ pc[f] = "ended" => pc'[f] = "ended"
           /\ pc'[f] = pc[f] \/ pc'[f] \in {"give", "ended"}
           /\ f \in S => \/ pc'[f] = "ended" \/ Sess(f) \in broken'
                        \/ pc[f] = "off"
           /\ \/ send'[f] = send[f] /\ cur'[f] = cur[f]
              \/ send'[f] = "off"
              \/ send[f] # "off" /\ send'[f] = "ready"
  PROVE  DeliveryInv'
<1>1. Offers /\ \A f \in End : Dwindles(f) /\ (f \notin S => Carries(f))
  BY EmptiesEffect
<1>2. \A f \in End : pc[f] \notin {"chat", "ended"} => send[f] = "off"
  BY DEF DeliveryInv, StageInv
<1>3. \A f \in End : pc[f] = "off" <=> caller[Sess(f)] = None
  BY DEF DeliveryInv, StageInv
<1>4. StageInv'
  <2>1. \A n \in Node, l \in Line : Authored(n, l)' => Authored(n, l)
    OBVIOUS
  <2> QED
    BY <1>1, <1>2, <1>3, <2>1, StageStep
<1>5. \A f \in End : send'[f] = "stored" => cur'[f] \notin written
  BY DEF DeliveryInv, LiveInv
<1>6. DraftsOnly
  BY DEF DraftsOnly
<1>7. LiveInv' /\ LineInv' /\ NothingDropped'
  BY <1>1, <1>5, <1>6, UnwrittenStep
<1> QED
  BY <1>4, <1>7 DEF DeliveryInv

\* Connections and their handlers end.
LEMMA EndDelivery ==
  ASSUME DeliveryInv, PeerInv', RowsKept, Tells,
         \/ \E e \in End : \/ Given(e) \/ ReadFails(e) \/ ReadRefused(e)
                          \/ Reject(e) \/ TransmitFails(e) \/ EndOfInput(e)
         \/ \E s \in Session : Break(s)
         \/ \E n \in Node : Exit(n)
  PROVE  DeliveryInv'
<1>1. TypeOK
  BY DEF DeliveryInv, PeerInv
<1>2. ASSUME UNCHANGED db
      PROVE  \A n \in Node, l \in Line : /\ Authored(n, l)' => Authored(n, l)
                                         /\ Stored(n, l)' => Stored(n, l)
  BY <1>2 DEF Authored, Stored
<1>3. ASSUME NEW e \in End, Given(e) \/ TransmitFails(e) \/ EndOfInput(e)
      PROVE  DeliveryInv'
  <2>1. Empties({})
    BY <1>1, <1>3 DEF Given, TransmitFails, EndOfInput, Empties, TypeOK
  <2>2. UNCHANGED <<db, caller, written, broken>>
    BY <1>3 DEF Given, TransmitFails, EndOfInput, Keep, ghosts
  <2>3. \A f \in End :
          /\ \/ pc'[f] = pc[f]
             \/ (pc[f] = "giving" /\ pc'[f] = "give")
          /\ \/ send'[f] = send[f] /\ cur'[f] = cur[f]
             \/ send[f] # "off" /\ send'[f] = "ready"
             \/ send'[f] = "off"
    BY <1>1, <1>3 DEF Given, TransmitFails, EndOfInput, ghosts, TypeOK
  <2> QED
    BY <1>2, <2>1, <2>2, <2>3, IdleDelivery
<1>4. ASSUME NEW e \in End, ReadFails(e) \/ ReadRefused(e) \/ Reject(e)
      PROVE  DeliveryInv'
  <2>1. Quit(e) /\ pc[e] # "off"
    BY <1>4 DEF ReadFails, ReadRefused, Reject, Reads, Expected
  <2>2. Empties({e})
    BY <1>1, <2>1 DEF Quit, Empties, TypeOK
  <2>3. UNCHANGED <<db, caller, send, cur, written, broken>>
    BY <2>1 DEF Quit, ghosts
  <2>4. \A f \in End : pc'[f] = IF f = e THEN "ended" ELSE pc[f]
    BY <1>1, <2>1 DEF Quit, TypeOK
  <2> QED
    BY <1>2, <2>1, <2>2, <2>3, <2>4, IdleDelivery
<1>5. ASSUME NEW s \in Session, Break(s)
      PROVE  DeliveryInv'
  <2> DEFINE S == {f \in End : Sess(f) = s}
  <2>1. Empties(S)
    BY <1>5 DEF Break, Empties
  <2>2. /\ UNCHANGED <<db, caller, pc, send, cur, written>>
        /\ broken' = broken \cup {s}
    BY <1>5 DEF Break, ghosts
  <2> QED
    BY <1>2, <2>1, <2>2, IdleDelivery
<1>6. ASSUME NEW n \in Node, Exit(n)
      PROVE  DeliveryInv'
  <2> DEFINE S == {f \in End : At(f) = n}
  <2>1. Empties(S)
    BY <1>6 DEF Exit, Empties
  <2>2. UNCHANGED <<db, caller, broken, written>>
    BY <1>6 DEF Exit, ghosts
  <2>3. \A f \in End :
          /\ pc'[f] = IF At(f) = n /\ pc[f] # "off" THEN "ended" ELSE pc[f]
          /\ send'[f] = IF At(f) = n THEN "off" ELSE send[f]
          /\ cur'[f] = IF At(f) = n THEN None ELSE cur[f]
    BY <1>6 DEF Exit
  <2> QED
    BY <1>2, <2>1, <2>2, <2>3, IdleDelivery
<1> QED
  BY <1>3, <1>4, <1>5, <1>6

\* A row is marked.
LEMMA MarkDelivery ==
  ASSUME DeliveryInv, PeerInv', RowsKept, Tells, NEW e \in End, MarkNotPending(e)
  PROVE  DeliveryInv'
<1>1. TypeOK /\ At(e) \in Node /\ cur[e] \in Line /\ Stored(At(e), cur[e])
  BY EndFacts DEF DeliveryInv, PeerInv, SendInv, MarkNotPending
<1>2. \A n \in Node, l \in Line : /\ Authored(n, l)' => Authored(n, l)
                                  /\ Stored(n, l)' => Stored(n, l)
  <2>1. \A n \in Node, l \in Line :
          db'[n][l] = db[n][l] \/ (n = At(e) /\ l = cur[e])
    BY <1>1 DEF MarkNotPending, TypeOK
  <2> SUFFICES ASSUME NEW n \in Node, NEW l \in Line
               PROVE  /\ Authored(n, l)' => Authored(n, l)
                      /\ Stored(n, l)' => Stored(n, l)
    OBVIOUS
  <2>2. CASE db'[n][l] = db[n][l]
    BY <2>2 DEF Authored, Stored
  <2>3. CASE n = At(e) /\ l = cur[e]
    BY <1>1, <2>3 DEF Authored, RowsKept
  <2> QED
    BY <2>1, <2>2, <2>3
<1>3. Empties({})
  BY <1>1 DEF MarkNotPending, Empties, TypeOK
<1>4. UNCHANGED <<caller, pc, written, broken>>
  BY DEF MarkNotPending, ghosts
<1>5. \A f \in End : \/ send'[f] = send[f] /\ cur'[f] = cur[f]
                     \/ send[f] # "off" /\ send'[f] = "ready"
  BY <1>1 DEF MarkNotPending, TypeOK
<1> QED
  BY <1>2, <1>3, <1>4, <1>5, IdleDelivery

\* A connection begins.
LEMMA ConnectDelivery ==
  ASSUME DeliveryInv, PeerInv', RowsKept, Tells, NEW e \in End, Connect(e)
  PROVE  DeliveryInv'
<1> DEFINE x == Far(e)
<1>1. /\ TypeOK /\ x \in End /\ x # e /\ Sess(x) = Sess(e) /\ Sess(e) \in Session
      /\ At(e) \in Node /\ None \notin Node
      /\ \A f \in End : Sess(f) = Sess(e) => f = e \/ f = x
  BY EndFacts, SessionAssumption DEF DeliveryInv, PeerInv
<1>2. /\ UNCHANGED <<db, send, cur, broken, written>>
      /\ caller[Sess(e)] = None
      /\ \A s \in Session : caller'[s] = IF s = Sess(e) THEN At(e) ELSE caller[s]
      /\ \A f \in End : pc'[f] = IF f = e THEN "challenge"
                               ELSE IF f = x THEN "init" ELSE pc[f]
      /\ \A f \in End : wire'[f] = IF f = x THEN <<Plain("HandshakeInit")>> ELSE wire[f]
  BY <1>1 DEF Connect, TypeOK
<1> HIDE DEF x
<1>3. /\ DOMAIN wire'[x] = {1} /\ wire'[x][1].type = "HandshakeInit"
  BY <1>1, <1>2, PacketFacts
<1>4. \A f \in End : pc[f] = "off" <=> caller[Sess(f)] = None
  BY DEF DeliveryInv, StageInv
<1>5. pc[e] = "off" /\ pc[x] = "off"
  BY <1>1, <1>2, <1>4
<1>6. Offers
  BY <1>2, <1>3 DEF Offers, DeliveryInv, StageInv
<1>7. \A f \in End : Dwindles(f)
  <2> SUFFICES ASSUME NEW f \in End PROVE Dwindles(f)
    OBVIOUS
  <2>1. \A i \in Nat, l \in Line :
          Brings(f, i, l)' => Brings(f, i + 0, l) /\ wire'[f][i] = wire[f][i + 0]
    BY <1>2, <1>3 DEF Brings
  <2> QED
    BY <2>1 DEF Dwindles
<1>8. \A f \in End : f # x => Carries(f)
  BY <1>2 DEF Carries, OnTheWay
<1>9. \A f \in End : Sess(f) \in Session
  BY EndFacts
<1>10. StageInv'
  <2>1. \A n \in Node, l \in Line : Authored(n, l)' => Authored(n, l)
    BY <1>2 DEF Authored, Stored
  <2>2. \A f \in End : pc'[f] = "off" <=> caller'[Sess(f)] = None
    BY <1>1, <1>2, <1>4, <1>9
  <2>3. \A f \in End : pc'[f] \notin {"chat", "ended"} =>
          pc[f] \notin {"chat", "ended"} /\ send'[f] \in {send[f], "off"}
    BY <1>2, <1>5
  <2> QED
    BY <1>6, <2>1, <2>2, <2>3, StageStep
<1>11. \A f \in End : send'[f] = "stored" => cur'[f] \notin written
  BY <1>2 DEF DeliveryInv, LiveInv
<1>12. \A f \in End : /\ pc[f] = "ended" => pc'[f] = "ended"
                      /\ Carries(f) \/ pc[f] = "off"
  BY <1>2, <1>5, <1>8
<1>13. DraftsOnly
  BY <1>2 DEF DraftsOnly, Stored
<1>14. LiveInv' /\ LineInv' /\ NothingDropped'
  BY <1>2, <1>7, <1>11, <1>12, <1>13, UnwrittenStep
<1> QED
  BY <1>10, <1>14 DEF DeliveryInv

\* Handshakes and synchronisations go on: no line in an offer has the key of
\* its session, so a synchronisation stores nothing.
LEMMA ExchangeDelivery ==
  ASSUME DeliveryInv, PeerInv', RowsKept, Tells, NEW e \in End,
         \/ ReceiveInit(e) \/ ReceiveChallenge(e) \/ ReceiveResponse(e)
         \/ ReceiveSyncRequest(e) \/ ReceiveSyncGive(e)
  PROVE  DeliveryInv'
<1>1. /\ TypeOK /\ At(e) \in Node /\ Far(e) \in End /\ Far(e) # e
      /\ wire[e] \in Seq(Packet)
  BY EndFacts DEF DeliveryInv, PeerInv, TypeOK
<1>2. /\ wire[e] # <<>> /\ Head(wire[e]).type # "Message"
      /\ pc[e] \notin {"off", "chat", "ended"}
  BY DEF ReceiveInit, ReceiveChallenge, ReceiveResponse, ReceiveSyncRequest,
       ReceiveSyncGive, Reads, Expected
<1>3. \E qs \in Seq(Packet) : Exchanges(e, qs)
  <2>0. /\ \A f \in End : wire[f] \in Seq(Packet) /\ wire[f] \o <<>> = wire[f]
        /\ <<>> \in Seq(Packet) /\ DOMAIN <<>> = {}
    BY <1>1 DEF TypeOK
  <2>1. ASSUME NEW q \in Packet, Answer(e, q), q.type # "Message",
               q.type = "SyncGive" => \A m \in q.chats : m.key # Sess(e)
        PROVE  \E qs \in Seq(Packet) : Exchanges(e, qs)
    <3>1. CASE Connected(e)
      <4>1. wire[Far(e)] \o <<q>> = Append(wire[Far(e)], q)
        BY <1>1, <2>1, <2>0, AppendIsConcat
      <4>2. wire' = [f \in End |-> IF f = e THEN Tail(wire[e])
                       ELSE IF f = Far(e) THEN wire[f] \o <<q>> ELSE wire[f]]
        BY <1>1, <2>1, <3>1, <4>1, AnswerShape
      <4>3. <<q>> \in Seq(Packet) /\ \A i \in DOMAIN <<q>> : <<q>>[i] = q
        BY <2>1
      <4> QED
        BY <1>2, <2>1, <4>2, <4>3 DEF Exchanges
    <3>2. CASE ~Connected(e)
      BY <1>1, <1>2, <2>0, <2>1, <3>2, AnswerShape DEF Exchanges
    <3> QED
      BY <3>1, <3>2
  <2>2. CASE ReceiveInit(e) \/ ReceiveResponse(e)
    BY <1>1, <2>1, <2>2, PacketFacts, LatestType DEF ReceiveInit, ReceiveResponse
  <2>3. CASE ReceiveSyncRequest(e)
    <3> DEFINE cs == Missed(At(e), Head(wire[e]).ts)
    <3>1. pc[e] = "request" /\ Answer(e, SyncGive(cs))
      BY <2>3 DEF ReceiveSyncRequest, Reads
    <3>2. /\ cs \in SUBSET ChatMessage
          /\ \A m \in cs : Authored(At(e), m.id) /\ db[At(e)][m.id].key = m.key
      BY <1>1, MissedType DEF Authored
    <3> HIDE DEF cs
    <3>3. \A m \in cs : m.key # Sess(e)
      BY <3>1, <3>2 DEF DeliveryInv, StageInv, ChatMessage
    <3>4. /\ SyncGive(cs) \in Packet /\ SyncGive(cs).type = "SyncGive"
          /\ SyncGive(cs).chats = cs
      BY <3>2, PacketFacts
    <3> QED
      BY <2>1, <3>1, <3>3, <3>4
  <2>4. CASE ReceiveChallenge(e)
    <3> DEFINE a == Plain("ChallengeResponse")
               b == SyncRequest(LatestTimestamp(At(e)))
    <3>1. /\ a \in Packet /\ a.type = "ChallengeResponse"
          /\ b \in Packet /\ b.type = "SyncRequest"
      BY <1>1, PacketFacts, LatestType
    <3>2. wire' = [wire EXCEPT ![e] = Tail(@),
                     ![Far(e)] = IF Connected(e) THEN @ \o <<a, b>> ELSE @]
      BY <2>4 DEF ReceiveChallenge
    <3> HIDE DEF a, b
    <3>3. /\ <<a, b>> \in Seq(Packet)
          /\ \A i \in DOMAIN <<a, b>> : <<a, b>>[i] \in {a, b}
      BY <3>1
    <3>4. CASE Connected(e)
      <4>1. wire' = [f \in End |-> IF f = e THEN Tail(wire[e])
                       ELSE IF f = Far(e) THEN wire[f] \o <<a, b>> ELSE wire[f]]
        BY <1>1, <3>2, <3>4 DEF TypeOK
      <4> QED
        BY <1>2, <3>1, <3>3, <4>1 DEF Exchanges
    <3>5. CASE ~Connected(e)
      <4>1. wire' = [f \in End |-> IF f = e THEN Tail(wire[e])
                       ELSE IF f = Far(e) THEN wire[f] \o <<>> ELSE wire[f]]
        BY <1>1, <2>0, <3>2, <3>5 DEF TypeOK
      <4> QED
        BY <1>2, <2>0, <4>1 DEF Exchanges
    <3> QED
      BY <3>4, <3>5
  <2>5. CASE ReceiveSyncGive(e)
    <3>1. wire' = [f \in End |-> IF f = e THEN Tail(wire[e])
                     ELSE IF f = Far(e) THEN wire[f] \o <<>> ELSE wire[f]]
      BY <1>1, <2>0, <2>5 DEF ReceiveSyncGive, Consume, TypeOK
    <3> QED
      BY <1>2, <2>0, <3>1 DEF Exchanges
  <2> QED
    BY <2>2, <2>3, <2>4, <2>5
<1>4. Offers /\ \A f \in End : Dwindles(f) /\ Carries(f)
  BY <1>3, ExchangesEffect
<1>5. UNCHANGED <<db, caller, cur, broken, written>>
  <2>1. CASE ReceiveSyncGive(e)
    <3>1. /\ Head(wire[e]) = wire[e][1] /\ 1 \in DOMAIN wire[e]
          /\ Head(wire[e]).type = "SyncGive"
      BY <1>1, <2>1 DEF ReceiveSyncGive, Reads, Expected
    <3>2. \A m \in Head(wire[e]).chats : m.key # Sess(e)
      BY <3>1 DEF DeliveryInv, StageInv
    <3> DEFINE new == Fresh(At(e), Head(wire[e]).chats, Sess(e))
    <3>3. new = {}
      BY <3>2 DEF Fresh
    <3>4. /\ db' = [db EXCEPT ![At(e)] = [l \in Line |->
                     IF \E m \in new : m.id = l
                     THEN Row(CHOOSE m \in new : m.id = l, FALSE) ELSE @[l]]]
          /\ UNCHANGED <<caller, cur, broken, written>>
      BY <2>1 DEF ReceiveSyncGive, ghosts
    <3> HIDE DEF new
    <3> QED
      BY <1>1, <3>3, <3>4 DEF TypeOK
  <2> QED
    BY <2>1 DEF ReceiveInit, ReceiveChallenge, ReceiveResponse, ReceiveSyncRequest,
         ghosts
<1>6. /\ \A f \in End : f # e => pc'[f] = pc[f] /\ send'[f] = send[f]
      /\ pc'[e] \notin {"off", "ended"}
      /\ send'[e] \in {send[e], "ready"}
      /\ pc'[e] # "chat" => send'[e] = send[e]
  BY <1>1 DEF ReceiveInit, ReceiveChallenge, ReceiveResponse, ReceiveSyncRequest,
       ReceiveSyncGive, TypeOK
<1>7. StageInv'
  <2>1. \A n \in Node, l \in Line : Authored(n, l)' => Authored(n, l)
    BY <1>5 DEF Authored, Stored
  <2>2. \A f \in End : pc[f] = "off" <=> caller[Sess(f)] = None
    BY DEF DeliveryInv, StageInv
  <2>3. \A f \in End :
          /\ pc'[f] = "off" <=> caller'[Sess(f)] = None
          /\ pc'[f] \notin {"chat", "ended"} =>
               pc[f] \notin {"chat", "ended"} /\ send'[f] \in {send[f], "off"}
    BY <1>2, <1>5, <1>6, <2>2
  <2> QED
    BY <1>4, <2>1, <2>3, StageStep
<1>8. \A f \in End : send'[f] = "stored" => cur'[f] \notin written
  BY <1>5, <1>6 DEF DeliveryInv, LiveInv
<1>9. \A f \in End : pc[f] = "ended" => pc'[f] = "ended"
  BY <1>2, <1>6
<1>10. DraftsOnly
  BY <1>5 DEF DraftsOnly, Stored
<1>11. LiveInv' /\ LineInv' /\ NothingDropped'
  BY <1>4, <1>5, <1>8, <1>9, <1>10, UnwrittenStep
<1> QED
  BY <1>7, <1>11 DEF DeliveryInv

\* What is on the way is as the peer stored it.
LEMMA BringsOwn ==
  ASSUME DeliveryInv, NEW f \in End, NEW i \in Nat, NEW l \in Line, Brings(f, i, l)
  PROVE  /\ wire[f][i] \in Packet /\ wire[f][i].chat \in ChatMessage
         /\ wire[f][i].chat.from = Peer(At(f))
         /\ Authored(Peer(At(f)), l)
         /\ db[Peer(At(f))][l].key = Sess(f)
<1>1. wire[f] \in Seq(Speech(Peer(At(f))))
  BY DEF DeliveryInv, PeerInv, WireInv
<1>2. wire[f][i] \in Speech(Peer(At(f))) /\ wire[f][i].type = "Message"
  BY <1>1 DEF Brings
<1>3. wire[f][i] \in Packet /\ Own(Peer(At(f)), wire[f][i].chat)
  BY <1>2 DEF Speech, Carried
<1>4. wire[f][i].chat \in ChatMessage
  BY <1>2, <1>3, PacketFacts
<1>5. wire[f][i].chat.key = Sess(f) /\ wire[f][i].chat.id = l
  BY DEF Brings, DeliveryInv, LiveInv
<1> QED
  BY <1>3, <1>4, <1>5 DEF Own

\* A line is drafted.
LEMMA ComposeDelivery ==
  ASSUME DeliveryInv, PeerInv', RowsKept, Tells,
         NEW e \in End, NEW l \in Line, NEW t \in Time, Compose(e, l, t)
  PROVE  DeliveryInv'
<1>1. /\ TypeOK /\ At(e) \in Node
      /\ \A n \in Node : ~Stored(n, l)
      /\ send[e] = "ready" /\ send' = [send EXCEPT ![e] = "stored"]
      /\ cur' = [cur EXCEPT ![e] = l]
      /\ UNCHANGED <<caller, pc, wire, broken, written>>
  BY EndFacts DEF DeliveryInv, PeerInv, Compose, ghosts
<1>2. Empties({})
  BY <1>1 DEF Empties, TypeOK
<1>3. Offers /\ \A f \in End : Dwindles(f) /\ Carries(f)
  BY <1>2, EmptiesEffect
<1>4. l \notin written
  BY <1>1 DEF DeliveryInv, LineInv
<1>5. \A f \in End : send'[f] = "stored" => cur'[f] \notin written
  BY <1>1, <1>4 DEF DeliveryInv, LiveInv, TypeOK
<1>6. LiveInv' /\ LineInv' /\ NothingDropped'
  <2>1. /\ db' = [db EXCEPT ![At(e)][l] = Draft(e, t)]
        /\ Draft(e, t).from = At(e)
    BY DEF Compose, Draft
  <2>2. DraftsOnly
    <3> SUFFICES ASSUME NEW n \in Node, NEW j \in Line, Stored(n, j)', ~Stored(n, j)
                 PROVE  Authored(n, j)' /\ j \notin written
      BY DEF DraftsOnly
    <3>1. n = At(e) /\ j = l /\ db'[n][j] = Draft(e, t)
      BY <1>1, <2>1 DEF Stored, TypeOK
    <3> QED
      BY <1>4, <2>1, <3>1 DEF Authored
  <2> QED
    BY <1>1, <1>3, <1>5, <2>2, UnwrittenStep
<1>7. pc[e] \in {"chat", "ended"}
  BY <1>1 DEF DeliveryInv, StageInv
<1>8. StageInv'
  <2> SUFFICES ASSUME NEW f \in End, pc'[f] \notin {"chat", "ended"}
               PROVE  /\ send'[f] = "off"
                      /\ \A j \in Line :
                           Authored(At(f), j)' => db'[At(f)][j].key # Sess(f)
    BY <1>1, <1>3 DEF DeliveryInv, StageInv, Offers
  <2>1. f # e /\ send'[f] = "off" /\ At(f) \in Node
    BY <1>1, <1>7, EndFacts DEF DeliveryInv, StageInv, TypeOK
  <2>2. ASSUME NEW j \in Line, Authored(At(f), j)'
        PROVE  db'[At(f)][j].key # Sess(f)
    <3>1. db' = [db EXCEPT ![At(e)][l] = Draft(e, t)]
      BY DEF Compose
    <3>2. CASE At(f) = At(e) /\ j = l
      <4>1. Sess(f) # Sess(e)
        BY <2>1, <3>2, EndFacts
      <4>2. db'[At(f)][j] = Draft(e, t)
        BY <1>1, <3>1, <3>2 DEF TypeOK
      <4> QED
        BY <4>1, <4>2 DEF Draft
    <3>3. CASE At(f) # At(e) \/ j # l
      <4>1. db'[At(f)][j] = db[At(f)][j]
        BY <1>1, <2>1, <3>1, <3>3 DEF TypeOK
      <4> QED
        BY <1>1, <2>2, <4>1 DEF DeliveryInv, StageInv, Authored, Stored
    <3> QED
      BY <3>2, <3>3
  <2> QED
    BY <2>1, <2>2
<1> QED
  BY <1>6, <1>8 DEF DeliveryInv

\* A chat arrives: it is new and of this session.
LEMMA MessageDelivery ==
  ASSUME DeliveryInv, PeerInv', RowsKept, Tells, NEW e \in End, ReceiveMessage(e)
  PROVE  DeliveryInv'
<1> DEFINE n == At(e)
           m == Head(wire[e]).chat
<1>1. /\ TypeOK /\ n \in Node /\ wire[e] \in Seq(Packet) /\ wire[e] # <<>>
      /\ pc[e] = "chat" /\ Head(wire[e]).type = "Message"
      /\ wire' = [wire EXCEPT ![e] = Tail(@)]
      /\ UNCHANGED <<caller, pc, send, cur, broken, written>>
  BY EndFacts DEF DeliveryInv, PeerInv, TypeOK, ReceiveMessage, Reads, Expected,
       Consume, ghosts
<1>2. /\ Head(wire[e]) = wire[e][1] /\ 1 \in DOMAIN wire[e]
      /\ DOMAIN wire[e] = 1..Len(wire[e]) /\ Len(wire[e]) \in Nat
      /\ DOMAIN Tail(wire[e]) = 1..(Len(wire[e]) - 1)
      /\ \A i \in DOMAIN Tail(wire[e]) : Tail(wire[e])[i] = wire[e][i + 1]
  BY <1>1
<1> PICK l : l = m.id
  OBVIOUS
<1>3. l \in Line /\ Brings(e, 1, l)
  <2>1. wire[e][1] \in Packet
    BY <1>1, <1>2
  <2>2. m \in ChatMessage
    BY <1>1, <1>2, <2>1, PacketFacts
  <2> QED
    BY <1>1, <1>2, <2>2 DEF Brings, ChatMessage
<1>4. /\ m.key = Sess(e) /\ l \in written /\ ~Stored(n, l)
      /\ \A j \in Nat : Brings(e, j, l) => j = 1
  BY <1>2, <1>3 DEF DeliveryInv, LiveInv
<1>5. db' = [db EXCEPT ![n][l] = Row(m, FALSE)]
  BY <1>4 DEF ReceiveMessage
<1> HIDE DEF m
<1>6. m \in ChatMessage /\ m.from = Peer(n)
  BY <1>2, <1>3, BringsOwn DEF m
<1> HIDE DEF n
<1>7. Row(m, FALSE) \in StoredMessage /\ Row(m, FALSE).from = Peer(n)
  BY <1>6, RowType
<1>8. Stored(n, l)'
  <2>1. Row(m, FALSE) # None
    BY <1>7, RowAssumption
  <2>2. db'[n][l] = Row(m, FALSE)
    BY <1>1, <1>3, <1>5 DEF TypeOK
  <2> QED
    BY <2>1, <2>2 DEF Stored
<1>9. \A k \in Node, j \in Line : k # n \/ j # l => (Stored(k, j)' <=> Stored(k, j))
  BY <1>1, <1>3, <1>5 DEF TypeOK, Stored
<1>10. \A k \in Node, j \in Line : Authored(k, j)' => Authored(k, j)
  <2> SUFFICES ASSUME NEW k \in Node, NEW j \in Line, Authored(k, j)'
               PROVE  Authored(k, j)
    OBVIOUS
  <2>1. CASE db'[k][j] = db[k][j]
    BY <2>1 DEF Authored, Stored
  <2>2. CASE db'[k][j] # db[k][j]
    <3>1. k = n /\ j = l /\ db'[k][j] = Row(m, FALSE)
      BY <1>1, <1>3, <1>5, <2>2 DEF TypeOK
    <3>2. db'[k][j].from = Peer(n)
      BY <1>7, <3>1
    <3> QED
      BY <3>1, <3>2, PeerFacts DEF Authored
  <2> QED
    BY <2>1, <2>2
<1>11. \A f \in End : wire'[f] = IF f = e THEN Tail(wire[e]) ELSE wire[f]
  BY <1>1 DEF TypeOK
<1>12. /\ DOMAIN wire'[e] = 1..(Len(wire[e]) - 1)
      /\ \A i \in DOMAIN wire'[e] : wire'[e][i] = wire[e][i + 1] /\ i # 0
                                  /\ i + 1 \in DOMAIN wire[e]
  <2>1. wire'[e] = Tail(wire[e])
    BY <1>11
  <2>2. DOMAIN wire'[e] = 1..(Len(wire[e]) - 1)
    BY <1>2, <2>1
  <2> QED
    BY <1>2, <2>1, <2>2
<1>13. \A f \in End, i \in Nat, j \in Line : Brings(f, i, j)' =>
         \E k \in Nat : /\ Brings(f, i + k, j) /\ wire'[f][i] = wire[f][i + k]
                        /\ k = IF f = e THEN 1 ELSE 0
  <2> SUFFICES ASSUME NEW f \in End, NEW i \in Nat, NEW j \in Line, Brings(f, i, j)'
               PROVE  \E k \in Nat : /\ Brings(f, i + k, j) /\ wire'[f][i] = wire[f][i + k]
                                     /\ k = IF f = e THEN 1 ELSE 0
    OBVIOUS
  <2>1. CASE f = e
    <3>1. Brings(f, i + 1, j) /\ wire'[f][i] = wire[f][i + 1]
      BY <1>12, <2>1 DEF Brings
    <3> QED
      BY <2>1, <3>1
  <2>2. CASE f # e
    <3>1. Brings(f, i + 0, j) /\ wire'[f][i] = wire[f][i + 0]
      BY <1>11, <2>2 DEF Brings
    <3> QED
      BY <2>2, <3>1
  <2> QED
    BY <2>1, <2>2
<1>14. LiveInv'
  <2>1. \A f \in End : send'[f] = "stored" => cur'[f] \notin written'
    BY <1>1 DEF DeliveryInv, LiveInv
  <2> SUFFICES ASSUME NEW f \in End, NEW i \in Nat, NEW j \in Line, Brings(f, i, j)'
               PROVE  /\ j \in written
                      /\ ~Stored(At(f), j)'
                      /\ wire'[f][i].chat.key = Sess(f)
                      /\ \A k \in Nat : Brings(f, k, j)' => k = i
    BY <1>1, <2>1 DEF LiveInv
  <2>2. PICK k \in Nat : /\ Brings(f, i + k, j) /\ wire'[f][i] = wire[f][i + k]
                        /\ k = IF f = e THEN 1 ELSE 0
    BY <1>13
  <2>3. i + k \in Nat /\ (f = e => i + k # 1)
    <3>1. f = e => i # 0
      BY <1>12 DEF Brings
    <3> QED
      BY <2>2, <3>1
  <2>4. /\ j \in written /\ ~Stored(At(f), j) /\ wire[f][i + k].chat.key = Sess(f)
        /\ \A q \in Nat : Brings(f, q, j) => q = i + k
    BY <2>2, <2>3 DEF DeliveryInv, LiveInv
  <2>5. ~(At(f) = n /\ j = l)
    <3> SUFFICES ASSUME At(f) = n, j = l PROVE FALSE
      OBVIOUS
    <3>1. db[Peer(n)][l].key = Sess(f) /\ db[Peer(n)][l].key = Sess(e)
      BY <1>3, <2>2, <2>3, BringsOwn DEF n
    <3>2. f = e
      BY <3>1, EndFacts DEF n
    <3> QED
      BY <1>4, <2>2, <2>3, <3>2
  <2>6. \A q \in Nat : Brings(f, q, j)' => q = i
    BY <1>13, <2>2, <2>4
  <2>7. At(f) \in Node
    BY EndFacts
  <2> QED
    BY <1>9, <2>2, <2>4, <2>5, <2>6, <2>7
<1>15. LineInv'
  <2>1. \A j \in written : j \in Line
    BY <1>1 DEF TypeOK
  <2>2. \A j \in written' : \E k \in Node : Stored(k, j)'
    BY <1>1, <2>1 DEF DeliveryInv, LineInv, RowsKept
  <2>3. \A k \in Node, j \in Line : Authored(k, j) => Authored(k, j)'
    BY DEF Authored, Stored, RowsKept
  <2>4. \A k \in Node, j \in Line : Stored(k, j)' => Authored(k, j)' \/ j \in written'
    <3> SUFFICES ASSUME NEW k \in Node, NEW j \in Line, Stored(k, j)', j \notin written
                 PROVE  Authored(k, j)'
      BY <1>1
    <3>1. Stored(k, j)
      BY <1>4, <1>9
    <3> QED
      BY <2>3, <3>1 DEF DeliveryInv, LineInv
  <2> QED
    BY <2>2, <2>4, OneAuthorStays DEF LineInv
<1>16. NothingDropped'
  <2> SUFFICES ASSUME NEW f \in End, NEW j \in written,
                      Sess(f) \notin broken, pc[Far(f)] # "ended",
                      Authored(At(f), j)', db'[At(f)][j].key = Sess(f)
               PROVE  OnTheWay(Far(f), j)' \/ Stored(At(Far(f)), j)'
    BY <1>1 DEF NothingDropped, Authored
  <2>1. /\ Far(f) \in End /\ j \in Line /\ At(f) \in Node /\ At(Far(f)) \in Node
    BY <1>1, EndFacts DEF TypeOK
  <2>2. Authored(At(f), j) /\ db[At(f)][j].key = Sess(f)
    BY <2>1, WrittenIsAuthored
  <2>3. OnTheWay(Far(f), j) \/ Stored(At(Far(f)), j)
    BY <2>2 DEF DeliveryInv, NothingDropped, Authored
  <2>4. CASE Stored(At(Far(f)), j)
    BY <2>1, <2>4 DEF RowsKept
  <2>5. CASE OnTheWay(Far(f), j) /\ Far(f) # e
    BY <1>11, <2>1, <2>5 DEF OnTheWay
  <2>6. CASE OnTheWay(Far(f), j) /\ Far(f) = e
    <3>1. PICK i \in DOMAIN wire[e] :
                 wire[e][i].type = "Message" /\ wire[e][i].chat.id = j
      BY <2>6 DEF OnTheWay
    <3>2. CASE i = 1
      <4>1. j = l
        BY <1>3, <3>1, <3>2 DEF Brings
      <4> QED
        BY <1>8, <2>6, <4>1 DEF n
    <3>3. CASE i # 1
      <4>1. i - 1 \in DOMAIN Tail(wire[e]) /\ Tail(wire[e])[i - 1] = wire[e][i]
        BY <1>2, <3>1, <3>3
      <4> QED
        BY <1>11, <2>6, <3>1, <4>1 DEF OnTheWay
    <3> QED
      BY <3>2, <3>3
  <2> QED
    BY <2>3, <2>4, <2>5, <2>6
<1>17. StageInv'
  <2>1. Offers
    BY <1>12, <1>11 DEF Offers, DeliveryInv, StageInv
  <2>2. \A f \in End : pc[f] = "off" <=> caller[Sess(f)] = None
    BY DEF DeliveryInv, StageInv
  <2> QED
    BY <1>1, <1>10, <2>1, <2>2, StageStep
<1> QED
  BY <1>14, <1>15, <1>16, <1>17 DEF DeliveryInv

\* A line is written, for the first time.
LEMMA TransmitDelivery ==
  ASSUME DeliveryInv, PeerInv', RowsKept, Tells, NEW e \in End, Transmit(e)
  PROVE  DeliveryInv'
<1> DEFINE n == At(e)
           x == Far(e)
           msg == Message(Chat(At(e), cur[e]))
<1>1. /\ TypeOK /\ n \in Node /\ x \in End /\ x # e /\ Sess(x) = Sess(e) /\ Far(x) = e
      /\ wire[x] \in Seq(Packet)
      /\ send[e] = "stored" /\ send' = [send EXCEPT ![e] = "written"]
      /\ written' = written \cup {cur[e]}
      /\ UNCHANGED <<db, caller, pc, cur, broken>>
  BY EndFacts DEF DeliveryInv, PeerInv, TypeOK, Transmit
<1> PICK l : l = cur[e]
  OBVIOUS
<1>2. /\ l \in Line /\ Authored(n, l) /\ db[n][l].key = Sess(e)
      /\ l \notin written
  BY <1>1 DEF DeliveryInv, PeerInv, SendInv, LiveInv, Authored
<1>3. /\ msg.type = "Message" /\ msg.chat.id = l /\ msg.chat.key = Sess(e)
  BY <1>2 DEF Message, Chat
<1>4. \/ Connected(e) /\ wire' = [wire EXCEPT ![x] = Append(wire[x], msg)]
      \/ ~Connected(e) /\ wire' = wire
  BY DEF Transmit, Write
<1>5. pc[e] \in {"chat", "ended"} /\ pc[x] # "off"
  BY <1>1 DEF DeliveryInv, StageInv
<1> HIDE DEF n, x, msg
<1>6. \A f \in End : f # x => wire'[f] = wire[f]
  BY <1>1, <1>4 DEF TypeOK
<1>7. /\ Len(wire[x]) \in Nat /\ DOMAIN wire[x] = 1..Len(wire[x])
      /\ \A i \in DOMAIN wire[x] : i \in DOMAIN wire'[x] /\ wire'[x][i] = wire[x][i]
      /\ \A i \in DOMAIN wire'[x] :
           i \in Nat /\ (i \in DOMAIN wire[x] \/ (i = Len(wire[x]) + 1 /\ wire'[x][i] = msg))
      /\ Connected(e) => /\ Len(wire[x]) + 1 \in DOMAIN wire'[x]
                        /\ wire'[x][Len(wire[x]) + 1] = msg
  <2>1. CASE Connected(e)
    <3>1. wire'[x] = Append(wire[x], msg)
      BY <1>1, <1>4, <2>1 DEF TypeOK
    <3>2. /\ DOMAIN wire'[x] = 1..(Len(wire[x]) + 1)
          /\ Len(wire[x]) \in Nat /\ DOMAIN wire[x] = 1..Len(wire[x])
          /\ wire'[x][Len(wire[x]) + 1] = msg
          /\ \A i \in DOMAIN wire[x] : wire'[x][i] = wire[x][i]
      BY <1>1, <3>1
    <3> QED
      BY <3>2
  <2>2. CASE ~Connected(e)
    BY <1>1, <1>4, <2>2
  <2> QED
    BY <2>1, <2>2
<1>8. \A f \in End, i \in Nat, j \in Line : Brings(f, i, j)' =>
        \/ Brings(f, i, j) /\ wire'[f][i] = wire[f][i]
        \/ f = x /\ i = Len(wire[x]) + 1 /\ wire'[f][i] = msg /\ j = l
  <2> SUFFICES ASSUME NEW f \in End, NEW i \in Nat, NEW j \in Line, Brings(f, i, j)'
               PROVE  \/ Brings(f, i, j) /\ wire'[f][i] = wire[f][i]
                      \/ f = x /\ i = Len(wire[x]) + 1 /\ wire'[f][i] = msg /\ j = l
    OBVIOUS
  <2>1. CASE f = x
    BY <1>3, <1>7, <2>1 DEF Brings
  <2>2. CASE f # x
    BY <1>6, <2>2 DEF Brings
  <2> QED
    BY <2>1, <2>2
<1>9. \A f \in End, i \in Nat : ~Brings(f, i, l)
  BY <1>2 DEF DeliveryInv, LiveInv
<1>10. ~Stored(At(x), l)
  <2>1. At(x) \in Node /\ At(x) = Peer(n)
    BY <1>1, EndFacts DEF n, x
  <2> QED
    BY <1>1, <1>2, <2>1 DEF DeliveryInv, LineInv
<1>11. LiveInv'
  <2>1. ASSUME NEW f \in End, send'[f] = "stored"
        PROVE  cur'[f] \notin written'
    <3>1. f # e /\ send[f] = "stored" /\ At(f) \in Node /\ n \in Node
      BY <1>1, <2>1, EndFacts DEF TypeOK
    <3>2. /\ cur[f] \in Line /\ Authored(At(f), cur[f])
          /\ db[At(f)][cur[f]].key = Sess(f) /\ cur[f] \notin written
      BY <3>1 DEF DeliveryInv, PeerInv, SendInv, LiveInv, Authored
    <3>3. cur[f] # l
      <4> SUFFICES ASSUME cur[f] = l PROVE FALSE
        OBVIOUS
      <4>1. At(f) = n
        BY <1>2, <3>1, <3>2, PeerFacts DEF DeliveryInv, LineInv
      <4>2. Sess(f) = Sess(e)
        BY <1>2, <3>2, <4>1
      <4> QED
        BY <3>1, <4>1, <4>2, EndFacts DEF n
    <3> QED
      BY <1>1, <3>2, <3>3
  <2> SUFFICES ASSUME NEW f \in End, NEW i \in Nat, NEW j \in Line, Brings(f, i, j)'
               PROVE  /\ j \in written'
                      /\ ~Stored(At(f), j)'
                      /\ wire'[f][i].chat.key = Sess(f)
                      /\ \A k \in Nat : Brings(f, k, j)' => k = i
    BY <2>1 DEF LiveInv
  <2>2. Stored(At(f), j)' <=> Stored(At(f), j)
    BY <1>1 DEF Stored
  <2>3. CASE j = l
    <3>1. f = x /\ i = Len(wire[x]) + 1 /\ wire'[f][i] = msg
      BY <1>8, <1>9, <2>3
    <3>2. \A k \in Nat : Brings(f, k, j)' => k = i
      BY <1>8, <1>9, <2>3, <3>1
    <3> QED
      BY <1>1, <1>3, <1>10, <2>2, <2>3, <3>1, <3>2
  <2>4. CASE j # l
    <3>1. Brings(f, i, j) /\ wire'[f][i] = wire[f][i]
      BY <1>8, <2>4
    <3>2. \A k \in Nat : Brings(f, k, j)' => Brings(f, k, j)
      BY <1>8, <2>4
    <3> QED
      BY <1>1, <2>2, <3>1, <3>2 DEF DeliveryInv, LiveInv
  <2> QED
    BY <2>3, <2>4
<1>12. LineInv'
  <2>1. \A k \in Node, j \in Line : Stored(k, j)' <=> Stored(k, j)
    BY <1>1 DEF Stored
  <2>2. \A j \in written : j \in Line
    BY <1>1 DEF TypeOK
  <2>3. \A j \in written' : \E k \in Node : Stored(k, j)'
    BY <1>1, <1>2, <2>1, <2>2 DEF DeliveryInv, LineInv, Authored
  <2>4. \A k \in Node, j \in Line : Authored(k, j)' <=> Authored(k, j)
    BY <1>1 DEF Authored, Stored
  <2> QED
    BY <1>1, <2>1, <2>3, <2>4, OneAuthorStays DEF DeliveryInv, LineInv
<1>13. NothingDropped'
  <2> SUFFICES ASSUME NEW f \in End, NEW j \in written',
                      Sess(f) \notin broken, pc[Far(f)] # "ended",
                      Authored(At(f), j), db[At(f)][j].key = Sess(f)
               PROVE  OnTheWay(Far(f), j)' \/ Stored(At(Far(f)), j)
    BY <1>1 DEF NothingDropped, Authored, Stored
  <2>1. Far(f) \in End /\ At(f) \in Node
    BY EndFacts
  <2>2. CASE j = l
    <3>1. At(f) = n
      BY <1>1, <1>2, <2>1, <2>2, PeerFacts DEF DeliveryInv, LineInv
    <3>2. f = e
      BY <1>2, <2>2, <3>1, EndFacts DEF n
    <3>3. Connected(e)
      BY <1>5, <3>2 DEF Connected, Holds, x
    <3>4. \E i \in DOMAIN wire'[x] :
            wire'[x][i].type = "Message" /\ wire'[x][i].chat.id = l
      BY <1>3, <1>7, <3>3
    <3> QED
      BY <2>2, <3>2, <3>4 DEF OnTheWay, x
  <2>3. CASE j # l
    <3>1. j \in written
      BY <1>1, <2>3
    <3>2. OnTheWay(Far(f), j) \/ Stored(At(Far(f)), j)
      BY <3>1 DEF DeliveryInv, NothingDropped, Authored
    <3>3. OnTheWay(Far(f), j) => OnTheWay(Far(f), j)'
      BY <1>6, <1>7, <2>1 DEF OnTheWay
    <3> QED
      BY <3>2, <3>3
  <2> QED
    BY <2>2, <2>3
<1>14. StageInv'
  <2>1. Offers
    <3> SUFFICES ASSUME NEW f \in End, NEW i \in DOMAIN wire'[f],
                        wire'[f][i].type = "SyncGive"
                 PROVE  \A m \in wire'[f][i].chats : m.key # Sess(f)
      BY DEF Offers
    <3>1. i \in DOMAIN wire[f] /\ wire'[f][i] = wire[f][i]
      BY <1>3, <1>6, <1>7
    <3> QED
      BY <3>1 DEF DeliveryInv, StageInv
  <2>2. \A k \in Node, j \in Line : Authored(k, j)' => Authored(k, j)
    BY <1>1 DEF Authored, Stored
  <2>3. \A f \in End : pc[f] = "off" <=> caller[Sess(f)] = None
    BY DEF DeliveryInv, StageInv
  <2>4. \A f \in End : pc[f] \notin {"chat", "ended"} => send'[f] = send[f]
    BY <1>1, <1>5 DEF TypeOK
  <2> QED
    BY <1>1, <2>1, <2>2, <2>3, <2>4, StageStep
<1> QED
  BY <1>11, <1>12, <1>13, <1>14 DEF DeliveryInv

-----------------------------------------------------------------------------
(* The theorems *)

\* Every step keeps the invariant.
LEMMA DeliveryStep ==
  ASSUME DeliveryInv, [Next]_vars
  PROVE  DeliveryInv'
<1>1. PeerInv' /\ RowsKept /\ Tells
  BY PeerStep DEF DeliveryInv
<1>2. CASE UNCHANGED vars
  <2>1. UNCHANGED <<db, caller, pc, send, cur, wire, broken, written>>
    BY <1>2 DEF vars, ghosts
  <2>2. Empties({})
    BY <2>1 DEF Empties, DeliveryInv, PeerInv, TypeOK
  <2>3. \A n \in Node, l \in Line : /\ Authored(n, l)' => Authored(n, l)
                                    /\ Stored(n, l)' => Stored(n, l)
    BY <2>1 DEF Authored, Stored
  <2> QED
    BY <1>1, <2>1, <2>2, <2>3, IdleDelivery
<1>3. ASSUME NEW e \in End, Read(e) PROVE DeliveryInv'
  <2>1. CASE ReceiveMessage(e)
    BY <1>1, <2>1, MessageDelivery
  <2>2. CASE \/ ReceiveInit(e) \/ ReceiveChallenge(e) \/ ReceiveResponse(e)
             \/ ReceiveSyncRequest(e) \/ ReceiveSyncGive(e)
    BY <1>1, <2>2, ExchangeDelivery
  <2>3. CASE Given(e) \/ ReadFails(e) \/ ReadRefused(e)
    BY <1>1, <2>3, EndDelivery
  <2> QED
    BY <1>3, <2>1, <2>2, <2>3 DEF Read
<1>4. ASSUME NEW e \in End, Sending(e) PROVE DeliveryInv'
  BY <1>1, <1>4, TransmitDelivery, EndDelivery, MarkDelivery DEF Sending
<1>5. ASSUME Next PROVE DeliveryInv'
  BY <1>1, <1>3, <1>4, <1>5, ConnectDelivery, ComposeDelivery, EndDelivery DEF Next
<1> QED
  BY <1>2, <1>5

\* It holds at the start.
LEMMA DeliveryInit ==
  ASSUME Init
  PROVE  DeliveryInv
<1>1. PeerInv
  BY PeerInit
<1>2. \A e \in End : Sess(e) \in Session /\ At(e) \in Node
  BY EndFacts
<1>3. StageInv
  BY <1>2 DEF Init, StageInv, Authored, Stored
<1>4. LiveInv
  BY DEF Init, LiveInv, Brings
<1>5. LineInv /\ NothingDropped
  BY DEF Init, LineInv, NothingDropped, Authored, Stored
<1> QED
  BY <1>1, <1>3, <1>4, <1>5 DEF DeliveryInv

\* The invariant of delivery.
LEMMA DeliveryInvHolds == Spec => []DeliveryInv
<1>1. Init => DeliveryInv
  BY DeliveryInit
<1>2. DeliveryInv /\ [Next]_vars => DeliveryInv'
  BY DeliveryStep
<1> QED
  BY <1>1, <1>2, PTL DEF Spec

\* Whatever sessions a pair of diddys has open at once, a line comes as new once:
\* what the receive task is about to display is not in the store yet and comes no
\* second time (do_sync skips what is stored, messaging_loop does not).
THEOREM LinesArriveAsNew == Spec => []ArrivesAsNew
<1>1. DeliveryInv => ArrivesAsNew
  <2> SUFFICES ASSUME DeliveryInv, NEW e \in End, NEW l \in Line,
                      NEW i \in DOMAIN wire[e], Delivers(wire[e][i], Sess(e), l)
               PROVE  /\ ~Stored(At(e), l)
                      /\ \A j \in DOMAIN wire[e] :
                           Delivers(wire[e][j], Sess(e), l) => j = i
    BY DEF ArrivesAsNew
  <2>1. wire[e] \in Seq(Packet)
    BY DEF DeliveryInv, PeerInv, TypeOK
  <2>2. DOMAIN wire[e] \subseteq Nat
    BY <2>1
  <2>3. \A j \in DOMAIN wire[e] :
          Delivers(wire[e][j], Sess(e), l) => j \in Nat /\ Brings(e, j, l)
    BY <2>2 DEF Delivers, Brings
  <2> QED
    BY <2>3 DEF DeliveryInv, LiveInv
<1> QED
  BY <1>1, DeliveryInvHolds, PTL

\* While a connection holds and its reader has not ended, every line written to
\* it is on the way or stored, also through the handshake and do_sync.
THEOREM NoLineDropped == Spec => []NothingDropped
<1>1. DeliveryInv => NothingDropped
  BY DEF DeliveryInv
<1> QED
  BY <1>1, DeliveryInvHolds, PTL

\* A chat on offer was sealed under the key of an earlier session, so do_sync
\* opens none of them: whatever was missed stays missed (the cause of the
\* counterexample to QueuedIsSynced, here for every number of sessions).
THEOREM SyncOpensNothing ==
  Spec => [](\A e \in End : \A i \in DOMAIN wire[e] :
               wire[e][i].type = "SyncGive" =>
                 Fresh(At(e), wire[e][i].chats, Sess(e)) = {})
<1>1. DeliveryInv =>
        \A e \in End : \A i \in DOMAIN wire[e] : wire[e][i].type = "SyncGive" =>
          Fresh(At(e), wire[e][i].chats, Sess(e)) = {}
  BY DEF DeliveryInv, StageInv, Fresh
<1> QED
  BY <1>1, DeliveryInvHolds, PTL

=============================================================================
