---------------------------- MODULE Switchboard ----------------------------
(***************************************************************************)
(* What the authority server promises about relayed packets, however it    *)
(* keeps them: a packet is accepted from a diddy that logged in, it is     *)
(* written at most once, and only on a connection on which the diddy it is *)
(* addressed to logged in.  It may be lost at any time; nothing is stored  *)
(* for later.                                                              *)
(***************************************************************************)
CONSTANTS
  Diddy,   \* users
  Conn,    \* connections
  Number   \* what tells packets apart

VARIABLES
  users,   \* diddys that logged in on a connection
  spent,   \* numbers of the packets the server has taken up
  transit, \* packets accepted and not yet written
  wire     \* packets written on a connection and not yet read

vars == <<users, spent, transit, wire>>

Packet == [from : Diddy, to : Diddy, n : Number]

Init ==
  /\ users = [c \in Conn |-> {}]
  /\ spent = {}
  /\ transit = {}
  /\ wire = [c \in Conn |-> {}]

Login(c, d) ==
  /\ users' = [users EXCEPT ![c] = @ \cup {d}]
  /\ UNCHANGED <<spent, transit, wire>>

Accept(c, p) ==
  /\ p.from \in users[c]
  /\ p.n \notin spent
  /\ spent' = spent \cup {p.n}
  /\ transit' = transit \cup {p}
  /\ UNCHANGED <<users, wire>>

Write(p, c) ==
  /\ p \in transit
  /\ p.to \in users[c]
  /\ transit' = transit \ {p}
  /\ wire' = [wire EXCEPT ![c] = @ \cup {p}]
  /\ UNCHANGED <<users, spent>>

\* Packets are read, or lost, or refused: with a channel, a connection or the
\* whole server.
Take ==
  /\ UNCHANGED users
  /\ spent \subseteq spent'
  /\ transit' \subseteq transit
  /\ \A c \in Conn : wire'[c] \subseteq wire[c]
  /\ wire' \in [Conn -> SUBSET Packet]

Next ==
  \/ Take
  \/ \E c \in Conn, d \in Diddy : Login(c, d)
  \/ \E c \in Conn : \E p \in transit : Write(p, c)
  \/ \E c \in Conn : \E p \in Packet : Accept(c, p)

Spec == Init /\ [][Next]_vars

=============================================================================
