----------------------------- MODULE ChatHistory -----------------------------
(***************************************************************************)
(* What two peers' message stores promise, whatever connects and breaks    *)
(* between them: a message is kept by its author before anyone else has it, *)
(* nobody has a message the other did not write, and nothing that was kept *)
(* is ever lost or changes its author.                                     *)
(***************************************************************************)
CONSTANTS Node, Line

VARIABLES
  wrote,     \* the lines a node keeps as its own
  kept       \* the lines in a node's store

Init ==
  /\ wrote = [n \in Node |-> {}]
  /\ kept = [n \in Node |-> {}]

Write(n, l) ==
  /\ \A m \in Node : l \notin kept[m]
  /\ wrote' = [wrote EXCEPT ![n] = @ \cup {l}]
  /\ kept' = [kept EXCEPT ![n] = @ \cup {l}]

\* A live message brings one line, a synchronisation any number.
Receive(n, m) ==
  /\ UNCHANGED wrote
  /\ \E ls \in SUBSET wrote[m] : kept' = [kept EXCEPT ![n] = @ \cup ls]

Next == \E n \in Node :
          \/ \E m \in Node \ {n} : Receive(n, m)
          \/ \E l \in Line : Write(n, l)

Spec == Init /\ [][Next]_<<wrote, kept>>

=============================================================================
