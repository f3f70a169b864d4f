------------------------------ MODULE MCServer ------------------------------
(* Model values and symmetry for the runs of Server. *)
EXTENDS Server, TLC

\* Identities, connections and channels are interchangeable in Server.
Symmetry == Permutations(Diddy) \cup Permutations(Conn) \cup Permutations(Chan)

=============================================================================
