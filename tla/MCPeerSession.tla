--------------------------- MODULE MCPeerSession ---------------------------
(* Symmetry for the runs of PeerSession: the two nodes run the same code. *)
EXTENDS PeerSession, TLC

Symmetry == Permutations(Node) \cup Permutations(Session) \cup Permutations(Line)

=============================================================================
