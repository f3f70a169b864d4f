---------------------------- MODULE MCDiscovery ----------------------------
(* Symmetry for the safety run of Discovery. *)
EXTENDS Discovery, TLC

Symmetry == Permutations(Member) \cup Permutations(Line) \cup Permutations(Host)

=============================================================================
