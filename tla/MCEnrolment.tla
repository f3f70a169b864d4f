---------------------------- MODULE MCEnrolment ----------------------------
(* Identity files and symmetry for the runs of Enrolment. *)
EXTENDS Enrolment, TLC

CONSTANTS p1, p2, p3, f1, f2

\* One client with a file of its own, two that are started on one file.
SomeShare == p1 :> f1 @@ p2 :> f2 @@ p3 :> f2

\* Key pairs are interchangeable.
Symmetry == Permutations(Key) \cup Permutations(ServerKey)

=============================================================================
