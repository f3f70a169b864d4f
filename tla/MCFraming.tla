----------------------------- MODULE MCFraming -----------------------------
(* Sizes for the runs of Framing. *)
EXTENDS Framing, TLC

CONSTANTS short, long, over

\* Bodies under, at and over a limit of two.
Sizes == short :> 1 @@ long :> 2 @@ over :> 3

=============================================================================
