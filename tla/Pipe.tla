-------------------------------- MODULE Pipe --------------------------------
(***************************************************************************)
(* What one direction of a connection promises the modules that put whole  *)
(* messages on it: they are received whole, once each and in the order in  *)
(* which they were sent, up to a point after which nothing is received.    *)
(***************************************************************************)
EXTENDS Naturals, Sequences

CONSTANT Msg

VARIABLES
  sent,     \* messages put on the connection
  received  \* messages taken off it

Init == sent = <<>> /\ received = <<>>

Send == \E m \in Msg : sent' = Append(sent, m) /\ UNCHANGED received

Receive ==
  /\ Len(received) < Len(sent)
  /\ received' = Append(received, sent[Len(received) + 1])
  /\ UNCHANGED sent

Spec == Init /\ [][Send \/ Receive]_<<sent, received>>

=============================================================================
