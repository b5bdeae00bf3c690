------------------------------ MODULE MCNbdFFQ ------------------------------
(* Instances of NbdFFQ for TLC. *)
EXTENDS NbdFFQ

CONSTANTS c1, c2

TwoConsumers == {c1, c2}
=============================================================================
