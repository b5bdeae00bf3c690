------------------------------ MODULE MCBdFFQ ------------------------------
(* Instances of BdFFQ for TLC. *)
EXTENDS BdFFQ

CONSTANTS c1, c2

TwoConsumers == {c1, c2}
=============================================================================
