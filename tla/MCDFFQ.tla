------------------------------- MODULE MCDFFQ -------------------------------
(* Instances of DFFQ for TLC. *)
EXTENDS DFFQ

CONSTANTS c1, c2

TwoConsumers == {c1, c2}
=============================================================================
