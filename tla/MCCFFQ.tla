------------------------------- MODULE MCCFFQ -------------------------------
(* Instances of CFFQ for TLC. *)
EXTENDS CFFQ

CONSTANTS c1, c2

TwoConsumers == {c1, c2}
=============================================================================
