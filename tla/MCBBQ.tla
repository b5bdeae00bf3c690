------------------------------- MODULE MCBBQ -------------------------------
(* An instance of BBQ for TLC. *)
EXTENDS BBQ

CONSTANTS c1, c2

TwoConsumers == {c1, c2}
=============================================================================
