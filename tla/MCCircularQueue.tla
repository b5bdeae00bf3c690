-------------------------- MODULE MCCircularQueue --------------------------
(* Instances of CircularQueue for TLC. *)
EXTENDS CircularQueue

CONSTANTS c1, c2

TwoConsumers == {c1, c2}

Ones == {1}
OneOrTwo == {1, 2}
=============================================================================
