---------------------------- MODULE MCDavidQueue ----------------------------
(* Instances of DavidQueue for TLC. *)
EXTENDS DavidQueue, TLC

CONSTANTS c1, c2

TwoConsumers == {c1, c2}

ConsumerSymmetry == Permutations(Consumers)
=============================================================================
