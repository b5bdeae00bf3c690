------------------------------ MODULE SPMCBag ------------------------------
(***************************************************************************)
(* What every queue of the repository promises at the very least: one      *)
(* producer puts items in, each item is handed to at most one consumer,    *)
(* nothing is handed out that was not put in, and one consumer never       *)
(* receives an older item after a younger one.  Items are named by the     *)
(* order in which the producer put them: 0, 1, 2, ...                      *)
(***************************************************************************)
EXTENDS Integers, Sequences

CONSTANT Consumers

VARIABLES put,   \* number of items put so far; the items are 0 .. put - 1
          got    \* got[c]: the items handed to consumer c, oldest first

bagVars == <<put, got>>

Handed(i) == \E c \in Consumers : \E n \in DOMAIN got[c] : got[c][n] = i

Init == /\ put = 0
        /\ got = [c \in Consumers |-> <<>>]

Put == /\ put' = put + 1
       /\ UNCHANGED got

\* Consumer c receives item i, which nobody received before and which is
\* younger than everything c received before.
Take(c, i) == /\ i \in 0 .. put - 1
              /\ ~Handed(i)
              /\ \A n \in DOMAIN got[c] : got[c][n] < i
              /\ got' = [got EXCEPT ![c] = Append(@, i)]
              /\ UNCHANGED put

Next == \/ Put
        \/ \E c \in Consumers, i \in 0 .. put - 1 : Take(c, i)

Spec == Init /\ [][Next]_bagVars
=============================================================================
