------------------------------ MODULE SPMCFifo ------------------------------
(***************************************************************************)
(* The queue a caller of a FIFO implementation expects: consumers take     *)
(* runs of consecutive items from the front, in the order in which the     *)
(* producer put them, across all consumers, and at most Capacity items are *)
(* in the queue.                                                           *)
(***************************************************************************)
EXTENDS Integers, Sequences

CONSTANTS Consumers, Capacity

VARIABLES put,    \* number of items put so far; the items are 0 .. put - 1
          taken,  \* number of items taken so far; the front item is taken
          got     \* got[c]: the items handed to consumer c, oldest first

fifoVars == <<put, taken, got>>

Init == /\ put = 0
        /\ taken = 0
        /\ got = [c \in Consumers |-> <<>>]

Put == /\ put - taken < Capacity
       /\ put' = put + 1
       /\ UNCHANGED <<taken, got>>

\* Consumer c takes the k items at the front in one step.
Take(c, k) == /\ taken + k =< put
              /\ taken' = taken + k
              /\ got' = [got EXCEPT ![c] = @ \o [j \in 1 .. k |-> taken + j - 1]]
              /\ UNCHANGED put

Next == \/ Put
        \/ \E c \in Consumers, k \in 1 .. Capacity : Take(c, k)

Spec == Init /\ [][Next]_fifoVars
=============================================================================
