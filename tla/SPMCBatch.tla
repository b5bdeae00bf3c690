----------------------------- MODULE SPMCBatch -----------------------------
(***************************************************************************)
(* The promise of SPMCBag for the queues that move several items in one    *)
(* call: at most MaxBatch items are put or taken at once.  An item is      *)
(* still handed to at most one consumer, after it was put, and a consumer  *)
(* receives its items in the order in which they were put.                 *)
(***************************************************************************)
EXTENDS Integers, Sequences, SequencesExt

CONSTANTS Consumers, MaxBatch

VARIABLES put,   \* number of items put so far; the items are 0 .. put - 1
          got    \* got[c]: the items handed to consumer c, oldest first

batchVars == <<put, got>>

Handed(i) == \E c \in Consumers : \E n \in DOMAIN got[c] : got[c][n] = i

Ascending(items) == \A m, n \in DOMAIN items : m < n => items[m] < items[n]

Init == /\ put = 0
        /\ got = [c \in Consumers |-> <<>>]

Put == /\ put' \in put + 1 .. put + MaxBatch
       /\ UNCHANGED got

\* Consumer c receives some of the MaxBatch items from the first-th on.
Take(c, first) ==
  /\ \A n \in DOMAIN got[c] : got[c][n] < first
  /\ \E items \in SeqOf((first .. first + MaxBatch - 1) \cap (0 .. put - 1), MaxBatch) :
       /\ items # <<>>
       /\ Ascending(items)
       /\ \A n \in DOMAIN items : ~Handed(items[n])
       /\ got' = [got EXCEPT ![c] = @ \o items]
  /\ UNCHANGED put

Next == Put \/ \E c \in Consumers, first \in 0 .. put - 1 : Take(c, first)

Spec == Init /\ [][Next]_batchVars
=============================================================================
