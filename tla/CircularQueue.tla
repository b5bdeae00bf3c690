---------------------------- MODULE CircularQueue ----------------------------
(***************************************************************************)
(* spmc_CircularQueue/src/spmc_queue.c.  A ring of Size ints and four      *)
(* counters at rank 0, reached by MPI RMA.  head and tail hand out         *)
(* positions by fetch-and-add, and give them back when the ring is empty   *)
(* or full; reserved_head and reserved_tail say which positions are        *)
(* finished, and are advanced in order by compare-and-swap.                *)
(*                                                                         *)
(* Every RMA wrapper of mpi_lib flushes before it returns, so each step    *)
(* below is one RMA call with the local code up to the next one.           *)
(***************************************************************************)
EXTENDS Integers, Sequences, FiniteSets

CONSTANTS Consumers,   \* ranks 1 .. n
          Size,        \* queue->size
          Counts,      \* the max_count arguments of the dequeue calls
          MaxItems     \* bound: the producer stops after MaxItems accepted items

ASSUME ConsumersAssumption == IsFiniteSet(Consumers)
ASSUME SizeAssumption == Size \in Nat \ {0}
\* Callers ask for get_batch_size() items, that is 1.
ASSUME CountsAssumption == Counts \subseteq 1 .. Size
ASSUME MaxItemsAssumption == MaxItems \in Nat

VARIABLES
  data, tail, head, reserved_tail, reserved_head,  \* the five windows
  head_buf,     \* the producer's cached reserved_head
  tail_buf,     \* tail_buf[c]: consumer c's cached reserved_tail
  ppc, pold,    \* the producer's next step, its old_tail
  cpc, old, count, out,  \* per consumer: next step, old_head, count, out_data
  accepted,     \* history: enqueue calls that returned MPI_SUCCESS
  got           \* history: the items each consumer's dequeue calls returned

shared == <<data, tail, head, reserved_tail, reserved_head>>
producer == <<head_buf, ppc, pold, accepted>>
consumer == <<tail_buf, cpc, old, count, out, got>>
vars == <<shared, producer, consumer>>

Slots == 0 .. Size - 1
Slot(i) == i % Size

\* The n-th accepted item carries the number n - 1 as its value.
Init == /\ data = [s \in Slots |-> 0]
        /\ tail = 0 /\ head = 0
        /\ reserved_tail = 0 /\ reserved_head = 0
        /\ head_buf = 0
        /\ tail_buf = [c \in Consumers |-> 0]
        /\ ppc = "idle" /\ pold = 0
        /\ cpc = [c \in Consumers |-> "idle"]
        /\ old = [c \in Consumers |-> 0]
        /\ count = [c \in Consumers |-> 0]
        /\ out = [c \in Consumers |-> <<>>]
        /\ accepted = 0
        /\ got = [c \in Consumers |-> <<>>]
-----------------------------------------------------------------------------
(* spmc_queue_enqueue *)

\* Variant: one slot too many is taken for free.
FullOffByOne(i, h) == i - h > Size

\* The item at position i does not fit while reserved_head is at h.
Full(i, h) == i + 1 - h > Size

\* fetch-and-add on tail, then the check against the cached reserved_head
EnqReserve == /\ ppc = "idle"
              /\ accepted < MaxItems
              /\ pold' = tail
              /\ tail' = tail + 1
              /\ ppc' = IF Full(tail, head_buf) THEN "refresh" ELSE "put"
              /\ UNCHANGED <<data, head, reserved_tail, reserved_head,
                             head_buf, accepted, consumer>>

EnqRefresh == /\ ppc = "refresh"
              /\ head_buf' = reserved_head
              /\ ppc' = IF Full(pold, reserved_head) THEN "rollback" ELSE "put"
              /\ UNCHANGED <<shared, pold, accepted, consumer>>

\* The queue is full: give the position back and return -1.
EnqRollback == /\ ppc = "rollback"
               /\ pold' = tail
               /\ tail' = tail - 1
               /\ ppc' = "idle"
               /\ UNCHANGED <<data, head, reserved_tail, reserved_head,
                              head_buf, accepted, consumer>>

EnqPut == /\ ppc = "put"
          /\ data' = [data EXCEPT ![Slot(pold)] = accepted]
          /\ ppc' = "commit"
          /\ UNCHANGED <<tail, head, reserved_tail, reserved_head,
                         head_buf, pold, accepted, consumer>>

\* compare-and-swap on reserved_tail; a failed one backs off and retries,
\* which changes nothing here
EnqCommit == /\ ppc = "commit"
             /\ reserved_tail = pold
             /\ reserved_tail' = pold + 1
             /\ accepted' = accepted + 1
             /\ ppc' = "idle"
             /\ UNCHANGED <<data, tail, head, reserved_head,
                            head_buf, pold, consumer>>

Producer == EnqReserve \/ EnqRefresh \/ EnqRollback \/ EnqPut \/ EnqCommit
-----------------------------------------------------------------------------
(* spmc_queue_dequeue *)

\* Fewer than the reserved items are committed when reserved_tail is at t.
Short(i, k, t) == i + k > t

DeqReserve(c) ==
  /\ cpc[c] = "idle"
  /\ \E k \in Counts :
       /\ count' = [count EXCEPT ![c] = k]
       /\ head' = head + k
       /\ cpc' = [cpc EXCEPT ![c] =
                    IF Short(head, k, tail_buf[c]) THEN "refresh" ELSE "get"]
  /\ old' = [old EXCEPT ![c] = head]
  /\ out' = [out EXCEPT ![c] = <<>>]
  /\ UNCHANGED <<data, tail, reserved_tail, reserved_head, producer,
                 tail_buf, got>>

DeqRefresh(c) ==
  /\ cpc[c] = "refresh"
  /\ tail_buf' = [tail_buf EXCEPT ![c] = reserved_tail]
  /\ cpc' = [cpc EXCEPT ![c] =
               IF Short(old[c], count[c], reserved_tail) THEN "rollback" ELSE "get"]
  /\ UNCHANGED <<shared, producer, old, count, out, got>>

\* Variant: the rollback stores old_head.
GiveBackStore(c) == old[c]

\* fetch-and-add of -count on head
GiveBack(c) == head - count[c]

\* Not enough items: give the positions back and return 0.
DeqRollback(c) ==
  /\ cpc[c] = "rollback"
  /\ head' = GiveBack(c)
  /\ cpc' = [cpc EXCEPT ![c] = "idle"]
  /\ UNCHANGED <<data, tail, reserved_tail, reserved_head, producer,
                 tail_buf, old, count, out, got>>

\* the number of reserved positions before the ring wraps
BeforeWrap(c) == IF Slot(old[c]) + count[c] =< Size
                 THEN count[c] ELSE Size - Slot(old[c])

\* the one MPI_Get, or the first of two when the positions wrap
DeqGet(c) ==
  /\ cpc[c] = "get"
  /\ out' = [out EXCEPT ![c] = [j \in 1 .. BeforeWrap(c) |-> data[Slot(old[c]) + j - 1]]]
  /\ cpc' = [cpc EXCEPT ![c] = IF BeforeWrap(c) = count[c] THEN "commit" ELSE "getwrap"]
  /\ UNCHANGED <<shared, producer, tail_buf, old, count, got>>

\* the second MPI_Get, from displacement 0
DeqGetWrap(c) ==
  /\ cpc[c] = "getwrap"
  /\ out' = [out EXCEPT ![c] = @ \o [j \in 1 .. count[c] - Len(@) |-> data[j - 1]]]
  /\ cpc' = [cpc EXCEPT ![c] = "commit"]
  /\ UNCHANGED <<shared, producer, tail_buf, old, count, got>>

\* compare-and-swap on reserved_head; a failed one backs off and retries
DeqCommit(c) ==
  /\ cpc[c] = "commit"
  /\ reserved_head = old[c]
  /\ reserved_head' = old[c] + count[c]
  /\ got' = [got EXCEPT ![c] = @ \o out[c]]
  /\ cpc' = [cpc EXCEPT ![c] = "idle"]
  /\ UNCHANGED <<data, tail, head, reserved_tail, producer,
                 tail_buf, old, count, out>>

Consumer(c) == \/ DeqReserve(c) \/ DeqRefresh(c) \/ DeqRollback(c)
               \/ DeqGet(c) \/ DeqGetWrap(c) \/ DeqCommit(c)

Next == Producer \/ \E c \in Consumers : Consumer(c)

Spec == Init /\ [][Next]_vars

\* Each rank runs the calls it made to their end; the producer calls again, a
\* consumer may stop doing so.
FairSpec == /\ Spec
            /\ WF_vars(Producer)
            /\ \A c \in Consumers : WF_vars(cpc[c] # "idle" /\ Consumer(c))

\* The consumers call again, too.
PollSpec == FairSpec /\ \A c \in Consumers : WF_vars(Consumer(c))
-----------------------------------------------------------------------------
Steps == {"idle", "refresh", "rollback", "get", "getwrap", "commit"}

TypeOK == /\ data \in [Slots -> Nat]
          /\ tail \in Nat /\ head \in Nat
          /\ reserved_tail \in Nat /\ reserved_head \in Nat
          /\ head_buf \in Nat
          /\ tail_buf \in [Consumers -> Nat]
          /\ ppc \in {"idle", "refresh", "rollback", "put", "commit"}
          /\ pold \in Nat
          /\ cpc \in [Consumers -> Steps]
          /\ old \in [Consumers -> Nat]
          /\ count \in [Consumers -> Nat]
          /\ out \in [Consumers -> Seq(Nat)]
          /\ accepted \in Nat
          /\ got \in [Consumers -> Seq(Nat)]

\* The FIFO queue implemented: an item is put when reserved_tail passes it
\* and taken when reserved_head does.
Fifo == INSTANCE SPMCFifo WITH Capacity <- Size, put <- reserved_tail,
                               taken <- reserved_head, got <- got

\* Every item a dequeue call returns is the next one of a FIFO queue of
\* capacity Size, and no enqueue succeeds on a full one, although positions
\* are given back and reserved twice (the compare-and-swap loops of
\* spmc_queue_enqueue and spmc_queue_dequeue linearise the calls).
ImplementsFifo == Fifo!Spec

\* The positions consumer c may be reading with MPI_Get.
Reading(c) == IF cpc[c] = "get" THEN {Slot(i) : i \in old[c] .. old[c] + count[c] - 1}
              ELSE IF cpc[c] = "getwrap" THEN 0 .. count[c] - Len(out[c]) - 1
              ELSE {}

\* mpi_put and mpi_get are not atomic: the producer never writes a slot while
\* a consumer reads it, or the value would be undefined.
NoRace == ppc = "put" => \A c \in Consumers : Slot(pold) \notin Reading(c)

\* The positions consumer c has been granted: it will wait for its turn to commit.
Granted(c) == cpc[c] \in {"get", "getwrap", "commit"}

\* A consumer can still come to commit at reserved_head.
FrontHolder(c) == old[c] = reserved_head /\ (Granted(c) \/ cpc[c] = "refresh")

\* Positions behind the front are granted and nobody can commit at the front.
Wedged == /\ \E c \in Consumers : Granted(c)
          /\ \A c \in Consumers : ~FrontHolder(c)

\* Rolling head back never gives out a position that was committed, whatever
\* the consumers that gave positions back had reserved.
NoReissue == \A c \in Consumers :
               cpc[c] \in {"refresh", "rollback"} \/ Granted(c) =>
                  /\ old[c] >= reserved_head
                  /\ head >= reserved_head

\* Once a consumer was granted positions behind a front that was given back,
\* no later call repairs it.
WedgeIsForever == [][Wedged => Wedged']_vars

\* "This may spin until earlier pops commit": a granted dequeue returns.
PopCommits == \A c \in Consumers : Granted(c) ~> (cpc[c] = "idle")

\* The races leave no damage but the wedge: if the other consumers stop
\* calling and the queue is not wedged, whatever they left unfinished or gave
\* back, the producer puts all its items and the consumer that goes on asking
\* for single ones gets them to the last.
OthersRest(c) == \A d \in Consumers \ {c} : cpc[d] = "idle"
Polls(c) == cpc[c] # "idle" /\ count[c] = 1
AllHandedOnceAlone ==
  \A c \in Consumers :
    <>[]OthersRest(c) /\ <>[]~Wedged /\ []<>Polls(c)
      => <>(reserved_head = MaxItems)
=============================================================================
