-------------------------------- MODULE DFFQ --------------------------------
(***************************************************************************)
(* spmc_dFFQ/src/spmc_queue.c.  A ring of N cells at rank 0, each with a   *)
(* rank (-1 when the cell is empty, else the ticket of the item in it), a  *)
(* gap mark and the data; and head, the next ticket a consumer draws.  The *)
(* producer keeps tail, the ticket of the next item, to itself.            *)
(*                                                                         *)
(* Every RMA wrapper of mpi_lib flushes before it returns, so each step    *)
(* below is one RMA call with the local code up to the next one.           *)
(***************************************************************************)
EXTENDS Integers, Sequences

CONSTANTS Consumers,    \* ranks 1 .. n
          N,            \* queue->size
          MaxRetries,   \* MAX_DEQUEUE_RETRIES
          MaxWait,      \* the limit on wait_count
          MaxItems,     \* bound: the producer makes MaxItems enqueue calls
          MaxHead       \* bound: no dequeue call starts once head is MaxHead

ASSUME NAssumption == N \in Nat \ {0}
ASSUME LimitsAssumption == MaxRetries \in Nat /\ MaxWait \in Nat
ASSUME BoundsAssumption == MaxItems \in Nat /\ MaxHead \in Nat

EMPTY_CELL == -1

VARIABLES
  rank, gap, data,  \* the fields of cells[0 .. N-1]
  head,             \* the window win_head
  tail, ppc,        \* the producer: queue->tail, its next step
  cpc, ticket, retry, wait, out,  \* each consumer: its next step, rank,
                                  \* retry_count, wait_count, data
  sent,      \* history: enqueue calls made; the n-th one's value is n - 1
  got,       \* history: the values each consumer's dequeue calls returned
  givenUp    \* history: tickets drawn and given up without an item

cells == <<rank, gap, data>>
producer == <<tail, ppc, sent>>
consumer == <<cpc, ticket, retry, wait, out, got, givenUp>>
vars == <<cells, head, producer, consumer>>

Slots == 0 .. N - 1
Slot(r) == r % N

Init == /\ rank = [s \in Slots |-> EMPTY_CELL]
        /\ gap = [s \in Slots |-> 0]
        /\ data = [s \in Slots |-> 0]
        /\ head = 0
        /\ tail = 0
        /\ ppc = "idle"
        /\ cpc = [c \in Consumers |-> "idle"]
        /\ ticket = [c \in Consumers |-> 0]
        /\ retry = [c \in Consumers |-> 0]
        /\ wait = [c \in Consumers |-> 0]
        /\ out = [c \in Consumers |-> -1]
        /\ sent = 0
        /\ got = [c \in Consumers |-> <<>>]
        /\ givenUp = {}
-----------------------------------------------------------------------------
(* spmc_queue_enqueue *)

\* Variant: a cell with rank 0 is taken for empty.
BusyPositive(s) == rank[s] > 0

Busy(s) == rank[s] >= 0

Enqueue == /\ ppc = "idle"
           /\ sent < MaxItems
           /\ sent' = sent + 1
           /\ ppc' = "read"
           /\ UNCHANGED <<cells, head, tail, consumer>>

EnqReadRank == /\ ppc = "read"
               /\ ppc' = IF Busy(Slot(tail)) THEN "mark" ELSE "put"
               /\ UNCHANGED <<cells, head, tail, sent, consumer>>

\* tail++ comes after the loop: an occupied cell keeps its ticket.
PastBusy == tail

\* The cell is occupied: mark a gap and look at the same cell again.
EnqMarkGap == /\ ppc = "mark"
              /\ gap' = [gap EXCEPT ![Slot(tail)] = tail]
              /\ tail' = PastBusy
              /\ ppc' = "read"
              /\ UNCHANGED <<rank, data, head, sent, consumer>>

EnqPutData == /\ ppc = "put"
              /\ data' = [data EXCEPT ![Slot(tail)] = sent - 1]
              /\ ppc' = "publish"
              /\ UNCHANGED <<rank, gap, head, tail, sent, consumer>>

EnqPublish == /\ ppc = "publish"
              /\ rank' = [rank EXCEPT ![Slot(tail)] = tail]
              /\ tail' = tail + 1
              /\ ppc' = "idle"
              /\ UNCHANGED <<gap, data, head, sent, consumer>>

Producer == Enqueue \/ EnqReadRank \/ EnqMarkGap \/ EnqPutData \/ EnqPublish
-----------------------------------------------------------------------------
(* spmc_queue_dequeue *)

\* The loop of a dequeue call goes on with r tickets drawn and w waits.
GoesOn(r, w) == r < MaxRetries /\ w < MaxWait

\* Variants: a read and a later write, whose increment may be lost; an
\* increment of two.
DrawTicketRacy(c) == /\ ticket' = [ticket EXCEPT ![c] = head]
                     /\ head' \in {head, head + 1}
DrawTicketByTwo(c) == /\ ticket' = [ticket EXCEPT ![c] = head]
                      /\ head' = head + 2

\* rank = FetchInc(head)
DrawTicket(c) == /\ ticket' = [ticket EXCEPT ![c] = head]
                 /\ head' = head + 1

\* Variant: the wait is not counted.
WaitUncounted(c) ==
  /\ cpc' = [cpc EXCEPT ![c] = IF GoesOn(retry[c], wait[c]) THEN "read" ELSE "idle"]
  /\ UNCHANGED <<wait, givenUp>>

\* Consumer c waits once more on its ticket, or gives it up and returns 0.
WaitOrGiveUp(c) ==
  /\ wait' = [wait EXCEPT ![c] = @ + 1]
  /\ IF GoesOn(retry[c], wait[c] + 1)
     THEN /\ cpc' = [cpc EXCEPT ![c] = "read"]
          /\ UNCHANGED givenUp
     ELSE /\ cpc' = [cpc EXCEPT ![c] = "idle"]
          /\ givenUp' = givenUp \cup {ticket[c]}

\* The call draws its first ticket.
DeqDraw(c) ==
  /\ cpc[c] = "idle"
  /\ head < MaxHead
  /\ DrawTicket(c)
  /\ retry' = [retry EXCEPT ![c] = 1]
  /\ wait' = [wait EXCEPT ![c] = 0]
  /\ out' = [out EXCEPT ![c] = -1]
  /\ IF GoesOn(1, 0)
     THEN /\ cpc' = [cpc EXCEPT ![c] = "read"]
          /\ UNCHANGED givenUp
     ELSE /\ givenUp' = givenUp \cup {head}
          /\ UNCHANGED cpc
  /\ UNCHANGED <<cells, producer, got>>

DeqReadRank(c) ==
  /\ cpc[c] = "read"
  /\ cpc' = [cpc EXCEPT ![c] = IF rank[Slot(ticket[c])] = ticket[c]
                               THEN "get" ELSE "gap"]
  /\ UNCHANGED <<cells, head, producer, ticket, retry, wait, out, got, givenUp>>

DeqGetData(c) ==
  /\ cpc[c] = "get"
  /\ out' = [out EXCEPT ![c] = data[Slot(ticket[c])]]
  /\ cpc' = [cpc EXCEPT ![c] = "clear"]
  /\ UNCHANGED <<cells, head, producer, ticket, retry, wait, got, givenUp>>

\* The cell is emptied and the call returns its item; -1 counts as no item.
DeqClearRank(c) ==
  /\ cpc[c] = "clear"
  /\ rank' = [rank EXCEPT ![Slot(ticket[c])] = EMPTY_CELL]
  /\ got' = IF out[c] = -1 THEN got ELSE [got EXCEPT ![c] = Append(@, out[c])]
  /\ cpc' = [cpc EXCEPT ![c] = "idle"]
  /\ UNCHANGED <<gap, data, head, producer, ticket, retry, wait, out, givenUp>>

DeqReadGap(c) ==
  /\ cpc[c] = "gap"
  /\ IF gap[Slot(ticket[c])] >= ticket[c]
     THEN /\ cpc' = [cpc EXCEPT ![c] = "recheck"]
          /\ UNCHANGED <<wait, givenUp>>
     ELSE WaitOrGiveUp(c)
  /\ UNCHANGED <<cells, head, producer, ticket, retry, out, got>>

DeqRecheck(c) ==
  /\ cpc[c] = "recheck"
  /\ IF rank[Slot(ticket[c])] # ticket[c]
     THEN /\ cpc' = [cpc EXCEPT ![c] = "skip"]
          /\ UNCHANGED <<wait, givenUp>>
     ELSE WaitOrGiveUp(c)
  /\ UNCHANGED <<cells, head, producer, ticket, retry, out, got>>

\* The call gives its ticket up and draws another; if that was its last
\* retry it gives the new one up as well, unread.
DeqSkip(c) ==
  /\ cpc[c] = "skip"
  /\ DrawTicket(c)
  /\ retry' = [retry EXCEPT ![c] = @ + 1]
  /\ wait' = [wait EXCEPT ![c] = 0]
  /\ IF GoesOn(retry[c] + 1, 0)
     THEN /\ cpc' = [cpc EXCEPT ![c] = "read"]
          /\ givenUp' = givenUp \cup {ticket[c]}
     ELSE /\ cpc' = [cpc EXCEPT ![c] = "idle"]
          /\ givenUp' = givenUp \cup {ticket[c], head}
  /\ UNCHANGED <<cells, producer, out, got>>

Consumer(c) == \/ DeqDraw(c) \/ DeqReadRank(c) \/ DeqGetData(c)
               \/ DeqClearRank(c) \/ DeqReadGap(c) \/ DeqRecheck(c)
               \/ DeqSkip(c)

Next == Producer \/ \E c \in Consumers : Consumer(c)

Spec == Init /\ [][Next]_vars

\* Every rank keeps running its call: weak fairness of each.
FairSpec == /\ Spec
            /\ WF_vars(Producer)
            /\ \A c \in Consumers : WF_vars(Consumer(c))
-----------------------------------------------------------------------------
Steps == {"idle", "read", "get", "clear", "gap", "recheck", "skip"}

TypeOK == /\ rank \in [Slots -> Nat \cup {EMPTY_CELL}]
          /\ gap \in [Slots -> Nat]
          /\ data \in [Slots -> Nat]
          /\ head \in Nat /\ tail \in Nat /\ sent \in Nat
          /\ ppc \in {"idle", "read", "mark", "put", "publish"}
          /\ cpc \in [Consumers -> Steps]
          /\ ticket \in [Consumers -> Nat]
          /\ retry \in [Consumers -> Nat]
          /\ wait \in [Consumers -> Nat]
          /\ out \in [Consumers -> Nat \cup {-1}]
          /\ got \in [Consumers -> Seq(Nat)]
          /\ givenUp \subseteq Nat

\* Items are put in the order of their tickets, by publishing the rank.
Bag == INSTANCE SPMCBag WITH put <- tail, got <- got

\* However the calls interleave, give up and skip, each item is returned at
\* most once, no value is returned that was not enqueued, and one consumer
\* never receives an older item after a younger one.
ImplementsBag == Bag!Spec

Holds(c, t) == cpc[c] # "idle" /\ ticket[c] = t

\* mpi_put and mpi_get of a cell's data are not atomic: the producer never
\* writes the data of a cell while a consumer reads it.
NoRace == \A c \in Consumers :
            ~(ppc = "put" /\ cpc[c] = "get" /\ Slot(ticket[c]) = Slot(tail))

\* An item stays in its cell, whole, until the consumer that drew its ticket
\* has read it: nobody else empties or reuses the cell.
ItemsStay ==
  [][\A s \in Slots :
       Busy(s) => \/ rank'[s] = rank[s] /\ data'[s] = data[s]
                  \/ \E c \in Consumers :
                       /\ cpc[c] = "clear" /\ ticket[c] = rank[s]
                       /\ out[c] = data[s] /\ rank'[s] = EMPTY_CELL]_vars

Returned(t) == \E c \in Consumers : \E n \in DOMAIN got[c] : got[c][n] = t

\* Every item published is in its cell or was returned, never both: no item
\* vanishes from the ring, even when its ticket is given up.
Conserved == \A t \in 0 .. tail - 1 : (rank[Slot(t)] = t) # Returned(t)

\* An item whose ticket was drawn is somebody's, unless that consumer gave the
\* ticket up by the limits or by a skip.  Nothing else loses an item.
OnlyGivenUpAreLost ==
  \A s \in Slots : Busy(s) /\ rank[s] < head =>
    \/ \E c \in Consumers : Holds(c, rank[s])
    \/ rank[s] \in givenUp

\* The item in cell s is lost: its ticket was drawn and nobody holds it.
Lost(s) == /\ Busy(s) /\ rank[s] < head
           /\ \A c \in Consumers : ~Holds(c, rank[s])

\* A lost item is lost for good: its cell is never used again.
LostForever == [][\A s \in Slots : Lost(s) => Lost(s)' /\ rank'[s] = rank[s]]_vars

\* The ring holds the last N items at most, each in its place: the producer
\* does not pass a cell that is not empty.
Window == \A s \in Slots : Busy(s) =>
            /\ Slot(rank[s]) = s
            /\ rank[s] < tail
            /\ tail =< rank[s] + N

\* Two dequeue calls never work on the same ticket.
TicketsDistinct == \A c, d \in Consumers :
                     c # d /\ cpc[c] # "idle" => ~Holds(d, ticket[c])

\* Where everything is: each ticket with one call at most, each item in one
\* place, in its own cell until it is returned, and lost by a known rule only.
Accounted == Window /\ TicketsDistinct /\ Conserved /\ OnlyGivenUpAreLost

\* A dequeue call returns whatever the others do: its retries and its waits
\* are limited.
DequeueReturns == \A c \in Consumers : (cpc[c] # "idle") ~> (cpc[c] = "idle")

\* "@return MPI_SUCCESS on success, or -1 if the queue is full or contended":
\* an enqueue call returns.
EnqueueReturns == (ppc # "idle") ~> (ppc = "idle")
=============================================================================
