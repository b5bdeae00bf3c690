------------------------------- MODULE NbdFFQ -------------------------------
(***************************************************************************)
(* spmc_nbdFFQ/src/spmc_queue.c.  Like dFFQ, with two differences: one     *)
(* slot holds a batch, put and read by one bulk MPI call, and the producer *)
(* advances tail past a busy slot instead of looking at it again, so that  *)
(* the tickets it marked in gaps are never published.                      *)
(*                                                                         *)
(* A batch is a single value here: the bulk calls move it whole, and       *)
(* NoRace shows that no call sees half of one.  One step is one RMA call   *)
(* with the local code up to the next one.                                 *)
(***************************************************************************)
EXTENDS Integers, Sequences

CONSTANTS Consumers,    \* every rank that dequeues
          N,            \* queue->size, the number of batch slots
          MaxRetries,   \* MAX_DEQUEUE_RETRIES
          MaxWait,      \* MAX_WAIT_COUNT
          MaxBatches,   \* bound: the producer makes MaxBatches enqueue calls
          MaxTail,      \* bound: the producer marks no gap once tail is MaxTail
          MaxHead       \* bound: no dequeue call starts once head is MaxHead

ASSUME NAssumption == N \in Nat \ {0}
ASSUME LimitsAssumption == MaxRetries \in Nat /\ MaxWait \in Nat
ASSUME BoundsAssumption == MaxBatches \in Nat /\ MaxTail \in Nat /\ MaxHead \in Nat

EMPTY_CELL == -1

VARIABLES
  ranks, gaps, datas, head,  \* the four windows
  tail, ppc,                 \* the producer: queue->tail, its next step
  cpc, ticket, retry, wait, out,  \* each consumer: its next step, rank,
                                  \* retry_count, wait_count, out_data
  sent,      \* history: enqueue calls made; the n-th one's batch is n - 1
  got,       \* history: the batches each consumer's dequeue calls returned
  skipped,   \* history: tickets given up after the double check
  timedOut   \* history: tickets given up because a limit was reached

windows == <<ranks, gaps, datas>>
producer == <<tail, ppc, sent>>
consumer == <<cpc, ticket, retry, wait, out, got, skipped, timedOut>>
vars == <<windows, head, producer, consumer>>

Slots == 0 .. N - 1
Slot(r) == r % N

Init == /\ ranks = [s \in Slots |-> EMPTY_CELL]
        /\ gaps = [s \in Slots |-> 0]
        /\ datas = [s \in Slots |-> 0]
        /\ head = 0
        /\ tail = 0
        /\ ppc = "idle"
        /\ cpc = [c \in Consumers |-> "idle"]
        /\ ticket = [c \in Consumers |-> 0]
        /\ retry = [c \in Consumers |-> 0]
        /\ wait = [c \in Consumers |-> 0]
        /\ out = [c \in Consumers |-> 0]
        /\ sent = 0
        /\ got = [c \in Consumers |-> <<>>]
        /\ skipped = {}
        /\ timedOut = {}
-----------------------------------------------------------------------------
(* spmc_queue_enqueue_batch *)

\* Variant: a slot with rank 0 is taken for empty.
BusyPositive(s) == ranks[s] > 0

Busy(s) == ranks[s] >= 0

EnqueueBatch == /\ ppc = "idle"
                /\ sent < MaxBatches
                /\ sent' = sent + 1
                /\ ppc' = "read"
                /\ UNCHANGED <<windows, head, tail, consumer>>

EnqReadRank == /\ ppc = "read"
               /\ ppc' = IF Busy(Slot(tail)) THEN "mark" ELSE "put"
               /\ UNCHANGED <<windows, head, tail, sent, consumer>>

\* tail++ at the end of the loop, for a busy slot
PastBusy == tail + 1

EnqMarkGap == /\ ppc = "mark"
              /\ tail < MaxTail
              /\ gaps' = [gaps EXCEPT ![Slot(tail)] = tail]
              /\ tail' = PastBusy
              /\ ppc' = "read"
              /\ UNCHANGED <<ranks, datas, head, sent, consumer>>

EnqPutBatch == /\ ppc = "put"
               /\ datas' = [datas EXCEPT ![Slot(tail)] = sent - 1]
               /\ ppc' = "publish"
               /\ UNCHANGED <<ranks, gaps, head, tail, sent, consumer>>

EnqPublish == /\ ppc = "publish"
              /\ ranks' = [ranks EXCEPT ![Slot(tail)] = tail]
              /\ tail' = tail + 1
              /\ ppc' = "idle"
              /\ UNCHANGED <<gaps, datas, head, sent, consumer>>

Producer == \/ EnqueueBatch \/ EnqReadRank \/ EnqMarkGap
            \/ EnqPutBatch \/ EnqPublish
-----------------------------------------------------------------------------
(* spmc_queue_dequeue *)

\* The loop of a dequeue call goes on with r tickets drawn and w waits.
GoesOn(r, w) == r < MaxRetries /\ w < MaxWait

\* Variants: a read and a later write, whose increment may be lost; a
\* decrement.
DrawTicketRacy(c) == /\ ticket' = [ticket EXCEPT ![c] = head]
                     /\ head' \in {head, head + 1}
DrawTicketDown(c) == /\ ticket' = [ticket EXCEPT ![c] = head]
                     /\ head' = head - 1

\* rank = FAA(head, 1)
DrawTicket(c) == /\ ticket' = [ticket EXCEPT ![c] = head]
                 /\ head' = head + 1

\* Variant: the wait is not counted.
WaitUncounted(c) ==
  /\ cpc' = [cpc EXCEPT ![c] = IF GoesOn(retry[c], wait[c]) THEN "read" ELSE "idle"]
  /\ UNCHANGED <<wait, timedOut>>

\* Consumer c waits once more on its ticket, or gives it up and returns 0.
WaitOrGiveUp(c) ==
  /\ wait' = [wait EXCEPT ![c] = @ + 1]
  /\ IF GoesOn(retry[c], wait[c] + 1)
     THEN /\ cpc' = [cpc EXCEPT ![c] = "read"]
          /\ UNCHANGED timedOut
     ELSE /\ cpc' = [cpc EXCEPT ![c] = "idle"]
          /\ timedOut' = timedOut \cup {ticket[c]}

DeqDraw(c) ==
  /\ cpc[c] = "idle"
  /\ head < MaxHead
  /\ DrawTicket(c)
  /\ retry' = [retry EXCEPT ![c] = 1]
  /\ wait' = [wait EXCEPT ![c] = 0]
  /\ IF GoesOn(1, 0)
     THEN /\ cpc' = [cpc EXCEPT ![c] = "read"]
          /\ UNCHANGED timedOut
     ELSE /\ timedOut' = timedOut \cup {head}
          /\ UNCHANGED cpc
  /\ UNCHANGED <<windows, producer, out, got, skipped>>

DeqReadRank(c) ==
  /\ cpc[c] = "read"
  /\ cpc' = [cpc EXCEPT ![c] = IF ranks[Slot(ticket[c])] = ticket[c]
                               THEN "get" ELSE "gap"]
  /\ UNCHANGED <<windows, head, producer, ticket, retry, wait, out, got,
                 skipped, timedOut>>

DeqGetBatch(c) ==
  /\ cpc[c] = "get"
  /\ out' = [out EXCEPT ![c] = datas[Slot(ticket[c])]]
  /\ cpc' = [cpc EXCEPT ![c] = "clear"]
  /\ UNCHANGED <<windows, head, producer, ticket, retry, wait, got,
                 skipped, timedOut>>

\* The slot is emptied and the call returns its batch.
DeqClearRank(c) ==
  /\ cpc[c] = "clear"
  /\ ranks' = [ranks EXCEPT ![Slot(ticket[c])] = EMPTY_CELL]
  /\ got' = [got EXCEPT ![c] = Append(@, out[c])]
  /\ cpc' = [cpc EXCEPT ![c] = "idle"]
  /\ UNCHANGED <<gaps, datas, head, producer, ticket, retry, wait, out,
                 skipped, timedOut>>

DeqReadGap(c) ==
  /\ cpc[c] = "gap"
  /\ IF gaps[Slot(ticket[c])] >= ticket[c]
     THEN /\ cpc' = [cpc EXCEPT ![c] = "recheck"]
          /\ UNCHANGED <<wait, timedOut>>
     ELSE WaitOrGiveUp(c)
  /\ UNCHANGED <<windows, head, producer, ticket, retry, out, got, skipped>>

\* Variant: the double check is left out.
GoneUnchecked(c) == TRUE

\* The double check: the batch did not arrive before the gap was read.
Gone(c) == ranks[Slot(ticket[c])] # ticket[c]

DeqRecheck(c) ==
  /\ cpc[c] = "recheck"
  /\ IF Gone(c)
     THEN /\ cpc' = [cpc EXCEPT ![c] = "skip"]
          /\ UNCHANGED <<wait, timedOut>>
     ELSE WaitOrGiveUp(c)
  /\ UNCHANGED <<windows, head, producer, ticket, retry, out, got, skipped>>

\* The ticket is given up for another one; if that was the last retry the
\* call gives the new one up as well, unread.
DeqSkip(c) ==
  /\ cpc[c] = "skip"
  /\ DrawTicket(c)
  /\ skipped' = skipped \cup {ticket[c]}
  /\ retry' = [retry EXCEPT ![c] = @ + 1]
  /\ wait' = [wait EXCEPT ![c] = 0]
  /\ IF GoesOn(retry[c] + 1, 0)
     THEN /\ cpc' = [cpc EXCEPT ![c] = "read"]
          /\ UNCHANGED timedOut
     ELSE /\ cpc' = [cpc EXCEPT ![c] = "idle"]
          /\ timedOut' = timedOut \cup {head}
  /\ UNCHANGED <<windows, producer, out, got>>

Consumer(c) == \/ DeqDraw(c) \/ DeqReadRank(c) \/ DeqGetBatch(c)
               \/ DeqClearRank(c) \/ DeqReadGap(c) \/ DeqRecheck(c)
               \/ DeqSkip(c)

Next == Producer \/ \E c \in Consumers : Consumer(c)

Spec == Init /\ [][Next]_vars

\* Every rank keeps running its call: weak fairness of each.
FairSpec == /\ Spec
            /\ WF_vars(Producer)
            /\ \A c \in Consumers : WF_vars(Consumer(c))
-----------------------------------------------------------------------------
TypeOK == /\ ranks \in [Slots -> Nat \cup {EMPTY_CELL}]
          /\ gaps \in [Slots -> Nat]
          /\ datas \in [Slots -> Nat]
          /\ head \in Nat /\ tail \in Nat /\ sent \in Nat
          /\ ppc \in {"idle", "read", "mark", "put", "publish"}
          /\ cpc \in [Consumers -> {"idle", "read", "get", "clear", "gap",
                                    "recheck", "skip"}]
          /\ ticket \in [Consumers -> Nat]
          /\ retry \in [Consumers -> Nat]
          /\ wait \in [Consumers -> Nat]
          /\ out \in [Consumers -> Nat]
          /\ got \in [Consumers -> Seq(Nat)]
          /\ skipped \subseteq Nat /\ timedOut \subseteq Nat

\* Batches that were published: the current call's is not, until it returns.
published == IF ppc = "idle" THEN sent ELSE sent - 1

Bag == INSTANCE SPMCBag WITH put <- published, got <- got

\* Each batch is returned at most once, whole, and one consumer never
\* receives an older batch after a younger one, whatever tickets are skipped
\* on either side.
ImplementsBag == Bag!Spec

Holds(c, t) == cpc[c] # "idle" /\ ticket[c] = t

\* The bulk mpi_put and mpi_get of a slot never overlap.
NoRace == \A c \in Consumers :
            ~(ppc = "put" /\ cpc[c] = "get" /\ Slot(ticket[c]) = Slot(tail))

Returned(b) == \E c \in Consumers : \E n \in DOMAIN got[c] : got[c][n] = b

\* Every batch published is in exactly one of: a slot, a consumer's hands.
Conserved == \A b \in 0 .. published - 1 :
               (\E s \in Slots : Busy(s) /\ datas[s] = b) # Returned(b)

\* "Slot permanently skipped": a ticket given up after the double check is
\* never published.
SkipIsFinal == \A s \in Slots : Busy(s) => ranks[s] \notin skipped

\* The same of every ticket but the first, whose gap mark the memory holds
\* from the start.
SkipIsFinalAfterFirst ==
  \A s \in Slots : ranks[s] > 0 => ranks[s] \notin skipped

\* A batch whose ticket was drawn is somebody's, unless that call reached a
\* limit or the batch is the first: the double check itself loses no other.
OnlyTimeoutsLose ==
  \A s \in Slots : Busy(s) /\ ranks[s] < head =>
    \/ \E c \in Consumers : Holds(c, ranks[s])
    \/ ranks[s] \in timedOut \cup {0}

\* Where everything is: each batch in one place, and lost by a known rule only.
Accounted == Conserved /\ SkipIsFinalAfterFirst /\ OnlyTimeoutsLose

\* A dequeue call returns whatever the others do.
DequeueReturns == \A c \in Consumers : (cpc[c] # "idle") ~> (cpc[c] = "idle")
=============================================================================
