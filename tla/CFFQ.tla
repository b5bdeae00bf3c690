-------------------------------- MODULE CFFQ --------------------------------
(***************************************************************************)
(* spmc_c-FFQ/src/spmc_queue.c.  The producer is dFFQ's; a dequeue call    *)
(* draws K tickets at once and decides them together.  It reads the ranks  *)
(* (or gaps) of its K cells by one MPI_Get_accumulate, which is atomic for *)
(* each element and not for the range: the elements are read one by one,   *)
(* in any order, with steps of others in between.  The element read last   *)
(* is joined with the local code that follows the call.                    *)
(*                                                                         *)
(* Of an element that the code then ignores, no read is modelled: ranks    *)
(* and gaps count for the positions in pending, the second ranks for those *)
(* in ready.  Lines 412-417 drop from pending what a gap mark decided;     *)
(* line 381 has done that already, so they change nothing.                 *)
(***************************************************************************)
EXTENDS Integers, Sequences, SequencesExt

CONSTANTS Consumers,
          N,            \* queue->size
          K,            \* max_count, the same in every dequeue call
          MaxRetries,   \* MAX_DEQUEUE_RETRIES
          MaxWait,      \* MAX_WAIT_COUNT
          MaxItems,     \* bound: the producer makes MaxItems enqueue calls
          MaxHead       \* bound: no dequeue call starts once head is MaxHead

ASSUME SizeAssumption == K \in Nat \ {0} /\ N \in Nat \ {0} /\ N % K = 0
ASSUME LimitsAssumption == MaxRetries \in Nat \ {0} /\ MaxWait \in Nat
ASSUME BoundsAssumption == MaxItems \in Nat /\ MaxHead \in Nat

EMPTY_CELL == -1

VARIABLES
  ranks, gaps, datas, head,  \* the four windows
  tail, ppc, sent,  \* the producer: queue->tail, its next step; history: its
                    \* enqueue calls, of which the n-th enqueues n - 1
  cpc, base, retry, wait,    \* each consumer: its next step, rank,
                             \* retry_count, wait_count
  pending, ready, skipped,   \* the three masks, as sets of offsets
  todo,      \* the offsets that the bulk call in progress has yet to reach
  out,       \* out_data
  got,       \* history: the values each consumer's dequeue calls returned
  passed,    \* history: tickets skipped after the double check
  timedOut   \* history: tickets given up by a limit

windows == <<ranks, gaps, datas>>
producer == <<tail, ppc, sent>>
masks == <<pending, ready, skipped, todo>>
history == <<got, passed, timedOut>>
consumer == <<cpc, base, retry, wait, masks, out, history>>
vars == <<windows, head, producer, consumer>>

Slots == 0 .. N - 1
Slot(t) == t % N
Offsets == 0 .. K - 1
Tickets(c) == {base[c] + i : i \in Offsets}

Init == /\ ranks = [s \in Slots |-> EMPTY_CELL]
        /\ gaps = [s \in Slots |-> 0]
        /\ datas = [s \in Slots |-> 0]
        /\ head = 0
        /\ tail = 0 /\ ppc = "idle" /\ sent = 0
        /\ cpc = [c \in Consumers |-> "idle"]
        /\ base = [c \in Consumers |-> 0]
        /\ retry = [c \in Consumers |-> 0]
        /\ wait = [c \in Consumers |-> 0]
        /\ pending = [c \in Consumers |-> {}]
        /\ ready = [c \in Consumers |-> {}]
        /\ skipped = [c \in Consumers |-> {}]
        /\ todo = [c \in Consumers |-> {}]
        /\ out = [c \in Consumers |-> <<>>]
        /\ got = [c \in Consumers |-> <<>>]
        /\ passed = {} /\ timedOut = {}
-----------------------------------------------------------------------------
(* spmc_queue_enqueue *)

\* Variant: a cell with rank 0 is taken for empty.
BusyPositive(s) == ranks[s] > 0

Busy(s) == ranks[s] >= 0

Enqueue == /\ ppc = "idle"
           /\ sent < MaxItems
           /\ sent' = sent + 1
           /\ ppc' = "read"
           /\ UNCHANGED <<windows, head, tail, consumer>>

EnqReadRank == /\ ppc = "read"
               /\ ppc' = IF Busy(Slot(tail)) THEN "mark" ELSE "put"
               /\ UNCHANGED <<windows, head, tail, sent, consumer>>

\* Variant: tail advances past the occupied cell, as in nbdFFQ.
PastBusyNext == tail + 1

\* tail++ comes after the loop: an occupied cell keeps its ticket.
PastBusy == tail

EnqMarkGap == /\ ppc = "mark"
              /\ gaps' = [gaps EXCEPT ![Slot(tail)] = tail]
              /\ tail' = PastBusy
              /\ ppc' = "read"
              /\ UNCHANGED <<ranks, datas, head, sent, consumer>>

EnqPutData == /\ ppc = "put"
              /\ datas' = [datas EXCEPT ![Slot(tail)] = sent - 1]
              /\ ppc' = "publish"
              /\ UNCHANGED <<ranks, gaps, head, tail, sent, consumer>>

EnqPublish == /\ ppc = "publish"
              /\ ranks' = [ranks EXCEPT ![Slot(tail)] = tail]
              /\ tail' = tail + 1
              /\ ppc' = "idle"
              /\ UNCHANGED <<gaps, datas, head, sent, consumer>>

Producer == Enqueue \/ EnqReadRank \/ EnqMarkGap \/ EnqPutData \/ EnqPublish
-----------------------------------------------------------------------------
(* spmc_queue_dequeue *)

\* Variant: a read and a later write, whose increment may be lost.
DrawRacy(c) == /\ base' = [base EXCEPT ![c] = head]
               /\ head' \in {head, head + K}

\* Variant: the range is drawn twice.
DrawTwice(c) == /\ base' = [base EXCEPT ![c] = head]
                /\ head' = head + 2 * K

\* rank = FetchInc(head, k)
Draw(c) == /\ base' = [base EXCEPT ![c] = head]
           /\ head' = head + K

\* An iteration of the outer loop starts on new tickets.
StartRange(c, r) ==
  /\ Draw(c)
  /\ retry' = [retry EXCEPT ![c] = r]
  /\ wait' = [wait EXCEPT ![c] = 0]
  /\ pending' = [pending EXCEPT ![c] = Offsets]
  /\ ready' = [ready EXCEPT ![c] = {}]
  /\ skipped' = [skipped EXCEPT ![c] = {}]
  /\ todo' = [todo EXCEPT ![c] = Offsets]

DeqDraw(c) ==
  /\ cpc[c] = "idle"
  /\ head < MaxHead
  /\ StartRange(c, 1)
  /\ cpc' = [cpc EXCEPT ![c] = "ranks"]
  /\ UNCHANGED <<windows, producer, out, history>>

\* The next bulk call of consumer c reaches the offsets in s.
Go(c, step, s) == /\ cpc' = [cpc EXCEPT ![c] = step]
                  /\ todo' = [todo EXCEPT ![c] = s]

\* Variant: a timeout keeps waiting instead.
WaitForEver(c, w, left) ==
  /\ wait' = [wait EXCEPT ![c] = w]
  /\ Go(c, "ranks", left)
  /\ UNCHANGED timedOut

\* Variant: one wait more than the limit.
WaitOneMore(c, w, left) ==
  IF w > MaxWait
  THEN /\ Go(c, "idle", {})
       /\ timedOut' = timedOut \cup Tickets(c)
       /\ UNCHANGED wait
  ELSE /\ wait' = [wait EXCEPT ![c] = w + 1]
       /\ Go(c, "ranks", left)
       /\ UNCHANGED timedOut

\* Positions in left are undecided after w waits: wait and read again, or
\* give all K tickets up, the decided ones as well, and return 0.
WaitOrTimeOut(c, w, left) ==
  IF w >= MaxWait
  THEN /\ Go(c, "idle", {})
       /\ timedOut' = timedOut \cup Tickets(c)
       /\ UNCHANGED wait
  ELSE /\ wait' = [wait EXCEPT ![c] = w + 1]
       /\ Go(c, "ranks", left)
       /\ UNCHANGED timedOut

\* Everything is decided: skip is the final skipped mask.
Decided(c, skip) == Go(c, IF skip = Offsets THEN "redraw" ELSE "get", {})

Matches(c, i) == ranks[Slot(base[c] + i)] = base[c] + i

\* Lines 308-347: an element whose rank matches leaves pending.
DeqReadRank(c, i) ==
  LET left == IF Matches(c, i) THEN pending[c] \ {i} ELSE pending[c]
  IN /\ cpc[c] = "ranks"
     /\ i \in todo[c]
     /\ pending' = [pending EXCEPT ![c] = left]
     /\ wait' = [wait EXCEPT ![c] = IF Matches(c, i) THEN 0 ELSE @]
     /\ IF todo[c] # {i} THEN Go(c, "ranks", todo[c] \ {i})
        ELSE IF left # {} THEN Go(c, "gaps", left)
        ELSE Decided(c, skipped[c])
     /\ ready' = [ready EXCEPT ![c] = {}]
     /\ UNCHANGED <<windows, head, producer, base, retry, skipped, out, history>>

DeqReadGap(c, i) ==
  LET marked == IF gaps[Slot(base[c] + i)] >= base[c] + i
                THEN ready[c] \cup {i} ELSE ready[c]
  IN /\ cpc[c] = "gaps"
     /\ i \in todo[c]
     /\ ready' = [ready EXCEPT ![c] = marked]
     /\ IF todo[c] = {i} /\ marked = {}
        THEN WaitOrTimeOut(c, wait[c], pending[c])
        ELSE /\ IF todo[c] # {i} THEN Go(c, "gaps", todo[c] \ {i})
                ELSE Go(c, "recheck", marked)
             /\ UNCHANGED <<wait, timedOut>>
     /\ UNCHANGED <<windows, head, producer, base, retry, pending, skipped,
                    out, got, passed>>

\* Variant: the double check is left out.
GoneUnchecked(c, i) == TRUE

Gone(c, i) == ~Matches(c, i)

\* Lines 367-432: what is gone is skipped, and ready leaves pending.
DeqRecheck(c, i) ==
  LET skip == IF Gone(c, i) THEN skipped[c] \cup {i} ELSE skipped[c]
      left == pending[c] \ ready[c]
      w == IF Gone(c, i) THEN 0 ELSE wait[c]
  IN /\ cpc[c] = "recheck"
     /\ i \in todo[c]
     /\ skipped' = [skipped EXCEPT ![c] = skip]
     /\ passed' = IF Gone(c, i) THEN passed \cup {base[c] + i} ELSE passed
     /\ IF todo[c] # {i}
        THEN /\ Go(c, "recheck", todo[c] \ {i})
             /\ wait' = [wait EXCEPT ![c] = w]
             /\ UNCHANGED <<pending, timedOut>>
        ELSE /\ pending' = [pending EXCEPT ![c] = left]
             /\ IF left # {} THEN WaitOrTimeOut(c, w, left)
                ELSE Decided(c, skip) /\ UNCHANGED <<wait, timedOut>>
     /\ UNCHANGED <<windows, head, producer, base, retry, ready, out, got>>

\* taken is the list of the offsets in kept, in order.
Lists(taken, kept) ==
  /\ \A m, n \in DOMAIN taken : m < n => taken[m] < taken[n]
  /\ kept = {taken[n] : n \in DOMAIN taken}

\* One MPI_Get of all K cells; what is not skipped is copied out.
DeqGetData(c) ==
  LET kept == Offsets \ skipped[c]
  IN /\ cpc[c] = "get"
     /\ \E taken \in SeqOf(kept, K) :
          /\ Lists(taken, kept)
          /\ out' = [out EXCEPT ![c] =
                       [n \in DOMAIN taken |-> datas[Slot(base[c] + taken[n])]]]
     /\ Go(c, "clear", kept)
     /\ UNCHANGED <<windows, head, producer, base, retry, wait, pending, ready,
                    skipped, history>>

\* update_ranks_ranges: one call for each run of cells, element by element.
DeqClearRank(c, i) ==
  /\ cpc[c] = "clear"
  /\ i \in todo[c]
  /\ \A j \in todo[c] : j < i => (j .. i) \cap skipped[c] = {}
  /\ ranks' = [ranks EXCEPT ![Slot(base[c] + i)] = EMPTY_CELL]
  /\ IF todo[c] # {i}
     THEN Go(c, "clear", todo[c] \ {i}) /\ UNCHANGED got
     ELSE Go(c, "idle", {}) /\ got' = [got EXCEPT ![c] = @ \o out[c]]
  /\ UNCHANGED <<gaps, datas, head, producer, base, retry, wait, pending, ready,
                 skipped, out, passed, timedOut>>

\* All K tickets were skipped: draw K others, which the call gives up at once
\* when that was its last retry.
DeqRedraw(c) ==
  /\ cpc[c] = "redraw"
  /\ StartRange(c, retry[c] + 1)
  /\ IF retry[c] < MaxRetries
     THEN /\ cpc' = [cpc EXCEPT ![c] = "ranks"]
          /\ UNCHANGED timedOut
     ELSE /\ cpc' = [cpc EXCEPT ![c] = "idle"]
          /\ timedOut' = timedOut \cup {head + i : i \in Offsets}
  /\ UNCHANGED <<windows, producer, out, got, passed>>

Consumer(c) == \/ DeqDraw(c) \/ DeqGetData(c) \/ DeqRedraw(c)
               \/ \E i \in Offsets : \/ DeqReadRank(c, i) \/ DeqReadGap(c, i)
                                     \/ DeqRecheck(c, i) \/ DeqClearRank(c, i)

Next == Producer \/ \E c \in Consumers : Consumer(c)

Spec == Init /\ [][Next]_vars

\* Every rank keeps running its call: weak fairness of each.
FairSpec == /\ Spec
            /\ WF_vars(Producer)
            /\ \A c \in Consumers : WF_vars(Consumer(c))
-----------------------------------------------------------------------------
TypeOK == /\ ranks \in [Slots -> Nat \cup {EMPTY_CELL}]
          /\ gaps \in [Slots -> Nat] /\ datas \in [Slots -> Nat]
          /\ head \in Nat /\ tail \in Nat /\ sent \in Nat
          /\ ppc \in {"idle", "read", "mark", "put", "publish"}
          /\ cpc \in [Consumers -> {"idle", "ranks", "gaps", "recheck", "get",
                                    "clear", "redraw"}]
          /\ base \in [Consumers -> Nat]
          /\ retry \in [Consumers -> 0 .. MaxRetries + 1]
          /\ wait \in [Consumers -> 0 .. MaxWait]
          /\ \A mask \in {pending, ready, skipped, todo} :
               mask \in [Consumers -> SUBSET Offsets]
          /\ out \in [Consumers -> Seq(Nat)] /\ got \in [Consumers -> Seq(Nat)]
          /\ passed \subseteq Nat /\ timedOut \subseteq Nat

\* A call returns the items of its K tickets together when it ends.
Batch == INSTANCE SPMCBatch WITH MaxBatch <- K, put <- tail, got <- got

\* Each item is returned at most once and after it was put, in the order of
\* its consumer, although a call decides its K cells from reads that are no
\* snapshot and copies out all K.
ImplementsBatch == Batch!Spec

\* The MPI_Get of a range does not meet the producer's MPI_Put in a cell whose
\* value it then copies out.
NoRace == \A c \in Consumers : ppc = "put" /\ cpc[c] = "get" =>
            \A i \in Offsets \ skipped[c] : Slot(base[c] + i) # Slot(tail)

Returned == UNION {ToSet(got[c]) : c \in Consumers}

\* Tickets whose cells a call has emptied before it returned.
InHand(c) == IF cpc[c] = "clear"
             THEN {base[c] + i : i \in Offsets \ (skipped[c] \cup todo[c])} ELSE {}

\* Every item published is in exactly one place: its cell, the hands of the
\* one call that emptied the cell, or a caller.
Conserved ==
  \A t \in 0 .. tail - 1 :
    LET holders == {c \in Consumers : t \in InHand(c)}
    IN Cardinality(holders) + (IF ranks[Slot(t)] = t THEN 1 ELSE 0)
         + (IF t \in Returned THEN 1 ELSE 0) = 1

Holds(c, t) == cpc[c] # "idle" /\ t \in Tickets(c)

\* An item whose ticket was drawn is somebody's, unless that call reached a
\* limit or skipped it.
OnlyGivenUpAreLost ==
  \A s \in Slots : Busy(s) /\ ranks[s] < head =>
    \/ \E c \in Consumers : Holds(c, ranks[s])
    \/ ranks[s] \in timedOut \cup passed

\* Where everything is: each item in one place, and lost by a known rule only.
Accounted == Conserved /\ OnlyGivenUpAreLost

\* The producer publishes the very ticket whose gap it marked, so a skip is
\* never harmless: a ticket skipped is the producer's next one, or its item
\* stays in its cell for ever.
SkippedAreLost == \A t \in passed : t = tail \/ ranks[Slot(t)] = t

\* A dequeue call returns whatever the others do: only a match or a skip sets
\* wait_count back, and there are K positions.
DequeueReturns == \A c \in Consumers : (cpc[c] # "idle") ~> (cpc[c] = "idle")
=============================================================================
