-------------------------------- MODULE BdFFQ --------------------------------
(***************************************************************************)
(* spmc_bdFFQ/src/spmc_queue.c: enqueue_batch puts EnqK values into a      *)
(* range of cells, marking gaps for the cells that are occupied; dequeue   *)
(* decides DeqK tickets in the phases SCAN, RESOLVE and COMMIT.  As in     *)
(* CFFQ a bulk call reaches its elements one by one: a contiguous call in  *)
(* any order, a call on selected cells one run of neighbours after the     *)
(* other.  The element reached last is joined with the local code after.   *)
(*                                                                         *)
(* A datum is a pair of the ticket it was put under, which is history, and *)
(* its value.  The values of the n-th batch are (n - 1) EnqK, ..., in the  *)
(* order of the caller's array.                                            *)
(***************************************************************************)
EXTENDS Integers, Sequences, SequencesExt

CONSTANTS Consumers,
          N,            \* queue->size
          EnqK, DeqK,   \* count and max_count, the same in every call
          MaxRetries,   \* MAX_DEQUEUE_RETRIES
          MaxBatches,   \* bound: the producer makes MaxBatches enqueue calls
          MaxTail,      \* bound: the producer marks no gap once tail is MaxTail
          MaxHead       \* bound: no dequeue call starts once head is MaxHead

ASSUME SizeAssumption == /\ N \in Nat \ {0} /\ EnqK \in 1 .. N /\ DeqK \in 1 .. N
                         /\ N % EnqK = 0 /\ N % DeqK = 0
ASSUME LimitsAssumption == MaxRetries \in Nat \ {0}
ASSUME BoundsAssumption == MaxBatches \in Nat /\ MaxTail \in Nat /\ MaxHead \in Nat

EMPTY_CELL == -1

VARIABLES
  ranks, gaps, datas, head,   \* the four windows
  tail, ppc, left, free, ptodo,  \* the producer: queue->tail, its next step,
                   \* k - i, ready_mask, the offsets its bulk call has to reach
  sent,            \* history: enqueue_batch calls
  book,            \* history: every datum put
  cpc, base, retry,              \* each consumer: its next step, base, retry_count
  ready, pending, candidates, extra,  \* its masks; extra: candidates confirmed
  todo, out,       \* the offsets its bulk call has to reach; out_data
  got,             \* history: the data each consumer's dequeue calls returned
  passed, undecided, timedOut  \* history: tickets skipped, tickets a commit
                               \* left behind, tickets given up by the limit

windows == <<ranks, gaps, datas>>
producer == <<tail, ppc, left, free, ptodo, sent, book>>
masks == <<ready, pending, candidates, extra>>
history == <<got, passed, undecided, timedOut>>
consumer == <<cpc, base, retry, masks, todo, out, history>>
vars == <<windows, head, producer, consumer>>

Slots == 0 .. N - 1
Slot(t) == t % N
Offsets == 0 .. DeqK - 1
Tickets(c) == {base[c] + i : i \in Offsets}

\* A call on the selected cells reaches the runs of sel in order.
InTurn(i, rest, sel) == i \in rest /\ \A j \in rest : j < i => j .. i \subseteq sel

Init == /\ ranks = [s \in Slots |-> EMPTY_CELL]
        /\ gaps = [s \in Slots |-> 0]
        /\ datas = [s \in Slots |-> <<0, 0>>]
        /\ head = 0
        /\ tail = 0 /\ ppc = "idle" /\ left = 0 /\ free = {} /\ ptodo = {}
        /\ sent = 0 /\ book = {}
        /\ cpc = [c \in Consumers |-> "idle"]
        /\ base = [c \in Consumers |-> 0]
        /\ retry = [c \in Consumers |-> 0]
        /\ ready = [c \in Consumers |-> {}]
        /\ pending = [c \in Consumers |-> {}]
        /\ candidates = [c \in Consumers |-> {}]
        /\ extra = [c \in Consumers |-> {}]
        /\ todo = [c \in Consumers |-> {}]
        /\ out = [c \in Consumers |-> <<>>]
        /\ got = [c \in Consumers |-> <<>>]
        /\ passed = {} /\ undecided = {} /\ timedOut = {}
-----------------------------------------------------------------------------
(* spmc_queue_enqueue_batch *)

\* Variant: a cell with rank 0 is taken for empty.
BusyPositive(s) == ranks[s] > 0

Busy(s) == ranks[s] >= 0

busy == (0 .. left - 1) \ free

\* A round of the loop for the last k values, from ticket t on.  The range is
\* read by one call from cell t % N: no call wraps.  Beyond the end of the
\* window the call is erroneous: the error handler ends the program, and until
\* then the other ranks go on.
Round(t, k) == /\ left' = k
               /\ tail' = t
               /\ free' = {}
               /\ ptodo' = 0 .. k - 1
               /\ ppc' = IF Slot(t) + k > N THEN "overrun" ELSE "read"

EnqueueBatch == /\ ppc = "idle"
                /\ sent < MaxBatches
                /\ sent' = sent + 1
                /\ Round(tail, EnqK)
                /\ UNCHANGED <<windows, head, book, consumer>>

\* The call returns.
Done == /\ ppc' = "idle" /\ tail' = tail + left
        /\ left' = 0 /\ free' = {} /\ ptodo' = {}

\* tail passes the whole range, i what was put.
Advance == LET k == left - Cardinality(free)
           IN IF k > 0 THEN Round(tail + left, k) ELSE Done

\* The next bulk call of the producer reaches the offsets in s.
EnqGo(step, s) == ppc' = step /\ ptodo' = s /\ UNCHANGED <<tail, left>>

EnqReadRank(j) ==
  /\ ppc = "read"
  /\ j \in ptodo
  /\ free' = IF Busy(Slot(tail + j)) THEN free ELSE free \cup {j}
  /\ IF ptodo # {j} THEN EnqGo("read", ptodo \ {j})
     ELSE IF Cardinality(free') = left THEN EnqGo("put", {})
     ELSE EnqGo("mark", (0 .. left - 1) \ free')
  /\ UNCHANGED <<windows, head, sent, book, consumer>>

EnqMarkGap(j) ==
  /\ ppc = "mark"
  /\ tail < MaxTail
  /\ InTurn(j, ptodo, busy)
  /\ gaps' = [gaps EXCEPT ![Slot(tail + j)] = tail + j]
  /\ IF ptodo # {j} THEN EnqGo("mark", ptodo \ {j}) /\ UNCHANGED free
     ELSE IF free # {} THEN EnqGo("put", {}) /\ UNCHANGED free
     ELSE Advance
  /\ UNCHANGED <<ranks, datas, head, sent, book, consumer>>

\* Line 94: the value for cell tail + j is values[i + j].
Datum(j) == <<tail + j, sent * EnqK - left + j>>

EnqPutData ==
  /\ ppc = "put"
  /\ datas' = [s \in Slots |->
                 IF \E j \in free : s = Slot(tail + j)
                 THEN Datum(CHOOSE j \in free : s = Slot(tail + j)) ELSE datas[s]]
  /\ book' = book \cup {Datum(j) : j \in free}
  /\ EnqGo("publish", free)
  /\ UNCHANGED <<ranks, gaps, head, free, sent, consumer>>

EnqPublish(j) ==
  /\ ppc = "publish"
  /\ InTurn(j, ptodo, free)
  /\ ranks' = [ranks EXCEPT ![Slot(tail + j)] = tail + j]
  /\ IF ptodo # {j} THEN EnqGo("publish", ptodo \ {j}) /\ UNCHANGED free
     ELSE Advance
  /\ UNCHANGED <<gaps, datas, head, sent, book, consumer>>

EnqStep == \/ EnqPutData
           \/ \E j \in ptodo : EnqReadRank(j) \/ EnqMarkGap(j) \/ EnqPublish(j)

Producer == EnqueueBatch \/ EnqStep
-----------------------------------------------------------------------------
(* spmc_queue_dequeue *)

\* The next bulk call of consumer c reaches the offsets in s.
Go(c, step, s) == /\ cpc' = [cpc EXCEPT ![c] = step]
                  /\ todo' = [todo EXCEPT ![c] = s]

\* Variant: a read and a later write, whose increment may be lost.
DrawRacy(c) == /\ base' = [base EXCEPT ![c] = head]
               /\ head' \in {head, head + DeqK}

\* base = FAA(head, k)
Draw(c) == /\ base' = [base EXCEPT ![c] = head]
           /\ head' = head + DeqK

\* The masks at the start of an iteration.
ClearMasks(c) == /\ ready' = [ready EXCEPT ![c] = {}]
                 /\ pending' = [pending EXCEPT ![c] = {}]
                 /\ candidates' = [candidates EXCEPT ![c] = {}]
                 /\ extra' = [extra EXCEPT ![c] = {}]

DeqDraw(c) == /\ cpc[c] = "idle"
              /\ head < MaxHead
              /\ Draw(c)
              /\ retry' = [retry EXCEPT ![c] = 1]
              /\ ClearMasks(c)
              /\ Go(c, "scan", Offsets)
              /\ UNCHANGED <<windows, producer, out, history>>

\* The call waits instead of committing.
WaitsOnly(rdy, undec) == undec # {} /\ rdy = {}

\* Variant: one iteration more than the limit.
RetriesLeftOneMore(c) == retry[c] <= MaxRetries

RetriesLeft(c) == retry[c] < MaxRetries

\* The decision, from the combined set and the undecided tickets.
Decide(c, combined, undec) ==
  IF WaitsOnly(combined, undec)
  THEN /\ IF RetriesLeft(c)
          THEN /\ Go(c, "wait", {})
               /\ UNCHANGED timedOut
          ELSE /\ Go(c, "idle", {})
               /\ timedOut' = timedOut \cup Tickets(c)
       /\ UNCHANGED undecided
  ELSE /\ Go(c, IF combined = {} THEN "redraw" ELSE "get", {})
       /\ undecided' = undecided \cup {base[c] + i : i \in undec}
       /\ UNCHANGED timedOut

\* Variant: usleep and the next iteration, uncounted.
DeqWaitUncounted(c) == /\ cpc[c] = "wait"
                       /\ ClearMasks(c)
                       /\ Go(c, "scan", Offsets)
                       /\ UNCHANGED <<windows, head, producer, base, retry, out, history>>

\* usleep, and the next iteration.
DeqWait(c) == /\ cpc[c] = "wait"
              /\ retry' = [retry EXCEPT ![c] = @ + 1]
              /\ ClearMasks(c)
              /\ Go(c, "scan", Offsets)
              /\ UNCHANGED <<windows, head, producer, base, out, history>>

RankAt(c, i) == ranks[Slot(base[c] + i)]
Matches(c, i) == RankAt(c, i) = base[c] + i

\* SCAN.  A rank beyond the ticket is neither ready nor pending.
DeqScan(c, i) ==
  LET rdy == IF Matches(c, i) THEN ready[c] \cup {i} ELSE ready[c]
      pend == IF RankAt(c, i) < base[c] + i THEN pending[c] \cup {i} ELSE pending[c]
  IN /\ cpc[c] = "scan"
     /\ i \in todo[c]
     /\ ready' = [ready EXCEPT ![c] = rdy]
     /\ pending' = [pending EXCEPT ![c] = pend]
     /\ IF todo[c] = {i} /\ pend = {}
        THEN Decide(c, rdy, {})
        ELSE /\ IF todo[c] # {i} THEN Go(c, "scan", todo[c] \ {i}) ELSE Go(c, "gaps", pend)
             /\ UNCHANGED <<undecided, timedOut>>
     /\ UNCHANGED <<windows, head, producer, base, retry, candidates, extra, out,
                    got, passed>>

\* RESOLVE: the gaps of the pending tickets, ...
DeqReadGap(c, i) ==
  LET cand == IF gaps[Slot(base[c] + i)] >= base[c] + i
              THEN candidates[c] \cup {i} ELSE candidates[c]
  IN /\ cpc[c] = "gaps"
     /\ i \in todo[c]
     /\ candidates' = [candidates EXCEPT ![c] = cand]
     /\ IF todo[c] = {i} /\ cand = {}
        THEN Decide(c, ready[c], pending[c])
        ELSE /\ IF todo[c] # {i} THEN Go(c, "gaps", todo[c] \ {i}) ELSE Go(c, "recheck", cand)
             /\ UNCHANGED <<undecided, timedOut>>
     /\ UNCHANGED <<windows, head, producer, base, retry, ready, pending, extra,
                    out, got, passed>>

\* Variant: the double check is left out.
GoneUnchecked(c, i) == TRUE

Gone(c, i) == ~Matches(c, i)

\* ... and the ranks of the candidates once more.
DeqRecheck(c, i) ==
  LET ext == IF Gone(c, i) THEN extra[c] ELSE extra[c] \cup {i}
  IN /\ cpc[c] = "recheck"
     /\ InTurn(i, todo[c], candidates[c])
     /\ extra' = [extra EXCEPT ![c] = ext]
     /\ passed' = IF Gone(c, i) THEN passed \cup {base[c] + i} ELSE passed
     /\ IF todo[c] = {i}
        THEN Decide(c, ready[c] \cup ext, pending[c] \ candidates[c])
        ELSE Go(c, "recheck", todo[c] \ {i}) /\ UNCHANGED <<undecided, timedOut>>
     /\ UNCHANGED <<windows, head, producer, base, retry, ready, pending,
                    candidates, out, got>>

Combined(c) == ready[c] \cup extra[c]

\* taken is the list of the offsets in kept, in order.
Lists(taken, kept) ==
  /\ \A m, n \in DOMAIN taken : m < n => taken[m] < taken[n]
  /\ kept = {taken[n] : n \in DOMAIN taken}

\* COMMIT: one MPI_Get of the whole range, of which the combined cells count,
DeqGetData(c) ==
  /\ cpc[c] = "get"
  /\ \E taken \in SeqOf(Combined(c), DeqK) :
       /\ Lists(taken, Combined(c))
       /\ out' = [out EXCEPT ![c] =
                    [n \in DOMAIN taken |-> datas[Slot(base[c] + taken[n])]]]
  /\ Go(c, "clear", Combined(c))
  /\ UNCHANGED <<windows, head, producer, base, retry, masks, history>>

\* and their ranks are emptied.
DeqClearRank(c, i) ==
  /\ cpc[c] = "clear"
  /\ InTurn(i, todo[c], Combined(c))
  /\ ranks' = [ranks EXCEPT ![Slot(base[c] + i)] = EMPTY_CELL]
  /\ IF todo[c] = {i}
     THEN Go(c, "idle", {}) /\ got' = [got EXCEPT ![c] = @ \o out[c]]
     ELSE Go(c, "clear", todo[c] \ {i}) /\ UNCHANGED got
  /\ UNCHANGED <<gaps, datas, head, producer, base, retry, masks, out, passed,
                 undecided, timedOut>>

\* The whole range was skipped: draw another, which the call gives up at once
\* when that was its last retry.
DeqRedraw(c) ==
  /\ cpc[c] = "redraw"
  /\ Draw(c)
  /\ ClearMasks(c)
  /\ IF RetriesLeft(c)
     THEN /\ retry' = [retry EXCEPT ![c] = @ + 1]
          /\ Go(c, "scan", Offsets)
          /\ UNCHANGED timedOut
     ELSE /\ Go(c, "idle", {})
          /\ timedOut' = timedOut \cup {head + i : i \in Offsets}
          /\ UNCHANGED retry
  /\ UNCHANGED <<windows, producer, out, got, passed, undecided>>

Consumer(c) == \/ DeqDraw(c) \/ DeqWait(c) \/ DeqGetData(c) \/ DeqRedraw(c)
               \/ \E i \in todo[c] : \/ DeqScan(c, i) \/ DeqReadGap(c, i)
                                     \/ DeqRecheck(c, i) \/ DeqClearRank(c, i)

Next == Producer \/ \E c \in Consumers : Consumer(c)

Spec == Init /\ [][Next]_vars

\* Every rank keeps running its call; the producer may make no further one.
FairSpec == /\ Spec
            /\ WF_vars(EnqStep)
            /\ \A c \in Consumers : WF_vars(Consumer(c))
-----------------------------------------------------------------------------
TypeOK == /\ ranks \in [Slots -> Nat \cup {EMPTY_CELL}] /\ gaps \in [Slots -> Nat]
          /\ datas \in [Slots -> Nat \X Nat] /\ book \subseteq Nat \X Nat
          /\ head \in Nat /\ tail \in Nat /\ sent \in Nat /\ left \in 0 .. EnqK
          /\ ppc \in {"idle", "read", "mark", "put", "publish", "overrun"}
          /\ free \subseteq 0 .. left - 1 /\ ptodo \subseteq 0 .. left - 1
          /\ cpc \in [Consumers -> {"idle", "scan", "gaps", "recheck", "wait",
                                    "get", "clear", "redraw"}]
          /\ base \in [Consumers -> Nat] /\ retry \in [Consumers -> 0 .. MaxRetries]
          /\ \A m \in {ready, pending, candidates, extra, todo} :
               m \in [Consumers -> SUBSET Offsets]
          /\ out \in [Consumers -> Seq(Nat \X Nat)]
          /\ got \in [Consumers -> Seq(Nat \X Nat)]
          /\ UNION {passed, undecided, timedOut} \subseteq Nat

\* The data of a round count as put once they lie in their cells.
putTickets == IF ppc = "publish" THEN tail + left ELSE tail
gotTickets == [c \in Consumers |-> [n \in DOMAIN got[c] |-> got[c][n][1]]]
Batch == INSTANCE SPMCBatch WITH
           MaxBatch <- IF EnqK > DeqK THEN EnqK ELSE DeqK,
           put <- putTickets, got <- gotTickets

\* What lies under a ticket is returned at most once, after it was put, in the
\* order of its consumer, whatever tickets either side passes.
ImplementsBatch == Batch!Spec

\* The MPI_Get of a range does not meet an MPI_Put of the producer in a cell
\* whose value counts.
NoRace == \A c \in Consumers : ppc = "put" /\ cpc[c] = "get" =>
            {Slot(base[c] + i) : i \in Combined(c)} \cap {Slot(tail + j) : j \in free} = {}

Returned == UNION {ToSet(got[c]) : c \in Consumers}
InHand(c) == IF cpc[c] = "clear" THEN ToSet(out[c]) ELSE {}
Published(d) == ranks[Slot(d[1])] = d[1] /\ datas[Slot(d[1])] = d

\* A datum that was put is in its cell, about to be published there, in the
\* hands of the one call that empties the cell, or with a caller: no occupied
\* cell is overwritten and no call takes what another has.
Conserved == \A d \in book :
  LET holders == {c \in Consumers : d \in InHand(c)}
      due == ppc = "publish" /\ \E j \in ptodo : d[1] = tail + j
  IN /\ Cardinality(holders) + (IF d \in Returned THEN 1 ELSE 0) =< 1
     /\ \/ Published(d) \/ due \/ holders # {} \/ d \in Returned
     /\ Published(d) => d \notin Returned

Holds(c, t) == cpc[c] # "idle" /\ t \in Tickets(c)

\* A datum whose ticket was drawn is somebody's, unless that call reached the
\* limit, left it undecided, or it is the first: no skip loses any other.
OnlyAbandonedAreLost ==
  \A s \in Slots : Busy(s) /\ ranks[s] < head =>
    \/ \E c \in Consumers : Holds(c, ranks[s])
    \/ ranks[s] \in timedOut \cup undecided \cup {0}

\* A ticket skipped after the double check is never published, but the first,
\* whose gap mark the memory holds from the start.
SkipIsFinalAfterFirst == \A s \in Slots : ranks[s] > 0 => ranks[s] \notin passed

\* Where everything is: each datum in one place, and lost by a known rule only.
Accounted == Conserved /\ SkipIsFinalAfterFirst /\ OnlyAbandonedAreLost

\* "i <- i + |ready|; if i == k: success": when a call has returned, each value
\* of its array was put once.
ValuesOnce ==
  /\ \A d, e \in book : d[2] = e[2] => d = e
  /\ ppc = "idle" => {d[2] : d \in book} = 0 .. sent * EnqK - 1

\* A dequeue call returns whatever the others do.
DequeueReturns == \A c \in Consumers : (cpc[c] # "idle") ~> (cpc[c] = "idle")
=============================================================================
