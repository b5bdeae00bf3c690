------------------------------ MODULE Programs ------------------------------
(***************************************************************************)
(* The programs around a queue, each with all its processes: the demo of   *)
(* main_spmc.c, the micro benchmark (micro_benchmark.c with                *)
(* spmc_microbenchmark.c), and three tests of the benchmark (benchmark.c   *)
(* with spmc_benchmark.c).  Times and what is printed are left out.        *)
(***************************************************************************)
EXTENDS QueueLife, FiniteSetsExt

CONSTANTS Programs,                    \* those that are looked at
          DemoItems, MaxAttempts,      \* demo: 20 values, 50 attempts
          Ops, EnqBatch, DeqBatch,     \* micro: ops_per_consumer; batch sizes
          Warm, Items, MaxEmpty        \* tests: warmup_items, num_items, 100

Tests == {"quick", "enqueue_only", "dequeue_only"}

ASSUME ProgramsAssumption ==
  /\ Programs \subseteq {"demo", "micro"} \cup Tests
  /\ {DemoItems, MaxAttempts, Ops, EnqBatch, DeqBatch, Items, MaxEmpty} \subseteq Nat \ {0}
  /\ Warm \in Nat

VARIABLES
  prog,      \* the program that runs
  i,         \* each process's loop counter
  ebuf,      \* micro: items in the producer's buffer
  rest,      \* micro: items its enqueue_batch call has still to put
  dbuf,      \* micro: items each consumer fetched and did not return yet
  empties,   \* tests: each consumer's empty results in a row
  count      \* tests: the items each process recorded as produced or consumed

local == <<prog, i, ebuf, rest, dbuf, empties, count>>
vars == <<life, queue, local>>

Init == /\ LifeInit
        /\ prog \in Programs
        /\ i = [p \in Ranks |-> 0]
        /\ ebuf = 0 /\ rest = 0
        /\ dbuf = [c \in ConsumerRanks |-> 0]
        /\ empties = [c \in ConsumerRanks |-> 0]
        /\ count = [p \in Ranks |-> 0]

Step(p) == i' = [i EXCEPT ![p] = @ + 1]
Reset(p) == i' = [i EXCEPT ![p] = 0]
Stay == UNCHANGED <<pc, script>>
others == <<prog, calls, inside, memory, valid, locked>>
-----------------------------------------------------------------------------
(* main: what each program does first *)

Main(p) ==
  /\ At(p, "main")
  /\ CASE prog = "demo"                  -> Then(p, IF p = 0 THEN "demo_put" ELSE "demo_get", <<>>)
       [] prog = "micro" /\ p = 0        -> Then(p, "warmup", <<"barrier">>)
       [] prog = "micro" /\ p # 0        -> Then(p, "measure", Times(3, "barrier"))
       [] prog = "dequeue_only" /\ p = 0 -> Then(p, "warm", <<>>)
       [] prog = "quick" /\ p = 0        -> Then(p, "warm", <<"barrier">>)
       [] prog = "enqueue_only"          -> Then(p, IF p = 0 THEN "enqueue" ELSE "stop", <<"barrier">>)
       [] OTHER                          -> Then(p, "consume", <<"barrier">>)
  /\ UNCHANGED <<others, queue, i, ebuf, rest, dbuf, empties, count>>
-----------------------------------------------------------------------------
(* main_spmc.c *)

DemoPut == /\ At(0, "demo_put")
           /\ IF i[0] < DemoItems
              THEN ~Full /\ Offer /\ Step(0) /\ Stay
              ELSE Then(0, "destroy", <<"barrier">>) /\ UNCHANGED <<queue, i>>
           /\ UNCHANGED <<others, ebuf, rest, dbuf, empties, count>>

\* An enqueue call that fails: MPI_TRY returns from main, before the barrier.
DemoGivesUp == /\ At(0, "demo_put")
               /\ i[0] < DemoItems /\ Full
               /\ Exit(0)
               /\ UNCHANGED <<queue, local>>

\* What a call finds in memory that is gone is undefined, and nothing is taken.
DemoGet(c) ==
  /\ At(c, "demo_get")
  /\ IF i[c] < MaxAttempts
     THEN /\ IF memory = "gone" THEN UNCHANGED queue ELSE \E r \in Obtainable(DeqBatch) : Take(r)
          /\ Step(c) /\ Stay
     ELSE Then(c, "destroy", <<"barrier">>) /\ UNCHANGED <<queue, i>>
  /\ UNCHANGED <<others, ebuf, rest, dbuf, empties, count>>
-----------------------------------------------------------------------------
(* micro_benchmark.c, spmc_microbenchmark.c *)

N == NumConsumers * Ops

\* enqueue_flush_buffer
Send(n) == rest' = n /\ ebuf' = 0

\* enqueue_batch_wrapper
Buffered == IF ebuf + 1 < EnqBatch THEN ebuf' = ebuf + 1 /\ UNCHANGED rest
                                   ELSE Send(ebuf + 1)

\* Variant: what is left in the buffer is dropped.
SendNothing == Send(0)

SendRest == Send(ebuf)

Warmup == /\ At(0, "warmup") /\ rest = 0
          /\ IF i[0] < N THEN Buffered /\ Step(0) /\ Stay
                         ELSE SendRest /\ Then(0, "flush", <<>>) /\ UNCHANGED i
          /\ UNCHANGED <<others, queue, dbuf, empties, count>>

Produce == /\ At(0, "produce") /\ rest = 0
           /\ IF i[0] < 2 * N THEN Buffered /\ Step(0) /\ Stay
                              ELSE SendRest /\ Then(0, "flush", <<>>) /\ UNCHANGED i
           /\ UNCHANGED <<others, queue, dbuf, empties, count>>

\* enqueue_batch: the call ends at the first item that is refused.  When that
\* is in the warmup the producer goes to spmc_queue_destroy, while the
\* consumers wait in a barrier; elsewhere it goes on.
BatchPut == /\ rest > 0
            /\ Offer
            /\ rest' = IF Full THEN 0 ELSE rest - 1
            /\ IF Full /\ pc[0] = "warmup" THEN Then(0, "destroy", <<>>) ELSE Stay
            /\ UNCHANGED <<others, i, ebuf, dbuf, empties, count>>

Reports == Times(3, "gather")

\* The result of the last call of a phase is not looked at.
Flushed == /\ At(0, "flush") /\ rest = 0
           /\ IF i[0] = N THEN Reset(0) /\ Then(0, "produce", Times(2, "barrier"))
                          ELSE UNCHANGED i /\ Then(0, "destroy", Times(2, "barrier") \o Reports)
           /\ UNCHANGED <<others, queue, ebuf, rest, dbuf, empties, count>>

\* dequeue_wrapper returns an item of the buffer, or fetches a batch first;
\* it returns none when that finds none.
FromBuffer(c) == /\ dbuf[c] > 0
                 /\ dbuf' = [dbuf EXCEPT ![c] = @ - 1]
                 /\ UNCHANGED queue

\* Variant: the item that is returned stays in the buffer.
LeftAll(r) == r

Left(r) == r - 1

Fetch(c, r) == /\ dbuf[c] = 0
               /\ r \in Obtainable(DeqBatch) \ {0}
               /\ Take(r)
               /\ dbuf' = [dbuf EXCEPT ![c] = Left(r)]

DequeueWrapper(c) == FromBuffer(c) \/ \E r \in 1 .. DeqBatch : Fetch(c, r)

NothingFetched(c) == dbuf[c] = 0 /\ 0 \in Obtainable(DeqBatch)

\* An empty queue is tried again.
Measure(c) == /\ At(c, "measure")
              /\ i[c] < Ops
              /\ DequeueWrapper(c) /\ Step(c) /\ Stay
              /\ UNCHANGED <<others, ebuf, rest, empties, count>>

Retry(c) == /\ At(c, "measure")
            /\ i[c] < Ops
            /\ NothingFetched(c)
            /\ UNCHANGED vars

Measured(c) == /\ At(c, "measure")
               /\ i[c] = Ops
               /\ Reset(c) /\ Then(c, "drain", <<"barrier">>)
               /\ UNCHANGED <<others, queue, ebuf, rest, dbuf, empties, count>>

Share == (2 * N) \div NumConsumers

Drain(c) == /\ At(c, "drain")
            /\ i[c] < Share
            /\ DequeueWrapper(c) /\ Step(c) /\ Stay
            /\ UNCHANGED <<others, ebuf, rest, empties, count>>

Drained(c) == /\ At(c, "drain")
              /\ i[c] = Share \/ NothingFetched(c)
              /\ Then(c, "destroy", <<"barrier">> \o Reports)
              /\ UNCHANGED <<others, queue, local>>
-----------------------------------------------------------------------------
(* benchmark.c, spmc_benchmark.c *)

\* Before the barrier in dequeue_only, after it otherwise; nothing is recorded.
WarmUp == /\ At(0, "warm")
          /\ IF i[0] < Warm
             THEN Offer /\ Step(0) /\ Stay
             ELSE /\ IF prog = "dequeue_only" THEN Then(0, "stop", <<"barrier">>)
                                              ELSE Then(0, "enqueue", <<>>)
                  /\ Reset(0) /\ UNCHANGED queue
          /\ UNCHANGED <<others, ebuf, rest, dbuf, empties, count>>

Record(p, n) == count' = [count EXCEPT ![p] = @ + n]

Enqueue == /\ At(0, "enqueue")
           /\ IF i[0] < Items
              THEN Offer /\ Step(0) /\ Stay /\ Record(0, IF Full THEN 0 ELSE 1)
              ELSE Then(0, "stop", <<>>) /\ UNCHANGED <<queue, i, count>>
           /\ UNCHANGED <<others, ebuf, rest, dbuf, empties>>

\* Variant: a call is recorded with the size of its buffer.
RecordedBuffer(r) == DeqBatch

Recorded(r) == r

Consume(c) ==
  /\ At(c, "consume")
  /\ \E r \in Obtainable(DeqBatch) \ {0} :
       /\ Take(r) /\ Record(c, Recorded(r))
       /\ IF prog # "dequeue_only" /\ count'[c] >= Warm + Items THEN Then(c, "stop", <<>>) ELSE Stay
  /\ empties' = [empties EXCEPT ![c] = 0]
  /\ UNCHANGED <<others, i, ebuf, rest, dbuf>>

\* Variant: an empty result is not counted.
EmptyUncounted(c) == At(c, "consume") /\ 0 \in Obtainable(DeqBatch) /\ UNCHANGED vars

\* After an empty result the test may have lasted long enough.
Empty(c) == /\ At(c, "consume")
            /\ 0 \in Obtainable(DeqBatch)
            /\ empties' = [empties EXCEPT ![c] = @ + 1]
            /\ \/ Then(c, "stop", <<>>)
               \/ empties[c] + 1 < MaxEmpty /\ Stay
            /\ UNCHANGED <<others, queue, i, ebuf, rest, dbuf, count>>

Stop(p) == /\ At(p, "stop")
           /\ Then(p, "aggregate", Times(2, "barrier") \o Times(6, "allreduce"))
           /\ UNCHANGED <<others, queue, i, ebuf, rest, dbuf, empties, count>>

Total(S) == MapThenSumSet(LAMBDA p : count[p], S)

\* Variant: a process looks at its own finish time, not at the latest.
NoneFinishedHere(p, S) == p \notin S \/ count[p] = 0

\* The latest of the finish times reduced is 0.
NoneFinished(p, S) == Total(S) = 0

Estimate(p, S) == IF NoneFinished(p, S) THEN Times(2, "allreduce") ELSE <<>>

Aggregate(p) ==
  /\ At(p, "aggregate")
  /\ Then(p, "destroy", Estimate(p, {0}) \o Estimate(p, ConsumerRanks)
                        \o <<"gather">> \o Times(8, "allreduce"))
  /\ UNCHANGED <<others, queue, i, ebuf, rest, dbuf, empties, count>>
-----------------------------------------------------------------------------
Rank(p) == \/ Life(p) /\ UNCHANGED <<queue, local>>
           \/ Main(p) \/ Stop(p) \/ Aggregate(p)
Producer == DemoPut \/ DemoGivesUp \/ Warmup \/ Produce \/ BatchPut \/ Flushed \/ WarmUp \/ Enqueue
Consumer(c) == \/ DemoGet(c)
               \/ Measure(c) \/ Retry(c) \/ Measured(c) \/ Drain(c) \/ Drained(c)
               \/ Consume(c) \/ Empty(c)

Next == (\E p \in Ranks : Rank(p)) \/ Producer \/ \E c \in ConsumerRanks : Consumer(c)

\* A call on memory that is gone may never return, and the processes that are
\* left may be ended: no consumer is sure to go on.
FairSpec == /\ Init /\ [][Next]_vars
            /\ WF_vars(Producer)
            /\ \A p \in Ranks : WF_vars(Rank(p))
            /\ \A c \in ConsumerRanks : WF_vars(memory # "gone" /\ Consumer(c))
-----------------------------------------------------------------------------
TypeOK == /\ LifeTypeOK
          /\ prog \in Programs /\ i \in [Ranks -> Nat]
          /\ ebuf \in 0 .. EnqBatch - 1 /\ rest \in 0 .. EnqBatch
          /\ dbuf \in [ConsumerRanks -> 0 .. DeqBatch - 1]
          /\ empties \in [ConsumerRanks -> 0 .. MaxEmpty]
          /\ count \in [Ranks -> Nat]

\* The queue holds what the program puts before its first barrier.
Roomy == capacity >= CASE prog = "demo"  -> DemoItems
                       [] prog = "micro" -> N
                       [] OTHER          -> 0

\* All processes make the same collective calls in the same order, although
\* the tests' aggregation has branches with collective calls of their own.
CollectivesMatch ==
  Roomy => \A p, q \in Ranks : \A n \in DOMAIN calls[p] \cap DOMAIN calls[q] :
             calls[p][n] = calls[q][n]

\* The memory behind the windows is there as long as any process may reach
\* it, also when the micro benchmark's warmup fails.  The one exception is a
\* demo whose producer has left main, for a queue that cannot hold its items.
MemoryOutlivesEpochs ==
  \A p \in Ranks : locked[p] => memory = "allocated" \/ (pc[0] = "exited" /\ ~Roomy)

\* "This ensures consumers will never hit empty queue during measurement":
\* with batches a consumer does, but only when what is left is less than a
\* batch or in the buffer of another consumer.
EmptyOnlyByPrefetch ==
  \A c \in ConsumerRanks :
    Roomy /\ At(c, "measure") /\ i[c] < Ops /\ NothingFetched(c)
    => stored > 0 \/ \E d \in ConsumerRanks \ {c} : dbuf[d] > 0

\* "After Phase 3: EMPTY": when the micro benchmark ends, whatever was
\* refused, the queue holds less than a batch.
DrainLeavesLess == prog = "micro" /\ Roomy /\ memory = "freed" => stored < DeqBatch

\* What the micro benchmark's phases promise each other about the queue.
PhasesHold == EmptyOnlyByPrefetch /\ DrainLeavesLess

\* Every item of a test is in the queue or was recorded by the consumer that
\* got it; the totals differ by what warmed the queue up, which is recorded
\* when it is consumed and not when it is produced.
CountsAgree ==
  prog \in Tests =>
    LET accounted == Total(ConsumerRanks) + stored
    IN count[0] <= accounted /\ accounted <= count[0] + Warm

\* Every process of every program ends.  For the micro benchmark the queue must
\* hold more than what warms it up: when items are refused, consumers that are
\* through can hold in their buffers what another one waits for.
Terminates ==
  Roomy /\ (prog = "micro" => capacity >= N + NumConsumers * (DeqBatch - 1))
  => <>(\A p \in Ranks : Ended(p))
=============================================================================
