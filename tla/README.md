# Verification of the SPMC queues over MPI RMA

The repository holds seven single-producer multiple-consumer queues of ints
(`src/spmc_*`), an MPI wrapper library under them (`src/mpi_lib`) and two
measuring programs above them (`src/benchmark`, `src/microbenchmark`). All
queue memory lies in MPI windows at one rank; every other rank reaches it by
one-sided calls. This directory holds TLA+ specifications of the queues'
algorithms and of the programs around them, TLC configurations that check them
on small instances, and TLAPS proofs for instances of any size.

## 1. Inventory

| Part | State it keeps | Operations | Modelled in |
|---|---|---|---|
| CircularQueue `spmc_CircularQueue/src/spmc_queue.c` | windows `data`, `head`, `tail`, `reserved_head`, `reserved_tail`; local `head_buf` (producer), `tail_buf` (each consumer) | init, enqueue, dequeue(max_count), destroy | `CircularQueue` |
| dFFQ `spmc_dFFQ/src/spmc_queue.c` | windows `cells` (rank, gap, data) and `head`; the producer's local `tail` | init, enqueue, dequeue, destroy | `DFFQ` |
| nbdFFQ `spmc_nbdFFQ/src/spmc_queue.c` | windows `ranks`, `gaps`, `datas`, `head`; the producer's local `tail` | init, enqueue, enqueue_batch, dequeue, destroy | `NbdFFQ` |
| c-FFQ `spmc_c-FFQ/src/spmc_queue.c` | as nbdFFQ, one item per cell | enqueue, dequeue of k tickets at once | `CFFQ` |
| bdFFQ `spmc_bdFFQ/src/spmc_queue.c` | as c-FFQ | enqueue_batch, dequeue in SCAN, RESOLVE and COMMIT phases | `BdFFQ` |
| DavidQueue `spmc_DavidQueue/src/spmc_queue.c` | windows `items` (rows of cells), a `head` per row, `row`; the producer's local row and tail | enqueue and dequeue by swap | `DavidQueue` |
| BBQ `spmc_BBQ/src/spmc_queue.c` | windows `items` (cells with a generation), `heads`, `row`, two bitmaps; local maps and search positions | enqueue with row change, dequeue | `BBQ` |
| BBQ bitmap `spmc_BBQ/src/bitmap.c` | none of its own | searches, the row-change heuristic | `BitmapOps` |
| mpi_lib `mpi_lib/src/mpi_lib.c` | window structure with a validity flag (`is_valid`) and an element size | create, lock_all, unlock_all, destroy; one-sided calls | `QueueLife`; one-sided calls are the steps of the queue modules |
| demos `main_spmc.c` | attempts made | put 20, try 50 times, barrier | `Programs` |
| microbenchmark | batch buffers of both sides, counters | warmup, measure, produce, drain, aggregate | `Programs` |
| benchmark | counts per process | quick, enqueue_only, dequeue_only tests, aggregate | `Programs` |
| BBQ tests, mpi_lib examples, scripts | none of the system's | drivers, demonstrations, launching | no |

**How the parts interact.** A producer rank and the consumer ranks call
`spmc_queue_enqueue` and `spmc_queue_dequeue`. These call `mpi_fetch_and_op`,
`mpi_compare_and_swap`, `mpi_accumulate`, `mpi_put` and `mpi_get` of
`mpi_lib.c`. `spmc_queue_init` locks all windows once
(`mpi_win_lock_all_multiple`), and the epochs last until `spmc_queue_destroy`. The
wrappers take no lock: each checks `is_valid`, and flushes before it returns. So a
rank has at most one RMA call in flight, and the order in which the calls of all ranks take effect at the owner
is an interleaving of their programs. Nothing but the windows is shared: there
are no messages and no callbacks, and a failing rank ends the program (the
default MPI error handler aborts). The programs synchronise their ranks by collective calls
only: barriers between phases, reductions and gathers at the end, and the
creation and the release of the windows.

**What is hard.**

- *Interleaving*: any number of calls of other ranks take effect between two
  RMA calls of one operation, or between two elements of one bulk call.
- *Stale reads*: the queues decide on cached counters (`head_buf`, `tail_buf`),
  on a gap mark read before another ticket is drawn, on a rank read before the
  data are, on a map of the row that may be over.
- *Non-atomic data*: `mpi_put` and `mpi_get` are not atomic. If they meet on one
  location the value is undefined, so that must not happen.
- *Giving back*: CircularQueue subtracts from `head` what it added before,
  although others have drawn positions since.
- *Giving up*: the FFQ family abandons a ticket after a limited number of waits
  or tickets. What happens to the item published under it?
- *Overwriting*: DavidQueue and BBQ swap a value into a cell before they know
  whether a consumer was there.
- *Limits*: full and empty rings, the wrap-around, initial values (`gap` starts
  at 0, which is a ticket), the end of a row.
- *Matching collectives*: a process that leaves early, or takes another branch,
  blocks all others.

**What makes each part correct.**

- CircularQueue: it is one FIFO queue of `size` items across all consumers; a
  slot is not written while it is read; a given-back position does no harm; a
  granted call ends.
- dFFQ, nbdFFQ, c-FFQ, bdFFQ: an item is returned at most once, whole, to
  the consumer that drew its ticket, each consumer in order; no item vanishes
  except by a known rule; calls end.
- DavidQueue: values leave first in first out, up to calls under way; a row
  change loses nothing; the mark of a consumer is never an item.
- BBQ: a value is returned once; consumers of one row agree on its map.
- bitmap: each search equals its definition by counting.
- The programs: all ranks make the same collective calls; the memory outlives
  the epochs; every process ends; the counts add up to what is in the queue.

## 2. Plan

| Step | Modules | What it is for |
|---|---|---|
| done | `SPMCFifo`, `CircularQueue` | FIFO refinement, races, the wedge after a rollback |
| done | `SPMCBag`, `DFFQ`, `NbdFFQ` | at-most-once refinement, lost items, the producer that passes busy slots |
| done | `CircularQueue_proofs`, `DFFQ_proofs`, `NbdFFQ_proofs`, `CFFQ_proofs`, `BdFFQ_proofs`, `DavidQueue_proofs`, `BBQ_proofs` | theorems for every instance |
| done | `SPMCBatch`, `CFFQ`, `BdFFQ` | batches decided from reads that are no snapshot |
| done | `DavidQueue`, `BitmapOps`, `BBQ` | the queues that swap, and the row change |
| done | `QueueLife`, `Programs` | windows, collective calls, the programs around a queue |
| done | `Programs_proofs` | the programs' safety for any number of consumers and windows, and all sizes |

Abstract specifications: `SPMCFifo` for the CircularQueue; `SPMCBag` for dFFQ,
nbdFFQ and DavidQueue; `SPMCBatch` for c-FFQ and bdFFQ.

## 3. Modules

`SPMCFifo` is the queue a caller expects of a FIFO implementation: `put` items
went in, `taken` came out, and a consumer takes the next `k` in one step. At
most `Capacity` are inside. `SPMCBag` promises less: an item is handed out at
most once, only after it was put, and a consumer never gets an older item after
a younger one. `SPMCBatch` is the same for calls that put or take several items.

**Granularity.** An action is one RMA call with the local code up to the next
one, in all queue modules. Exceptions: calls whose only effect is on local
variables are joined to the RMA call before them; and a bulk call of c-FFQ or
bdFFQ is one action *per element*, because MPI makes accumulates atomic for
each element and not for the call (a contiguous call reaches its elements in any
order; a call on selected cells is one RMA call per run of neighbours). A
compare-and-swap that fails, with its back-off, changes nothing, so only the
successful one is an action; fairness makes it happen when it stays possible.
Items are numbers: the n-th item is n - 1, which is also its position or ticket
where the properties want that. A batch of nbdFFQ is one value, because
`mpi_put` and `mpi_get` move it in one call; `NoRace` says that these calls never
overlap.

`CircularQueue`: `EnqReserve` is the fetch-and-add on `tail` with the test
against the cached `reserved_head`; `EnqRefresh` re-reads it; `EnqRollback`
subtracts again and returns -1; `EnqPut` writes the slot; `EnqCommit` is the
compare-and-swap on `reserved_tail`. `DeqReserve(c)` (for a count out of
`Counts`), `DeqRefresh(c)`, `DeqRollback(c)`, `DeqGet(c)`, `DeqGetWrap(c)` (the
second `mpi_get` when the positions wrap) and `DeqCommit(c)` are the dequeue
call in the same way. `ppc` and `cpc` say which step comes next.

`DFFQ`: `Enqueue` starts a call, `EnqReadRank` looks at the cell of `tail`,
`EnqMarkGap` marks a gap and goes back to look at the *same* cell (`tail++` is
after the loop), `EnqPutData` and `EnqPublish` write the item. `DeqDraw(c)` is
the fetch-and-add on `head`; `DeqReadRank`, `DeqGetData`, `DeqClearRank` the
good path; `DeqReadGap`, `DeqRecheck`, `DeqSkip` the other; `WaitOrGiveUp` what
the loop condition does with `retry_count` and `wait_count`.

`NbdFFQ` has the same shape with separate windows, batches, and a producer that
moves `tail` on when it meets a busy slot.

`CFFQ` has dFFQ's producer and draws `K` tickets with one fetch-and-add. The
masks `pending`, `ready` and `skipped` are sets of offsets, and `todo` holds
those the current bulk call has yet to reach. `DeqReadRank(c, i)` and
`DeqReadGap(c, i)` read element i, `DeqRecheck(c, i)` reads a rank again
(`Gone`), `WaitOrTimeOut` is the wait counter with its limit, `DeqGetData` the one
`mpi_get`, `DeqClearRank` is `update_ranks_ranges`, `DeqRedraw` the next
iteration of the outer loop.

`BdFFQ`: `Round` is an iteration of the enqueue loop over a range of `left`
cells, in which `EnqReadRank`, `EnqMarkGap`, `EnqPutData` and `EnqPublish` stand
for `read_contiguous`, `write_selected` and `put_selected`; `Advance` is what the
end of the loop does with `tail` and i. `DeqScan`, `DeqReadGap` with
`DeqRecheck`, and `DeqGetData` with `DeqClearRank` are SCAN, RESOLVE and COMMIT;
`Decide` is the choice between waiting, redrawing and committing. A datum is a
pair: the ticket it lies under and the value of the caller's array, so that
`ImplementsBatch` is about the first and `ValuesOnce` about the second.

`DavidQueue`: `EnqSwap` is the first swap of an enqueue call with the test for a
consumer's mark `T`, `EnqSwapAgain` the swap into the next row, `EnqAnnounce` the
write of `row`. `DeqReadRow`, `DeqDraw` (fetch-and-add on the row's `head`) and
`DeqSwap` are the dequeue call.

`BitmapOps` are the functions of `bitmap.c` on sets of bits. `Scan` goes word by
word as the code does, `FindNthSafeIndex` continues from a cached result,
`Heuristic` computes the words it refills, including the two values the undefined
shift of the last mask may have. `BBQ` uses them: `EnqSwap`, `EnqSync` (the row
change with its put of the new map), `EnqSwapAgain` and `EnqAnnounce`; `DeqReadRow`,
`DeqGetMap`, `DeqDraw`, `DeqSwap` and `DeqMark`. `Counter` is the displacement the
code passes for the head counter of a row, divided by four.

`QueueLife` is what all programs share. `script[p]` lists the collective calls
process p makes before it goes on; `Enter` and `Leave` make and end one of them;
a call ends only when every process has made *the same* call at that place
(`MPI_Gather` does not hold a process that is not the root). `QueueInit`, `LockAll`,
`QueueDestroy` and `Free` are `spmc_queue_init` and `spmc_queue_destroy`, without the
barrier that ends DavidQueue's init (line 91: every rank makes it, first of its calls).
`Exit` is a return from `main` without them: the process is gone, and when it is the
producer so is the memory behind the windows (`memory = "gone"`). The queue
itself is an ideal one, with a number of items and a capacity: it refuses an item
only when it is full and gives a batch or less. An item lost by a real queue is
not in these runs; the queue modules say when that happens. `Programs`
extends it with the actions of the demo, the micro benchmark (its wrappers with
their buffers, warmup, measured phase, drain) and three benchmark tests. In the demo
`DemoGivesUp` is the enqueue call that fails: `MPI_TRY` returns its error out of
`main`. What a consumer's dequeue finds after that is undefined: in the model it takes
nothing and may return or not, and `i` counts the attempt in any case.

History variables (never read by an action's guard, except bounds): `accepted`,
`sent` count the enqueue calls; `got[c]` lists what dequeue returned; `givenUp`,
`skipped` (dFFQ, nbdFFQ), `passed`, `timedOut`, `undecided` collect the tickets a call
abandoned; `book`, `refused`, `overwritten` what was put, refused or swapped out;
`calls` the collective calls.

**Bounds.** `MaxItems`/`MaxBatches` limits the enqueue calls, `MaxHead` the
tickets drawn (no dequeue call starts beyond it), `MaxTail` the tickets the
producer may pass, `MaxRow` BBQ's generations. They stand in guards. The counters
are mathematical integers: the overflow of the C `int`s after 2^31 operations is
listed as a hazard and not modelled. `Counts` is a set of possible `max_count`
arguments; the programs of the repository pass `get_batch_size()`, which is 1 for
CircularQueue, and the run adds 2.

The operators marked *Variant* are plausible mistakes; no action uses them. They
show that each property fails when the code is wrong in that way.

## 4. Runs

| Run | Instance | Shows |
|---|---|---|
| `circular_safety` | 2 consumers, batches of 1 or 2, ring of 3, 4 items, fair | `ImplementsFifo`, `NoRace`, `WedgeIsForever`, `AllHandedOnceAlone` |
| `dffq_safety` | 2 consumers, ring of 2, 4 items, 4 tickets, fair | `ImplementsBag`, `NoRace`, `Accounted`, `DequeueReturns` |
| `nbdffq_safety` | 2 consumers, ring of 2, 4 batches, 6 tickets passed, fair | `ImplementsBag`, `NoRace`, `Accounted`, `DequeueReturns`, `TypeOK` |
| `cffq_safety` | 2 consumers drawing 2, ring of 2, 4 items, 6 tickets, fair | `ImplementsBatch`, `NoRace`, `Accounted`, `SkippedAreLost`, `DequeueReturns`, `TypeOK` |
| `bdffq_safety` | batches of 2 on both sides, ring of 2, 3 batches, fair | `ImplementsBatch`, `NoRace`, `Accounted`, `DequeueReturns`, `TypeOK` |
| `david_safety` | 2 consumers, 3 rows of 7, 5 items | `ImplementsBag`, `AnswersTrue`, `FifoUpToPending`, `TypeOK` |
| `bbq_safety` | 2 consumers, 6 columns in words of 2, 6 rows, 7 items | `ValuesOnce`, `UntilOverwritten`, `RowShared`, `SearchesRight`, `RowChange`, `TypeOK` |
| `programs` | 2 consumers, 2 windows, capacities 3, 4, 6 and 12, all five programs, fair | `CollectivesMatch`, `MemoryOutlivesEpochs`, `PhasesHold`, `CountsAgree`, `Terminates`, `TypeOK` |
| `circular_wedge` | 2 polling consumers, ring of 2 | **violated**: `PopCommits` |
| `dffq_enqueue_spins` | 2 polling consumers, ring of 2 | **violated**: `EnqueueReturns` |
| `nbdffq_first_ticket` | 2 consumers | **violated**: `SkipIsFinal` |
| `bdffq_values` | batches of 2, ring of 2 | **violated**: `ValuesOnce` |

`Accounted` is, in each FFQ module, the conjunction of what says where items and
tickets are: an item is in exactly one place (`Conserved`), and lost only by a
rule the module names (`OnlyGivenUpAreLost`, `OnlyTimeoutsLose`,
`OnlyAbandonedAreLost`); for dFFQ also `Window` and `TicketsDistinct`, for nbdFFQ
and bdFFQ `SkipIsFinalAfterFirst`. `AnswersTrue` joins `NothingLost` and
`RefusedStaysOut`, `RowShared` joins `SameMap` and `CellsOnce`, `UntilOverwritten`
joins `InOrder` and `KeptInFirstRow`, `SearchesRight` joins `FindsNth` and
`FindsNearest`, `PhasesHold` joins `EmptyOnlyByPrefetch` and `DrainLeavesLess`.
The type invariants of CircularQueue and DFFQ, and `NoReissue`, `ItemsStay` and
`LostForever`, are proved for every instance (section 5) and not run.

**Why these bounds suffice.** With a ring of two or three, three or four items
and up to six tickets every slot is used at least twice, the ring becomes full
and empty, and a ticket is a lap behind another. Two consumers are enough for one
to hold a ticket while the other skips or empties it, and to wedge the
CircularQueue. The limits let a call wait, skip, and run into either limit (the
code's values are larger). In `david_safety` a row is longer than the items and
draws that reach it, because the properties are promised before a row's end
only; `RefusedStaysOut` is about the enqueuer's last row. `bbq_safety` has six
rows, so that the second head counter comes into use, and more items than
columns, so that the producer overwrites. `programs` has a queue that is too
small for the warmup and for the demo's items, one that they fill, one that is full at times, and one that
never is. Deadlock is not checked: when the bounds are used up the system stops,
and the CircularQueue and the programs may really stop (below).

**Fairness.** Weak fairness of the producer and of each consumer: a rank keeps
executing its call, and the operating system runs every rank. Successful
compare-and-swaps need no more: the value that `EnqCommit` or `DeqCommit` waits
for is changed only by the call that waits. The CircularQueue's consumers
and bdFFQ's producer need not call again: their fairness ends with the call. A
demo's consumers whose producer has left `main` are under no fairness at all.
`AllHandedOnceAlone` says in its premise who polls, and `PollSpec`, used by
`circular_wedge`, adds that all consumers do, as the loops of the programs do.

**What the four violations are.**

1. *CircularQueue wedges* (`circular_wedge`). A reserves position p on an empty
   queue and decides to give it back; B reserves p + 1, sees that two items were
   committed meanwhile, and is granted its position; A now subtracts its count:
   `head` is p + 1 again. Position p is never handed out, `reserved_head` stays
   at p, and every granted consumer spins in its compare-and-swap loop, which
   the comment at `spmc_queue.c:229` expects to end. `WedgeIsForever` shows
   that no later call repairs it; `ImplementsFifo` that even then nothing wrong is
   returned; `AllHandedOnceAlone` that short of a wedge the races leave nothing
   behind.
2. *dFFQ's enqueue spins* (`dffq_enqueue_spins`). A full ring is not reported by
   -1, as line 91 says: `tail` is not advanced in the loop. It ends only if a
   consumer empties that very cell, and `LostForever` (proved) says when none ever will.
   c-FFQ has the same producer.
3. *nbdFFQ loses ticket 0* (`nbdffq_first_ticket`). The gaps start at 0, so a
   consumer ahead of the producer finds `gap >= rank` for ticket 0 and skips a
   slot that is not "permanently skipped" (line 359). It is published afterwards
   and nobody takes it. `SkipIsFinalAfterFirst` and `OnlyTimeoutsLose`, parts of `Accounted`, show that
   this is the only ticket the double check gets wrong; bdFFQ is the same.
4. *bdFFQ sends the wrong values* (`bdffq_values`). `put_selected` indexes the
   caller's array by i plus the offset in the range, occupied cells included,
   where line 262 counts the ready ones: a value is skipped and another sent twice.

**Other disagreements met while modelling,** which the passing properties are
stated around:

- *c-FFQ*: a call that reaches its wait limit returns "Queue empty" (437) after
  it found some of its tickets ready; their items stay in the ring for ever
  (`OnlyGivenUpAreLost` names `timedOut`). A gap mark is for the ticket that is
  published next, so a skip after the double check loses that item as well
  (`SkippedAreLost`).
- *bdFFQ*: a commit returns what is ready and leaves the undecided tickets of its
  range behind (363, 501; `OnlyAbandonedAreLost` names `undecided`). A rank beyond
  the ticket, which line 442 says "should not happen in correct usage", happens
  when the producer lapped the consumer. After a second round `tail` is no
  multiple of the batch, and a range then reaches beyond the window (287): the
  model stops its producer in the state `overrun`.
- *DavidQueue*: a number drawn at the end of a row swaps out the `T` that lies
  there from the start and returns -2 as an item; further numbers reach the next
  row's cells. The run stays short of a row's end.
- *BBQ*: the producer wraps around over items nobody dequeued (342) and the call
  reading the consumers' marks is commented out (353), so values vanish without
  an error: `InOrder` and `KeptInFirstRow` are conditional on `overwritten` being
  empty. The displacement 464 is divided by the element size, so four rows share
  one head counter. `bitmap.c:387` shifts by 64 when the columns are a multiple
  of 64, which C leaves undefined: both results are in the model. `bitmap.c:98`
  says the search "does NOT wrap"; it does.
- *microbenchmark*: "After Phase 3: EMPTY" (README:53) is true up to less than a
  batch (`DrainLeavesLess`). A consumer may find an empty queue although "this
  ensures consumers will never hit empty queue": what is left lies in another
  one's buffer (`EmptyOnlyByPrefetch`). If the capacity leaves no room beyond the
  warmup and produced items are refused, a consumer tries again for ever;
  `Terminates` states the room that excludes it. A warmup that fails sends the
  producer to `spmc_queue_destroy` while the consumers wait in a barrier. Fewer
  than ten items divide by zero at `micro_benchmark.c:105`.
- *benchmark*: "consumed should never exceed produced" (`benchmark.c:308`) does
  not hold: warmup items are recorded when consumed and not when produced.
  `CountsAgree` gives the true bound.
- *BBQ's tests*: "No data loss" (`tests/README.md:72`, "no data loss" again at 143)
  does not hold for the queue: an item is lost when it is overwritten and when a row
  change leaves it where no consumer looks (`RowChangeLosesValue`, section 5).
- *demo*: an enqueue call on a full queue leaves `main` (`main_spmc.c:33`, `MPI_TRY` at
  `mpi_lib.h:82`) without `spmc_queue_destroy` and `MPI_Finalize`. The process is gone,
  and the memory behind the windows with it, while the consumers hold their epochs,
  dequeue on, and wait in a barrier it never reaches. `MemoryOutlivesEpochs` names this
  as its one exception (the queue with capacity 3 reaches it), and `Terminates` leaves it
  out by `Roomy`: no property says that it does not happen.

## 5. Proofs

All theorems hold for every value of the constants: any set of consumers, ring
size, limits, and bounds (so also for executions without a bound).
Assumptions: those named in the modules - a ring has at least one slot, the
batch lengths are between 1 and the ring size, those of c-FFQ and bdFFQ divide the
ring size (as the ranges of a call never wrap), the limits are natural numbers, DavidQueue's
rows have at least two cells (the code: a million), BBQ's columns fill whole words of its
bitmaps (the code: a million, 15625 words), and, for CircularQueue, the consumers are
finitely many; the programs have at least one consumer and one window. As their definitions say,
`CollectivesMatch` and `PhasesHold` speak of queues that hold the warmup, and `MemoryOutlivesEpochs`
excepts a demo whose producer left `main`.

Each proof module of a queue on a ring begins with what its slots need of `%`: division
with remainder, that positions less than a ring apart have different slots, and, where
calls move several items, how the slots of a run of positions continue, up to the end of
the ring and from slot 0.

`CircularQueue_proofs`: `TypeCorrect`, `Invariant`, and `Refinement`
(`Spec => ImplementsFifo`). The refinement maps `put` to `reserved_tail` and `taken`
to `reserved_head`; the two commits are `Put` and `Take`, all other steps stutter.
That alone is not inductive. `IInv` adds: the producer's position is the next one
(`ProducerInv`); the cached counters are never ahead, so the test that passed still
holds (`CountersInv`); the slots from `reserved_head` to `reserved_tail` hold their
items (`ContentsInv`), which `EnqPut` keeps because its position is less than a
ring ahead; and a granted dequeue holds committed positions and has read the right
items, *provided its positions were not passed* (`ConsumerInv`). The proviso is
the point: a call whose positions were passed could have read anything, and is
harmless because its compare-and-swap never succeeds. So the FIFO theorem does
not depend on where `head` is after rollbacks, and `TypeInv` lets it be any
integer.

The second part of `CircularQueue_proofs` says where `head` is: `NoReissueHolds`, `NoRaceHolds`,
`WedgeIsForeverHolds` and `TypeOKHolds`. Consumers give positions back in any
order, so those of the pending calls may overlap and leave holes, and no invariant
about one consumer is inductive. `HeadInv` counts: `head` is `reserved_head` plus
all that the pending calls have reserved (`Weight`). `ReachInv` says that among any
pending calls one holds positions that end no earlier than theirs laid in a row
from `reserved_head` would. A commit keeps it because the calls that stay,
together with the committing one, reached further than the committing one does
alone. For a single call it says that its positions were never committed
(`NoReissue`). With `CountersInv` it follows that the producer's position is less
than a ring ahead of everything read (`NoRace`); and as a pending call puts `head`
beyond `reserved_head`, no new call can take a front that was given back
(`WedgeIsForever`). With these every safety property of `circular_safety` is proved.

`DFFQ_proofs`: `TypeCorrect` (`TypeOK`), `NoRaceHolds`, `TicketsDistinctHolds`,
`WindowHolds`, `ConservedHolds`, `OnlyGivenUpAreLostHolds`, `AccountedHolds` (the
four before it together), `ItemsStayHolds`, `LostForeverHolds` and `Refinement`
(`Spec => ImplementsBag`) - every safety property of `dffq_safety` and more.
`IInv` says that an occupied cell holds the item of its ticket, one of the last N; that the producer writes only into an empty cell and publishes
what it wrote; that tickets in work are distinct and below `head`; that who found
its item still finds it; that what was returned is in no cell and older than what
its consumer works on; and that every published item is in its cell or returned,
every drawn ticket held, given up or returned. At-most-once follows because the
ticket being cleared is in a cell and returned items are in none.

`NbdFFQ_proofs` proves the same set for nbdFFQ, where the producer does not wait
at a busy slot but passes it: `TypeCorrect`, `NoRaceHolds`, `ConservedHolds`,
`SkipIsFinalHolds`, `OnlyTimeoutsLoseHolds`, `AccountedHolds` and `Refinement`. A
slot may hold the item of any earlier lap here, so `IInv` orders by ticket: what
is in a slot, published or not, was sent under that ticket (`SentInv`, `SlotsInv`);
tickets and batch numbers grow together (`OrderInv`); the producer's slot stays
empty between its look and its write (`ProducerInv`), because only it fills slots. That a
double-checked skip is final needs `GapsInv`: a gap mark lies below `tail`, so a
ticket at most the mark is one the producer came to and either published, in which
case the double check finds it, or passed for good (`Past`) - but for the first
ticket, which the initial 0 of the gaps claims.

`CFFQ_proofs` proves `TypeOKHolds`, `NoRaceHolds`, `ConservedHolds`,
`OnlyGivenUpAreLostHolds`, `AccountedHolds`, `SkippedAreLostHolds` and `Refinement`
(`Spec => ImplementsBatch`). A call of c-FFQ decides K tickets from bulk reads
that reach their elements one by one and are no snapshot, so the invariant cannot
speak of one moment; it says what *stays* true from the moment an element was read.
`FoundInv`: a ticket found in its cell is there until this very call empties it.
`MasksInv`: how the masks, the offsets still to be read and the tickets passed are
related in each phase, and that a ticket whose gap was seen is at most `tail`.
`RangesInv`: the ranges of different calls do not overlap. `HandInv` and `OutInv` follow
an item from its cell through `out` to `got`, and `PassedInv` and `SkippedAreLost` what becomes
of a ticket that was skipped.

`BdFFQ_proofs` proves `TypeOKHolds`, `NoRaceHolds`, `AccountedHolds` and `Refinement`
(`Spec => ImplementsBatch`), so every safety property of `bdffq_safety`. Here both sides act
on ranges element by element, the producer passes what is occupied, and a round that put
nothing moves `tail` as well. The invariant is built on three sets of tickets.
`over`: the producer is done with the ticket, or will only mark its cell; in the middle of a
round these are no interval, because the cells of the range are published one by one.
`past`: it is over and its cell does not hold it. `final`: it is past, or it is ticket 0. `past` only
grows, whoever acts (`PastStays`, `ClearFacts`), and so what a mask says stays true
(`MasksInv`): an offset that SCAN put into neither mask is past; a gap mark that is not
older than the ticket says that the ticket is over (`EarlierIsOver`: at most one lap apart) or is the
first; if then the double check does not find it, it is final. That is
`SkipIsFinalAfterFirst` and one half of `OnlyAbandonedAreLost`; the other half counts what a partial
commit (`undecided`) and the limit (`timedOut`) leave behind (`DrawnInv`). `FoundInv`: what is
ready stays in its cell until this call empties it. `BookInv`, `ProducerInv` and `OutInv` follow the
data: under a ticket lies one datum, the producer writes into cells that are empty and
stay so until it publishes, and the list a call copied out is that of its cells, in order.
While a call empties its cells the same datum is in a cell not yet emptied and in the list;
`Conserved` says that it is nowhere else. A batch counts as put when its data lie in their cells.

`DavidQueue_proofs`: `TypeOKHolds` is unconditional - the last cell of a row ends
the enqueuer's way as long as it is the enqueuer's row (`LastInv`). The rest,
`AnswersTrueHolds`, `FifoUpToPendingHolds` and `Refinement` (`ImplementsBag`), is
proved for the behaviours in which no call comes to the end of a row (`[]Within`),
as these properties say: beyond it the code does return marks as items and leaves items
behind. `ShortStaysWithin` derives `[]Within` from bounds on the calls that the run
satisfies (`MaxHead` plus the number of consumers at most `Cols`, `MaxItems` below
`Cols - 1`), by counting the consumers that are about to draw. In `IInv` a cell is
*open* until a consumer swapped it. A mark lies only where it is not open and an L only
where it is (`MarksInv`), so an enqueuer that swaps out a mark has put its value where nobody
looks, and everything of its row up to there is drawn; with `FullInv` (it has written nothing
further) the row is drained (`DrainedInv`), which is why a new row loses nothing.
Open values ascend along the rows (`AscendingInv`), hence the one a consumer swaps out is older
than all that will be drawn (lemma `DrawnIsOldest`); from that follow at-most-once,
the order of each consumer and `FifoInv`. `CellInjective`, `CellCover` and `CellOrder`
translate between the one array of the code and its rows and columns.

`BBQ_proofs` proves every property of `bbq_safety` and three facts beyond it, in three parts.
*The bitmap*: `Scan` and `NthSetBitInWord` are recursive functions, and what they compute for
every row is induction over data, which the library's rule cannot be instantiated for. It is done
with sets instead: a set of numbers that is not empty has a least element (`Least`), so the set
of counter-examples is empty. `Rank(A, b)` is the number of elements of A below b. The words
counted so far have as many bits as the rank of the next word's first column (`BelowNextWord`), so
the word found holds the bit of rank n (`ScanFindsNth`); masking what lies up to the last result
shifts all ranks by the same amount (`FindNthIsNth`); `HeuristicIs` says what the heuristic's loop,
partial words and masks do to a map. Hence `SearchesRightHolds` and `RowChangeHolds`.
*Rows and draws* (`RowInv`): the map of a row is put before its number is announced and never
changed, whoever works in a row has it, and a number of a head counter is drawn once even by
rows that share it; so cells of a row differ (`RowSharedHolds`).
*Values* (`ValueInv`): a value is `Live` while a consumer may still take it. A cell is `Taken` for a row
once its number was drawn and nobody is on the way to it; `Taken` only grows (`TakenStays`).
A T lies only where its row's consumer was, so a producer that finds it has left its value
where nobody looks: the copy for the new row is the only live one (`ValuesOnceHolds`).
*Order* (`OrderInv`): while nothing is overwritten the live values ascend from row to row and
from cell to cell, and what a consumer got is below all it may still reach
(`UntilOverwrittenHolds`). Why the producer cannot come round unnoticed needs `FirstCellInv`: column 0 is
in every map and its number is drawn once for all rows of one counter, so after the first row change the
value there is neither taken nor replaced by a mark, and coming round or changing the row
again overwrites it (`SecondRowOverwrites`).
What `FirstCellInv` says of row 1 holds whenever old and new row share a head counter, with or
without overwriting: the producer changes the row because a number was drawn, hence number 0 of that
counter was, hence the copy in column 0 of the new row is never looked at.
`RowChangeLosesValue` and `LostForever`: three of four row changes lose the value of the enqueue
call that made them, and the call reports success. The comment at `spmc_queue.c:464`, "No need to
multiply by sizeof(int), MPI window displacement unit handles it", overlooks that `mpi_fetch_and_op`
(`mpi_lib.c:366`) divides. `CopyLost`, `Lost` and `OneRowChange` are defined in the proof module; they
also hold in `bbq_safety`'s instance, where TLC finds copies that are not lost when the counter changes.

`Programs_proofs` proves every safety property of `programs`: `TypeCorrect` (`TypeOK`),
`MemoryOutlivesEpochsHolds`, `CountsAgreeHolds`, `CollectivesMatchHolds` and
`PhasesHoldHolds`, for any number of consumers and windows, any capacity and all sizes of
batches and loops. What one process may assume of another follows from the calls both have
made, so the invariant is about calls and where they are made.
`LeftInv`: who has left a call that holds everybody is not the first to have made it.
*Windows* (`WindowsInv`, `MemoryInv`): what a process has still to call says how many windows it
has, nobody frees one before its end and nobody locks one after. The last `win_free` holds
everybody until all have unlocked, hence the memory is freed last. The demo's producer that
gives up takes the memory with it: `MemoryOutlivesEpochsHolds` says that nothing else does and, by
the plan below, that it gives up only on a queue that cannot hold its items.
*Counts* (`CountInv`): what consumers recorded and the queue holds is ahead of the producer's
count by what warmed the queue up so far. `Sum` over the consumers is a fold of the community
modules; what it does when one summand changes (`SumChanges`) is proved by taking
finite sets apart (`Least`, `Shrink`), in place of an induction rule.
*The plan* (`PlanInv`): `PlanOf(g, e, n)` is the n-th collective call of program g, the same for all
processes, and a process that goes on from a step has made as many calls as `Made` says, all
of them on the plan. That the plan is *one* is not obvious: the aggregation of a test makes two
calls more for each side that nobody finished on (`Extra`), and each process decides that by itself.
`CountedInv` is the reason: who aggregates has left a reduction that holds everybody, so nobody
counts any more and all decide alike. The demo's producer and the warmup never give up
in a queue that holds their items (`DemoInv`, `WarmupFits`).
*The phases* (`MicroInv`): `Arrived` is what is stored, in the consumers' buffers and
returned. `FillInv`: while the queue fills, what arrived, is buffered or on its way is exactly what the
producer counted; later it is at least the warmup and at most what was wanted. `DrainInv`: a consumer
that began to drain knows that all have measured. So while one measures, nobody has
returned more than its part of the warmup, and if it finds nothing, what is missing is in a buffer
(`NothingMissing`); and when consumers that took their whole shares are through, they have all that was
ever wanted (`DrainHolds`). A consumer that stopped early found less than a batch, and nothing
came in after it, because the producer was already past its last phase (`NoneThrough`).

**Only model-checked**: liveness (`DequeueReturns`, `AllHandedOnceAlone`, `Terminates`) and
the existence of the four violations, because fairness and ENABLED are out of the prover's
reach. Every other property of the passing runs is the conclusion of a theorem.

## 6. Not modelled

- *BBQ's tests* (`tests/*.c`), *mpi_lib's examples*, the scripts: drivers and
  demonstrations. The tests' promise of no data loss is among the disagreements of section 4.
- *mpi_lib*: point-to-point calls, fences, broadcasts and reductions are called
  by no queue or program. The rollback in `mpi_win_lock_all_multiple` needs a lock
  that fails after a window was created, and MPI's default handler aborts then.
- The other tests of the benchmark differ from `quick` in numbers and sizes.
- Allocation failure and MPI errors: they end the program.
- The statistics getters (`spmc_queue_print_stats` and the like): they change
  nothing. Times, back-off lengths, printing.
- The behaviour after a displacement beyond a window, and integer overflow: what
  happens then is not defined by the program.
- Weak RMA memory orderings: since each wrapper flushes, a call is complete
  at the owner before the next one of the same rank starts.
