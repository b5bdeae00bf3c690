-------------------------------- MODULE BBQ --------------------------------
(***************************************************************************)
(* spmc_BBQ/src/spmc_queue.c.  One row of Cols cells is used for all       *)
(* generations ("rows") in turn; a cell is a value, or L or T, with its    *)
(* generation.  Both sides swap cells.  The producer puts at the next safe *)
(* index of its map; when a T of its own generation comes out it changes   *)
(* the row: the heuristic changes the map, the map is put to SYNC_BITMAP,  *)
(* the value is swapped in again, and ROW is written.  A consumer draws a  *)
(* number from a head counter and swaps a T into the cell which that       *)
(* number has among the safe indices of its copy of the map.               *)
(***************************************************************************)
EXTENDS BitmapOps, Sequences, SequencesExt

CONSTANTS Consumers,
          MaxRow,     \* rows of the bitmaps, and so of generations: MAX_ROW
          MaxItems,   \* bound: the producer makes MaxItems enqueue calls
          MaxHead     \* bound: no call draws once a head counter is MaxHead

ASSUME ConsumersAssumption == Cardinality(Consumers) = NumConsumers
ASSUME BoundsAssumption == MaxRow \in Nat \ {0} /\ MaxItems \in Nat /\ MaxHead \in Nat

\* MAX_QUEUE_SIZE is 1000000, 15625 words.
ASSUME WholeWords == Cols % W = 0

L == -1
T == -2

VARIABLES
  items, heads, row, sync, bitmap,    \* the five windows
  enq_row, tail, map, ppc,            \* the producer
  cpc, deq_row, last_deq_row, last_value, cmap, last_index, last_N,   \* each consumer
  sent,   \* history: enqueue calls made; the n-th one's value is n - 1
  overwritten,   \* history: values the producer swapped out of the row
  got     \* history: the values each consumer's dequeue calls returned

producer == <<enq_row, tail, map, ppc, sent, overwritten>>
cursor == <<last_deq_row, cmap, last_index, last_N>>
consumer == <<cpc, deq_row, last_value, cursor, got>>
vars == <<items, heads, row, sync, bitmap, producer, consumer>>

Columns == 0 .. Cols - 1
Gens == 0 .. MaxRow - 1

\* heads[] has a counter for each consumer.  The displacement given is the
\* row, and mpi_fetch_and_op divides it by the 4 bytes of an int.
Counter(r) == r \div 4

Init == /\ items = [x \in Columns |-> [data |-> L, gen |-> 0]]
        /\ heads = [h \in 0 .. NumConsumers - 1 |-> 0]
        /\ row = 0
        /\ sync = [r \in Gens |-> {}] /\ bitmap = [r \in Gens |-> {}]
        /\ enq_row = 0 /\ tail = 0 /\ map = SetAllBits /\ ppc = "idle"
        /\ sent = 0 /\ overwritten = {}
        /\ cpc = [c \in Consumers |-> "idle"]
        /\ deq_row = [c \in Consumers |-> 0]
        /\ last_deq_row = [c \in Consumers |-> 0]
        /\ last_value = [c \in Consumers |-> T]
        /\ cmap = [c \in Consumers |-> SetAllBits]
        /\ last_index = [c \in Consumers |-> -1]
        /\ last_N = [c \in Consumers |-> -1]
        /\ got = [c \in Consumers |-> <<>>]
-----------------------------------------------------------------------------
(* spmc_queue_enqueue *)

\* Variant: a T is never looked for.
OvertakenNever(cell) == FALSE

Overtaken(cell) == cell.data = T /\ cell.gen = enq_row

\* Variant: the hint for the next search does not wrap around.
AfterNoWrap(at) == at + 1

After(at) == (at + 1) % Cols

\* Bound: no further row than MaxRow, and no further head counter.
RoomForRow == enq_row + 1 < MaxRow /\ Counter(enq_row + 1) \in DOMAIN heads

SwapOut(data) == overwritten' = overwritten \cup ({data} \ {L, T})

EnqSwap == LET at == FindSafeIndexFrom(tail, map)
           IN /\ ppc = "idle"
              /\ sent < MaxItems
              /\ at # -1
              /\ Overtaken(items[at]) => RoomForRow
              /\ items' = [items EXCEPT ![at] = [data |-> sent, gen |-> enq_row]]
              /\ sent' = sent + 1
              /\ SwapOut(items[at].data)
              /\ IF Overtaken(items[at]) THEN tail' = at /\ ppc' = "sync"
                                         ELSE tail' = After(at) /\ UNCHANGED ppc
              /\ UNCHANGED <<heads, row, sync, bitmap, enq_row, map, consumer>>

EnqSync == /\ ppc = "sync"
           /\ map' \in Heuristic(map, tail)
           /\ sync' = [sync EXCEPT ![enq_row] = map']
           /\ enq_row' = enq_row + 1
           /\ tail' = FindSafeIndexFrom(0, map')
           /\ ppc' = "again"
           /\ UNCHANGED <<items, heads, row, bitmap, sent, overwritten, consumer>>

\* What comes out of the new row's first cell is ignored.
EnqSwapAgain == /\ ppc = "again"
                /\ items' = [items EXCEPT ![tail] = [data |-> sent - 1, gen |-> enq_row]]
                /\ SwapOut(items[tail].data)
                /\ ppc' = "announce"
                /\ UNCHANGED <<heads, row, sync, bitmap, enq_row, tail, map, sent, consumer>>

EnqAnnounce == /\ ppc = "announce"
               /\ row' = enq_row
               /\ tail' = After(tail)
               /\ ppc' = "idle"
               /\ UNCHANGED <<items, heads, sync, bitmap, enq_row, map, sent, overwritten, consumer>>

Producer == EnqSwap \/ EnqSync \/ EnqSwapAgain \/ EnqAnnounce
-----------------------------------------------------------------------------
(* spmc_queue_dequeue *)

Go(c, step) == cpc' = [cpc EXCEPT ![c] = step]

\* A consumer that saw an empty cell waits for the next row.
DeqReadRow(c) == /\ cpc[c] = "idle"
                 /\ deq_row' = [deq_row EXCEPT ![c] = row]
                 /\ IF row # last_deq_row[c] THEN Go(c, "map")
                    ELSE /\ last_value[c] # L
                         /\ Go(c, "draw")
                 /\ UNCHANGED <<items, heads, row, sync, bitmap, producer, last_value, cursor, got>>

DeqGetMap(c) == /\ cpc[c] = "map"
                /\ cmap' = [cmap EXCEPT ![c] = sync[deq_row[c] - 1]]
                /\ last_deq_row' = [last_deq_row EXCEPT ![c] = deq_row[c]]
                /\ last_value' = [last_value EXCEPT ![c] = T]
                /\ last_index' = [last_index EXCEPT ![c] = -1]
                /\ last_N' = [last_N EXCEPT ![c] = -1]
                /\ Go(c, "draw")
                /\ UNCHANGED <<items, heads, row, sync, bitmap, producer, deq_row, got>>

\* Variant: a read and a later write, whose increment may be lost.
DrawRacy(h) == \E up \in {0, 1} : heads' = [heads EXCEPT ![h] = @ + up]

Draw(h) == heads' = [heads EXCEPT ![h] = @ + 1]

DeqDraw(c) == LET h == Counter(deq_row[c])
                  N == heads[h]
                  at == FindNthSafeIndex(N, cmap[c], last_index[c], last_N[c])
              IN /\ cpc[c] = "draw"
                 /\ N < MaxHead
                 /\ Draw(h)
                 /\ IF at = -1
                    THEN /\ last_value' = [last_value EXCEPT ![c] = L]
                         /\ Go(c, "idle")
                         /\ UNCHANGED <<last_index, last_N>>
                    ELSE /\ last_index' = [last_index EXCEPT ![c] = at]
                         /\ last_N' = [last_N EXCEPT ![c] = N]
                         /\ Go(c, "swap")
                         /\ UNCHANGED last_value
                 /\ UNCHANGED <<items, row, sync, bitmap, producer, deq_row, last_deq_row, cmap, got>>

\* Variant: the generation of what came out is not looked at.
NoItemAnyGen(cell, gen) == cell.data = L

NoItem(cell, gen) == cell.data = L \/ cell.gen # gen

\* The result is decided by the cell that came out; it is returned after the
\* next step, which touches nothing else.
DeqSwap(c) == LET at == last_index[c]
              IN /\ cpc[c] = "swap"
                 /\ items' = [items EXCEPT ![at] = [data |-> T, gen |-> deq_row[c]]]
                 /\ IF NoItem(items[at], deq_row[c])
                    THEN last_value' = [last_value EXCEPT ![c] = L] /\ UNCHANGED got
                    ELSE got' = [got EXCEPT ![c] = Append(@, items[at].data)] /\ UNCHANGED last_value
                 /\ Go(c, "mark")
                 /\ UNCHANGED <<heads, row, sync, bitmap, producer, deq_row, cursor>>

DeqMark(c) == /\ cpc[c] = "mark"
              /\ bitmap' = [bitmap EXCEPT ![deq_row[c]] = @ \cup {last_index[c]}]
              /\ Go(c, "idle")
              /\ UNCHANGED <<items, heads, row, sync, producer, deq_row, last_value, cursor, got>>

Consumer(c) == DeqReadRow(c) \/ DeqGetMap(c) \/ DeqDraw(c) \/ DeqSwap(c) \/ DeqMark(c)

Next == Producer \/ \E c \in Consumers : Consumer(c)

Spec == Init /\ [][Next]_vars
-----------------------------------------------------------------------------
Values == 0 .. sent - 1
Returned == UNION {ToSet(got[c]) : c \in Consumers}

TypeOK == /\ items \in [Columns -> [data : Nat \cup {L, T}, gen : Gens]]
          /\ heads \in [0 .. NumConsumers - 1 -> Nat] /\ row \in Gens
          /\ sync \in [Gens -> SUBSET Bits] /\ bitmap \in [Gens -> SUBSET Columns]
          /\ enq_row \in Gens /\ tail \in Columns /\ map \subseteq Bits
          /\ ppc \in {"idle", "sync", "again", "announce"}
          /\ sent \in Nat /\ overwritten \subseteq Nat
          /\ cpc \in [Consumers -> {"idle", "map", "draw", "swap", "mark"}]
          /\ deq_row \in [Consumers -> Gens] /\ last_deq_row \in [Consumers -> Gens]
          /\ last_value \in [Consumers -> {L, T}]
          /\ cmap \in [Consumers -> SUBSET Bits]
          /\ last_index \in [Consumers -> Columns \cup {-1}] /\ last_N \in [Consumers -> Nat \cup {-1}]
          /\ got \in [Consumers -> Seq(Nat \cup {T})]

\* However often the producer wraps around and overwrites, no value is returned
\* twice and no mark is returned: a row change leaves a copy of its value in
\* the old row, and no consumer takes it.
ValuesOnce ==
  /\ T \notin Returned
  /\ \A c, d \in Consumers : \A m \in DOMAIN got[c], n \in DOMAIN got[d] :
       got[c][m] = got[d][n] => c = d /\ m = n

\* While the producer overwrote nothing, every consumer's dequeue calls return
\* values in the order of the enqueue calls, across row changes.
InOrder ==
  overwritten = {} =>
    \A c \in Consumers : \A m, n \in DOMAIN got[c] : m < n => got[c][m] < got[c][n]

\* Before the first row change, and while nothing was overwritten, a value was
\* returned or is in a cell that a consumer drew or that a number not drawn
\* yet leads to.
KeptInFirstRow ==
  enq_row = 0 /\ ppc = "idle" /\ overwritten = {} =>
    \A v \in Values \ Returned :
      \E x \in Columns :
        /\ items[x] = [data |-> v, gen |-> 0]
        /\ x >= heads[0] \/ \E c \in Consumers : cpc[c] = "swap" /\ last_index[c] = x

\* What the queue promises until the producer overwrites something.
UntilOverwritten == InOrder /\ KeptInFirstRow

\* Consumers that work in one row use the same map, so that no two of them
\* get the same cell in it: the map of a row is put before the row's number.
SameMap == \A c \in Consumers :
             last_deq_row[c] > 0 => cmap[c] = sync[last_deq_row[c] - 1]

\* A cell of a row is taken once: two consumers on their way to the same cell
\* are on their way there for different rows.
CellsOnce == \A c, d \in Consumers :
               /\ c # d /\ cpc[c] = "swap" /\ cpc[d] = "swap"
               /\ last_index[c] = last_index[d]
               => deq_row[c] # deq_row[d]

\* A row is shared without conflict.
RowShared == SameMap /\ CellsOnce

\* The b of a map with exactly N set bits below it.
Nth(bits, N) == LET at == {b \in bits : Cardinality({x \in bits : x < b}) = N}
                IN IF at = {} THEN -1 ELSE CHOOSE b \in at : TRUE

\* A consumer's search, which starts from the result of its last one, finds
\* what a count of the set bits from the first one would, for every number.
FindsNth == \A c \in Consumers : \A N \in 0 .. Cols + 1 :
              FindNthSafeIndex(N, cmap[c], last_index[c], last_N[c]) = Nth(cmap[c], N)

\* The producer's search never fails, so that enqueue never returns -1: every
\* start has a safe index, and the nearest one is found, cyclically.
FindsNearest ==
  \A start \in Columns :
    LET at == FindSafeIndexFrom(start, map)
        Far(b) == IF b < start THEN b + Words * W ELSE b
    IN at \in map /\ \A b \in map : Far(at) <= Far(b)

\* Both searches of the bitmap are right on every map that arises.
SearchesRight == FindsNth /\ FindsNearest

\* A row change takes the next NumConsumers safe indices away, or all there
\* are, and touches nothing up to the index found: consumers of the new row
\* have the same choice below it as those of the row before.
RowChange ==
  [][map' # map =>
       LET up == 0 .. tail
           gone == map \ map'
       IN /\ tail \in map'
          /\ map' \cap up = map \cap up
          /\ Cardinality(gone) <= NumConsumers
          /\ Cardinality(gone) < NumConsumers => gone = {b \in map : b > tail /\ b < Cols}
          /\ \A b \in gone, x \in map \ (gone \cup up) : b < x]_vars
=============================================================================
