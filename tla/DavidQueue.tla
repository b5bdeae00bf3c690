----------------------------- MODULE DavidQueue -----------------------------
(***************************************************************************)
(* spmc_DavidQueue/src/spmc_queue.c.  The items lie in MAX_ROWS rows of    *)
(* MAX_COLS cells.  Both sides swap: the enqueuer its value into the cell  *)
(* at tail of its row, a consumer the mark T into the cell it drew from    *)
(* the head counter of the announced row.  An enqueuer that swaps out a T  *)
(* was overtaken and starts the next row; the last cell of a row holds a T *)
(* from the start.  One step is one RMA call with the local code after it. *)
(***************************************************************************)
EXTENDS Integers, Sequences, SequencesExt

CONSTANTS Consumers,
          Rows, Cols,   \* MAX_ROWS, MAX_COLS
          MaxItems,     \* bound: the producer makes MaxItems enqueue calls
          MaxHead       \* bound: no dequeue call starts once the head of the
                        \* announced row is MaxHead

ASSUME SizeAssumption == Rows \in Nat \ {0} /\ Cols \in Nat \ {0, 1}
ASSUME BoundsAssumption == MaxItems \in Nat /\ MaxHead \in Nat

L == -1
T == -2

VARIABLES
  items, head, row,      \* the three windows
  eng_row, tail, ppc,    \* the enqueuer: its row and column, its next step
  cpc, deq_row, col,     \* each consumer: its next step, deq_row, head
  sent,      \* history: enqueue calls made; the n-th one's value is n - 1
  refused,   \* history: the values whose enqueue call returned -1
  got        \* history: the values each consumer's dequeue calls returned

enqueuer == <<eng_row, tail, ppc, sent, refused>>
consumer == <<cpc, deq_row, col, got>>
vars == <<items, head, row, enqueuer, consumer>>

Cells == 0 .. Rows * Cols - 1
Cell(r, k) == r * Cols + k

Init == /\ items = [x \in Cells |-> IF x % Cols = Cols - 1 THEN T ELSE L]
        /\ head = [r \in 0 .. Rows - 1 |-> 0]
        /\ row = 0
        /\ eng_row = 0 /\ tail = 0 /\ ppc = "idle" /\ sent = 0 /\ refused = {}
        /\ cpc = [c \in Consumers |-> "idle"]
        /\ deq_row = [c \in Consumers |-> 0]
        /\ col = [c \in Consumers |-> 0]
        /\ got = [c \in Consumers |-> <<>>]
-----------------------------------------------------------------------------
(* spmc_queue_enqueue *)

\* Variant: the mark is not looked for.
OvertakenNever(val) == FALSE

Overtaken(val) == val = T

Refuse == refused' = refused \cup {sent}

\* The rows are used up: every further call returns -1.
EnqOutOfRows == /\ ppc = "idle"
                /\ sent < MaxItems
                /\ Cell(eng_row, tail) \notin Cells
                /\ sent' = sent + 1
                /\ Refuse
                /\ UNCHANGED <<items, head, row, eng_row, tail, ppc, consumer>>

\* Variant: one row more than there is.
RowsLeftOneMore == eng_row + 1 <= Rows

RowsLeft == eng_row + 1 < Rows

\* The value is swapped in, and stays in the old row when a T came out.
EnqSwap ==
  LET here == Cell(eng_row, tail)
  IN /\ ppc = "idle"
     /\ sent < MaxItems
     /\ here \in Cells
     /\ items' = [items EXCEPT ![here] = sent]
     /\ sent' = sent + 1
     /\ IF ~Overtaken(items[here])
        THEN tail' = tail + 1 /\ UNCHANGED <<eng_row, ppc, refused>>
        ELSE /\ eng_row' = eng_row + 1
             /\ IF RowsLeft
                THEN tail' = 0 /\ ppc' = "again" /\ UNCHANGED refused
                ELSE Refuse /\ UNCHANGED <<tail, ppc>>
     /\ UNCHANGED <<head, row, consumer>>

\* The value goes to the first cell of the new row; what was there is ignored.
EnqSwapAgain == /\ ppc = "again"
                /\ items' = [items EXCEPT ![Cell(eng_row, tail)] = sent - 1]
                /\ ppc' = "announce"
                /\ UNCHANGED <<head, row, eng_row, tail, sent, refused, consumer>>

EnqAnnounce == /\ ppc = "announce"
               /\ row' = eng_row
               /\ tail' = tail + 1
               /\ ppc' = "idle"
               /\ UNCHANGED <<items, head, eng_row, sent, refused, consumer>>

Enqueuer == EnqOutOfRows \/ EnqSwap \/ EnqSwapAgain \/ EnqAnnounce
-----------------------------------------------------------------------------
(* spmc_queue_dequeue *)

Go(c, step) == cpc' = [cpc EXCEPT ![c] = step]

DeqReadRow(c) == /\ cpc[c] = "idle"
                 /\ head[row] < MaxHead
                 /\ deq_row' = [deq_row EXCEPT ![c] = row]
                 /\ Go(c, "draw")
                 /\ UNCHANGED <<items, head, row, enqueuer, col, got>>

\* Variant: a read and a later write, whose increment may be lost.
DrawRacy(c) == /\ col' = [col EXCEPT ![c] = head[deq_row[c]]]
               /\ \E h \in {0, 1} : head' = [head EXCEPT ![deq_row[c]] = @ + h]

\* head = FetchInc(HEAD[deq_row])
Draw(c) == /\ col' = [col EXCEPT ![c] = head[deq_row[c]]]
           /\ head' = [head EXCEPT ![deq_row[c]] = @ + 1]

\* The column may lie beyond the row: only the end of all rows is checked.
DeqDraw(c) == /\ cpc[c] = "draw"
              /\ Draw(c)
              /\ Go(c, IF Cell(deq_row[c], head[deq_row[c]]) \in Cells
                       THEN "swap" ELSE "idle")
              /\ UNCHANGED <<items, row, enqueuer, deq_row, got>>

\* L means an empty queue; anything else is the item.
DeqSwap(c) ==
  LET here == Cell(deq_row[c], col[c])
  IN /\ cpc[c] = "swap"
     /\ items' = [items EXCEPT ![here] = T]
     /\ got' = IF items[here] = L THEN got
               ELSE [got EXCEPT ![c] = Append(@, items[here])]
     /\ Go(c, "idle")
     /\ UNCHANGED <<head, row, enqueuer, deq_row, col>>

Consumer(c) == DeqReadRow(c) \/ DeqDraw(c) \/ DeqSwap(c)

Next == Enqueuer \/ \E c \in Consumers : Consumer(c)

Spec == Init /\ [][Next]_vars
-----------------------------------------------------------------------------
Values == 0 .. sent - 1
Returned == UNION {ToSet(got[c]) : c \in Consumers}

TypeOK == /\ items \in [Cells -> Nat \cup {L, T}]
          /\ head \in [0 .. Rows - 1 -> Nat] /\ row \in 0 .. Rows - 1
          /\ eng_row \in 0 .. Rows /\ tail \in 0 .. Cols - 1
          /\ ppc \in {"idle", "again", "announce"}
          /\ sent \in Nat /\ refused \subseteq Values
          /\ cpc \in [Consumers -> {"idle", "draw", "swap"}]
          /\ deq_row \in [Consumers -> 0 .. Rows - 1]
          /\ col \in [Consumers -> Nat]
          /\ got \in [Consumers -> Seq(Nat \cup {T})]

\* A value is in the queue when its call returned, or will be at that time.
Bag == INSTANCE SPMCBag WITH put <- IF ppc = "idle" THEN sent ELSE sent - 1,
                             got <- got

\* While no call comes to the end of a row: each value is returned at most
\* once, although an overtaken enqueuer writes it into two cells, no mark is
\* returned, and every consumer receives its values in order.
ImplementsBag == Bag!Spec

\* A consumer has drawn cell x and has not swapped it yet.
Drawn(x) == \E c \in Consumers : cpc[c] = "swap" /\ Cell(deq_row[c], col[c]) = x

\* Some call will still come to cell x of the announced row or a later one.
Ahead(x) == x >= Cell(row, head[row])

\* While no call comes to the end of a row: a value enqueued was returned, or
\* is in a cell that a consumer drew or will draw.  A row change leaves none
\* behind, because an enqueuer is overtaken only when its row is drained.
NothingLost ==
  \A v \in Values \ (refused \cup Returned) :
    (v = sent - 1 /\ ppc # "idle") \/ \E x \in Cells : items[x] = v /\ (Drawn(x) \/ Ahead(x))

\* While no call comes to the end of a row: the consumers together take the
\* values first in, first out; an older value than one returned was returned
\* or its call is under way.
FifoUpToPending ==
  \A v \in Returned : \A u \in 0 .. v - 1 :
    u \in Returned \cup refused \/ \E x \in Cells : items[x] = u /\ Drawn(x)

\* A call that was refused leaves nothing in a cell a consumer may still draw.
RefusedStaysOut == \A x \in Cells : items[x] \in refused => ~Drawn(x) /\ ~Ahead(x)

\* The answer of every enqueue call is true: a value is on its way to a
\* consumer, or was returned, exactly when its call did not return -1.
AnswersTrue == NothingLost /\ RefusedStaysOut
=============================================================================
