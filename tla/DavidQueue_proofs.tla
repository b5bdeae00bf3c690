-------------------------- MODULE DavidQueue_proofs --------------------------
(***************************************************************************)
(* The safety of DavidQueue for every number of consumers, rows and        *)
(* columns.  The types hold always; the rest holds for the behaviours in   *)
(* which neither side comes to the end of a row (Within), because there a  *)
(* producer leaves items behind and a consumer takes a mark for an item.   *)
(***************************************************************************)
EXTENDS DavidQueue, FiniteSetTheorems, TLAPS

AllRows == 0 .. Rows - 1
Columns == 0 .. Cols - 2   \* the cells of a row that hold items

\* The contents of column k of row r.
At(r, k) == items[Cell(r, k)]
-----------------------------------------------------------------------------
\* Division with remainder.
LEMMA ModDiv ==
  ASSUME NEW n \in Nat \ {0}, NEW i \in Int
  PROVE  /\ (i % n) \in 0 .. n - 1
         /\ (i \div n) \in Int
         /\ i = n * (i \div n) + (i % n)
  BY Z3

\* The remainder is the only one.
LEMMA ModUnique ==
  ASSUME NEW n \in Nat \ {0}, NEW q \in Int, NEW r \in 0 .. n - 1
  PROVE  (n * q + r) % n = r
  BY Z3

\* The rows lie one after the other: different columns of a row, and different
\* rows, have different cells.
LEMMA CellOrder ==
  ASSUME NEW r \in Nat, NEW q \in Nat, NEW k \in 0 .. Cols - 1, NEW j \in Nat, r < q
  PROVE  Cell(r, k) < Cell(q, j)
<1>1. Cols \in Nat /\ k \in Nat /\ k < Cols
  BY SizeAssumption
<1>2. PICK d \in Nat : q = r + 1 + d
  <2>1. q - r - 1 \in Nat /\ q = r + 1 + (q - r - 1)
    OBVIOUS
  <2> QED
    BY <2>1
<1>3. q * Cols = r * Cols + Cols + d * Cols
  BY <1>1, <1>2, Z3
<1>4. d * Cols \in Nat /\ r * Cols \in Nat
  BY <1>1
<1> QED
  BY <1>1, <1>3, <1>4 DEF Cell

\* A cell is in one row and one column.
LEMMA CellInjective ==
  ASSUME NEW r \in Nat, NEW q \in Nat, NEW k \in 0 .. Cols - 1, NEW j \in 0 .. Cols - 1,
         Cell(r, k) = Cell(q, j)
  PROVE  r = q /\ k = j
<1>1. k \in Nat /\ j \in Nat /\ Cols \in Nat
  BY SizeAssumption
<1>2. Cell(r, k) \in Nat /\ Cell(q, j) \in Nat
  BY <1>1 DEF Cell
<1>3. r = q
  <2>1. ~(r < q) /\ ~(q < r)
    BY <1>1, <1>2, CellOrder
  <2> QED
    BY <2>1
<1>4. r * Cols \in Nat
  BY <1>1
<1> QED
  BY <1>1, <1>3, <1>4 DEF Cell

\* Every cell of the array is a column of a row, and the other way round.
LEMMA CellType ==
  ASSUME NEW r \in AllRows, NEW k \in 0 .. Cols - 1
  PROVE  Cell(r, k) \in Cells /\ r \in Nat /\ k \in Nat
<1>1. r \in Nat /\ k \in Nat /\ Rows \in Nat /\ Cols \in Nat /\ 0 \in Nat /\ r < Rows
  BY SizeAssumption DEF AllRows
<1>2. Cell(r, k) < Cell(Rows, 0)
  BY <1>1, CellOrder
<1>3. Cell(Rows, 0) = Rows * Cols /\ Rows * Cols \in Nat /\ Cell(r, k) \in Nat
  BY <1>1 DEF Cell
<1> QED
  BY <1>1, <1>2, <1>3 DEF Cells

\* Every cell of the window is in a row and a column.
LEMMA CellCover ==
  ASSUME NEW x \in Cells
  PROVE  \E r \in AllRows, k \in 0 .. Cols - 1 : x = Cell(r, k)
<1>1. Rows \in Nat /\ Cols \in Nat \ {0} /\ x \in Nat /\ x < Rows * Cols
  BY SizeAssumption DEF Cells
<1>2. PICK r \in Int, k \in 0 .. Cols - 1 : x = Cols * r + k
  <2>1. /\ (x % Cols) \in 0 .. Cols - 1 /\ (x \div Cols) \in Int
        /\ x = Cols * (x \div Cols) + (x % Cols)
    BY <1>1, ModDiv
  <2> QED
    BY <2>1
<1>3. x = Cell(r, k)
  BY <1>1, <1>2 DEF Cell
<1>4. 0 =< r
  <2> SUFFICES ASSUME r < 0 PROVE FALSE
    BY <1>2
  <2>1. PICK d \in Nat : r = -1 - d
    <3>1. -1 - r \in Nat /\ r = -1 - (-1 - r)
      BY <1>2
    <3> QED
      BY <3>1
  <2>2. Cols * r = -Cols - Cols * d /\ Cols * d \in Nat
    BY <1>1, <2>1, Z3
  <2> QED
    BY <1>1, <1>2, <2>2
<1>5. r < Rows
  <2>1. ASSUME Rows =< r PROVE FALSE
    BY <1>1, <1>2, <2>1, Z3
  <2> QED
    BY <1>1, <2>1
<1> QED
  BY <1>1, <1>3, <1>4, <1>5 DEF AllRows

\* A row number past the last one has no cells.
LEMMA CellBeyond ==
  ASSUME NEW r \in 0 .. Rows, NEW k \in 0 .. Cols - 1
  PROVE  Cell(r, k) \in Cells <=> r # Rows
<1>1. r \in Nat /\ k \in Nat /\ Rows \in Nat /\ Cols \in Nat
  BY SizeAssumption
<1>2. CASE r = Rows
  <2>1. Rows * Cols \in Nat /\ Cell(r, k) = Rows * Cols + k
    BY <1>1, <1>2 DEF Cell
  <2> QED
    BY <1>1, <1>2, <2>1 DEF Cells
<1>3. CASE r # Rows
  BY <1>1, <1>3, CellType DEF AllRows
<1> QED
  BY <1>2, <1>3

-----------------------------------------------------------------------------
\* Where an enqueue call is that was overtaken: at the start of a new row.
EngType == ppc # "idle" => eng_row < Rows /\ tail = 0 /\ sent > 0

\* The last cell of a row holds its mark until the enqueuer leaves the row.
LastInv == \A r \in AllRows : eng_row =< r => At(r, Cols - 1) = T

\* A consumer swaps inside the array only.
SwapType == \A c \in Consumers : cpc[c] = "swap" => Cell(deq_row[c], col[c]) \in Cells

TypeInv == TypeOK /\ EngType /\ LastInv /\ SwapType

\* What the first swap of an enqueue call does.
LEMMA SwapFacts ==
  ASSUME TypeInv, EnqSwap
  PROVE  /\ ppc = "idle" /\ eng_row \in AllRows /\ tail \in 0 .. Cols - 1
         /\ Cell(eng_row, tail) \in Cells
         /\ items' = [items EXCEPT ![Cell(eng_row, tail)] = sent] /\ sent' = sent + 1
         /\ \/ /\ At(eng_row, tail) # T /\ tail' = tail + 1 /\ tail # Cols - 1
               /\ UNCHANGED <<eng_row, ppc, refused>>
            \/ /\ At(eng_row, tail) = T /\ eng_row' = eng_row + 1 /\ eng_row + 1 < Rows
               /\ tail' = 0 /\ ppc' = "again" /\ UNCHANGED refused
            \/ /\ At(eng_row, tail) = T /\ eng_row' = eng_row + 1 /\ eng_row' = Rows
               /\ refused' = refused \cup {sent} /\ UNCHANGED <<tail, ppc>>
         /\ UNCHANGED <<head, row, consumer>>
<1>0. /\ eng_row \in 0 .. Rows /\ tail \in 0 .. Cols - 1 /\ Rows \in Nat /\ LastInv
  BY SizeAssumption DEF TypeInv, TypeOK
<1>1. /\ ppc = "idle" /\ Cell(eng_row, tail) \in Cells
      /\ items' = [items EXCEPT ![Cell(eng_row, tail)] = sent] /\ sent' = sent + 1
      /\ UNCHANGED <<head, row, consumer>>
  BY DEF EnqSwap
<1>2. eng_row \in AllRows
  BY <1>0, <1>1, CellBeyond DEF AllRows
<1>3. \/ /\ At(eng_row, tail) # T /\ tail' = tail + 1
         /\ UNCHANGED <<eng_row, ppc, refused>>
      \/ /\ At(eng_row, tail) = T /\ eng_row' = eng_row + 1
         /\ \/ eng_row + 1 < Rows /\ tail' = 0 /\ ppc' = "again" /\ UNCHANGED refused
            \/ /\ ~(eng_row + 1 < Rows)
               /\ refused' = refused \cup {sent} /\ UNCHANGED <<tail, ppc>>
  BY DEF EnqSwap, Overtaken, RowsLeft, Refuse, At
<1>4. At(eng_row, tail) # T => tail # Cols - 1
  BY <1>0, <1>2 DEF LastInv, AllRows
<1>5. ~(eng_row + 1 < Rows) => eng_row + 1 = Rows
  BY <1>0, <1>2 DEF AllRows
<1> QED
  BY <1>0, <1>1, <1>2, <1>3, <1>4, <1>5

\* The types, which hold whatever happens at the end of a row.
THEOREM TypeCorrect == Spec => []TypeInv
<1>0. Rows \in Nat \ {0} /\ Cols \in Nat /\ 1 < Cols
  BY SizeAssumption
<1>1. Init => TypeInv
  <2> SUFFICES ASSUME Init PROVE TypeInv
    OBVIOUS
  <2>1. TypeOK /\ EngType /\ SwapType
    BY <1>0 DEF Init, TypeOK, EngType, SwapType, Values
  <2>2. ASSUME NEW r \in AllRows PROVE At(r, Cols - 1) = T
    <3>1. Cell(r, Cols - 1) \in Cells /\ r \in Nat
      BY <1>0, CellType
    <3>2. Cell(r, Cols - 1) = Cols * r + (Cols - 1)
      BY <1>0, <3>1, Z3 DEF Cell
    <3>3. Cell(r, Cols - 1) % Cols = Cols - 1
      BY <1>0, <3>1, <3>2, ModUnique
    <3> QED
      BY <3>1, <3>3 DEF Init, At
  <2> QED
    BY <2>1, <2>2 DEF TypeInv, LastInv
<1>2. TypeInv /\ [Next]_vars => TypeInv'
  <2> SUFFICES ASSUME TypeInv, [Next]_vars PROVE TypeInv'
    OBVIOUS
  <2>0. /\ items \in [Cells -> Nat \cup {L, T}]
        /\ head \in [AllRows -> Nat] /\ row \in AllRows
        /\ eng_row \in 0 .. Rows /\ tail \in 0 .. Cols - 1
        /\ ppc \in {"idle", "again", "announce"}
        /\ sent \in Nat /\ refused \subseteq Values
        /\ cpc \in [Consumers -> {"idle", "draw", "swap"}]
        /\ deq_row \in [Consumers -> AllRows]
        /\ col \in [Consumers -> Nat]
        /\ got \in [Consumers -> Seq(Nat \cup {T})]
        /\ EngType /\ LastInv /\ SwapType
    BY DEF TypeInv, TypeOK, AllRows
  <2> USE DEF TypeInv, EngType
  <2>1. CASE EnqOutOfRows
    <3>1. sent' \in Nat /\ refused' \subseteq Values'
      BY <2>0, <2>1 DEF EnqOutOfRows, Refuse, Values
    <3> QED
      BY <2>0, <2>1, <3>1 DEF EnqOutOfRows, consumer, TypeOK, LastInv, SwapType, At, Cell, Cells, AllRows
  <2>2. CASE EnqSwap
    <3>1. /\ ppc = "idle" /\ eng_row \in AllRows /\ Cell(eng_row, tail) \in Cells
          /\ items' = [items EXCEPT ![Cell(eng_row, tail)] = sent] /\ sent' = sent + 1
          /\ UNCHANGED <<head, row, consumer>>
      BY <2>2, SwapFacts
    <3>2. \/ /\ tail' = tail + 1 /\ tail # Cols - 1
             /\ UNCHANGED <<eng_row, ppc, refused>>
          \/ /\ eng_row' = eng_row + 1 /\ eng_row + 1 < Rows
             /\ tail' = 0 /\ ppc' = "again" /\ UNCHANGED refused
          \/ /\ eng_row' = eng_row + 1
             /\ refused' = refused \cup {sent} /\ UNCHANGED <<tail, ppc>>
      BY <2>2, SwapFacts
    <3>3. sent' \in Nat /\ refused' \subseteq Values'
      <4>1. sent' \in Nat /\ Values' = Values \cup {sent}
        BY <2>0, <3>1 DEF Values
      <4>2. refused' = refused \/ refused' = refused \cup {sent}
        BY <3>2
      <4> QED
        BY <2>0, <4>1, <4>2
    <3>4. items' \in [Cells -> Nat \cup {L, T}]
      BY <2>0, <3>1
    <3>5. /\ eng_row' \in 0 .. Rows /\ tail' \in 0 .. Cols - 1
          /\ ppc' \in {"idle", "again", "announce"}
      <4>1. eng_row' \in 0 .. Rows
        BY <1>0, <2>0, <3>1, <3>2 DEF AllRows
      <4>2. tail' \in 0 .. Cols - 1
        BY <1>0, <2>0, <3>2
      <4> QED
        BY <2>0, <3>1, <3>2, <4>1, <4>2
    <3>6. EngType'
      BY <1>0, <2>0, <3>1, <3>2 DEF AllRows
    <3>7. LastInv'
      <4> SUFFICES ASSUME NEW r \in AllRows, eng_row' =< r PROVE At(r, Cols - 1)' = T
        BY DEF LastInv
      <4>1. r \in Nat /\ eng_row \in Nat /\ eng_row =< r /\ Cell(r, Cols - 1) \in Cells
            /\ Cols - 1 \in 0 .. Cols - 1
        BY <1>0, <2>0, <3>1, <3>2, CellType DEF AllRows
      <4>2. r # eng_row \/ tail # Cols - 1
        BY <1>0, <2>0, <3>1, <3>2 DEF AllRows
      <4>3. Cell(r, Cols - 1) # Cell(eng_row, tail)
        BY <2>0, <4>1, <4>2, CellInjective
      <4>4. At(r, Cols - 1) = T
        BY <2>0, <4>1 DEF LastInv
      <4> QED
        BY <2>0, <3>1, <4>1, <4>3, <4>4 DEF At, Cell
    <3> QED
      BY <2>0, <3>1, <3>3, <3>4, <3>5, <3>6, <3>7 DEF TypeOK, consumer, AllRows, SwapType, Cell, Cells
  <2>3. CASE EnqSwapAgain
    <3>1. /\ ppc = "again" /\ eng_row \in AllRows /\ tail = 0 /\ ppc' = "announce"
          /\ sent - 1 \in Nat
          /\ items' = [items EXCEPT ![Cell(eng_row, 0)] = sent - 1]
          /\ UNCHANGED <<head, row, eng_row, tail, sent, refused, consumer>>
      BY <1>0, <2>0, <2>3 DEF EnqSwapAgain, AllRows
    <3>2. items' \in [Cells -> Nat \cup {L, T}]
      BY <2>0, <3>1
    <3>3. LastInv'
      <4> SUFFICES ASSUME NEW r \in AllRows, eng_row =< r PROVE At(r, Cols - 1)' = T
        BY <3>1 DEF LastInv
      <4>1. r \in Nat /\ eng_row \in Nat /\ Cell(r, Cols - 1) \in Cells
            /\ Cols - 1 \in 0 .. Cols - 1 /\ 0 \in 0 .. Cols - 1 /\ Cols - 1 # 0
        BY <1>0, <3>1, CellType DEF AllRows
      <4>2. Cell(r, Cols - 1) # Cell(eng_row, 0)
        <5>1. PICK k \in 0 .. Cols - 1, j \in 0 .. Cols - 1 : k = Cols - 1 /\ j = 0
          BY <4>1
        <5>2. k # j /\ r \in Nat /\ eng_row \in Nat
          BY <4>1, <5>1
        <5>3. Cell(r, k) # Cell(eng_row, j)
          BY <5>2, CellInjective
        <5> QED
          BY <5>1, <5>3
      <4>3. At(r, Cols - 1) = T
        BY <2>0 DEF LastInv
      <4> QED
        BY <2>0, <3>1, <4>1, <4>2, <4>3 DEF At, Cell
    <3> QED
      BY <2>0, <3>1, <3>2, <3>3 DEF TypeOK, consumer, Values, AllRows, SwapType, Cell, Cells
  <2>4. CASE EnqAnnounce
    <3>1. /\ ppc = "announce" /\ eng_row \in AllRows /\ tail = 0 /\ ppc' = "idle"
          /\ row' = eng_row /\ tail' = 1
          /\ UNCHANGED <<items, head, eng_row, sent, refused, consumer>>
      BY <1>0, <2>0, <2>4 DEF EnqAnnounce, AllRows
    <3> QED
      BY <1>0, <2>0, <3>1 DEF TypeOK, consumer, Values, AllRows, LastInv, At, SwapType, Cell, Cells
  <2>5. ASSUME NEW c \in Consumers, DeqReadRow(c) PROVE TypeInv'
    <3>1. deq_row' \in [Consumers -> AllRows] /\ cpc' \in [Consumers -> {"idle", "draw", "swap"}]
      BY <2>0, <2>5 DEF DeqReadRow, Go
    <3>2. SwapType'
      BY <2>0, <2>5 DEF DeqReadRow, Go, SwapType, Cell, Cells
    <3> QED
      BY <2>0, <2>5, <3>1, <3>2 DEF DeqReadRow, TypeOK, enqueuer, Values, AllRows, LastInv, At
  <2>6. ASSUME NEW c \in Consumers, DeqDraw(c) PROVE TypeInv'
    <3>1. /\ head' \in [AllRows -> Nat] /\ col' \in [Consumers -> Nat]
      BY <2>0, <2>6 DEF DeqDraw, Draw
    <3>2. cpc' \in [Consumers -> {"idle", "draw", "swap"}]
      BY <2>0, <2>6 DEF DeqDraw, Go
    <3>3. SwapType'
      BY <2>0, <2>6 DEF DeqDraw, Draw, Go, SwapType, Cell, Cells
    <3> QED
      BY <2>0, <2>6, <3>1, <3>2, <3>3 DEF DeqDraw, TypeOK, enqueuer, Values, AllRows, LastInv, At
  <2>7. ASSUME NEW c \in Consumers, DeqSwap(c) PROVE TypeInv'
    <3> DEFINE here == Cell(deq_row[c], col[c])
    <3>1. /\ items' = [items EXCEPT ![here] = T]
          /\ \/ got' = got
             \/ items[here] # L /\ got' = [got EXCEPT ![c] = Append(@, items[here])]
          /\ Go(c, "idle")
          /\ UNCHANGED <<head, row, enqueuer, deq_row, col>>
      BY <2>7 DEF DeqSwap
    <3>2. items' \in [Cells -> Nat \cup {L, T}]
      BY <2>0, <3>1
    <3>3. cpc' \in [Consumers -> {"idle", "draw", "swap"}]
      BY <2>0, <3>1 DEF Go
    <3>4. got' \in [Consumers -> Seq(Nat \cup {T})]
      <4>1. here \in Cells
        BY <2>0, <2>7 DEF DeqSwap, SwapType
      <4>2. items[here] # L => items[here] \in Nat \cup {T}
        BY <2>0, <4>1
      <4>3. items[here] # L => Append(got[c], items[here]) \in Seq(Nat \cup {T})
        BY <2>0, <4>2
      <4> QED
        BY <2>0, <3>1, <4>3
    <3>6. SwapType'
      BY <2>0, <3>1 DEF Go, SwapType, Cell, Cells
    <3>5. LastInv'
      <4> SUFFICES ASSUME NEW r \in AllRows, eng_row =< r PROVE At(r, Cols - 1)' = T
        BY <3>1 DEF LastInv, enqueuer
      <4>1. At(r, Cols - 1) = T /\ Cell(r, Cols - 1) \in Cells
        BY <1>0, <2>0, CellType DEF LastInv
      <4> QED
        BY <2>0, <3>1, <4>1 DEF At, Cell
    <3> QED
      BY <2>0, <3>1, <3>2, <3>3, <3>4, <3>5, <3>6 DEF TypeOK, enqueuer, Values, AllRows
  <2>8. CASE UNCHANGED vars
    BY <2>0, <2>8 DEF vars, enqueuer, consumer, TypeOK, Values, AllRows, LastInv, At, SwapType, Cell,
                  Cells
  <2> QED
    BY <2>1, <2>2, <2>3, <2>4, <2>5, <2>6, <2>7, <2>8 DEF Next, Enqueuer, Consumer
<1> QED
  BY <1>1, <1>2, PTL DEF Spec

-----------------------------------------------------------------------------
\* Neither side comes to the end of a row: the last cell of a row is not
\* written, and no dequeue call draws its number.
Within == tail < Cols - 1 /\ \A r \in AllRows : head[r] < Cols

\* A consumer has drawn the cell and not swapped it yet.
Pending(r, k) ==
  \E c \in Consumers : cpc[c] = "swap" /\ deq_row[c] = r /\ col[c] = k

\* The cell has not been swapped by a consumer.
Open(r, k) == Pending(r, k) \/ head[r] =< k

Full(r, k) == At(r, k) \in Nat

\* The announced row is the enqueuer's, or the one before while it moves on
\* and after the last; no number was drawn in the rows that follow.
RowInv == /\ ppc = "idle" => row = eng_row \/ eng_row = Rows
          /\ ppc # "idle" => eng_row = row + 1
          /\ \A r \in AllRows : row < r => head[r] = 0

\* Consumers draw different cells, in rows that were announced.
TicketInv ==
  /\ \A c \in Consumers : /\ cpc[c] # "idle" => deq_row[c] =< row
                          /\ cpc[c] = "swap" => col[c] < head[deq_row[c]]
  /\ \A c, d \in Consumers : c # d /\ cpc[c] = "swap" /\ cpc[d] = "swap" =>
                               deq_row[c] # deq_row[d] \/ col[c] # col[d]

\* A mark says that a consumer has swapped the cell, an L that none has.
MarksInv == \A r \in AllRows, k \in Columns :
              /\ At(r, k) = T => ~Open(r, k)
              /\ At(r, k) = L => Open(r, k)

\* Where the enqueuer has written: before its place.
Behind(r, k) == \/ r < eng_row
                \/ r = eng_row /\ (k < tail \/ (ppc = "announce" /\ k = 0))

FullInv == \A r \in AllRows, k \in Columns :
             Full(r, k) => Behind(r, k) /\ At(r, k) < sent

\* A row that the enqueuer has left is drained.
DrainedInv == \A r \in AllRows, k \in Columns :
                r < eng_row /\ head[r] =< k => ~Full(r, k)

\* The value of an overtaken call is in no cell where a consumer finds it until
\* it is written a second time, into the new row.
AgainInv == /\ ppc = "again" => \A r \in AllRows, k \in Columns :
                                  Open(r, k) /\ Full(r, k) => At(r, k) < sent - 1
            /\ ppc = "announce" => At(eng_row, 0) = sent - 1
            /\ ppc # "idle" => sent - 1 \notin refused

\* The values that consumers will find lie in their order.
Before(r, k, q, j) == r < q \/ (r = q /\ k < j)

AscendingInv == \A r, q \in AllRows, k, j \in Columns :
  Open(r, k) /\ Full(r, k) /\ Open(q, j) /\ Full(q, j) /\ Before(r, k, q, j) =>
    At(r, k) < At(q, j)

\* They were neither refused nor returned.
OpenInv == \A r \in AllRows, k \in Columns :
             Open(r, k) /\ Full(r, k) => At(r, k) \notin refused \cup Returned

\* The values whose calls have come as far as their one place in the queue.
Put == IF ppc = "idle" THEN sent ELSE sent - 1

\* What a consumer returned is older than all that it may still find.
GotInv == \A c \in Consumers : \A n \in DOMAIN got[c] :
  /\ got[c][n] \in Nat /\ got[c][n] < Put /\ got[c][n] \notin refused
  /\ \A r \in AllRows, k \in Columns : head[r] =< k /\ Full(r, k) => got[c][n] < At(r, k)
  /\ cpc[c] = "swap" /\ Full(deq_row[c], col[c]) => got[c][n] < At(deq_row[c], col[c])

\* NothingLost and FifoUpToPending, by rows and columns.
StoredInv == \A v \in Values \ (refused \cup Returned) :
  \/ v = sent - 1 /\ ppc # "idle"
  \/ \E r \in AllRows, k \in Columns : Open(r, k) /\ At(r, k) = v

FifoInv == \A v \in Returned : \A u \in 0 .. v - 1 :
  u \in Returned \cup refused \/ \E r \in AllRows, k \in Columns : Pending(r, k) /\ At(r, k) = u

IInv == /\ RowInv /\ TicketInv /\ MarksInv /\ FullInv /\ DrainedInv /\ AgainInv
        /\ AscendingInv /\ OpenInv /\ GotInv /\ StoredInv /\ FifoInv

\* The columns that a call may use before the end of a row.
LEMMA ColumnType ==
  ASSUME NEW k \in Columns
  PROVE  k \in Nat /\ k \in 0 .. Cols - 1 /\ k < Cols - 1
  BY SizeAssumption DEF Columns

\* The types of what the invariant speaks of.
LEMMA InvTypes ==
  ASSUME TypeInv
  PROVE  /\ sent \in Nat /\ refused \subseteq Values /\ \A v \in Values : v \in Nat /\ v < sent
         /\ \A r \in AllRows, k \in Columns :
              /\ At(r, k) \in Nat \cup {L, T} /\ r \in Nat /\ k \in Nat /\ head[r] \in Nat
              /\ Cell(r, k) \in Cells
         /\ got \in [Consumers -> Seq(Nat \cup {T})] /\ head \in [AllRows -> Nat]
         /\ cpc \in [Consumers -> {"idle", "draw", "swap"}]
         /\ deq_row \in [Consumers -> AllRows] /\ col \in [Consumers -> Nat]
         /\ eng_row \in 0 .. Rows /\ eng_row \in Nat /\ Rows \in Nat /\ row \in AllRows
         /\ row \in Nat /\ tail \in Nat /\ ppc \in {"idle", "again", "announce"}
<1>1. Rows \in Nat /\ Cols \in Nat /\ TypeOK
  BY SizeAssumption DEF TypeInv
<1>2. /\ sent \in Nat /\ refused \subseteq Values /\ \A v \in Values : v \in Nat /\ v < sent
  BY <1>1 DEF TypeOK, Values
<1>3. ASSUME NEW r \in AllRows, NEW k \in Columns
      PROVE  /\ At(r, k) \in Nat \cup {L, T} /\ r \in Nat /\ k \in Nat /\ head[r] \in Nat
             /\ Cell(r, k) \in Cells
  BY <1>1, ColumnType, CellType DEF TypeOK, At, AllRows
<1> QED
  BY <1>1, <1>2, <1>3 DEF TypeOK, AllRows

\* The values returned are those in the consumers' lists.
LEMMA ReturnedIs ==
  ASSUME TypeInv, NEW v
  PROVE  v \in Returned <=> \E c \in Consumers : \E n \in DOMAIN got[c] : got[c][n] = v
  BY DEF TypeInv, TypeOK, Returned, ToSet

\* A swap changes one cell.
LEMMA AtUpdate ==
  ASSUME TypeInv, NEW q \in AllRows, NEW j \in Columns, NEW val,
         items' = [items EXCEPT ![Cell(q, j)] = val]
  PROVE  /\ At(q, j)' = val
         /\ \A r \in AllRows, k \in Columns : r # q \/ k # j => At(r, k)' = At(r, k)
<1>1. items \in [Cells -> Nat \cup {L, T}] /\ Cell(q, j) \in Cells
  BY InvTypes DEF TypeInv, TypeOK
<1>2. At(q, j)' = val
  BY <1>1 DEF At, Cell
<1>3. ASSUME NEW r \in AllRows, NEW k \in Columns, r # q \/ k # j
      PROVE  At(r, k)' = At(r, k)
  <2>1. Cell(r, k) \in Cells /\ r \in Nat /\ q \in Nat /\ k \in 0 .. Cols - 1
        /\ j \in 0 .. Cols - 1
    BY InvTypes, ColumnType
  <2>2. Cell(r, k) # Cell(q, j)
    BY <1>3, <2>1, CellInjective
  <2> QED
    BY <1>1, <2>1, <2>2 DEF At, Cell
<1> QED
  BY <1>2, <1>3

\* A call that finds the rows used up is refused.
LEMMA OutOfRowsKeepsInv ==
  ASSUME TypeInv, IInv, EnqOutOfRows
  PROVE  IInv'
<1>0. /\ ppc = "idle" /\ ppc' = ppc /\ sent' = sent + 1 /\ refused' = refused \cup {sent}
      /\ UNCHANGED <<items, head, row, eng_row, tail, cpc, deq_row, col, got>>
  BY DEF EnqOutOfRows, Refuse, consumer
<1>1. /\ Returned' = Returned /\ Values' = Values \cup {sent} /\ Put' = Put + 1 /\ Put = sent
      /\ \A r, k : At(r, k)' = At(r, k) /\ Open(r, k)' = Open(r, k)
                   /\ Pending(r, k)' = Pending(r, k) /\ Behind(r, k)' = Behind(r, k)
                   /\ Full(r, k)' = Full(r, k)
  <2>1. sent \in Nat
    BY InvTypes
  <2>2. Values' = Values \cup {sent}
    BY <1>0, <2>1 DEF Values
  <2>3. \A r, k : At(r, k)' = At(r, k) /\ Pending(r, k)' = Pending(r, k)
    BY <1>0 DEF At, Pending
  <2>4. \A r, k : Open(r, k)' = Open(r, k)
    BY <1>0, <2>3, Zenon DEF Open
  <2>5. \A r, k : Behind(r, k)' = Behind(r, k) /\ Full(r, k)' = Full(r, k)
    BY <1>0, <2>3, Zenon DEF Behind, Full
  <2> QED
    BY <1>0, <2>1, <2>2, <2>3, <2>4, <2>5 DEF Returned, Put
<1>2. /\ sent \in Nat /\ refused \subseteq Values /\ \A v \in Values : v \in Nat /\ v < sent
      /\ \A r \in AllRows, k \in Columns : At(r, k) \in Nat \cup {L, T}
  BY InvTypes
<1>3. RowInv' /\ TicketInv' /\ MarksInv' /\ DrainedInv'
  <2>1. RowInv'
    BY <1>0 DEF IInv, RowInv
  <2>2. TicketInv'
    BY <1>0 DEF IInv, TicketInv
  <2>3. MarksInv' /\ DrainedInv'
    BY <1>0, <1>1 DEF IInv, MarksInv, DrainedInv
  <2> QED
    BY <2>1, <2>2, <2>3
<1>4. FullInv' /\ AgainInv' /\ AscendingInv'
  <2>1. FullInv'
    BY <1>0, <1>1, <1>2 DEF IInv, FullInv, Full
  <2>2. AgainInv'
    BY <1>0 DEF AgainInv
  <2>3. AscendingInv'
    BY <1>0, <1>1 DEF IInv, AscendingInv, Before
  <2> QED
    BY <2>1, <2>2, <2>3
<1>5. OpenInv'
  BY <1>0, <1>1, <1>2 DEF IInv, OpenInv, FullInv, Full
<1>6. GotInv'
  <2> SUFFICES ASSUME NEW c \in Consumers, NEW n \in DOMAIN got[c]
               PROVE  /\ got[c][n] \in Nat /\ got[c][n] < Put' /\ got[c][n] \notin refused'
                      /\ \A r \in AllRows, k \in Columns :
                           head[r] =< k /\ Full(r, k) => got[c][n] < At(r, k)
                      /\ cpc[c] = "swap" /\ Full(deq_row[c], col[c]) =>
                           got[c][n] < At(deq_row[c], col[c])
    BY <1>0 DEF GotInv, Full, At
  <2>1. /\ got[c][n] \in Nat /\ got[c][n] < Put /\ got[c][n] \notin refused
        /\ \A r \in AllRows, k \in Columns :
             head[r] =< k /\ Full(r, k) => got[c][n] < At(r, k)
        /\ cpc[c] = "swap" /\ Full(deq_row[c], col[c]) => got[c][n] < At(deq_row[c], col[c])
    BY DEF IInv, GotInv
  <2> QED
    BY <1>0, <1>1, <1>2, <2>1
<1>7. StoredInv'
  BY <1>0, <1>1 DEF IInv, StoredInv
<1>8. FifoInv'
  BY <1>0, <1>1 DEF IInv, FifoInv
<1> QED
  BY <1>3, <1>4, <1>5, <1>6, <1>7, <1>8 DEF IInv

\* Before the end of a row, what a consumer swaps is a column that holds items.
LEMMA PendingType ==
  ASSUME TypeInv, TicketInv, Within, NEW c \in Consumers, cpc[c] = "swap"
  PROVE  deq_row[c] \in AllRows /\ col[c] \in Columns
<1>1. deq_row[c] \in AllRows /\ col[c] \in Nat /\ head[deq_row[c]] \in Nat /\ Cols \in Nat
  BY InvTypes, SizeAssumption
<1>2. col[c] < head[deq_row[c]] /\ head[deq_row[c]] < Cols
  BY <1>1 DEF TicketInv, Within
<1> QED
  BY <1>1, <1>2 DEF Columns

\* A step of the enqueuer disturbs no consumer.
LEMMA ConsumersSame ==
  ASSUME UNCHANGED <<head, consumer>>
  PROVE  /\ Returned' = Returned /\ \A r, k : Open(r, k)' = Open(r, k)
                                              /\ Pending(r, k)' = Pending(r, k)
         /\ UNCHANGED <<cpc, deq_row, col, got>>
<1>1. \A r, k : Pending(r, k)' = Pending(r, k)
  BY DEF Pending, consumer
<1>2. \A r, k : Open(r, k)' = Open(r, k)
  BY <1>1, Zenon DEF Open
<1> QED
  BY <1>1, <1>2 DEF consumer, Returned

\* The place where the enqueuer swaps: in the announced row, and empty.
LEMMA SwapPlace ==
  ASSUME TypeInv, IInv, Within, EnqSwap
  PROVE  /\ row = eng_row /\ eng_row \in AllRows /\ tail \in Columns /\ Put = sent
         /\ ~Full(eng_row, tail)
         /\ \A c \in Consumers : \A n \in DOMAIN got[c] : got[c][n] \in Nat /\ got[c][n] < sent
         /\ sent \notin refused /\ sent \notin Returned /\ Values' = Values \cup {sent}
<1>1. ppc = "idle" /\ eng_row \in AllRows /\ tail \in 0 .. Cols - 1 /\ sent' = sent + 1
  BY SwapFacts
<1>2. row = eng_row
  BY <1>1, SizeAssumption DEF IInv, RowInv, AllRows
<1>3. tail \in Columns
  BY <1>1, SizeAssumption DEF Within, Columns
<1>4. ~Full(eng_row, tail)
  BY <1>1, <1>3, InvTypes DEF IInv, FullInv, Behind
<1>5. Put = sent
  BY <1>1 DEF Put
<1>6. \A c \in Consumers : \A n \in DOMAIN got[c] : got[c][n] \in Nat /\ got[c][n] < sent
  BY <1>5 DEF IInv, GotInv
<1>7. sent \notin refused
  BY InvTypes
<1>8. sent \notin Returned
  BY <1>6, ReturnedIs, InvTypes
<1>9. Values' = Values \cup {sent}
  BY <1>1, InvTypes DEF Values
<1> QED
  BY <1>1, <1>2, <1>3, <1>4, <1>5, <1>6, <1>7, <1>8, <1>9

\* A value that replaced an L is the youngest, and a consumer will find it.
LEMMA AcceptedKeepsInv ==
  ASSUME TypeInv, IInv, Within, EnqSwap, At(eng_row, tail) # T
  PROVE  IInv'
<1> PICK e \in AllRows, t \in Columns : e = eng_row /\ t = tail
  BY SwapPlace
<1>0. /\ ppc = "idle" /\ ppc' = "idle" /\ sent' = sent + 1 /\ tail' = t + 1
      /\ items' = [items EXCEPT ![Cell(e, t)] = sent]
      /\ UNCHANGED <<head, row, eng_row, refused, consumer>>
  BY SwapFacts
<1>1. /\ row = e /\ e \in AllRows /\ t \in Columns /\ Put = sent /\ ~Full(e, t)
      /\ \A c \in Consumers : \A n \in DOMAIN got[c] : got[c][n] \in Nat /\ got[c][n] < sent
      /\ sent \notin refused /\ sent \notin Returned /\ Values' = Values \cup {sent}
  BY SwapPlace
<1>2. /\ At(e, t)' = sent
      /\ \A r \in AllRows, k \in Columns : r # e \/ k # t => At(r, k)' = At(r, k)
  BY <1>0, <1>1, AtUpdate
<1>3. /\ Returned' = Returned /\ UNCHANGED <<cpc, deq_row, col, got>>
      /\ \A r, k : Open(r, k)' = Open(r, k) /\ Pending(r, k)' = Pending(r, k)
  BY <1>0, ConsumersSame
<1>4. /\ sent \in Nat /\ refused \subseteq Values /\ \A v \in Values : v \in Nat /\ v < sent
      /\ \A r \in AllRows, k \in Columns :
           At(r, k) \in Nat \cup {L, T} /\ r \in Nat /\ k \in Nat /\ head[r] \in Nat
      /\ e \in Nat /\ t \in Nat /\ L = -1 /\ T = -2
  BY InvTypes DEF L, T
<1>5. Open(e, t)
  <2>1. At(e, t) = L
    BY <1>1, <1>4 DEF Full
  <2> QED
    BY <1>1, <2>1 DEF IInv, MarksInv
<1>6. \A r \in AllRows, k \in Columns : Full(r, k) => At(r, k) < sent /\ Behind(r, k)
  BY DEF IInv, FullInv
<1>7. RowInv' /\ TicketInv'
  <2>1. RowInv'
    BY <1>0 DEF IInv, RowInv
  <2>2. TicketInv'
    BY <1>0, <1>3 DEF IInv, TicketInv
  <2> QED
    BY <2>1, <2>2
<1>8. MarksInv'
  BY <1>1, <1>2, <1>3, <1>4 DEF IInv, MarksInv
<1>9. FullInv'
  <2> SUFFICES ASSUME NEW r \in AllRows, NEW k \in Columns, Full(r, k)'
               PROVE  Behind(r, k)' /\ At(r, k)' < sent'
    BY DEF FullInv
  <2>1. CASE r = e /\ k = t
    BY <1>0, <1>2, <1>4, <2>1 DEF Behind
  <2>2. CASE ~(r = e /\ k = t)
    <3>1. At(r, k)' = At(r, k) /\ Full(r, k)
      BY <1>2, <2>2 DEF Full
    <3> QED
      BY <1>0, <1>4, <1>6, <3>1 DEF Behind, Full
  <2> QED
    BY <2>1, <2>2
<1>10. DrainedInv'
  BY <1>0, <1>1, <1>2, <1>4 DEF IInv, DrainedInv, Full
<1>11. AgainInv'
  BY <1>0 DEF AgainInv
<1>12. AscendingInv'
  <2> SUFFICES ASSUME NEW r \in AllRows, NEW q \in AllRows, NEW k \in Columns, NEW j \in Columns,
                      Open(r, k), Full(r, k)', Open(q, j), Full(q, j)', Before(r, k, q, j)
               PROVE  At(r, k)' < At(q, j)'
    BY <1>3 DEF AscendingInv, Before
  <2>1. CASE r = e /\ k = t
    <3>1. q # e \/ j # t
      BY <1>4, <2>1 DEF Before
    <3>2. Full(q, j)
      BY <1>2, <3>1 DEF Full
    <3>3. Behind(q, j)
      BY <1>6, <3>2
    <3> QED
      BY <1>0, <1>4, <2>1, <3>3 DEF Before, Behind
  <2>2. CASE ~(r = e /\ k = t)
    <3>1. At(r, k)' = At(r, k) /\ Full(r, k)
      BY <1>2, <2>2 DEF Full
    <3>2. CASE q = e /\ j = t
      BY <1>2, <1>6, <3>1, <3>2
    <3>3. CASE ~(q = e /\ j = t)
      <4>1. At(q, j)' = At(q, j) /\ Full(q, j)
        BY <1>2, <3>3 DEF Full
      <4> QED
        BY <3>1, <4>1 DEF IInv, AscendingInv
    <3> QED
      BY <3>2, <3>3
  <2> QED
    BY <2>1, <2>2
<1>13. OpenInv'
  BY <1>0, <1>1, <1>2, <1>3 DEF IInv, OpenInv, Full
<1>14. GotInv'
  <2> SUFFICES ASSUME NEW c \in Consumers, NEW n \in DOMAIN got[c]
               PROVE  /\ got[c][n] \in Nat /\ got[c][n] < Put' /\ got[c][n] \notin refused
                      /\ \A r \in AllRows, k \in Columns :
                           head[r] =< k /\ Full(r, k)' => got[c][n] < At(r, k)'
                      /\ cpc[c] = "swap" /\ Full(deq_row[c], col[c])' =>
                           got[c][n] < At(deq_row[c], col[c])'
    BY <1>0, <1>3 DEF GotInv, Full, At
  <2>1. /\ got[c][n] \in Nat /\ got[c][n] < sent /\ got[c][n] \notin refused
        /\ \A r \in AllRows, k \in Columns :
             head[r] =< k /\ Full(r, k) => got[c][n] < At(r, k)
        /\ cpc[c] = "swap" /\ Full(deq_row[c], col[c]) => got[c][n] < At(deq_row[c], col[c])
    BY <1>1 DEF IInv, GotInv
  <2>2. got[c][n] < Put'
    BY <1>0, <1>4, <2>1 DEF Put
  <2>3. ASSUME NEW r \in AllRows, NEW k \in Columns, head[r] =< k, Full(r, k)'
        PROVE  got[c][n] < At(r, k)'
    BY <1>2, <2>1, <2>3 DEF Full
  <2>4. ASSUME cpc[c] = "swap", Full(deq_row[c], col[c])'
        PROVE  got[c][n] < At(deq_row[c], col[c])'
    <3>1. deq_row[c] \in AllRows /\ col[c] \in Columns
      BY <2>4, PendingType DEF IInv
    <3>2. deq_row' = deq_row /\ col' = col
      BY <1>3
    <3>3. PICK r \in AllRows, k \in Columns : r = deq_row[c] /\ k = col[c]
      BY <3>1
    <3>4. Full(r, k)' /\ At(deq_row[c], col[c])' = At(r, k)'
      BY <2>4, <3>2, <3>3 DEF Full, At
    <3>5. CASE r = e /\ k = t
      BY <1>2, <2>1, <3>4, <3>5
    <3>6. CASE ~(r = e /\ k = t)
      BY <1>2, <2>1, <2>4, <3>3, <3>4, <3>6 DEF Full
    <3> QED
      BY <3>5, <3>6
  <2> QED
    BY <2>1, <2>2, <2>3, <2>4
<1>15. StoredInv'
  <2> SUFFICES ASSUME NEW v \in Values \cup {sent}, v \notin refused, v \notin Returned
               PROVE  \E r \in AllRows, k \in Columns : Open(r, k) /\ At(r, k)' = v
    BY <1>0, <1>1, <1>3 DEF StoredInv
  <2>1. CASE v = sent
    BY <1>1, <1>2, <1>5, <2>1
  <2>2. CASE v # sent
    <3>1. PICK r \in AllRows, k \in Columns : Open(r, k) /\ At(r, k) = v
      BY <1>0, <2>2 DEF IInv, StoredInv
    <3>2. Full(r, k)
      BY <1>4, <2>2, <3>1 DEF Full
    <3> QED
      BY <1>1, <1>2, <3>1, <3>2
  <2> QED
    BY <2>1, <2>2
<1>16. FifoInv'
  <2> SUFFICES ASSUME NEW v \in Returned, NEW u \in 0 .. v - 1, u \notin Returned \cup refused
               PROVE  \E r \in AllRows, k \in Columns : Pending(r, k) /\ At(r, k)' = u
    BY <1>0, <1>3 DEF FifoInv
  <2>1. PICK r \in AllRows, k \in Columns : Pending(r, k) /\ At(r, k) = u
    BY DEF IInv, FifoInv
  <2>2. u \in Nat
    OBVIOUS
  <2>3. Full(r, k)
    BY <2>1, <2>2 DEF Full
  <2> QED
    BY <1>1, <1>2, <2>1, <2>3
<1> QED
  BY <1>7, <1>8, <1>9, <1>10, <1>11, <1>12, <1>13, <1>14, <1>15, <1>16 DEF IInv

\* A value that replaced a mark lies where no consumer finds it, and the row is
\* drained.
LEMMA OvertakenKeepsInv ==
  ASSUME TypeInv, IInv, Within, EnqSwap, At(eng_row, tail) = T
  PROVE  IInv'
<1> PICK e \in AllRows, t \in Columns : e = eng_row /\ t = tail
  BY SwapPlace
<1>0. /\ ppc = "idle" /\ sent' = sent + 1 /\ eng_row' = e + 1
      /\ items' = [items EXCEPT ![Cell(e, t)] = sent]
      /\ \/ tail' = 0 /\ ppc' = "again" /\ refused' = refused
         \/ eng_row' = Rows /\ refused' = refused \cup {sent} /\ ppc' = "idle"
      /\ UNCHANGED <<head, row, consumer>>
  BY SwapFacts
<1>1. /\ row = e /\ Put = sent
      /\ \A c \in Consumers : \A n \in DOMAIN got[c] : got[c][n] \in Nat /\ got[c][n] < sent
      /\ sent \notin refused /\ sent \notin Returned /\ Values' = Values \cup {sent}
  BY SwapPlace
<1>2. /\ At(e, t)' = sent
      /\ \A r \in AllRows, k \in Columns : r # e \/ k # t => At(r, k)' = At(r, k)
  BY <1>0, AtUpdate
<1>3. /\ Returned' = Returned /\ UNCHANGED <<cpc, deq_row, col, got>>
      /\ \A r, k : Open(r, k)' = Open(r, k) /\ Pending(r, k)' = Pending(r, k)
  BY <1>0, ConsumersSame
<1>4. /\ sent \in Nat /\ refused \subseteq Values /\ \A v \in Values : v \in Nat /\ v < sent
      /\ \A r \in AllRows, k \in Columns :
           At(r, k) \in Nat \cup {L, T} /\ r \in Nat /\ k \in Nat /\ head[r] \in Nat
      /\ e \in Nat /\ t \in Nat /\ L = -1 /\ T = -2
  BY InvTypes DEF L, T
<1>5. ~Open(e, t) /\ t < head[e]
  <2>1. ~Open(e, t)
    BY DEF IInv, MarksInv
  <2> QED
    BY <1>4, <2>1 DEF Open
<1>6. \A r \in AllRows, k \in Columns : Full(r, k) => At(r, k) < sent /\ Behind(r, k)
  BY DEF IInv, FullInv
\* What a consumer will find is as it was.
<1>7. ASSUME NEW r \in AllRows, NEW k \in Columns, Open(r, k)
      PROVE  At(r, k)' = At(r, k) /\ (r # e \/ k # t)
  BY <1>2, <1>5, <1>7
<1>8. \A r \in AllRows, k \in Columns : Open(r, k) => (Full(r, k)' <=> Full(r, k))
  BY <1>7 DEF Full
<1>9. RowInv' /\ TicketInv'
  <2>1. RowInv'
    BY <1>0, <1>1 DEF IInv, RowInv
  <2>2. TicketInv'
    BY <1>0, <1>3 DEF IInv, TicketInv
  <2> QED
    BY <2>1, <2>2
<1>10. MarksInv'
  BY <1>2, <1>3, <1>4 DEF IInv, MarksInv
<1>11. FullInv'
  <2> SUFFICES ASSUME NEW r \in AllRows, NEW k \in Columns, Full(r, k)'
               PROVE  Behind(r, k)' /\ At(r, k)' < sent'
    BY DEF FullInv
  <2>1. CASE r = e /\ k = t
    BY <1>0, <1>2, <1>4, <2>1 DEF Behind
  <2>2. CASE ~(r = e /\ k = t)
    <3>1. At(r, k)' = At(r, k) /\ Full(r, k)
      BY <1>2, <2>2 DEF Full
    <3> QED
      BY <1>0, <1>4, <1>6, <3>1 DEF Behind, Full
  <2> QED
    BY <2>1, <2>2
<1>12. DrainedInv'
  <2> SUFFICES ASSUME NEW r \in AllRows, NEW k \in Columns, r < e + 1, head[r] =< k, Full(r, k)'
               PROVE  FALSE
    BY <1>0 DEF DrainedInv
  <2>1. r # e \/ k # t
    BY <1>4, <1>5
  <2>2. Full(r, k)
    BY <1>2, <2>1 DEF Full
  <2>3. CASE r < e
    BY <2>2, <2>3 DEF IInv, DrainedInv
  <2>4. CASE r = e
    BY <1>0, <1>4, <1>5, <1>6, <2>2, <2>4 DEF Behind
  <2> QED
    BY <1>4, <2>3, <2>4
<1>13. AgainInv'
  <2>1. ASSUME ppc' = "again", NEW r \in AllRows, NEW k \in Columns, Open(r, k), Full(r, k)'
        PROVE  At(r, k)' < sent' - 1
    BY <1>0, <1>4, <1>6, <1>7, <1>8, <2>1
  <2>2. ppc' # "announce"
    BY <1>0
  <2>3. ppc' # "idle" => sent' - 1 \notin refused'
    BY <1>0, <1>1, <1>4
  <2> QED
    BY <1>3, <2>1, <2>2, <2>3 DEF AgainInv
<1>14. AscendingInv'
  <2> SUFFICES ASSUME NEW r \in AllRows, NEW q \in AllRows, NEW k \in Columns, NEW j \in Columns,
                      Open(r, k), Full(r, k)', Open(q, j), Full(q, j)', Before(r, k, q, j)
               PROVE  At(r, k)' < At(q, j)'
    BY <1>3 DEF AscendingInv, Before
  <2>1. At(r, k)' = At(r, k) /\ At(q, j)' = At(q, j) /\ Full(r, k) /\ Full(q, j)
    BY <1>7, <1>8
  <2> QED
    BY <2>1 DEF IInv, AscendingInv
<1>15. OpenInv'
  <2> SUFFICES ASSUME NEW r \in AllRows, NEW k \in Columns, Open(r, k), Full(r, k)'
               PROVE  At(r, k)' \notin refused' \cup Returned
    BY <1>3 DEF OpenInv
  <2>1. At(r, k)' = At(r, k) /\ Full(r, k)
    BY <1>7, <1>8
  <2>2. At(r, k) < sent /\ At(r, k) \notin refused \cup Returned
    BY <1>6, <2>1 DEF IInv, OpenInv
  <2> QED
    BY <1>0, <1>4, <2>1, <2>2
<1>16. GotInv'
  <2> SUFFICES ASSUME NEW c \in Consumers, NEW n \in DOMAIN got[c]
               PROVE  /\ got[c][n] \in Nat /\ got[c][n] < Put' /\ got[c][n] \notin refused'
                      /\ \A r \in AllRows, k \in Columns :
                           head[r] =< k /\ Full(r, k)' => got[c][n] < At(r, k)'
                      /\ cpc[c] = "swap" /\ Full(deq_row[c], col[c])' =>
                           got[c][n] < At(deq_row[c], col[c])'
    BY <1>0, <1>3 DEF GotInv, Full, At
  <2>1. /\ got[c][n] \in Nat /\ got[c][n] < sent /\ got[c][n] \notin refused
        /\ \A r \in AllRows, k \in Columns :
             head[r] =< k /\ Full(r, k) => got[c][n] < At(r, k)
        /\ cpc[c] = "swap" /\ Full(deq_row[c], col[c]) => got[c][n] < At(deq_row[c], col[c])
    BY <1>1 DEF IInv, GotInv
  <2>2. got[c][n] < Put' /\ got[c][n] \notin refused'
    BY <1>0, <1>4, <2>1 DEF Put
  <2>3. ASSUME NEW r \in AllRows, NEW k \in Columns, head[r] =< k, Full(r, k)'
        PROVE  got[c][n] < At(r, k)'
    <3>1. Open(r, k)
      BY <2>3 DEF Open
    <3> QED
      BY <1>7, <1>8, <2>1, <2>3, <3>1
  <2>4. ASSUME cpc[c] = "swap", Full(deq_row[c], col[c])'
        PROVE  got[c][n] < At(deq_row[c], col[c])'
    <3>1. deq_row[c] \in AllRows /\ col[c] \in Columns
      BY <2>4, PendingType DEF IInv
    <3>2. deq_row' = deq_row /\ col' = col
      BY <1>3
    <3>3. PICK r \in AllRows, k \in Columns : r = deq_row[c] /\ k = col[c]
      BY <3>1
    <3>4. Full(r, k)' /\ At(deq_row[c], col[c])' = At(r, k)'
      BY <2>4, <3>2, <3>3 DEF Full, At
    <3>5. Open(r, k)
      BY <2>4, <3>3 DEF Open, Pending
    <3> QED
      BY <1>7, <1>8, <2>1, <2>4, <3>3, <3>4, <3>5
  <2> QED
    BY <2>1, <2>2, <2>3, <2>4
<1>17. StoredInv'
  <2> SUFFICES ASSUME NEW v \in Values \cup {sent}, v \notin refused', v \notin Returned
               PROVE  \/ v = sent' - 1 /\ ppc' # "idle"
                      \/ \E r \in AllRows, k \in Columns : Open(r, k) /\ At(r, k)' = v
    BY <1>1, <1>3 DEF StoredInv
  <2>1. CASE v = sent
    BY <1>0, <1>4, <2>1
  <2>2. CASE v # sent
    <3>1. PICK r \in AllRows, k \in Columns : Open(r, k) /\ At(r, k) = v
      BY <1>0, <2>2 DEF IInv, StoredInv
    <3> QED
      BY <1>7, <3>1
  <2> QED
    BY <2>1, <2>2
<1>18. FifoInv'
  <2> SUFFICES ASSUME NEW v \in Returned, NEW u \in 0 .. v - 1, u \notin Returned \cup refused
               PROVE  \E r \in AllRows, k \in Columns : Pending(r, k) /\ At(r, k)' = u
    BY <1>0, <1>3 DEF FifoInv
  <2>1. PICK r \in AllRows, k \in Columns : Pending(r, k) /\ At(r, k) = u
    BY DEF IInv, FifoInv
  <2>2. Open(r, k)
    BY <2>1 DEF Open
  <2> QED
    BY <1>7, <2>1, <2>2
<1> QED
  BY <1>9, <1>10, <1>11, <1>12, <1>13, <1>14, <1>15, <1>16, <1>17, <1>18 DEF IInv

\* The second place of the value is the first cell of a row nobody came to.
LEMMA SwapAgainKeepsInv ==
  ASSUME TypeInv, IInv, Within, EnqSwapAgain
  PROVE  IInv'
<1>0. /\ ppc = "again" /\ ppc' = "announce" /\ tail = 0 /\ eng_row \in AllRows /\ 0 \in Columns
      /\ items' = [items EXCEPT ![Cell(eng_row, tail)] = sent - 1]
      /\ UNCHANGED <<head, row, eng_row, tail, sent, refused, consumer>>
  BY SizeAssumption, InvTypes DEF EnqSwapAgain, TypeInv, EngType, AllRows, Columns
<1> PICK e \in AllRows, t \in Columns : e = eng_row /\ t = tail
  BY <1>0
<1>1. /\ Put = sent - 1 /\ Put' = sent - 1 /\ Values' = Values
      /\ e = row + 1 /\ head[e] = 0 /\ sent - 1 \notin refused
  <2>1. e = row + 1 /\ sent - 1 \notin refused
    BY <1>0 DEF IInv, RowInv, AgainInv
  <2>2. row < e
    BY <2>1, InvTypes
  <2>3. head[e] = 0
    BY <2>2 DEF IInv, RowInv
  <2> QED
    BY <1>0, <2>1, <2>3 DEF Put, Values
<1>2. /\ At(e, t)' = sent - 1
      /\ \A r \in AllRows, k \in Columns : r # e \/ k # t => At(r, k)' = At(r, k)
  BY <1>0, AtUpdate
<1>3. /\ Returned' = Returned /\ UNCHANGED <<cpc, deq_row, col, got>>
      /\ \A r, k : Open(r, k)' = Open(r, k) /\ Pending(r, k)' = Pending(r, k)
  BY <1>0, ConsumersSame
<1>4. /\ sent \in Nat /\ \A v \in Values : v \in Nat /\ v < sent
      /\ \A r \in AllRows, k \in Columns :
           At(r, k) \in Nat \cup {L, T} /\ r \in Nat /\ k \in Nat /\ head[r] \in Nat
      /\ e \in Nat /\ t \in Nat /\ L = -1 /\ T = -2 /\ sent - 1 \in Nat
  BY <1>0, InvTypes DEF L, T, TypeInv, EngType
<1>5. Open(e, t)
  BY <1>0, <1>1 DEF Open
<1>6. \A r \in AllRows, k \in Columns : Full(r, k) => At(r, k) < sent /\ Behind(r, k)
  BY DEF IInv, FullInv
<1>7. \A r \in AllRows, k \in Columns : Full(r, k) => r < e
  BY <1>0, <1>4, <1>6 DEF Behind
<1>8. \A c \in Consumers : \A n \in DOMAIN got[c] : got[c][n] \in Nat /\ got[c][n] < sent - 1
  BY <1>1 DEF IInv, GotInv
<1>9. ASSUME NEW r \in AllRows, NEW k \in Columns, Full(r, k)'
      PROVE  \/ r = e /\ k = t
             \/ r < e /\ At(r, k)' = At(r, k) /\ Full(r, k)
  <2>1. CASE ~(r = e /\ k = t)
    <3>1. At(r, k)' = At(r, k) /\ Full(r, k)
      BY <1>2, <1>9, <2>1 DEF Full
    <3> QED
      BY <1>7, <3>1
  <2> QED
    BY <2>1
<1>10. ASSUME NEW r \in AllRows, NEW k \in Columns, Full(r, k)
       PROVE  At(r, k)' = At(r, k)
  BY <1>2, <1>4, <1>7, <1>10
<1>11. RowInv' /\ TicketInv'
  <2>1. RowInv'
    BY <1>0 DEF IInv, RowInv
  <2>2. TicketInv'
    BY <1>0, <1>3 DEF IInv, TicketInv
  <2> QED
    BY <2>1, <2>2
<1>12. MarksInv'
  BY <1>2, <1>3, <1>4 DEF IInv, MarksInv
<1>13. FullInv'
  <2> SUFFICES ASSUME NEW r \in AllRows, NEW k \in Columns, Full(r, k)'
               PROVE  Behind(r, k)' /\ At(r, k)' < sent
    BY <1>0 DEF FullInv
  <2>1. CASE r = e /\ k = t
    BY <1>0, <1>2, <1>4, <2>1 DEF Behind
  <2>2. CASE r < e /\ At(r, k)' = At(r, k) /\ Full(r, k)
    BY <1>0, <1>6, <2>2 DEF Behind
  <2> QED
    BY <1>9, <2>1, <2>2
<1>14. DrainedInv'
  <2> SUFFICES ASSUME NEW r \in AllRows, NEW k \in Columns, r < e, head[r] =< k, Full(r, k)'
               PROVE  FALSE
    BY <1>0 DEF DrainedInv
  <2>1. Full(r, k)
    BY <1>4, <1>9
  <2> QED
    BY <2>1 DEF IInv, DrainedInv
<1>15. AgainInv'
  <2>1. At(eng_row, 0)' = sent - 1
    <3>1. At(eng_row, 0)' = At(e, t)'
      BY <1>0 DEF At
    <3> QED
      BY <1>2, <3>1
  <2> QED
    BY <1>0, <1>1, <2>1 DEF AgainInv
<1>16. AscendingInv'
  <2> SUFFICES ASSUME NEW r \in AllRows, NEW q \in AllRows, NEW k \in Columns, NEW j \in Columns,
                      Open(r, k), Full(r, k)', Open(q, j), Full(q, j)', Before(r, k, q, j)
               PROVE  At(r, k)' < At(q, j)'
    BY <1>3 DEF AscendingInv, Before
  <2>1. r < e /\ At(r, k)' = At(r, k) /\ Full(r, k)
    BY <1>0, <1>4, <1>9 DEF Before
  <2>2. CASE q = e /\ j = t
    BY <1>0, <1>2, <2>1, <2>2 DEF IInv, AgainInv
  <2>3. CASE At(q, j)' = At(q, j) /\ Full(q, j)
    BY <2>1, <2>3 DEF IInv, AscendingInv
  <2> QED
    BY <1>9, <2>2, <2>3
<1>17. OpenInv'
  <2> SUFFICES ASSUME NEW r \in AllRows, NEW k \in Columns, Open(r, k), Full(r, k)'
               PROVE  At(r, k)' \notin refused \cup Returned
    BY <1>0, <1>3 DEF OpenInv
  <2>1. CASE r = e /\ k = t
    <3>1. sent - 1 \notin Returned
      BY <1>4, <1>8, ReturnedIs
    <3> QED
      BY <1>1, <1>2, <2>1, <3>1
  <2>2. CASE At(r, k)' = At(r, k) /\ Full(r, k)
    BY <2>2 DEF IInv, OpenInv
  <2> QED
    BY <1>9, <2>1, <2>2
<1>18. GotInv'
  <2> SUFFICES ASSUME NEW c \in Consumers, NEW n \in DOMAIN got[c]
               PROVE  /\ got[c][n] \in Nat /\ got[c][n] < Put' /\ got[c][n] \notin refused
                      /\ \A r \in AllRows, k \in Columns :
                           head[r] =< k /\ Full(r, k)' => got[c][n] < At(r, k)'
                      /\ cpc[c] = "swap" /\ Full(deq_row[c], col[c])' =>
                           got[c][n] < At(deq_row[c], col[c])'
    BY <1>0, <1>3 DEF GotInv, Full, At
  <2>1. /\ got[c][n] \in Nat /\ got[c][n] < sent - 1 /\ got[c][n] \notin refused
        /\ \A r \in AllRows, k \in Columns :
             head[r] =< k /\ Full(r, k) => got[c][n] < At(r, k)
        /\ cpc[c] = "swap" /\ Full(deq_row[c], col[c]) => got[c][n] < At(deq_row[c], col[c])
    BY <1>8 DEF IInv, GotInv
  <2>3. ASSUME NEW r \in AllRows, NEW k \in Columns, head[r] =< k, Full(r, k)'
        PROVE  got[c][n] < At(r, k)'
    BY <1>2, <1>9, <2>1, <2>3
  <2>4. ASSUME cpc[c] = "swap", Full(deq_row[c], col[c])'
        PROVE  got[c][n] < At(deq_row[c], col[c])'
    <3>1. deq_row[c] \in AllRows /\ col[c] \in Columns
      BY <2>4, PendingType DEF IInv
    <3>2. deq_row' = deq_row /\ col' = col
      BY <1>3
    <3>3. PICK r \in AllRows, k \in Columns : r = deq_row[c] /\ k = col[c]
      BY <3>1
    <3>4. Full(r, k)' /\ At(deq_row[c], col[c])' = At(r, k)'
      BY <2>4, <3>2, <3>3 DEF Full, At
    <3>5. CASE r = e /\ k = t
      BY <1>2, <2>1, <3>4, <3>5
    <3>6. CASE At(r, k)' = At(r, k) /\ Full(r, k)
      BY <2>1, <2>4, <3>3, <3>4, <3>6
    <3> QED
      BY <1>9, <3>4, <3>5, <3>6
  <2> QED
    BY <1>1, <2>1, <2>3, <2>4
<1>19. StoredInv'
  <2> SUFFICES ASSUME NEW v \in Values, v \notin refused, v \notin Returned, v # sent - 1
               PROVE  \E r \in AllRows, k \in Columns : Open(r, k) /\ At(r, k)' = v
    BY <1>0, <1>1, <1>3 DEF StoredInv
  <2>1. PICK r \in AllRows, k \in Columns : Open(r, k) /\ At(r, k) = v
    BY DEF IInv, StoredInv
  <2>2. Full(r, k)
    BY <1>4, <2>1 DEF Full
  <2> QED
    BY <1>10, <2>1, <2>2
<1>20. FifoInv'
  <2> SUFFICES ASSUME NEW v \in Returned, NEW u \in 0 .. v - 1, u \notin Returned \cup refused
               PROVE  \E r \in AllRows, k \in Columns : Pending(r, k) /\ At(r, k)' = u
    BY <1>0, <1>3 DEF FifoInv
  <2>1. PICK r \in AllRows, k \in Columns : Pending(r, k) /\ At(r, k) = u
    BY DEF IInv, FifoInv
  <2>2. Full(r, k)
    BY <2>1 DEF Full
  <2> QED
    BY <1>10, <2>1, <2>2
<1> QED
  BY <1>11, <1>12, <1>13, <1>14, <1>15, <1>16, <1>17, <1>18, <1>19, <1>20 DEF IInv

\* The new row is announced: it holds the value, and the old one is drained.
LEMMA AnnounceKeepsInv ==
  ASSUME TypeInv, IInv, Within, EnqAnnounce
  PROVE  IInv'
<1>0. /\ ppc = "announce" /\ ppc' = "idle" /\ tail = 0 /\ tail' = 1 /\ eng_row \in AllRows
      /\ row' = eng_row /\ 0 \in Columns
      /\ UNCHANGED <<items, head, eng_row, sent, refused, consumer>>
  BY SizeAssumption, InvTypes DEF EnqAnnounce, TypeInv, EngType, AllRows, Columns
<1>1. eng_row = row + 1 /\ At(eng_row, 0) = sent - 1
  BY <1>0 DEF IInv, RowInv, AgainInv
<1>2. \A r, k : At(r, k)' = At(r, k) /\ Full(r, k)' = Full(r, k)
  BY <1>0 DEF At, Full
<1>3. /\ Returned' = Returned /\ UNCHANGED <<cpc, deq_row, col, got>>
      /\ \A r, k : Open(r, k)' = Open(r, k) /\ Pending(r, k)' = Pending(r, k)
  BY <1>0, ConsumersSame
<1>4. /\ sent \in Nat /\ sent - 1 \in Nat /\ Values' = Values
      /\ \A r \in AllRows, k \in Columns : r \in Nat /\ k \in Nat
      /\ row \in Nat /\ deq_row \in [Consumers -> AllRows]
  BY <1>0, InvTypes DEF TypeInv, EngType, Values
<1>5. RowInv'
  BY <1>0, <1>1, <1>4 DEF IInv, RowInv, AllRows
<1>6. TicketInv'
  <2>1. \A c \in Consumers : deq_row[c] =< row => deq_row[c] =< row'
    BY <1>0, <1>1, <1>4 DEF AllRows
  <2> QED
    BY <1>0, <1>3, <2>1 DEF IInv, TicketInv
<1>7. MarksInv'
  BY <1>2, <1>3 DEF IInv, MarksInv
<1>8. FullInv'
  <2> SUFFICES ASSUME NEW r \in AllRows, NEW k \in Columns, Full(r, k)
               PROVE  Behind(r, k)' /\ At(r, k) < sent
    BY <1>0, <1>2 DEF FullInv
  <2>1. Behind(r, k) /\ At(r, k) < sent
    BY DEF IInv, FullInv
  <2> QED
    BY <1>0, <1>4, <2>1 DEF Behind
<1>9. DrainedInv'
  BY <1>0, <1>2 DEF IInv, DrainedInv
<1>10. AgainInv'
  BY <1>0 DEF AgainInv
<1>11. AscendingInv'
  BY <1>2, <1>3 DEF IInv, AscendingInv, Before
<1>12. OpenInv'
  BY <1>0, <1>2, <1>3 DEF IInv, OpenInv
<1>13. GotInv'
  <2> SUFFICES ASSUME NEW c \in Consumers, NEW n \in DOMAIN got[c]
               PROVE  /\ got[c][n] \in Nat /\ got[c][n] < Put' /\ got[c][n] \notin refused
                      /\ \A r \in AllRows, k \in Columns :
                           head[r] =< k /\ Full(r, k) => got[c][n] < At(r, k)
                      /\ cpc[c] = "swap" /\ Full(deq_row[c], col[c]) =>
                           got[c][n] < At(deq_row[c], col[c])
    BY <1>0, <1>3 DEF GotInv, Full, At
  <2>1. /\ got[c][n] \in Nat /\ got[c][n] < Put /\ got[c][n] \notin refused
        /\ \A r \in AllRows, k \in Columns :
             head[r] =< k /\ Full(r, k) => got[c][n] < At(r, k)
        /\ cpc[c] = "swap" /\ Full(deq_row[c], col[c]) => got[c][n] < At(deq_row[c], col[c])
    BY DEF IInv, GotInv
  <2>2. Put = sent - 1 /\ Put' = sent
    BY <1>0 DEF Put
  <2> QED
    BY <1>4, <2>1, <2>2
<1>14. StoredInv'
  <2> SUFFICES ASSUME NEW v \in Values, v \notin refused, v \notin Returned
               PROVE  \E r \in AllRows, k \in Columns : Open(r, k) /\ At(r, k) = v
    BY <1>0, <1>2, <1>3, <1>4 DEF StoredInv
  <2>1. CASE v = sent - 1
    <3>1. row < eng_row
      BY <1>1, <1>4
    <3>2. head[eng_row] = 0
      BY <1>0, <3>1 DEF IInv, RowInv
    <3>3. Open(eng_row, 0)
      BY <3>2 DEF Open
    <3> QED
      BY <1>0, <1>1, <2>1, <3>3
  <2>2. CASE v # sent - 1
    BY <2>2 DEF IInv, StoredInv
  <2> QED
    BY <2>1, <2>2
<1>15. FifoInv'
  BY <1>0, <1>2, <1>3 DEF IInv, FifoInv
<1> QED
  BY <1>5, <1>6, <1>7, <1>8, <1>9, <1>10, <1>11, <1>12, <1>13, <1>14, <1>15 DEF IInv

\* A consumer that reads the announced row has no cell yet.
LEMMA ReadRowKeepsInv ==
  ASSUME TypeInv, IInv, NEW c \in Consumers, DeqReadRow(c)
  PROVE  IInv'
<1>0. /\ cpc[c] = "idle" /\ cpc' = [cpc EXCEPT ![c] = "draw"]
      /\ deq_row' = [deq_row EXCEPT ![c] = row]
      /\ UNCHANGED <<items, head, row, enqueuer, col, got>>
  BY DEF DeqReadRow, Go
<1>1. /\ cpc \in [Consumers -> {"idle", "draw", "swap"}]
      /\ deq_row \in [Consumers -> AllRows] /\ row \in Nat
  BY InvTypes
<1>2. \A d \in Consumers : /\ cpc'[d] = "swap" <=> cpc[d] = "swap"
                           /\ cpc[d] = "swap" => deq_row'[d] = deq_row[d]
  BY <1>0, <1>1
<1>3. \A r, k : /\ At(r, k)' = At(r, k) /\ Full(r, k)' = Full(r, k)
                /\ Behind(r, k)' = Behind(r, k)
  BY <1>0 DEF At, Full, Behind, enqueuer
<1>4. \A r, k : Pending(r, k)' <=> Pending(r, k)
  BY <1>0, <1>2 DEF Pending
<1>5. \A r, k : Open(r, k)' <=> Open(r, k)
  BY <1>0, <1>4 DEF Open
<1>6. Returned' = Returned /\ Values' = Values /\ Put' = Put
  BY <1>0 DEF Returned, Values, Put, enqueuer
<1>7. RowInv'
  BY <1>0 DEF IInv, RowInv, enqueuer
<1>8. TicketInv'
  <2>1. ASSUME NEW d \in Consumers, cpc'[d] # "idle" PROVE deq_row'[d] =< row
    BY <1>0, <1>1, <2>1 DEF IInv, TicketInv
  <2>2. \A d \in Consumers : cpc'[d] = "swap" => col[d] < head[deq_row'[d]]
    BY <1>2 DEF IInv, TicketInv
  <2>3. \A d, b \in Consumers : d # b /\ cpc'[d] = "swap" /\ cpc'[b] = "swap" =>
                                  deq_row'[d] # deq_row'[b] \/ col[d] # col[b]
    BY <1>2 DEF IInv, TicketInv
  <2> QED
    BY <1>0, <2>1, <2>2, <2>3 DEF TicketInv
<1>9. MarksInv'
  BY <1>3, <1>5 DEF IInv, MarksInv
<1>10. FullInv' /\ DrainedInv' /\ AgainInv'
  <2>1. FullInv'
    BY <1>0, <1>3 DEF IInv, FullInv, enqueuer
  <2>2. DrainedInv'
    BY <1>0, <1>3 DEF IInv, DrainedInv, enqueuer
  <2>3. AgainInv'
    BY <1>0, <1>3, <1>5 DEF IInv, AgainInv, enqueuer
  <2> QED
    BY <2>1, <2>2, <2>3
<1>11. AscendingInv'
  BY <1>3, <1>5 DEF IInv, AscendingInv, Before
<1>12. OpenInv'
  BY <1>0, <1>3, <1>5, <1>6 DEF IInv, OpenInv, enqueuer
<1>13. GotInv'
  <2> SUFFICES ASSUME NEW d \in Consumers, NEW n \in DOMAIN got[d]
               PROVE  /\ got[d][n] \in Nat /\ got[d][n] < Put /\ got[d][n] \notin refused
                      /\ \A r \in AllRows, k \in Columns :
                           head[r] =< k /\ Full(r, k) => got[d][n] < At(r, k)
                      /\ cpc'[d] = "swap" /\ Full(deq_row[d], col[d]) =>
                           got[d][n] < At(deq_row[d], col[d])
    BY <1>0, <1>2, <1>6 DEF GotInv, Full, At, enqueuer
  <2> QED
    BY <1>2 DEF IInv, GotInv
<1>14. StoredInv'
  BY <1>0, <1>3, <1>5, <1>6 DEF IInv, StoredInv, enqueuer
<1>15. FifoInv'
  BY <1>0, <1>3, <1>4, <1>6 DEF IInv, FifoInv, enqueuer
<1> QED
  BY <1>7, <1>8, <1>9, <1>10, <1>11, <1>12, <1>13, <1>14, <1>15 DEF IInv

\* A consumer that draws a number has the first cell nobody had; as long as the
\* number is within the row, the cell stays open.
LEMMA DrawKeepsInv ==
  ASSUME TypeInv, IInv, Within', NEW c \in Consumers, DeqDraw(c)
  PROVE  IInv'
<1> PICK q \in AllRows, j \in Nat : q = deq_row[c] /\ j = head[deq_row[c]]
  BY InvTypes
<1>1. /\ cpc \in [Consumers -> {"idle", "draw", "swap"}] /\ head \in [AllRows -> Nat]
      /\ deq_row \in [Consumers -> AllRows] /\ col \in [Consumers -> Nat]
      /\ \A r \in AllRows, k \in Columns : r \in Nat /\ k \in Nat /\ head[r] \in Nat
      /\ row \in Nat
  BY InvTypes
<1>2. /\ cpc[c] = "draw" /\ head' = [head EXCEPT ![q] = j + 1] /\ col' = [col EXCEPT ![c] = j]
      /\ UNCHANGED <<items, row, enqueuer, deq_row, got>>
  BY <1>1 DEF DeqDraw, Draw
<1>3. j \in Columns
  <2>1. j + 1 < Cols
    BY <1>1, <1>2 DEF Within
  <2> QED
    BY <2>1, SizeAssumption DEF Columns
<1>4. cpc' = [cpc EXCEPT ![c] = "swap"]
  <2>1. Cell(q, j) \in Cells
    BY <1>3, CellType, ColumnType
  <2> QED
    BY <2>1 DEF DeqDraw, Go
<1>5. \A d \in Consumers : d # c => (cpc'[d] = cpc[d] /\ col'[d] = col[d])
  BY <1>1, <1>2, <1>4
<1>6. cpc'[c] = "swap" /\ col'[c] = j /\ deq_row[c] = q /\ q =< row
  BY <1>1, <1>2, <1>4 DEF IInv, TicketInv
<1>7. \A r, k : /\ At(r, k)' = At(r, k) /\ Full(r, k)' = Full(r, k)
                /\ Behind(r, k)' = Behind(r, k)
  BY <1>2 DEF At, Full, Behind, enqueuer
<1>8. \A r, k : Pending(r, k)' <=> Pending(r, k) \/ (r = q /\ k = j)
  BY <1>2, <1>5, <1>6 DEF Pending
<1>9. \A r \in AllRows, k \in Columns : head'[r] =< k <=> head[r] =< k /\ ~(r = q /\ k = j)
  BY <1>1, <1>2
<1>10. \A r \in AllRows, k \in Columns : Open(r, k)' <=> Open(r, k)
  BY <1>1, <1>8, <1>9 DEF Open
<1>11. Returned' = Returned /\ Values' = Values /\ Put' = Put
  BY <1>2 DEF Returned, Values, Put, enqueuer
<1>12. RowInv'
  <2>1. ASSUME NEW r \in AllRows, row < r PROVE head'[r] = 0
    <3>1. r # q /\ head[r] = 0
      BY <1>1, <1>6, <2>1 DEF IInv, RowInv, AllRows
    <3> QED
      BY <1>1, <1>2, <3>1
  <2>2. /\ ppc = "idle" => row = eng_row \/ eng_row = Rows
        /\ ppc # "idle" => eng_row = row + 1
    BY DEF IInv, RowInv
  <2> QED
    BY <1>2, <2>1, <2>2 DEF RowInv, enqueuer
<1>13. TicketInv'
  <2>1. \A d \in Consumers : cpc'[d] # "idle" => deq_row[d] =< row
    BY <1>5, <1>6 DEF IInv, TicketInv
  <2>2. \A r \in AllRows : head[r] =< head'[r] /\ head'[r] \in Nat
    BY <1>1, <1>2
  <2>3. ASSUME NEW d \in Consumers, cpc'[d] = "swap" PROVE col'[d] < head'[deq_row[d]]
    <3>1. CASE d = c
      BY <1>1, <1>2, <1>6, <3>1
    <3>2. CASE d # c
      <4>1. col[d] < head[deq_row[d]] /\ deq_row[d] \in AllRows /\ col[d] \in Nat
        BY <1>1, <1>5, <2>3, <3>2 DEF IInv, TicketInv
      <4> QED
        BY <1>1, <1>5, <2>2, <3>2, <4>1
    <3> QED
      BY <3>1, <3>2
  <2>4. ASSUME NEW d \in Consumers, d # c, cpc'[d] = "swap", deq_row[d] = q PROVE col'[d] # j
    <3>1. col[d] < head[deq_row[d]] /\ col[d] \in Nat
      BY <1>1, <1>5, <2>4 DEF IInv, TicketInv
    <3> QED
      BY <1>5, <2>4, <3>1
  <2>5. \A d, b \in Consumers : d # b /\ cpc'[d] = "swap" /\ cpc'[b] = "swap" =>
                                  deq_row[d] # deq_row[b] \/ col'[d] # col'[b]
    BY <1>5, <1>6, <2>4 DEF IInv, TicketInv
  <2> QED
    BY <1>2, <2>1, <2>3, <2>5 DEF TicketInv
<1>14. MarksInv'
  BY <1>7, <1>10 DEF IInv, MarksInv
<1>15. FullInv' /\ DrainedInv' /\ AgainInv'
  <2>1. FullInv'
    BY <1>2, <1>7 DEF IInv, FullInv, enqueuer
  <2>2. DrainedInv'
    BY <1>2, <1>7, <1>9 DEF IInv, DrainedInv, enqueuer
  <2>3. AgainInv'
    BY <1>2, <1>7, <1>10 DEF IInv, AgainInv, enqueuer
  <2> QED
    BY <2>1, <2>2, <2>3
<1>16. AscendingInv'
  BY <1>7, <1>10 DEF IInv, AscendingInv, Before
<1>17. OpenInv'
  BY <1>2, <1>7, <1>10, <1>11 DEF IInv, OpenInv, enqueuer
<1>18. GotInv'
  <2> SUFFICES ASSUME NEW d \in Consumers, NEW n \in DOMAIN got[d]
               PROVE  /\ got[d][n] \in Nat /\ got[d][n] < Put /\ got[d][n] \notin refused
                      /\ \A r \in AllRows, k \in Columns :
                           head'[r] =< k /\ Full(r, k) => got[d][n] < At(r, k)
                      /\ cpc'[d] = "swap" /\ Full(deq_row[d], col'[d]) =>
                           got[d][n] < At(deq_row[d], col'[d])
    BY <1>2, <1>11 DEF GotInv, Full, At, Cell, enqueuer
  <2>1. /\ got[d][n] \in Nat /\ got[d][n] < Put /\ got[d][n] \notin refused
        /\ \A r \in AllRows, k \in Columns :
             head[r] =< k /\ Full(r, k) => got[d][n] < At(r, k)
        /\ cpc[d] = "swap" /\ Full(deq_row[d], col[d]) => got[d][n] < At(deq_row[d], col[d])
    BY DEF IInv, GotInv
  <2>2. \A r \in AllRows, k \in Columns :
          head'[r] =< k /\ Full(r, k) => got[d][n] < At(r, k)
    BY <1>9, <2>1
  <2>3. ASSUME cpc'[d] = "swap", Full(deq_row[d], col'[d])
        PROVE  got[d][n] < At(deq_row[d], col'[d])
    <3>1. CASE d = c
      <4>1. head[q] =< j
        BY <1>1
      <4> QED
        BY <1>3, <1>6, <2>1, <2>3, <3>1, <4>1
    <3>2. CASE d # c
      BY <1>5, <2>1, <2>3, <3>2
    <3> QED
      BY <3>1, <3>2
  <2> QED
    BY <2>1, <2>2, <2>3
<1>19. StoredInv'
  BY <1>2, <1>7, <1>10, <1>11 DEF IInv, StoredInv, enqueuer
<1>20. FifoInv'
  <2> SUFFICES ASSUME NEW v \in Returned, NEW u \in 0 .. v - 1, u \notin Returned \cup refused
               PROVE  \E r \in AllRows, k \in Columns : Pending(r, k)' /\ At(r, k) = u
    BY <1>2, <1>7, <1>11 DEF FifoInv, enqueuer
  <2>1. PICK r \in AllRows, k \in Columns : Pending(r, k) /\ At(r, k) = u
    BY DEF IInv, FifoInv
  <2> QED
    BY <1>8, <2>1
<1> QED
  BY <1>12, <1>13, <1>14, <1>15, <1>16, <1>17, <1>18, <1>19, <1>20 DEF IInv

\* What a consumer finds in the cell it drew is new, and older than all that
\* will be drawn: the producer fills a row from its start, and goes on to the
\* next row only when this one is drained.
LEMMA DrawnIsOldest ==
  ASSUME TypeInv, IInv, Within, NEW c \in Consumers, cpc[c] = "swap",
         NEW q \in AllRows, NEW j \in Columns, q = deq_row[c], j = col[c], Full(q, j)
  PROVE  /\ Open(q, j) /\ j < head[q] /\ q =< row
         /\ At(q, j) < Put /\ At(q, j) \notin refused /\ At(q, j) \notin Returned
         /\ \A r \in AllRows, k \in Columns : head[r] =< k /\ Full(r, k) => At(q, j) < At(r, k)
<1>1. Open(q, j) /\ j < head[q] /\ q =< row
  BY DEF Open, Pending, IInv, TicketInv
<1>2. At(q, j) \notin refused /\ At(q, j) \notin Returned
  BY <1>1 DEF IInv, OpenInv
<1>3. /\ \A r \in AllRows, k \in Columns : r \in Nat /\ k \in Nat /\ head[r] \in Nat
      /\ row \in Nat /\ eng_row \in Nat /\ ppc \in {"idle", "again", "announce"}
      /\ sent \in Nat /\ At(q, j) \in Nat
  BY InvTypes DEF Full
<1>4. At(q, j) < Put
  <2>1. CASE ppc = "idle"
    BY <2>1 DEF IInv, FullInv, Put
  <2>2. CASE ppc = "again"
    BY <1>1, <2>2 DEF IInv, AgainInv, Put
  <2>3. CASE ppc = "announce"
    <3>1. eng_row \in AllRows /\ 0 \in Columns /\ sent - 1 \in Nat
      BY <1>3, <2>3, SizeAssumption DEF TypeInv, EngType, AllRows, Columns
    <3> PICK e \in AllRows, z \in Columns : e = eng_row /\ z = 0
      BY <3>1
    <3>2. e = row + 1 /\ At(e, z) = sent - 1
      BY <2>3 DEF IInv, RowInv, AgainInv
    <3>3. row < e /\ q < e
      BY <1>1, <1>3, <3>2
    <3>4. head[e] = 0
      BY <3>3 DEF IInv, RowInv
    <3>5. Open(e, z) /\ Full(e, z) /\ Before(q, j, e, z)
      BY <3>1, <3>2, <3>3, <3>4 DEF Open, Full, Before
    <3>6. At(q, j) < At(e, z)
      BY <1>1, <3>5 DEF IInv, AscendingInv
    <3> QED
      BY <2>3, <3>2, <3>6 DEF Put
  <2> QED
    BY <1>3, <2>1, <2>2, <2>3
<1>5. ASSUME NEW r \in AllRows, NEW k \in Columns, head[r] =< k, Full(r, k)
      PROVE  At(q, j) < At(r, k)
  <2>1. Open(r, k)
    BY <1>5 DEF Open
  <2>2. ~(r < q)
    <3>1. q =< eng_row
      BY <1>1, <1>3 DEF IInv, RowInv, TypeInv, TypeOK
    <3> QED
      BY <1>3, <1>5, <3>1 DEF IInv, DrainedInv
  <2>3. Before(q, j, r, k)
    BY <1>1, <1>3, <1>5, <2>2 DEF Before
  <2> QED
    BY <1>1, <1>5, <2>1, <2>3 DEF IInv, AscendingInv
<1> QED
  BY <1>1, <1>2, <1>4, <1>5

\* A consumer that swaps its cell has had the oldest value of the queue or found
\* the cell empty, and nobody finds anything there after it.
LEMMA SwapKeepsInv ==
  ASSUME TypeInv, IInv, Within, NEW c \in Consumers, DeqSwap(c)
  PROVE  IInv'
<1>0. cpc[c] = "swap"
  BY DEF DeqSwap
<1> PICK q \in AllRows, j \in Columns : q = deq_row[c] /\ j = col[c]
  BY <1>0, PendingType DEF IInv
<1>1. /\ cpc \in [Consumers -> {"idle", "draw", "swap"}] /\ got \in [Consumers -> Seq(Nat \cup {T})]
      /\ deq_row \in [Consumers -> AllRows] /\ col \in [Consumers -> Nat]
      /\ \A r \in AllRows, k \in Columns : /\ r \in Nat /\ k \in Nat /\ head[r] \in Nat
                                           /\ At(r, k) \in Nat \cup {L, T}
      /\ row \in Nat /\ eng_row \in Nat /\ L = -1 /\ T = -2
  BY InvTypes DEF L, T
<1>2. /\ items' = [items EXCEPT ![Cell(q, j)] = T]
      /\ got' = IF At(q, j) = L THEN got ELSE [got EXCEPT ![c] = Append(@, At(q, j))]
      /\ cpc' = [cpc EXCEPT ![c] = "idle"]
      /\ UNCHANGED <<head, row, enqueuer, deq_row, col>>
  BY DEF DeqSwap, Go, At
<1>3. /\ At(q, j)' = T
      /\ \A r \in AllRows, k \in Columns : r # q \/ k # j => At(r, k)' = At(r, k)
  BY <1>2, AtUpdate
<1>4. Open(q, j) /\ j < head[q] /\ q =< row /\ Pending(q, j)
  BY <1>0 DEF Open, Pending, IInv, TicketInv
<1>5. At(q, j) = L \/ Full(q, j)
  BY <1>1, <1>4 DEF IInv, MarksInv, Full
<1>6. cpc'[c] = "idle" /\ \A d \in Consumers : d # c => cpc'[d] = cpc[d]
  BY <1>1, <1>2
<1>7. \A r, k : Pending(r, k)' <=> Pending(r, k) /\ ~(r = q /\ k = j)
  <2>1. ASSUME NEW r, NEW k, Pending(r, k)' PROVE Pending(r, k) /\ ~(r = q /\ k = j)
    <3>1. PICK d \in Consumers : cpc'[d] = "swap" /\ deq_row[d] = r /\ col[d] = k
      BY <1>2, <2>1 DEF Pending
    <3>2. d # c /\ cpc[d] = "swap"
      BY <1>6, <3>1
    <3>3. r # q \/ k # j
      BY <1>0, <3>1, <3>2 DEF IInv, TicketInv
    <3> QED
      BY <3>1, <3>2, <3>3 DEF Pending
  <2>2. ASSUME NEW r, NEW k, Pending(r, k), ~(r = q /\ k = j) PROVE Pending(r, k)'
    BY <1>2, <1>6, <2>2 DEF Pending
  <2> QED
    BY <2>1, <2>2
<1>8. \A r \in AllRows, k \in Columns : Open(r, k)' <=> Open(r, k) /\ ~(r = q /\ k = j)
  <2>1. ~(head[q] =< j)
    BY <1>1, <1>4
  <2> QED
    BY <1>2, <1>7, <2>1 DEF Open
\* What is full afterwards was full before, in another cell.
<1>9. \A r \in AllRows, k \in Columns :
        Full(r, k)' => Full(r, k) /\ At(r, k)' = At(r, k) /\ (r # q \/ k # j)
  BY <1>1, <1>3 DEF Full
<1>10. \A r \in AllRows, k \in Columns :
         Full(r, k) /\ (r # q \/ k # j) => Full(r, k)' /\ At(r, k)' = At(r, k)
  BY <1>3 DEF Full
<1>11. \A r, k : Behind(r, k)' = Behind(r, k)
  BY <1>2 DEF Behind, enqueuer
<1>12. Values' = Values /\ Put' = Put /\ \A v \in Values : v \in Nat
  BY <1>2, InvTypes DEF Values, Put, enqueuer
<1>13. Full(q, j) => /\ At(q, j) < Put /\ At(q, j) \notin refused /\ At(q, j) \notin Returned
                     /\ \A r \in AllRows, k \in Columns :
                          head[r] =< k /\ Full(r, k) => At(q, j) < At(r, k)
  BY <1>0, DrawnIsOldest
<1>14. Returned' = Returned \cup (IF Full(q, j) THEN {At(q, j)} ELSE {})
  <2>1. ASSUME Full(q, j) PROVE Returned' = Returned \cup {At(q, j)}
    <3>1. At(q, j) # L /\ At(q, j) \in Nat
      BY <1>1, <2>1 DEF Full
    <3>2. got' = [got EXCEPT ![c] = Append(got[c], At(q, j))]
      BY <1>2, <3>1
    <3>3. ToSet(got'[c]) = ToSet(got[c]) \cup {At(q, j)}
      <4>1. got[c] \in Seq(Nat \cup {T}) /\ got'[c] = Append(got[c], At(q, j))
        BY <1>1, <3>2
      <4> QED
        BY <3>1, <4>1, SMTT(30) DEF ToSet
    <3>4. \A d \in Consumers : d # c => ToSet(got'[d]) = ToSet(got[d])
      BY <1>1, <3>2 DEF ToSet
    <3>5. \A v : v \in Returned' <=> v \in Returned \/ v = At(q, j)
      BY <3>3, <3>4 DEF Returned
    <3> QED
      BY <3>5
  <2>2. ASSUME ~Full(q, j) PROVE Returned' = Returned
    BY <1>2, <1>5, <2>2 DEF Returned
  <2> QED
    BY <2>1, <2>2

<1>15. RowInv' /\ TicketInv'
  <2>1. RowInv'
    BY <1>2 DEF IInv, RowInv, enqueuer
  <2>2. TicketInv'
    BY <1>0, <1>2, <1>6 DEF IInv, TicketInv
  <2> QED
    BY <2>1, <2>2
<1>16. MarksInv'
  <2> SUFFICES ASSUME NEW r \in AllRows, NEW k \in Columns
               PROVE  /\ At(r, k)' = T => ~Open(r, k)'
                      /\ At(r, k)' = L => Open(r, k)'
    BY DEF MarksInv
  <2>1. CASE r = q /\ k = j
    BY <1>1, <1>3, <1>8, <2>1
  <2>2. CASE r # q \/ k # j
    <3>1. At(r, k)' = At(r, k) /\ (Open(r, k)' <=> Open(r, k))
      BY <1>3, <1>8, <2>2
    <3> QED
      BY <3>1 DEF IInv, MarksInv
  <2> QED
    BY <2>1, <2>2
<1>17. FullInv' /\ DrainedInv'
  <2>1. FullInv'
    BY <1>2, <1>9, <1>11 DEF IInv, FullInv, enqueuer
  <2>2. DrainedInv'
    BY <1>2, <1>9 DEF IInv, DrainedInv, enqueuer
  <2> QED
    BY <2>1, <2>2
<1>18. AgainInv'
  <2>1. ASSUME ppc = "again", NEW r \in AllRows, NEW k \in Columns, Open(r, k)', Full(r, k)'
        PROVE  At(r, k)' < sent - 1
    BY <1>8, <1>9, <2>1 DEF IInv, AgainInv
  <2>2. ASSUME ppc = "announce" PROVE At(eng_row, 0)' = sent - 1
    <3>1. eng_row \in AllRows /\ 0 \in Columns
      BY <1>1, <2>2, SizeAssumption DEF TypeInv, EngType, AllRows, Columns
    <3> PICK e \in AllRows, z \in Columns : e = eng_row /\ z = 0
      BY <3>1
    <3>2. e = row + 1 /\ At(e, z) = sent - 1
      BY <2>2 DEF IInv, RowInv, AgainInv
    <3>3. e # q
      BY <1>1, <1>4, <3>2
    <3>4. At(e, z)' = sent - 1
      BY <1>3, <3>2, <3>3
    <3>5. At(eng_row, 0)' = At(e, z)'
      BY <1>2 DEF At, enqueuer
    <3> QED
      BY <3>4, <3>5
  <2>3. ppc # "idle" => sent - 1 \notin refused
    BY DEF IInv, AgainInv
  <2> QED
    BY <1>2, <2>1, <2>2, <2>3 DEF AgainInv, enqueuer
<1>19. AscendingInv'
  <2> SUFFICES ASSUME NEW r \in AllRows, NEW p \in AllRows, NEW k \in Columns, NEW i \in Columns,
                      Open(r, k)', Full(r, k)', Open(p, i)', Full(p, i)', Before(r, k, p, i)
               PROVE  At(r, k)' < At(p, i)'
    BY DEF AscendingInv, Before
  <2>1. /\ At(r, k)' = At(r, k) /\ Full(r, k) /\ Open(r, k)
        /\ At(p, i)' = At(p, i) /\ Full(p, i) /\ Open(p, i)
    BY <1>8, <1>9
  <2> QED
    BY <2>1 DEF IInv, AscendingInv
\* The cells that stay open hold other values than this one.
<1>20. ASSUME NEW r \in AllRows, NEW k \in Columns, Open(r, k), Full(r, k), r # q \/ k # j,
              Full(q, j)
       PROVE  At(r, k) # At(q, j)
  <2>1. Before(r, k, q, j) \/ Before(q, j, r, k)
    BY <1>1, <1>20 DEF Before
  <2>2. At(r, k) \in Nat /\ At(q, j) \in Nat
    BY <1>20 DEF Full
  <2>3. Before(r, k, q, j) => At(r, k) < At(q, j)
    BY <1>4, <1>20 DEF IInv, AscendingInv
  <2>4. Before(q, j, r, k) => At(q, j) < At(r, k)
    BY <1>4, <1>20 DEF IInv, AscendingInv
  <2> QED
    BY <2>1, <2>2, <2>3, <2>4
<1>21. OpenInv'
  <2> SUFFICES ASSUME NEW r \in AllRows, NEW k \in Columns, Open(r, k)', Full(r, k)'
               PROVE  At(r, k)' \notin refused \cup Returned'
    BY <1>2 DEF OpenInv, enqueuer
  <2>1. At(r, k)' = At(r, k) /\ Full(r, k) /\ Open(r, k) /\ (r # q \/ k # j)
    BY <1>8, <1>9
  <2>2. At(r, k) \notin refused \cup Returned
    BY <2>1 DEF IInv, OpenInv
  <2> QED
    BY <1>14, <1>20, <2>1, <2>2
<1>22. GotInv'
  <2> SUFFICES ASSUME NEW d \in Consumers, NEW n \in DOMAIN got'[d]
               PROVE  /\ got'[d][n] \in Nat /\ got'[d][n] < Put /\ got'[d][n] \notin refused
                      /\ \A r \in AllRows, k \in Columns :
                           head[r] =< k /\ Full(r, k)' => got'[d][n] < At(r, k)'
                      /\ cpc'[d] = "swap" /\ Full(deq_row[d], col[d])' =>
                           got'[d][n] < At(deq_row[d], col[d])'
    BY <1>2, <1>12 DEF GotInv, Full, At, enqueuer
  <2>1. CASE n \in DOMAIN got[d] /\ got'[d][n] = got[d][n]
    <3>1. /\ got[d][n] \in Nat /\ got[d][n] < Put /\ got[d][n] \notin refused
          /\ \A r \in AllRows, k \in Columns :
               head[r] =< k /\ Full(r, k) => got[d][n] < At(r, k)
          /\ cpc[d] = "swap" /\ Full(deq_row[d], col[d]) => got[d][n] < At(deq_row[d], col[d])
      BY <2>1 DEF IInv, GotInv
    <3>2. \A r \in AllRows, k \in Columns : head[r] =< k /\ Full(r, k)' => got[d][n] < At(r, k)'
      BY <1>9, <3>1
    <3>3. ASSUME cpc'[d] = "swap", Full(deq_row[d], col[d])'
          PROVE  got[d][n] < At(deq_row[d], col[d])'
      <4>1. d # c /\ cpc[d] = "swap"
        BY <1>6, <3>3
      <4>2. deq_row[d] \in AllRows /\ col[d] \in Columns
        BY <4>1, PendingType DEF IInv
      <4> PICK r \in AllRows, k \in Columns : r = deq_row[d] /\ k = col[d]
        BY <4>2
      <4>3. Full(r, k)' /\ At(deq_row[d], col[d])' = At(r, k)'
        BY <1>2, <3>3 DEF Full, At
      <4> QED
        BY <1>9, <3>1, <4>1, <4>3
    <3> QED
      BY <2>1, <3>1, <3>2, <3>3
  <2>2. CASE d = c /\ Full(q, j) /\ got'[d][n] = At(q, j)
    <3>1. cpc'[d] # "swap"
      BY <1>6, <2>2
    <3>2. \A r \in AllRows, k \in Columns : head[r] =< k /\ Full(r, k)' => At(q, j) < At(r, k)'
      BY <1>9, <1>13, <2>2
    <3>3. At(q, j) \in Nat
      BY <2>2 DEF Full
    <3> QED
      BY <1>13, <2>2, <3>1, <3>2, <3>3
  <2>3. CASE got' = got
    BY <2>1, <2>3
  <2>4. CASE Full(q, j) /\ got' = [got EXCEPT ![c] = Append(got[c], At(q, j))]
    <3>1. CASE d # c
      <4>1. got'[d] = got[d]
        BY <1>1, <2>4, <3>1
      <4> QED
        BY <2>1, <4>1
    <3>2. CASE d = c
      <4>1. got'[c] = Append(got[c], At(q, j)) /\ got[c] \in Seq(Nat \cup {T})
        BY <1>1, <2>4
      <4>2. \/ n \in DOMAIN got[c] /\ got'[c][n] = got[c][n]
            \/ got'[c][n] = At(q, j)
        BY <3>2, <4>1
      <4> QED
        BY <2>1, <2>2, <2>4, <3>2, <4>2
    <3> QED
      BY <3>1, <3>2
  <2>5. Full(q, j) => At(q, j) # L
    BY <1>1 DEF Full
  <2> QED
    BY <1>2, <1>5, <2>3, <2>4, <2>5
<1>23. StoredInv'
  <2> SUFFICES ASSUME NEW v \in Values, v \notin refused, v \notin Returned',
                      ~(v = sent - 1 /\ ppc # "idle")
               PROVE  \E r \in AllRows, k \in Columns : Open(r, k)' /\ At(r, k)' = v
    BY <1>2, <1>12 DEF StoredInv, enqueuer
  <2>1. PICK r \in AllRows, k \in Columns : Open(r, k) /\ At(r, k) = v
    BY <1>14 DEF IInv, StoredInv
  <2>2. Full(r, k)
    BY <1>12, <2>1 DEF Full
  <2>3. r # q \/ k # j
    BY <1>14, <2>1, <2>2
  <2> QED
    BY <1>3, <1>8, <2>1, <2>3
<1>24. FifoInv'
  <2> SUFFICES ASSUME NEW v \in Returned', NEW u \in 0 .. v - 1, u \notin Returned' \cup refused
               PROVE  \E r \in AllRows, k \in Columns : Pending(r, k)' /\ At(r, k)' = u
    BY <1>2 DEF FifoInv, enqueuer
  <2>0. u \in Nat /\ u \notin Returned
    BY <1>14
  <2>1. PICK r \in AllRows, k \in Columns : Pending(r, k) /\ At(r, k) = u
    <3>1. CASE v \in Returned
      BY <2>0, <3>1 DEF IInv, FifoInv
    <3>2. CASE Full(q, j) /\ v = At(q, j)
      <4>1. u \in Values /\ u < v /\ v \in Nat /\ u < sent
        BY <3>2, InvTypes DEF IInv, FullInv, Full, Values
      <4>2. ~(u = sent - 1 /\ ppc # "idle")
        BY <1>13, <3>2, <4>1, InvTypes DEF Put
      <4>3. PICK r \in AllRows, k \in Columns : Open(r, k) /\ At(r, k) = u
        BY <2>0, <4>1, <4>2 DEF IInv, StoredInv
      <4>4. ~(head[r] =< k)
        <5>1. Full(r, k) /\ ~(v < u)
          BY <4>1, <4>3, <2>0 DEF Full
        <5> QED
          BY <1>13, <3>2, <4>3, <5>1
      <4> QED
        BY <4>3, <4>4 DEF Open
    <3> QED
      BY <1>14, <3>1, <3>2
  <2>2. Full(r, k)
    BY <2>0, <2>1 DEF Full
  <2>3. r # q \/ k # j
    BY <1>14, <2>1, <2>2
  <2> QED
    BY <1>3, <1>7, <2>1, <2>3
<1> QED
  BY <1>15, <1>16, <1>17, <1>18, <1>19, <1>21, <1>22, <1>23, <1>24 DEF IInv

-----------------------------------------------------------------------------
\* The last column, which no producer writes before the end of a row, holds its
\* marks for ever.
LastCol == \A r \in AllRows : At(r, Cols - 1) = T

\* The invariant holds at the start, when the last column holds its marks.
LEMMA InitInv == Init => IInv /\ LastCol
<1> SUFFICES ASSUME Init PROVE IInv /\ LastCol
  OBVIOUS
<1>0. Rows \in Nat \ {0} /\ Cols \in Nat /\ 1 < Cols
  BY SizeAssumption
<1>1. LastCol
  <2> SUFFICES ASSUME NEW r \in AllRows PROVE At(r, Cols - 1) = T
    BY DEF LastCol
  <2>1. Cell(r, Cols - 1) \in Cells /\ r \in Nat
    BY <1>0, CellType
  <2>2. Cell(r, Cols - 1) = Cols * r + (Cols - 1)
    BY <1>0, <2>1, Z3 DEF Cell
  <2>3. Cell(r, Cols - 1) % Cols = Cols - 1
    BY <1>0, <2>1, <2>2, ModUnique
  <2> QED
    BY <2>1, <2>3 DEF Init, At
<1>2. \A r \in AllRows, k \in Columns : At(r, k) = L /\ head[r] =< k
  <2> SUFFICES ASSUME NEW r \in AllRows, NEW k \in Columns PROVE At(r, k) = L /\ head[r] =< k
    OBVIOUS
  <2>1. /\ Cell(r, k) \in Cells /\ r \in Nat /\ k \in Nat /\ k \in 0 .. Cols - 1
        /\ k # Cols - 1
    BY <1>0, CellType, ColumnType
  <2>2. Cell(r, k) = Cols * r + k
    BY <1>0, <2>1, Z3 DEF Cell
  <2>3. Cell(r, k) % Cols = k
    BY <1>0, <2>1, <2>2, ModUnique
  <2>4. head[r] = 0
    BY DEF Init, AllRows
  <2> QED
    BY <2>1, <2>3, <2>4 DEF Init, At
<1>3. \A r \in AllRows, k \in Columns : Open(r, k) /\ ~Full(r, k) /\ At(r, k) # T
  BY <1>2 DEF Open, Full, L, T
<1>4. Values = {} /\ Returned = {} /\ \A c \in Consumers : DOMAIN got[c] = {}
  <2>1. Values = {} /\ \A c \in Consumers : got[c] = <<>>
    BY DEF Init, Values
  <2> QED
    BY <2>1 DEF Returned, ToSet
<1>5. RowInv /\ TicketInv /\ AgainInv
  BY DEF Init, RowInv, TicketInv, AgainInv, AllRows
<1>6. MarksInv /\ FullInv /\ DrainedInv /\ AscendingInv /\ OpenInv
  BY <1>3 DEF MarksInv, FullInv, DrainedInv, AscendingInv, OpenInv
<1>7. GotInv /\ StoredInv /\ FifoInv
  BY <1>4 DEF GotInv, StoredInv, FifoInv
<1> QED
  BY <1>1, <1>5, <1>6, <1>7 DEF IInv

\* Every step that does not reach the end of a row keeps the invariant.
LEMMA NextKeepsInv ==
  ASSUME TypeInv, IInv, Within, Within', [Next]_vars
  PROVE  IInv'
<1>1. CASE EnqOutOfRows
  BY <1>1, OutOfRowsKeepsInv
<1>2. CASE EnqSwap
  BY <1>2, AcceptedKeepsInv, OvertakenKeepsInv
<1>3. CASE EnqSwapAgain
  BY <1>3, SwapAgainKeepsInv
<1>4. CASE EnqAnnounce
  BY <1>4, AnnounceKeepsInv
<1>5. ASSUME NEW c \in Consumers, DeqReadRow(c) PROVE IInv'
  BY <1>5, ReadRowKeepsInv
<1>6. ASSUME NEW c \in Consumers, DeqDraw(c) PROVE IInv'
  BY <1>6, DrawKeepsInv
<1>7. ASSUME NEW c \in Consumers, DeqSwap(c) PROVE IInv'
  BY <1>7, SwapKeepsInv
<1>8. CASE UNCHANGED vars
  <2>1. /\ \A r, k : /\ At(r, k)' = At(r, k) /\ Full(r, k)' = Full(r, k)
                     /\ Behind(r, k)' = Behind(r, k) /\ Pending(r, k)' = Pending(r, k)
        /\ Returned' = Returned /\ Values' = Values /\ Put' = Put
    BY <1>8 DEF vars, enqueuer, consumer, At, Full, Behind, Pending, Returned, Values, Put
  <2>2. \A r, k : Open(r, k)' = Open(r, k)
    BY <1>8, <2>1, Zenon DEF vars, Open
  <2>3. UNCHANGED <<items, head, row, eng_row, tail, ppc, cpc, deq_row, col, sent, refused, got>>
    BY <1>8 DEF vars, enqueuer, consumer
  <2>4. RowInv' /\ TicketInv'
    <3>1. RowInv'
      BY <2>3 DEF IInv, RowInv
    <3>2. TicketInv'
      BY <2>3 DEF IInv, TicketInv
    <3> QED
      BY <3>1, <3>2
  <2>5. MarksInv' /\ FullInv' /\ DrainedInv'
    BY <2>1, <2>2, <2>3 DEF IInv, MarksInv, FullInv, DrainedInv
  <2>6. AgainInv'
    BY <2>1, <2>2, <2>3 DEF IInv, AgainInv
  <2>7. AscendingInv' /\ OpenInv'
    BY <2>1, <2>2, <2>3 DEF IInv, AscendingInv, OpenInv, Before
  <2>8. GotInv'
    BY <2>1, <2>3 DEF IInv, GotInv
  <2>9. StoredInv' /\ FifoInv'
    BY <2>1, <2>2, <2>3 DEF IInv, StoredInv, FifoInv
  <2> QED
    BY <2>4, <2>5, <2>6, <2>7, <2>8, <2>9 DEF IInv
<1> QED
  BY <1>1, <1>2, <1>3, <1>4, <1>5, <1>6, <1>7, <1>8 DEF Next, Enqueuer, Consumer

\* No such step writes the last column.
LEMMA NextKeepsLastCol ==
  ASSUME TypeInv, IInv, LastCol, Within, [Next]_vars
  PROVE  LastCol'
<1> SUFFICES ASSUME NEW r \in AllRows PROVE At(r, Cols - 1)' = T
  BY DEF LastCol
<1>0. Cols \in Nat /\ 1 < Cols /\ Cols - 1 \in 0 .. Cols - 1 /\ 0 \in Columns
  BY SizeAssumption DEF Columns
<1>1. At(r, Cols - 1) = T /\ Cell(r, Cols - 1) \in Cells /\ items \in [Cells -> Nat \cup {L, T}]
  BY <1>0, CellType DEF LastCol, TypeInv, TypeOK
<1>2. ASSUME NEW q \in AllRows, NEW j \in Columns PROVE Cell(r, Cols - 1) # Cell(q, j)
  <2> PICK z \in 0 .. Cols - 1 : z = Cols - 1
    BY <1>0
  <2>1. j # z /\ j \in 0 .. Cols - 1 /\ r \in Nat /\ q \in Nat
    BY ColumnType DEF AllRows
  <2>2. Cell(r, z) # Cell(q, j)
    BY <2>1, CellInjective
  <2> QED
    BY <2>2
<1>3. ASSUME NEW q \in AllRows, NEW j \in Columns, NEW val,
             items' = [items EXCEPT ![Cell(q, j)] = val]
      PROVE  At(r, Cols - 1)' = T
  BY <1>1, <1>2, <1>3 DEF At, Cell
<1>4. CASE items' = items
  BY <1>1, <1>4 DEF At, Cell
<1>5. CASE EnqSwap
  <2>1. eng_row \in AllRows /\ tail \in Columns
    BY <1>5, SwapPlace
  <2>2. items' = [items EXCEPT ![Cell(eng_row, tail)] = sent]
    BY <1>5, SwapFacts
  <2> PICK e \in AllRows, t \in Columns : e = eng_row /\ t = tail
    BY <2>1
  <2> QED
    BY <1>3, <2>2
<1>6. CASE EnqSwapAgain
  <2>1. /\ eng_row \in AllRows /\ tail = 0
        /\ items' = [items EXCEPT ![Cell(eng_row, tail)] = sent - 1]
    BY <1>6, InvTypes DEF EnqSwapAgain, TypeInv, EngType, AllRows
  <2> PICK e \in AllRows, t \in Columns : e = eng_row /\ t = tail
    BY <1>0, <2>1
  <2> QED
    BY <1>3, <2>1
<1>7. ASSUME NEW c \in Consumers, DeqSwap(c) PROVE At(r, Cols - 1)' = T
  <2>1. items' = [items EXCEPT ![Cell(deq_row[c], col[c])] = T]
    BY <1>7 DEF DeqSwap
  <2> QED
    BY <1>1, <2>1 DEF At, Cell
<1> QED
  BY <1>4, <1>5, <1>6, <1>7 DEF Next, Enqueuer, Consumer, EnqOutOfRows, EnqAnnounce, DeqReadRow,
     DeqDraw, vars

\* While no call comes to the end of a row, the rows are filled and drained in
\* their order.
THEOREM Invariant == Spec /\ []Within => [](TypeInv /\ IInv /\ LastCol)
<1>1. Init => IInv /\ LastCol
  BY InitInv
<1>2. TypeInv /\ IInv /\ LastCol /\ Within /\ Within' /\ [Next]_vars => IInv' /\ LastCol'
  BY NextKeepsInv, NextKeepsLastCol
<1> QED
  BY <1>1, <1>2, TypeCorrect, PTL DEF Spec

\* Every variable keeps its type, also at the end of a row.
THEOREM TypeOKHolds == Spec => []TypeOK
<1>1. TypeInv => TypeOK
  BY DEF TypeInv
<1> QED
  BY <1>1, TypeCorrect, PTL
-----------------------------------------------------------------------------
\* The cells that consumers drew, and those still to be drawn, are the open ones.
LEMMA DrawnIsPending ==
  ASSUME TypeInv, IInv, Within, NEW r \in AllRows, NEW k \in Columns
  PROVE  Drawn(Cell(r, k)) <=> Pending(r, k)
<1>1. ASSUME Pending(r, k) PROVE Drawn(Cell(r, k))
  BY <1>1 DEF Pending, Drawn
<1>2. ASSUME Drawn(Cell(r, k)) PROVE Pending(r, k)
  <2>1. PICK c \in Consumers : cpc[c] = "swap" /\ Cell(deq_row[c], col[c]) = Cell(r, k)
    BY <1>2 DEF Drawn
  <2>2. deq_row[c] \in AllRows /\ col[c] \in Columns
    BY <2>1, PendingType DEF IInv
  <2> PICK q \in AllRows, j \in Columns : q = deq_row[c] /\ j = col[c]
    BY <2>2
  <2>3. q = r /\ j = k
    BY <2>1, CellInjective, ColumnType DEF AllRows
  <2> QED
    BY <2>1, <2>3 DEF Pending
<1> QED
  BY <1>1, <1>2

\* The cells ahead of all draws, by row and column.
LEMMA AheadIs ==
  ASSUME TypeInv, IInv, Within, NEW r \in AllRows, NEW k \in Columns
  PROVE  Ahead(Cell(r, k)) <=> row < r \/ (r = row /\ head[r] =< k)
<1>1. /\ row \in AllRows /\ row \in Nat /\ r \in Nat /\ head[row] \in 0 .. Cols - 1
      /\ k \in 0 .. Cols - 1
  <2>1. head[row] \in Nat /\ head[row] < Cols
    BY InvTypes DEF Within
  <2> QED
    BY <2>1, InvTypes, ColumnType, SizeAssumption DEF AllRows
<1> PICK q \in AllRows, j \in 0 .. Cols - 1 : q = row /\ j = head[row]
  BY <1>1
<1>2. j \in Nat /\ k \in Nat /\ q \in Nat
  BY <1>1, SizeAssumption
<1>3. Cell(r, k) \in Nat /\ Cell(q, j) \in Nat
  BY <1>1, <1>2, SizeAssumption DEF Cell
<1>4. CASE r < q
  <2>1. Cell(r, k) < Cell(q, j)
    BY <1>1, <1>2, <1>4, CellOrder
  <2> QED
    BY <1>2, <1>3, <1>4, <2>1 DEF Ahead
<1>5. CASE q < r
  <2>1. Cell(q, j) < Cell(r, k)
    BY <1>1, <1>2, <1>5, CellOrder
  <2> QED
    BY <1>2, <1>3, <1>5, <2>1 DEF Ahead
<1>6. CASE r = q
  <2>1. q * Cols \in Nat
    BY <1>2, SizeAssumption
  <2>2. Cell(r, k) = q * Cols + k /\ Cell(q, j) = q * Cols + j
    BY <1>6 DEF Cell
  <2> QED
    BY <1>2, <1>6, <2>1, <2>2 DEF Ahead
<1> QED
  BY <1>1, <1>2, <1>4, <1>5, <1>6

\* While no call comes to the end of a row: the answer of every enqueue call is
\* true.  A value is returned, or on its way to a consumer, exactly when its
\* call was not refused.
THEOREM AnswersTrueHolds == Spec /\ []Within => []AnswersTrue
<1> SUFFICES ASSUME TypeInv, IInv, LastCol, Within PROVE AnswersTrue
  BY Invariant, PTL
<1>0. /\ \A r \in AllRows, k \in Columns : r \in Nat /\ k \in Nat /\ Cell(r, k) \in Cells
      /\ row \in Nat /\ eng_row \in Nat /\ Rows \in Nat /\ row \in AllRows
      /\ refused \subseteq Values /\ \A v \in Values : v \in Nat
  BY InvTypes
<1>1. row =< eng_row
  BY <1>0 DEF IInv, RowInv, AllRows
<1>2. NothingLost
  <2> SUFFICES ASSUME NEW v \in Values \ (refused \cup Returned), ~(v = sent - 1 /\ ppc # "idle")
               PROVE  \E x \in Cells : items[x] = v /\ (Drawn(x) \/ Ahead(x))
    BY DEF NothingLost
  <2>1. PICK r \in AllRows, k \in Columns : Open(r, k) /\ At(r, k) = v
    BY DEF IInv, StoredInv
  <2>2. Full(r, k)
    BY <1>0, <2>1 DEF Full
  <2>3. CASE Pending(r, k)
    BY <1>0, <2>1, <2>3, DrawnIsPending DEF At
  <2>4. CASE head[r] =< k
    <3>1. ~(r < row)
      BY <1>0, <1>1, <2>2, <2>4 DEF IInv, DrainedInv
    <3>2. Ahead(Cell(r, k))
      BY <1>0, <2>4, <3>1, AheadIs
    <3> QED
      BY <1>0, <2>1, <3>2 DEF At
  <2> QED
    BY <2>1, <2>3, <2>4 DEF Open
<1>3. RefusedStaysOut
  <2> SUFFICES ASSUME NEW x \in Cells, items[x] \in refused, Drawn(x) \/ Ahead(x) PROVE FALSE
    BY DEF RefusedStaysOut
  <2>1. PICK r \in AllRows, k \in 0 .. Cols - 1 : x = Cell(r, k)
    BY CellCover
  <2>2. k \in Columns
    <3>1. k # Cols - 1
      BY <1>0, <2>1 DEF LastCol, At, T
    <3> QED
      BY <3>1, SizeAssumption DEF Columns
  <2>3. Full(r, k) /\ At(r, k) \in refused
    BY <1>0, <2>1 DEF Full, At
  <2>4. ~Open(r, k)
    BY <2>2, <2>3 DEF IInv, OpenInv
  <2>5. ~Drawn(x)
    BY <2>1, <2>2, <2>4, DrawnIsPending DEF Open
  <2>6. row < r \/ (r = row /\ head[r] =< k)
    BY <2>1, <2>2, <2>5, AheadIs
  <2>7. head[r] =< k
    BY <1>0, <2>2, <2>6 DEF IInv, RowInv
  <2> QED
    BY <2>4, <2>7 DEF Open
<1> QED
  BY <1>2, <1>3 DEF AnswersTrue

\* While no call comes to the end of a row: the consumers together take the
\* values in their order, up to the calls under way.
THEOREM FifoUpToPendingHolds == Spec /\ []Within => []FifoUpToPending
<1> SUFFICES ASSUME TypeInv, IInv, Within PROVE FifoUpToPending
  BY Invariant, PTL
<1> SUFFICES ASSUME NEW v \in Returned, NEW u \in 0 .. v - 1, u \notin Returned \cup refused
             PROVE  \E x \in Cells : items[x] = u /\ Drawn(x)
  BY DEF FifoUpToPending
<1>1. PICK r \in AllRows, k \in Columns : Pending(r, k) /\ At(r, k) = u
  BY DEF IInv, FifoInv
<1> QED
  BY <1>1, InvTypes, DrawnIsPending DEF At

\* While no call comes to the end of a row, the queue implements SPMCBag: every
\* value is handed out at most once, no mark is, and each consumer receives its
\* values in their order.
THEOREM Refinement == Spec /\ []Within => ImplementsBag
<1>1. Init => Bag!Init
  BY DEF Init, Bag!Init
<1>2. TypeInv /\ IInv /\ Within /\ [Next]_vars => [Bag!Next]_Bag!bagVars
  <2> SUFFICES ASSUME TypeInv, IInv, Within, [Next]_vars
               PROVE  \/ Put' = Put + 1 /\ got' = got
                      \/ Put' = Put /\ got' = got
                      \/ \E c \in Consumers, i \in 0 .. Put - 1 : Bag!Take(c, i)
    BY DEF Put, Bag!Next, Bag!Put, Bag!bagVars
  <2>0. sent \in Nat
    BY InvTypes
  <2>1. CASE EnqOutOfRows
    BY <2>1 DEF EnqOutOfRows, Put, consumer
  <2>2. CASE EnqSwap
    <3>1. ppc = "idle" /\ sent' = sent + 1 /\ got' = got
      BY <2>2, SwapFacts DEF consumer
    <3> QED
      BY <2>0, <3>1 DEF Put
  <2>3. CASE EnqSwapAgain
    BY <2>3 DEF EnqSwapAgain, Put, consumer
  <2>4. CASE EnqAnnounce
    BY <2>0, <2>4 DEF EnqAnnounce, Put, consumer
  <2>5. ASSUME NEW c \in Consumers, DeqReadRow(c) PROVE Put' = Put /\ got' = got
    BY <2>5 DEF DeqReadRow, Put, enqueuer
  <2>6. ASSUME NEW c \in Consumers, DeqDraw(c) PROVE Put' = Put /\ got' = got
    BY <2>6 DEF DeqDraw, Put, enqueuer
  <2>7. ASSUME NEW c \in Consumers, DeqSwap(c)
        PROVE  \/ Put' = Put /\ got' = got
               \/ \E i \in 0 .. Put - 1 : Bag!Take(c, i)
    <3>0. cpc[c] = "swap" /\ Put' = Put
      BY <2>7 DEF DeqSwap, Put, enqueuer
    <3> PICK q \in AllRows, j \in Columns : q = deq_row[c] /\ j = col[c]
      BY <3>0, PendingType DEF IInv
    <3>1. got' = IF At(q, j) = L THEN got ELSE [got EXCEPT ![c] = Append(@, At(q, j))]
      BY <2>7 DEF DeqSwap, At
    <3>2. At(q, j) = L \/ Full(q, j)
      <4>1. Open(q, j)
        BY <3>0 DEF Open, Pending
      <4> QED
        BY <4>1, InvTypes DEF IInv, MarksInv, Full
    <3>3. CASE At(q, j) = L
      BY <3>0, <3>1, <3>3
    <3>4. CASE Full(q, j) /\ At(q, j) # L
      <4>1. At(q, j) \in 0 .. Put - 1
        BY <2>0, <3>0, <3>4, DrawnIsOldest DEF Full, Put
      <4>2. ~Bag!Handed(At(q, j))
        BY <3>0, <3>4, DrawnIsOldest, ReturnedIs DEF Bag!Handed
      <4>3. \A n \in DOMAIN got[c] : got[c][n] < At(q, j)
        BY <3>0, <3>4 DEF IInv, GotInv
      <4>4. Bag!Take(c, At(q, j))
        BY <3>0, <3>1, <3>4, <4>1, <4>2, <4>3 DEF Bag!Take, Put
      <4> QED
        BY <4>1, <4>4
    <3> QED
      BY <3>2, <3>3, <3>4
  <2>8. CASE UNCHANGED vars
    BY <2>8 DEF vars, enqueuer, consumer, Put
  <2> QED
    BY <2>1, <2>2, <2>3, <2>4, <2>5, <2>6, <2>7, <2>8 DEF Next, Enqueuer, Consumer
<1> QED
  BY <1>1, <1>2, Invariant, PTL DEF Spec, ImplementsBag, Bag!Spec

-----------------------------------------------------------------------------
\* Few calls for the size of a row: no call comes to its end.  A dequeue call
\* that starts below MaxHead is joined by one more of every other consumer.
Short == /\ IsFiniteSet(Consumers)
         /\ MaxHead + Cardinality(Consumers) =< Cols
         /\ MaxItems < Cols - 1

\* The consumers that will draw a number of row r.
Drawers(r) == {c \in Consumers : cpc[c] = "draw" /\ deq_row[c] = r}

CountInv == /\ tail =< sent /\ sent =< MaxItems
            /\ \A r \in AllRows :
                 \/ head[r] = 0 /\ Drawers(r) = {}
                 \/ head[r] + Cardinality(Drawers(r)) < MaxHead + Cardinality(Consumers)

\* Then the hypothesis of the theorems above holds.
THEOREM ShortStaysWithin ==
  ASSUME Short
  PROVE  Spec => []Within
<1> DEFINE N == Cardinality(Consumers)
<1>0. /\ IsFiniteSet(Consumers) /\ N \in Nat /\ Cols \in Nat /\ 1 < Cols /\ MaxHead \in Nat
      /\ MaxItems \in Nat /\ MaxHead + N =< Cols /\ MaxItems < Cols - 1
  BY FS_CardinalityType, SizeAssumption, BoundsAssumption DEF Short
<1>1. \A r : /\ IsFiniteSet(Drawers(r)) /\ Cardinality(Drawers(r)) \in Nat
             /\ Cardinality(Drawers(r)) =< N
  <2> SUFFICES ASSUME NEW r
               PROVE  /\ IsFiniteSet(Drawers(r)) /\ Cardinality(Drawers(r)) \in Nat
                      /\ Cardinality(Drawers(r)) =< N
    OBVIOUS
  <2>1. Drawers(r) \subseteq Consumers
    BY DEF Drawers
  <2> QED
    BY <1>0, <2>1, FS_Subset, FS_CardinalityType
<1>2. Init => CountInv
  BY <1>0, SizeAssumption DEF Init, CountInv, Drawers, AllRows
<1>3. TypeInv /\ CountInv /\ [Next]_vars => CountInv'
  <2> SUFFICES ASSUME TypeInv, CountInv, [Next]_vars PROVE CountInv'
    OBVIOUS
  <2>0. /\ sent \in Nat /\ tail \in Nat /\ head \in [AllRows -> Nat] /\ row \in AllRows
        /\ cpc \in [Consumers -> {"idle", "draw", "swap"}]
        /\ deq_row \in [Consumers -> AllRows]
    BY InvTypes
  <2>1. tail' =< sent' /\ sent' =< MaxItems
    <3>1. CASE EnqOutOfRows
      BY <1>0, <2>0, <3>1 DEF CountInv, EnqOutOfRows
    <3>2. CASE EnqSwap
      <4>1. sent < MaxItems /\ sent' = sent + 1
        BY <3>2 DEF EnqSwap
      <4>2. tail' = tail + 1 \/ tail' = 0 \/ tail' = tail
        BY <3>2, SwapFacts
      <4> QED
        BY <1>0, <2>0, <4>1, <4>2 DEF CountInv
    <3>3. CASE EnqSwapAgain
      BY <3>3 DEF CountInv, EnqSwapAgain
    <3>4. CASE EnqAnnounce
      <4>1. tail = 0 /\ 0 < sent /\ tail' = tail + 1 /\ sent' = sent
        BY <3>4 DEF EnqAnnounce, TypeInv, EngType
      <4> QED
        BY <2>0, <4>1 DEF CountInv
    <3>5. CASE UNCHANGED <<tail, sent>>
      BY <3>5 DEF CountInv
    <3> QED
      BY <3>1, <3>2, <3>3, <3>4, <3>5 DEF Next, Enqueuer, Consumer, DeqReadRow, DeqDraw, DeqSwap,
         enqueuer, vars
  <2>2. ASSUME NEW r \in AllRows
        PROVE  \/ head'[r] = 0 /\ Drawers(r)' = {}
               \/ head'[r] + Cardinality(Drawers(r)') < MaxHead + N
    <3> DEFINE D == Drawers(r)
    <3>1. /\ \/ head[r] = 0 /\ D = {}
             \/ head[r] + Cardinality(D) < MaxHead + N
          /\ head[r] \in Nat /\ Cardinality(D) \in Nat /\ IsFiniteSet(D)
      BY <1>1, <2>0 DEF CountInv
    <3>2. CASE UNCHANGED <<head, cpc, deq_row>>
      <4>1. Drawers(r)' = D
        BY <3>2 DEF Drawers
      <4> QED
        BY <3>1, <3>2, <4>1
    <3>3. ASSUME NEW c \in Consumers, DeqReadRow(c)
          PROVE  \/ head'[r] = 0 /\ Drawers(r)' = {}
                 \/ head'[r] + Cardinality(Drawers(r)') < MaxHead + N
      <4>1. /\ cpc[c] = "idle" /\ head[row] < MaxHead /\ head' = head
            /\ deq_row' = [deq_row EXCEPT ![c] = row] /\ cpc' = [cpc EXCEPT ![c] = "draw"]
        BY <3>3 DEF DeqReadRow, Go
      <4>2. CASE r = row
        <5>1. Drawers(r)' \subseteq Consumers
          BY DEF Drawers
        <5>2. Cardinality(Drawers(r)') \in Nat /\ Cardinality(Drawers(r)') =< N
          BY <1>0, <5>1, FS_Subset, FS_CardinalityType
        <5> QED
          BY <1>0, <3>1, <4>1, <4>2, <5>2
      <4>3. CASE r # row
        <5>1. Drawers(r)' = D
          BY <2>0, <4>1, <4>3 DEF Drawers
        <5> QED
          BY <3>1, <4>1, <5>1
      <4> QED
        BY <4>2, <4>3
    <3>4. ASSUME NEW c \in Consumers, DeqDraw(c)
          PROVE  \/ head'[r] = 0 /\ Drawers(r)' = {}
                 \/ head'[r] + Cardinality(Drawers(r)') < MaxHead + N
      <4>1. /\ cpc[c] = "draw" /\ deq_row' = deq_row
            /\ head' = [head EXCEPT ![deq_row[c]] = @ + 1]
            /\ \E step \in {"swap", "idle"} : cpc' = [cpc EXCEPT ![c] = step]
        BY <3>4 DEF DeqDraw, Draw, Go
      <4>2. Drawers(r)' = D \ {c}
        BY <2>0, <4>1 DEF Drawers
      <4>3. CASE r = deq_row[c]
        <5>1. c \in D
          BY <4>1, <4>3 DEF Drawers
        <5>2. Cardinality(D \ {c}) = Cardinality(D) - 1
          BY <3>1, <5>1, FS_RemoveElement
        <5>3. head'[r] = head[r] + 1 /\ head[r] + Cardinality(D) < MaxHead + N
          BY <2>0, <3>1, <4>1, <4>3, <5>1
        <5> QED
          BY <1>0, <3>1, <4>2, <5>2, <5>3
      <4>4. CASE r # deq_row[c]
        <5>1. c \notin D /\ head'[r] = head[r]
          BY <2>0, <4>1, <4>4 DEF Drawers
        <5>2. Drawers(r)' = D
          BY <4>2, <5>1
        <5> QED
          BY <3>1, <5>1, <5>2
      <4> QED
        BY <4>3, <4>4
    <3>5. ASSUME NEW c \in Consumers, DeqSwap(c)
          PROVE  \/ head'[r] = 0 /\ Drawers(r)' = {}
                 \/ head'[r] + Cardinality(Drawers(r)') < MaxHead + N
      <4>1. /\ cpc[c] = "swap" /\ deq_row' = deq_row /\ head' = head
            /\ cpc' = [cpc EXCEPT ![c] = "idle"]
        BY <3>5 DEF DeqSwap, Go
      <4>2. Drawers(r)' = D
        BY <2>0, <4>1 DEF Drawers
      <4> QED
        BY <3>1, <4>1, <4>2
    <3> QED
      BY <3>2, <3>3, <3>4, <3>5 DEF Next, Enqueuer, Consumer, EnqOutOfRows, EnqSwap, EnqSwapAgain,
         EnqAnnounce, consumer, vars
  <2> QED
    BY <2>1, <2>2 DEF CountInv
<1>4. TypeInv /\ CountInv => Within
  <2> SUFFICES ASSUME TypeInv, CountInv PROVE Within
    OBVIOUS
  <2>1. tail < Cols - 1
    BY <1>0, InvTypes DEF CountInv
  <2>2. ASSUME NEW r \in AllRows PROVE head[r] < Cols
    <3>1. head[r] \in Nat /\ Cardinality(Drawers(r)) \in Nat
      BY <1>1, InvTypes
    <3>2. head[r] = 0 \/ head[r] + Cardinality(Drawers(r)) < MaxHead + N
      BY DEF CountInv
    <3> QED
      BY <1>0, <3>1, <3>2
  <2> QED
    BY <2>1, <2>2 DEF Within
<1> QED
  BY <1>2, <1>3, <1>4, TypeCorrect, PTL DEF Spec
=============================================================================
