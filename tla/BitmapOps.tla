------------------------------ MODULE BitmapOps ------------------------------
(***************************************************************************)
(* spmc_BBQ/src/bitmap.c.  A row of a bitmap is the set of its bits that   *)
(* are 1; a word is W bits, and the last word of a row may reach beyond    *)
(* its Cols columns.  Searches answer -1 when nothing is found.            *)
(***************************************************************************)
EXTENDS Integers, FiniteSets, FiniteSetsExt

CONSTANTS W,             \* bits in a word: 64
          Cols,          \* columns of a row: MAX_QUEUE_SIZE
          NumConsumers   \* processes but the producer

ASSUME BitmapAssumption == W \in Nat \ {0} /\ Cols \in Nat \ {0} /\ NumConsumers \in Nat \ {0}

Words == (Cols + W - 1) \div W
Bits == 0 .. Words * W - 1
Word(i) == i * W .. i * W + W - 1

SetAllBits == 0 .. Cols - 1

FindSafeIndexFrom(start, row) ==
  LET ahead == {b \in row : start <= b /\ b < Cols}
      wrapped == {b \in row : b < start}
  IN CASE ahead # {}                   -> Min(ahead)
       [] ahead = {} /\ wrapped # {} -> Min(wrapped)
       [] OTHER                        -> -1

\* The n-th set bit of a word, from 1: the lowest bit is cleared n - 1 times.
NthSetBitInWord(word, n) ==
  LET left[k \in 1 .. n] == IF k = 1 THEN word ELSE left[k - 1] \ {Min(left[k - 1])}
  IN Min(left[n])

\* Word by word from word first: remaining[i] is left of n when word i is
\* looked at, and the first word that has more set bits than that has the bit.
Scan(row, first, n) ==
  LET remaining[i \in first .. Words] ==
        IF i = first THEN n ELSE remaining[i - 1] - Cardinality(row \cap Word(i - 1))
      has == {i \in first .. Words - 1 : remaining[i] < Cardinality(row \cap Word(i))}
  IN IF has = {} THEN -1
     ELSE NthSetBitInWord(row \cap Word(Min(has)), remaining[Min(has)] + 1)

\* Variant: the bits of the first word up to last_index are not masked out.
FindNthUnmasked(N, row, last_index, last_N) ==
  IF last_index >= 0 /\ last_N >= 0 /\ N > last_N
  THEN Scan(row, (last_index + 1) \div W, N - (last_N + 1))
  ELSE Scan(row, 0, N)

\* The N-th safe index, from 0; last_index is the result for last_N, or -1.
FindNthSafeIndex(N, row, last_index, last_N) ==
  LET onwards == Scan({b \in row : b > last_index}, (last_index + 1) \div W, N - (last_N + 1))
  IN CASE N < 0 -> -1
       [] N >= 0 /\ last_index >= 0 /\ last_N >= 0 /\ N > last_N /\ onwards # -1 -> onwards
       [] OTHER -> Scan(row, 0, N)

\* The next NumConsumers safe columns after found, and where their range ends.
Ahead(row, found) == {b \in row : found < b /\ b < Cols}
Predicted(row, found) ==
  {b \in Ahead(row, found) : Cardinality({x \in Ahead(row, found) : x < b}) < NumConsumers}
ClearEnd(row, found) == IF Cardinality(Ahead(row, found)) < NumConsumers THEN Cols
                        ELSE Max(Predicted(row, found)) + 1

LastWord == (Cols - 1) \div W

\* The mask of the last word is 1ULL << W minus 1 when Cols is a multiple of
\* W: undefined in C, and 0 where the machine shifts modulo the word's width.
LastMasks == IF Cols % W = 0 THEN {{}, Word(LastWord)} ELSE {LastWord * W .. Cols - 1}

\* Variant: the column found is predicted as well.
HeuristicFromFound(row, found) ==
  LET first == {b \in row : found <= b /\ Cardinality({x \in row : found <= x /\ x < b}) < NumConsumers}
  IN {row \ first}

\* The first word that is set as a whole when all from end on is set.
StartWord(end) == IF end % W # 0 THEN end \div W + 1 ELSE end \div W

\* heuristic_bitmap: the rows it can leave.
Heuristic(row, found) ==
  LET cleared == row \ Predicted(row, found)
      end == ClearEnd(row, found)
      start == StartWord(end)
      filled == cleared \cup (end .. start * W - 1)
                        \cup UNION {Word(i) : i \in start .. LastWord - 1}
  IN IF end >= Cols THEN {cleared}
     ELSE IF start < LastWord \/ (start = LastWord /\ end % W = 0)
          THEN {filled \cup mask : mask \in LastMasks}
          ELSE {filled}
=============================================================================
