----------------------------- MODULE BBQ_proofs -----------------------------
(***************************************************************************)
(* BBQ for every number of consumers, columns, rows and items: the         *)
(* searches of the bitmap find what counting finds, consumers share a row  *)
(* without conflict, every value is returned at most once, and in order    *)
(* until one is overwritten; and a row change between rows that share a    *)
(* head counter loses a value.                                             *)
(***************************************************************************)
EXTENDS BBQ, FiniteSetTheorems, TLAPS

(***************************************************************************)
(* Induction, for sets of natural numbers.                                 *)
(***************************************************************************)

\* A set of natural numbers that is not empty has a least element.
LEMMA Least ==
  ASSUME NEW S, S \subseteq Nat, S # {}
  PROVE  \E m \in S : \A x \in S : m =< x
<1>1. PICK m \in S : \A x \in S : ~(<<x, m>> \in OpToRel(<, Nat))
  BY NatLessThanWellFounded, WFMin, Zenon
<1>2. \A x \in S : ~(x < m)
  BY <1>1 DEF OpToRel
<1> QED
  BY <1>2

\* A set that has 0 and with every n also n + 1 has every natural number.
LEMMA Induction ==
  ASSUME NEW S, 0 \in S, \A n \in Nat : n \in S => n + 1 \in S
  PROVE  Nat \subseteq S
<1> DEFINE out == Nat \ S
<1>1. SUFFICES ASSUME out # {} PROVE FALSE
  OBVIOUS
<1>2. PICK m \in out : \A x \in out : m =< x
  BY <1>1, Least
<1>3. m # 0 /\ m - 1 \in Nat /\ m - 1 \notin out
  BY <1>2
<1> QED
  BY <1>2, <1>3

\* The least element of a set of natural numbers.
LEMMA MinIs ==
  ASSUME NEW S, S \subseteq Nat, S # {}
  PROVE  Min(S) \in S /\ \A x \in S : Min(S) =< x
<1>1. \E m \in S : \A x \in S : m =< x
  BY Least
<1> QED
  BY <1>1 DEF Min

\* f is a on m, and on each further i up to n what step makes of f[i - 1].
Follows(f, m, n, a, step) ==
  \A i \in m .. n : f[i] = IF i = m THEN a ELSE step[i - 1][f[i - 1]]

\* A function defined by recursion along an interval exists.
LEMMA Recursion ==
  ASSUME NEW S, NEW m \in Int, NEW n \in Int, NEW a \in S, NEW step \in [Int -> [S -> S]]
  PROVE  \E f \in [m .. n -> S] : Follows(f, m, n, a, step)
<1> DEFINE Upto(k, f) == \A i \in m .. m + k : f[i] = IF i = m THEN a ELSE step[i - 1][f[i - 1]]
           some == {k \in Nat : \E f \in [m .. m + k -> S] : Upto(k, f)}
<1>1. 0 \in some
  <2> DEFINE f == [i \in m .. m + 0 |-> a]
  <2> f \in [m .. m + 0 -> S] /\ Upto(0, f)
    OBVIOUS
  <2> QED
    BY Zenon
<1>2. ASSUME NEW k \in Nat, k \in some PROVE k + 1 \in some
  <2>1. PICK f \in [m .. m + k -> S] : Upto(k, f)
    BY <1>2
  <2> DEFINE g == [i \in m .. m + (k + 1) |-> IF i = m + (k + 1) THEN step[m + k][f[m + k]] ELSE f[i]]
  <2>2. g \in [m .. m + (k + 1) -> S]
    BY <2>1
  <2>3. Upto(k + 1, g)
    <3> SUFFICES ASSUME NEW i \in m .. m + (k + 1)
                 PROVE  g[i] = IF i = m THEN a ELSE step[i - 1][g[i - 1]]
      OBVIOUS
    <3>1. CASE i = m + (k + 1)
      <4>1. i # m /\ i - 1 = m + k /\ m + k \in m .. m + (k + 1) /\ m + k # m + (k + 1)
        BY <3>1
      <4> QED
        BY <3>1, <4>1
    <3>2. CASE i # m + (k + 1)
      <4>1. i \in m .. m + k
        BY <3>2
      <4>2. i # m => /\ i - 1 \in m .. m + k /\ i - 1 # m + (k + 1)
                     /\ i - 1 \in m .. m + (k + 1)
        BY <4>1
      <4> QED
        BY <2>1, <3>2, <4>1, <4>2
    <3> QED
      BY <3>1, <3>2
  <2> HIDE DEF g
  <2> QED
    BY <2>2, <2>3
<1>3. CASE m =< n
  <2>1. n - m \in Nat /\ m + (n - m) = n
    BY <1>3
  <2>2. n - m \in some
    <3> HIDE DEF some
    <3> QED
      BY <1>1, <1>2, <2>1, Induction
  <2>3. PICK f \in [m .. n -> S] : Upto(n - m, f)
    BY <2>1, <2>2
  <2> QED
    BY <2>1, <2>3 DEF Follows
<1>4. CASE ~(m =< n)
  <2>1. m .. n = {}
    BY <1>4
  <2>2. [i \in m .. n |-> a] \in [m .. n -> S]
    OBVIOUS
  <2> QED
    BY <2>1, <2>2 DEF Follows
<1> QED
  BY <1>3, <1>4

-----------------------------------------------------------------------------
(***************************************************************************)
(* Counting the elements below one: an element of a finite set of natural  *)
(* numbers is its N-th, from 0, when N are below it.                       *)
(***************************************************************************)

\* What is below b in a set, and how much it is.
Below(A, b) == {x \in A : x < b}
Rank(A, b) == Cardinality(Below(A, b))

\* What is below an element is finite and numbers less than the whole.
LEMMA RankType ==
  ASSUME NEW A, IsFiniteSet(A), NEW b
  PROVE  /\ IsFiniteSet(Below(A, b)) /\ Rank(A, b) \in Nat
         /\ b \in A /\ A \subseteq Int => Rank(A, b) < Cardinality(A)
<1>1. Below(A, b) \subseteq A
  BY DEF Below
<1>2. IsFiniteSet(Below(A, b)) /\ Rank(A, b) \in Nat
  BY <1>1, FS_Subset, FS_CardinalityType DEF Rank
<1>3. ASSUME b \in A, A \subseteq Int PROVE Rank(A, b) < Cardinality(A)
  <2>1. b \notin Below(A, b)
    BY <1>3 DEF Below
  <2>2. Rank(A, b) =< Cardinality(A) /\ (Rank(A, b) = Cardinality(A) => Below(A, b) = A)
    BY <1>1, FS_Subset DEF Rank
  <2> QED
    BY <1>2, <1>3, <2>1, <2>2, FS_CardinalityType
<1> QED
  BY <1>2, <1>3

\* A greater element has a greater rank.
LEMMA RankStrict ==
  ASSUME NEW A, IsFiniteSet(A), A \subseteq Int, NEW b \in A, NEW c \in Int, b < c
  PROVE  Rank(A, b) < Rank(A, c)
<1>1. b \in Int /\ Below(Below(A, c), b) = Below(A, b) /\ b \in Below(A, c)
  <2>1. \A x \in A : x \in Int /\ (x < b => x < c)
    OBVIOUS
  <2> QED
    BY <2>1 DEF Below
<1>2. IsFiniteSet(Below(A, c)) /\ Below(A, c) \subseteq Int
  BY RankType DEF Below
<1>3. Rank(Below(A, c), b) < Cardinality(Below(A, c))
  BY <1>1, <1>2, RankType
<1> QED
  BY <1>1, <1>3 DEF Rank

\* Elements of the same rank are the same.
LEMMA RankInjective ==
  ASSUME NEW A, IsFiniteSet(A), A \subseteq Int, NEW b \in A, NEW c \in A, Rank(A, b) = Rank(A, c)
  PROVE  b = c
<1>1. Rank(A, b) \in Nat /\ Rank(A, c) \in Nat
  BY RankType
<1>2. ASSUME b < c PROVE FALSE
  <2>1. Rank(A, b) < Rank(A, c)
    BY <1>2, RankStrict
  <2> QED
    BY <1>1, <2>1
<1>3. ASSUME c < b PROVE FALSE
  <2>1. Rank(A, c) < Rank(A, b)
    BY <1>3, RankStrict
  <2> QED
    BY <1>1, <2>1
<1> QED
  BY <1>2, <1>3

\* Nth finds the element of rank N.
LEMMA NthIs ==
  ASSUME NEW A, IsFiniteSet(A), A \subseteq Int, NEW N, NEW b \in A, Rank(A, b) = N
  PROVE  Nth(A, N) = b
<1> DEFINE at == {x \in A : Rank(A, x) = N}
<1>1. at = {b}
  BY RankInjective
<1>2. at = {x \in A : Cardinality({y \in A : y < x}) = N}
  BY DEF Rank, Below
<1> HIDE DEF at
<1>3. Nth(A, N) = IF at = {} THEN -1 ELSE CHOOSE x \in at : TRUE
  BY <1>2 DEF Nth
<1>4. (CHOOSE x \in at : TRUE) \in at
  BY <1>1
<1> QED
  BY <1>1, <1>3, <1>4

\* It says so when there is none.
LEMMA NthNone ==
  ASSUME NEW A, NEW N, \A b \in A : Rank(A, b) # N
  PROVE  Nth(A, N) = -1
  BY DEF Nth, Rank, Below

\* These are its answers.
LEMMA NthAnswer ==
  ASSUME NEW A, IsFiniteSet(A), A \subseteq Int, NEW N
  PROVE  \/ Nth(A, N) = -1
         \/ Nth(A, N) \in A /\ Rank(A, Nth(A, N)) = N
<1>1. CASE \E b \in A : Rank(A, b) = N
  BY <1>1, NthIs
<1>2. CASE ~(\E b \in A : Rank(A, b) = N)
  BY <1>2, NthNone
<1> QED
  BY <1>1, <1>2

\* Clearing the lowest bit n - 1 times leaves the bit of rank n - 1 the lowest.
LEMMA NthSetBit ==
  ASSUME NEW word, word \subseteq Nat, IsFiniteSet(word), NEW n \in 1 .. Cardinality(word)
  PROVE  /\ NthSetBitInWord(word, n) \in word
         /\ Rank(word, NthSetBitInWord(word, n)) = n - 1
<1> DEFINE step == [i \in Int |-> [s \in SUBSET word |-> s \ {Min(s)}]]
           left == CHOOSE f : f = [k \in 1 .. n |-> IF k = 1 THEN word ELSE f[k - 1] \ {Min(f[k - 1])}]
<1>0. Cardinality(word) \in Nat /\ n \in Nat \ {0} /\ n =< Cardinality(word)
  BY FS_CardinalityType
<1>1. \E f \in [1 .. n -> SUBSET word] :
        f = [k \in 1 .. n |-> IF k = 1 THEN word ELSE f[k - 1] \ {Min(f[k - 1])}]
  <2>1. step \in [Int -> [SUBSET word -> SUBSET word]]
    OBVIOUS
  <2>2. PICK f \in [1 .. n -> SUBSET word] : Follows(f, 1, n, word, step)
    <3>1. 1 \in Int /\ n \in Int /\ word \in SUBSET word
      BY <1>0
    <3> HIDE DEF step
    <3> QED
      BY <2>1, <3>1, Recursion
  <2>3. ASSUME NEW k \in 1 .. n, k # 1 PROVE step[k - 1][f[k - 1]] = f[k - 1] \ {Min(f[k - 1])}
    <3>1. k - 1 \in 1 .. n /\ k - 1 \in Int
      BY <2>3, <1>0
    <3>2. f[k - 1] \in SUBSET word
      BY <3>1
    <3> QED
      BY <3>1, <3>2
  <2>4. f = [k \in 1 .. n |-> IF k = 1 THEN word ELSE f[k - 1] \ {Min(f[k - 1])}]
    <3> HIDE DEF step
    <3> QED
      BY <2>2, <2>3 DEF Follows
  <2> QED
    BY <2>4
<1>2. left = [k \in 1 .. n |-> IF k = 1 THEN word ELSE left[k - 1] \ {Min(left[k - 1])}]
  BY <1>1
<1>3. NthSetBitInWord(word, n) = Min(left[n])
  BY DEF NthSetBitInWord
<1> HIDE DEF left
<1>4. \A k \in 1 .. n : left[k] = IF k = 1 THEN word ELSE left[k - 1] \ {Min(left[k - 1])}
  BY <1>2
<1> DEFINE P(k) == /\ left[k] \subseteq word
                   /\ Cardinality(left[k]) = Cardinality(word) - (k - 1)
                   /\ \A x \in word \ left[k], y \in left[k] : x < y
           good == {k \in Nat : k + 1 \in 1 .. n => P(k + 1)}
<1>5. 0 \in good
  <2>0. 1 \in 1 .. n
    BY <1>0
  <2>1. left[1] = word
    BY <1>4, <2>0
  <2> QED
    BY <2>1, <1>0
<1>6. ASSUME NEW k \in Nat, k \in good PROVE k + 1 \in good
  <2>1. SUFFICES ASSUME k + 2 \in 1 .. n PROVE P(k + 2)
    BY <1>0
  <2>2. k + 1 \in 1 .. n /\ k + 2 # 1 /\ (k + 2) - 1 = k + 1
    BY <2>1, <1>0
  <2>3. P(k + 1)
    BY <1>6, <2>2
  <2> DEFINE low == Min(left[k + 1])
  <2>4. left[k + 2] = left[k + 1] \ {low}
    BY <1>4, <2>1, <2>2
  <2>5. IsFiniteSet(left[k + 1]) /\ Cardinality(left[k + 1]) = Cardinality(word) - k
    BY <2>3, FS_Subset
  <2>6. left[k + 1] # {}
    <3>1. Cardinality(left[k + 1]) > 0
      BY <2>5, <2>1, <1>0
    <3> QED
      BY <3>1, <2>5, FS_EmptySet
  <2>7. low \in left[k + 1] /\ \A y \in left[k + 1] : low =< y
    BY <2>3, <2>6, MinIs
  <2> HIDE DEF low
  <2>8. Cardinality(left[k + 2]) = Cardinality(word) - k - 1
    <3>1. Cardinality(left[k + 1] \ {low}) = Cardinality(left[k + 1]) - 1
      BY <2>5, <2>7, FS_RemoveElement
    <3> QED
      BY <3>1, <2>4, <2>5
  <2>9. ASSUME NEW x \in word \ left[k + 2], NEW y \in left[k + 2] PROVE x < y
    <3>1. y \in left[k + 1] /\ y # low /\ y \in Nat /\ low \in Nat /\ low < y
      <4>1. y \in left[k + 1] /\ y # low
        BY <2>4
      <4>2. y \in Nat /\ low \in Nat
        BY <2>3, <2>7, <4>1
      <4> QED
        BY <2>7, <4>1, <4>2
    <3>2. x = low \/ x \in word \ left[k + 1]
      BY <2>4, <2>9
    <3> QED
      BY <3>1, <3>2, <2>3
  <2> QED
    BY <2>3, <2>4, <2>8, <2>9, <1>0
<1>7. P(n)
  <2>1. n - 1 \in Nat /\ (n - 1) + 1 = n /\ n \in 1 .. n
    BY <1>0
  <2>2. n - 1 \in good
    <3> HIDE DEF good
    <3> QED
      BY <1>5, <1>6, <2>1, Induction
  <2> QED
    BY <2>1, <2>2
<1>8. IsFiniteSet(left[n]) /\ left[n] # {}
  <2>1. IsFiniteSet(left[n])
    BY <1>7, FS_Subset
  <2>2. Cardinality(left[n]) > 0
    BY <1>7, <1>0
  <2> QED
    BY <2>1, <2>2, FS_EmptySet
<1> DEFINE b == Min(left[n])
<1>9. b \in left[n] /\ \A y \in left[n] : b =< y
  BY <1>7, <1>8, MinIs
<1> HIDE DEF b
<1>10. Below(word, b) = word \ left[n]
  <2>1. ASSUME NEW x \in word PROVE x < b <=> x \notin left[n]
    <3>1. x \in Nat /\ b \in Nat
      BY <1>7, <1>9
    <3> QED
      BY <3>1, <1>7, <1>9
  <2> QED
    BY <2>1 DEF Below
<1>11. Cardinality(word \ left[n]) = n - 1
  <2>1. word \cap left[n] = left[n]
    BY <1>7
  <2>2. Cardinality(word \ left[n]) = Cardinality(word) - Cardinality(left[n])
    BY <2>1, FS_Difference
  <2> QED
    BY <2>2, <1>7, <1>0
<1>12. Rank(word, b) = n - 1 /\ b \in word
  BY <1>10, <1>11, <1>9, <1>7 DEF Rank
<1> QED
  BY <1>12, <1>3 DEF b

\* The size of two sets that have no element in common.
LEMMA Disjoint ==
  ASSUME NEW S, NEW U, IsFiniteSet(S), IsFiniteSet(U), S \cap U = {}
  PROVE  /\ Cardinality(S) \in Nat /\ Cardinality(U) \in Nat
         /\ Cardinality(S \cup U) = Cardinality(S) + Cardinality(U)
<1>1. Cardinality(S) \in Nat /\ Cardinality(U) \in Nat /\ Cardinality(S \cap U) = 0
  BY FS_CardinalityType, FS_EmptySet
<1>2. Cardinality(S \cup U) = Cardinality(S) + Cardinality(U) - Cardinality(S \cap U)
  BY FS_Union
<1> QED
  BY <1>1, <1>2
-----------------------------------------------------------------------------
(***************************************************************************)
(* Words: word i has the bits from i * W on, up to (i + 1) * W.            *)
(***************************************************************************)

\* Multiplication by the same positive number keeps the order.
LEMMA TimesLess ==
  ASSUME NEW w \in Nat \ {0}, NEW p \in Int, NEW q \in Int
  PROVE  /\ p * w \in Int
         /\ (p + 1) * w = p * w + w
         /\ p * w < q * w => p < q
         /\ p =< q => p * w =< q * w
  BY Z3

\* A number lies in the word of its quotient.
LEMMA InItsWord ==
  ASSUME NEW w \in Nat \ {0}, NEW b \in Nat
  PROVE  /\ b \div w \in Nat
         /\ (b \div w) * w =< b
         /\ b < (b \div w) * w + w
         /\ b % w = 0 => b = (b \div w) * w
  BY Z3

\* The words of a row are numbers.
LEMMA WordsType == W \in Nat \ {0} /\ Cols \in Nat \ {0} /\ Words \in Nat /\ Words * W \in Nat
<1>1. W \in Nat \ {0} /\ Cols \in Nat \ {0}
  BY BitmapAssumption
<1>2. Words \in Nat
  BY <1>1, InItsWord DEF Words
<1> QED
  BY <1>1, <1>2, Z3

\* The bits are the columns.
LEMMA BitsAreColumns == Words * W = Cols /\ Bits = Columns /\ SetAllBits = Columns
<1>1. W \in Nat \ {0} /\ Cols \in Nat \ {0} /\ Cols % W = 0
  BY BitmapAssumption, WholeWords
<1> DEFINE q == Cols \div W
           d == (Cols + W - 1) \div W
<1>2. q \in Nat /\ d \in Nat /\ d * W =< Cols + W - 1 /\ Cols + W - 1 < d * W + W
  BY <1>1, InItsWord
<1>3. Cols = q * W
  BY <1>1, Z3
<1> HIDE DEF q, d
<1>4. /\ q * W \in Int /\ d * W \in Int
      /\ (q + 1) * W = q * W + W /\ (d + 1) * W = d * W + W
      /\ d * W < (q + 1) * W => d < q + 1
      /\ q * W < (d + 1) * W => q < d + 1
  BY <1>1, <1>2, TimesLess
<1>5. d < q + 1
  BY <1>1, <1>2, <1>3, <1>4
<1>6. q < d + 1
  BY <1>1, <1>2, <1>3, <1>4
<1>7. d = q
  BY <1>2, <1>5, <1>6
<1>8. ((Cols + W - 1) \div W) * W = Cols
  BY <1>3, <1>7 DEF d
<1> QED
  BY <1>8 DEF Words, Bits, Columns, SetAllBits

\* A set of bits is finite.
LEMMA BitsFinite ==
  ASSUME NEW A, A \subseteq Bits
  PROVE  IsFiniteSet(A) /\ A \subseteq Nat
<1>1. IsFiniteSet(Bits) /\ Bits \subseteq Nat
  BY WordsType, FS_Interval DEF Bits
<1> QED
  BY <1>1, FS_Subset

-----------------------------------------------------------------------------
(***************************************************************************)
(* The searches.                                                           *)
(***************************************************************************)

\* What remaining[] of Scan is: n less the set bits of the words passed.
Remaining(A, first, n) ==
  CHOOSE f : f = [i \in first .. Words |->
                    IF i = first THEN n ELSE f[i - 1] - Cardinality(A \cap Word(i - 1))]

\* f counts, word by word, what is left of n when a word is looked at.
Counts(f, A, first, n) ==
  \A i \in first .. Words :
    f[i] = IF i = first THEN n ELSE f[i - 1] - Cardinality(A \cap Word(i - 1))

\* Such a count exists, and Remaining is one.
LEMMA RemainingExists ==
  ASSUME NEW A, A \subseteq Bits, NEW first \in Nat, NEW n \in Nat
  PROVE  Counts(Remaining(A, first, n), A, first, n)
<1> DEFINE step == [j \in Int |-> [s \in Int |-> s - Cardinality(A \cap Word(j))]]
<1>1. step \in [Int -> [Int -> Int]]
  <2>1. ASSUME NEW j \in Int PROVE Cardinality(A \cap Word(j)) \in Nat
    BY BitsFinite, FS_Subset, FS_CardinalityType
  <2> QED
    BY <2>1
<1>2. PICK f \in [first .. Words -> Int] : Follows(f, first, Words, n, step)
  <2>1. first \in Int /\ Words \in Int /\ n \in Int
    BY WordsType
  <2> HIDE DEF step
  <2> QED
    BY <1>1, <2>1, Recursion
<1>3. ASSUME NEW j \in first .. Words, j # first
      PROVE  step[j - 1][f[j - 1]] = f[j - 1] - Cardinality(A \cap Word(j - 1))
  <2>1. j - 1 \in first .. Words /\ j - 1 \in Int
    BY <1>3, WordsType
  <2>2. f[j - 1] \in Int
    BY <2>1
  <2> QED
    BY <2>1, <2>2
<1>4. f = [j \in first .. Words |->
             IF j = first THEN n ELSE f[j - 1] - Cardinality(A \cap Word(j - 1))]
  <2> HIDE DEF step
  <2> QED
    BY <1>2, <1>3 DEF Follows
<1> DEFINE g == Remaining(A, first, n)
<1>5. g = [j \in first .. Words |->
             IF j = first THEN n ELSE g[j - 1] - Cardinality(A \cap Word(j - 1))]
  BY <1>4 DEF Remaining
<1> HIDE DEF g
<1>6. Counts(g, A, first, n)
  BY <1>5 DEF Counts
<1> QED
  BY <1>6 DEF g

\* Scan in terms of it.
LEMMA ScanStep ==
  ASSUME NEW A, NEW first, NEW n
  PROVE  LET has == {i \in first .. Words - 1 :
                       Remaining(A, first, n)[i] < Cardinality(A \cap Word(i))}
         IN Scan(A, first, n) =
              IF has = {} THEN -1
              ELSE NthSetBitInWord(A \cap Word(Min(has)), Remaining(A, first, n)[Min(has)] + 1)
  BY DEF Scan, Remaining

\* The bits of a set below the end of a word are those below the word and
\* those of the word.
LEMMA BelowNextWord ==
  ASSUME NEW A, A \subseteq Bits, NEW i \in Int
  PROVE  /\ i * W \in Int /\ (i + 1) * W \in Int /\ IsFiniteSet(A \cap Word(i))
         /\ Rank(A, (i + 1) * W) = Rank(A, i * W) + Cardinality(A \cap Word(i))
         /\ \A b \in A \cap Word(i) : Rank(A, b) = Rank(A, i * W) + Rank(A \cap Word(i), b)
<1> DEFINE lo == i * W
           here == A \cap Word(i)
<1>0. W \in Nat \ {0} /\ lo \in Int /\ (i + 1) * W = lo + W /\ Word(i) = lo .. lo + W - 1
  BY WordsType, TimesLess DEF Word
<1>1. IsFiniteSet(A) /\ A \subseteq Nat
  BY BitsFinite
<1> HIDE DEF lo
<1>2. IsFiniteSet(Below(A, lo)) /\ IsFiniteSet(here) /\ IsFiniteSet(Below(here, lo + W))
  BY <1>1, RankType, FS_Subset
<1>3. ASSUME NEW b \in Int, b \in here \/ b = lo + W
      PROVE  Rank(A, b) = Rank(A, lo) + Rank(here, b)
  <2>1. ASSUME NEW x \in A PROVE x < b <=> x < lo \/ (x \in here /\ x < b)
    <3>1. x \in Int /\ b \in Int /\ lo =< b /\ b =< lo + W
      BY <1>0, <1>1, <1>3
    <3> QED
      BY <1>0, <3>1
  <2>2. Below(A, b) = Below(A, lo) \cup Below(here, b)
    BY <2>1 DEF Below
  <2>3. Below(A, lo) \cap Below(here, b) = {}
    <3>1. ASSUME NEW x \in here PROVE ~(x < lo)
      BY <1>0, <1>1
    <3> QED
      BY <3>1 DEF Below
  <2>4. IsFiniteSet(Below(here, b))
    BY <1>2, RankType
  <2> QED
    BY <1>2, <2>2, <2>3, <2>4, Disjoint DEF Rank
<1>4. Below(here, lo + W) = here
  <2>1. ASSUME NEW x \in here PROVE x < lo + W
    BY <1>0, <1>1
  <2> QED
    BY <2>1 DEF Below
<1>5. lo + W \in Int /\ here \subseteq Int
  BY <1>0, <1>1
<1>6. Rank(A, lo + W) = Rank(A, lo) + Cardinality(here)
  BY <1>3, <1>4, <1>5 DEF Rank
<1> QED
  BY <1>0, <1>2, <1>3, <1>5, <1>6 DEF lo

\* Scan finds the n-th set bit by counting, when the words it leaves out have none.
LEMMA ScanFindsNth ==
  ASSUME NEW A, A \subseteq Bits, NEW first \in Nat, NEW n \in Nat,
         \A x \in A : first * W =< x
  PROVE  Scan(A, first, n) = Nth(A, n)
<1> DEFINE left == Remaining(A, first, n)
           C(i) == Cardinality(A \cap Word(i))
           has == {i \in first .. Words - 1 : left[i] < C(i)}
<1>0. W \in Nat \ {0} /\ Words \in Nat /\ IsFiniteSet(A) /\ A \subseteq Nat
  BY WordsType, BitsFinite
<1>1. \A i \in first .. Words : left[i] = IF i = first THEN n ELSE left[i - 1] - C(i - 1)
  <2>1. Counts(left, A, first, n)
    BY RemainingExists
  <2> HIDE DEF left
  <2> QED
    BY <2>1 DEF Counts
<1>2. Scan(A, first, n) =
        IF has = {} THEN -1 ELSE NthSetBitInWord(A \cap Word(Min(has)), left[Min(has)] + 1)
  BY ScanStep
<1> HIDE DEF left
<1>3. \A i \in Int : C(i) \in Nat /\ Rank(A, (i + 1) * W) = Rank(A, i * W) + C(i)
  BY BelowNextWord, FS_CardinalityType
<1>4. \A i \in Int : Rank(A, i * W) \in Nat
  BY <1>0, RankType
<1> HIDE DEF C
<1> HIDE DEF C
<1>8. \A j \in Int : \A x \in A \cap Word(j) :
        Rank(A, x) = Rank(A, j * W) + Rank(A \cap Word(j), x)
  <2>1. ASSUME NEW j \in Int
        PROVE  \A x \in A \cap Word(j) : Rank(A, x) = Rank(A, j * W) + Rank(A \cap Word(j), x)
    BY BelowNextWord, ZenonT(30)
  <2> QED
    BY <2>1, Zenon
<1>5. ASSUME NEW i \in first .. Words PROVE left[i] = n - Rank(A, i * W)
  <2> DEFINE good == {k \in Nat : first + k \in first .. Words =>
                                    left[first + k] = n - Rank(A, (first + k) * W)}
  <2>1. 0 \in good
    <3>1. SUFFICES ASSUME first \in first .. Words PROVE left[first] = n - Rank(A, first * W)
      OBVIOUS
    <3>2. Below(A, first * W) = {}
      <4>1. first * W \in Int
        BY <1>0, TimesLess
      <4>2. ASSUME NEW x \in A PROVE ~(x < first * W)
        <5>1. x \in Int /\ first * W =< x
          BY <1>0
        <5> QED
          BY <4>1, <5>1
      <4> QED
        BY <4>2 DEF Below
    <3>3. Rank(A, first * W) = 0
      BY <3>2, FS_EmptySet DEF Rank
    <3> QED
      BY <1>1, <3>1, <3>3
  <2>2. ASSUME NEW k \in Nat, k \in good PROVE k + 1 \in good
    <3>1. SUFFICES ASSUME first + (k + 1) \in first .. Words
                   PROVE  left[first + (k + 1)] = n - Rank(A, (first + (k + 1)) * W)
      OBVIOUS
    <3>2. first + k \in first .. Words /\ first + k \in Int /\ first + (k + 1) # first
          /\ first + (k + 1) - 1 = first + k /\ first + (k + 1) = (first + k) + 1
      BY <3>1, <1>0
    <3>3. left[first + k] = n - Rank(A, (first + k) * W)
      BY <2>2, <3>2
    <3>4. left[first + (k + 1)] = left[first + k] - C(first + k)
      BY <1>1, <3>1, <3>2
    <3>5. Rank(A, (first + (k + 1)) * W) = Rank(A, (first + k) * W) + C(first + k)
      BY <1>3, <3>2
    <3>6. Rank(A, (first + k) * W) \in Nat /\ C(first + k) \in Nat
      BY <1>3, <1>4, <3>2
    <3> QED
      BY <3>3, <3>4, <3>5, <3>6
  <2>3. i - first \in Nat /\ first + (i - first) = i
    BY <1>5
  <2>4. i - first \in good
    <3> HIDE DEF good
    <3> QED
      BY <2>1, <2>2, <2>3, Induction
  <2> QED
    BY <2>3, <2>4
<1>6. CASE has = {}
  <2>1. ASSUME NEW b \in A PROVE Rank(A, b) # n
    <3> DEFINE i == b \div W
    <3>1. i \in Nat /\ i * W =< b /\ b < i * W + W
      BY <1>0, InItsWord
    <3>2. b < Words * W
      BY <1>0, WordsType DEF Bits
    <3> HIDE DEF i
    <3> DEFINE lo == i * W
               hi == (i + 1) * W
               end == Words * W
               start == first * W
    <3>3. /\ i * W \in Int /\ (i + 1) * W = i * W + W
          /\ i * W < Words * W => i < Words
          /\ first * W < (i + 1) * W => first < i + 1
      BY <1>0, <3>1, TimesLess
    <3>4. Words * W \in Int /\ first * W \in Int /\ first * W =< b /\ b \in Int
      BY <1>0, TimesLess
    <3>5. i < Words /\ first < i + 1 /\ hi \in Int /\ b < hi
      <4>1. /\ lo \in Int /\ end \in Int /\ start \in Int /\ hi = lo + W /\ b \in Int
            /\ lo =< b /\ b < lo + W /\ b < end /\ start =< b
            /\ (lo < end => i < Words) /\ (start < hi => first < i + 1)
        BY <3>1, <3>2, <3>3, <3>4
      <4> HIDE DEF lo, hi, end, start
      <4> QED
        BY <1>0, <4>1
    <3>6. i \in first .. Words - 1 /\ i \in first .. Words /\ i \in Int
      BY <3>1, <3>5, <1>0
    <3>7. ~(left[i] < C(i)) /\ left[i] = n - Rank(A, i * W)
      BY <1>5, <1>6, <3>6
    <3>8. Rank(A, b) < Rank(A, (i + 1) * W)
      <4> HIDE DEF lo, hi, end, start
      <4>1. Rank(A, b) < Rank(A, hi)
        BY <1>0, <3>5, A \subseteq Int, RankStrict
      <4> QED
        BY <4>1 DEF hi
    <3>9. /\ Rank(A, b) \in Nat /\ Rank(A, i * W) \in Nat /\ C(i) \in Nat
          /\ Rank(A, (i + 1) * W) = Rank(A, i * W) + C(i)
      BY <1>0, <1>3, <1>4, <3>6, RankType
    <3> QED
      BY <3>7, <3>8, <3>9
  <2> QED
    BY <1>2, <1>6, <2>1, NthNone
<1>7. CASE has # {}
  <2> DEFINE i == Min(has)
  <2>1. i \in has /\ \A x \in has : i =< x
    <3>1. has \subseteq Nat
      OBVIOUS
    <3> QED
      BY <1>7, <3>1, MinIs
  <2>2. i \in first .. Words - 1 /\ i \in first .. Words /\ i \in Int /\ left[i] < C(i)
    BY <2>1, <1>0
  <2> DEFINE b == NthSetBitInWord(A \cap Word(i), left[i] + 1)
  <2>3. Scan(A, first, n) = b
    BY <1>2, <1>7
  <2> HIDE DEF i
  <2>4. left[i] = n - Rank(A, i * W) /\ Rank(A, i * W) \in Nat /\ C(i) \in Nat
    BY <1>3, <1>4, <1>5, <2>2
  <2>5. left[i] >= 0
    <3>1. CASE i = first
      BY <3>1, <1>1, <2>2
    <3>2. CASE i # first
      <4>1. i - 1 \in first .. Words - 1 /\ i - 1 \in first .. Words /\ i - 1 \in Int
        BY <3>2, <2>2, <1>0
      <4>2. i - 1 \notin has
        BY <2>1, <4>1, <2>2
      <4>3. ~(left[i - 1] < C(i - 1))
        BY <4>1, <4>2
      <4>4. left[i] = left[i - 1] - C(i - 1)
        BY <1>1, <2>2, <3>2
      <4>5. left[i - 1] \in Int /\ C(i - 1) \in Nat
        BY <1>3, <1>4, <1>5, <4>1
      <4> QED
        BY <4>3, <4>4, <4>5
    <3> QED
      BY <3>1, <3>2
  <2>6. left[i] + 1 \in 1 .. Cardinality(A \cap Word(i))
    BY <2>2, <2>4, <2>5 DEF C
  <2>7. b \in A \cap Word(i) /\ Rank(A \cap Word(i), b) = left[i]
    <3>1. A \cap Word(i) \subseteq Nat /\ IsFiniteSet(A \cap Word(i))
      BY <1>0, <2>2, BelowNextWord
    <3>2. b \in A \cap Word(i) /\ Rank(A \cap Word(i), b) = (left[i] + 1) - 1
      BY <2>6, <3>1, NthSetBit
    <3> QED
      BY <3>2, <2>4
  <2> HIDE DEF b
  <2>8. Rank(A, b) = n
    <3>0. \A x \in A \cap Word(i) : Rank(A, x) = Rank(A, i * W) + Rank(A \cap Word(i), x)
      BY <1>8, <2>2, Zenon
    <3>1. Rank(A, b) = Rank(A, i * W) + Rank(A \cap Word(i), b)
      BY <3>0, <2>7
    <3>2. Rank(A, b) = Rank(A, i * W) + (n - Rank(A, i * W))
      BY <2>4, <2>7, <3>1
    <3> QED
      BY <2>4, <3>2
  <2>9. b \in A /\ A \subseteq Int
    BY <1>0, <2>7
  <2> QED
    BY <1>0, <2>3, <2>8, <2>9, NthIs
<1> QED
  BY <1>6, <1>7

\* What a consumer remembers of its last search: nothing, or its rank and index.
Remembers(row_, index, N) == \/ index = -1 /\ N = -1
                             \/ index \in row_ /\ N \in Nat /\ Rank(row_, index) = N

\* A search that goes on from the last one finds what counting finds.
LEMMA FindNthIsNth ==
  ASSUME NEW A, A \subseteq Bits, NEW N \in Nat, NEW index, NEW last, Remembers(A, index, last)
  PROVE  FindNthSafeIndex(N, A, index, last) = Nth(A, N)
<1>0. W \in Nat \ {0} /\ IsFiniteSet(A) /\ A \subseteq Nat /\ A \subseteq Int
  <2>1. W \in Nat \ {0}
    BY WordsType
  <2>2. IsFiniteSet(A) /\ A \subseteq Nat
    BY BitsFinite
  <2> QED
    BY <2>1, <2>2
<1>1. Scan(A, 0, N) = Nth(A, N)
  <2>1. 0 * W = 0 /\ 0 \in Nat
    BY <1>0
  <2>2. \A x \in A : 0 * W =< x
    BY <1>0, <2>1
  <2> QED
    BY <2>1, <2>2, ScanFindsNth
<1>2. CASE ~(index >= 0 /\ last >= 0 /\ N > last)
  <2>1. ~(N < 0)
    OBVIOUS
  <2> QED
    BY <1>1, <1>2, <2>1 DEF FindNthSafeIndex
<1>3. CASE index >= 0 /\ last >= 0 /\ N > last
  <2>1. index \in A /\ last \in Nat /\ Rank(A, index) = last /\ index \in Nat
    <3>1. ~(index = -1)
      BY <1>3
    <3> QED
      BY <1>0, <3>1 DEF Remembers
  <2> DEFINE ahead == {b \in A : b > index}
             first == (index + 1) \div W
             n == N - (last + 1)
  <2>2. n \in Nat /\ ahead \subseteq Bits /\ ahead \subseteq Int /\ IsFiniteSet(ahead)
    <3>1. n \in Nat
      BY <1>3, <2>1
    <3>2. ahead \subseteq A
      OBVIOUS
    <3>3. IsFiniteSet(ahead)
      <4> HIDE DEF ahead
      <4> QED
        BY <1>0, <3>2, FS_Subset
    <3> QED
      BY <1>0, <3>1, <3>2, <3>3
  <2>3. first \in Nat /\ first * W =< index + 1
    BY <1>0, <2>1, InItsWord
  <2>4. \A x \in ahead : first * W =< x
    <3>1. first * W \in Int
      BY <1>0, <2>3, TimesLess
    <3> HIDE DEF first
    <3>2. ASSUME NEW x \in ahead PROVE x \in Int /\ index + 1 =< x
      BY <1>0, <2>1
    <3> QED
      BY <2>1, <2>3, <3>1, <3>2
  <2>5. Scan(ahead, first, n) = Nth(ahead, n)
    <3> HIDE DEF ahead, first, n
    <3> QED
      BY <2>2, <2>3, <2>4, ScanFindsNth
  <2>6. ASSUME NEW b \in ahead PROVE Rank(A, b) = Rank(ahead, b) + last + 1
    <3>1. b \in Int /\ index < b
      BY <1>0, <2>1
    <3>2. ASSUME NEW x \in A PROVE x < b <=> x < index \/ x = index \/ (x > index /\ x < b)
      BY <1>0, <2>1, <3>1
    <3>3. Below(A, b) = (Below(A, index) \cup {index}) \cup Below(ahead, b)
      BY <2>1, <3>2 DEF Below
    <3>4. (Below(A, index) \cup {index}) \cap Below(ahead, b) = {} /\ index \notin Below(A, index)
      <4>1. ASSUME NEW x \in A, x > index PROVE ~(x < index) /\ x # index
        BY <1>0, <2>1, <4>1
      <4> QED
        BY <2>1, <4>1 DEF Below
    <3>5. IsFiniteSet(Below(A, index)) /\ IsFiniteSet(Below(ahead, b))
      BY <1>0, <2>2, RankType
    <3>6. /\ IsFiniteSet(Below(A, index) \cup {index})
          /\ Cardinality(Below(A, index) \cup {index}) = last + 1
      BY <2>1, <3>4, <3>5, FS_AddElement DEF Rank
    <3> HIDE DEF ahead
    <3>7. Cardinality(Below(A, b)) = (last + 1) + Cardinality(Below(ahead, b))
      BY <3>3, <3>4, <3>5, <3>6, Disjoint
    <3>8. Cardinality(Below(ahead, b)) \in Nat
      BY <3>5, FS_CardinalityType
    <3> QED
      BY <2>1, <3>7, <3>8 DEF Rank
  <2>7. FindNthSafeIndex(N, A, index, last)
          = IF Scan(ahead, first, n) # -1 THEN Scan(ahead, first, n) ELSE Scan(A, 0, N)
    <3>1. ~(N < 0) /\ N >= 0
      OBVIOUS
    <3> QED
      BY <1>3, <3>1 DEF FindNthSafeIndex
  <2> DEFINE b == Nth(ahead, n)
  <2> HIDE DEF ahead, first, n
  <2>8. CASE b = -1
    BY <1>1, <2>5, <2>7, <2>8
  <2>9. CASE b # -1
    <3>1. b \in ahead /\ Rank(ahead, b) = n
      BY <2>2, <2>9, NthAnswer
    <3>2. b \in A
      BY <3>1 DEF ahead
    <3>3. Rank(A, b) = N
      BY <2>1, <2>6, <3>1 DEF n
    <3>4. Nth(A, N) = b
      BY <1>0, <3>2, <3>3, NthIs
    <3> QED
      BY <2>5, <2>7, <2>9, <3>4
  <2> QED
    BY <2>8, <2>9
<1> QED
  BY <1>2, <1>3

\* The search of the producer finds the nearest safe index, ahead if there is
\* one and from the first one on otherwise.
LEMMA FindSafe ==
  ASSUME NEW A, A \subseteq Columns, A # {}, NEW start \in Nat
  PROVE  LET at == FindSafeIndexFrom(start, A)
         IN /\ at \in A
            /\ \/ start =< at /\ \A b \in A : start =< b => at =< b
               \/ at < start /\ \A b \in A : b < start /\ at =< b
<1> DEFINE ahead == {b \in A : start =< b /\ b < Cols}
           wrapped == {b \in A : b < start}
<1>1. A \subseteq Nat /\ \A b \in A : b \in Nat /\ b < Cols
  BY BitmapAssumption DEF Columns
<1>2. CASE ahead # {}
  <2>1. Min(ahead) \in ahead /\ \A x \in ahead : Min(ahead) =< x
    BY <1>1, <1>2, MinIs
  <2>2. FindSafeIndexFrom(start, A) = Min(ahead)
    BY <1>2 DEF FindSafeIndexFrom
  <2> QED
    BY <1>1, <2>1, <2>2
<1>3. CASE ahead = {}
  <2>1. \A b \in A : b < start
    BY <1>1, <1>3
  <2>2. wrapped = A
    BY <2>1
  <2>3. Min(A) \in A /\ \A x \in A : Min(A) =< x
    BY <1>1, MinIs
  <2>4. FindSafeIndexFrom(start, A) = Min(A)
    BY <1>3, <2>2 DEF FindSafeIndexFrom
  <2> QED
    BY <1>1, <2>1, <2>3, <2>4
<1> QED
  BY <1>2, <1>3
-----------------------------------------------------------------------------
(***************************************************************************)
(* The heuristic.                                                          *)
(***************************************************************************)

\* The greatest element of a set of columns.
LEMMA MaxIs ==
  ASSUME NEW S, S \subseteq Columns, S # {}
  PROVE  Max(S) \in S /\ \A x \in S : x =< Max(S)
<1> DEFINE far == {Cols - x : x \in S}
<1>1. Cols \in Nat /\ \A x \in S : x \in Nat /\ x < Cols
  BY BitmapAssumption DEF Columns
<1>2. far \subseteq Nat /\ far # {}
  BY <1>1
<1>3. PICK m \in far : \A y \in far : m =< y
  BY <1>2, Least
<1>4. PICK b \in S : m = Cols - b
  BY <1>3
<1>5. \A x \in S : x =< b
  <2>1. ASSUME NEW x \in S PROVE x =< b
    <3>1. Cols - b =< Cols - x
      BY <1>3, <1>4
    <3> QED
      BY <3>1, <1>1
  <2> QED
    BY <2>1
<1>6. \E b_ \in S : \A x \in S : b_ >= x
  BY <1>1, <1>5
<1> QED
  BY <1>1, <1>6 DEF Max

\* The columns fill the words up to the last one.
LEMMA LastWordIs ==
  /\ LastWord \in Int /\ LastWord + 1 = Words
  /\ LastWord * W + W = Cols /\ W \in Nat \ {0} /\ Cols \in Nat \ {0}
<1>1. W \in Nat \ {0} /\ Cols \in Nat \ {0} /\ Words \in Nat /\ Words * W = Cols
  BY WordsType, BitsAreColumns
<1>2. LastWord \in Nat /\ LastWord * W =< Cols - 1 /\ Cols - 1 < LastWord * W + W
  BY <1>1, InItsWord DEF LastWord
<1>3. /\ (LastWord + 1) * W = LastWord * W + W /\ LastWord * W \in Int
      /\ LastWord * W < Words * W => LastWord < Words
      /\ Words * W < (LastWord + 2) * W => Words < LastWord + 2
      /\ ((LastWord + 1) + 1) * W = (LastWord + 1) * W + W
  BY <1>1, <1>2, TimesLess
<1>4. LastWord < Words
  BY <1>1, <1>2, <1>3
<1>5. Words < LastWord + 2
  <2>1. (LastWord + 2) * W = LastWord * W + W + W
    BY <1>2, <1>3
  <2>2. Words * W < (LastWord + 2) * W
    BY <1>1, <1>2, <1>3, <2>1
  <2> QED
    BY <1>3, <2>2
<1>6. LastWord + 1 = Words
  BY <1>1, <1>2, <1>4, <1>5
<1> QED
  BY <1>1, <1>2, <1>3, <1>6

\* The range that is cleared ends beyond every column it clears.
LEMMA ClearEndIs ==
  ASSUME NEW A, A \subseteq Columns, NEW f \in Columns
  PROVE  /\ ClearEnd(A, f) \in Nat /\ f < ClearEnd(A, f) /\ ClearEnd(A, f) =< Cols
         /\ Predicted(A, f) \subseteq Ahead(A, f)
         /\ \A x \in Predicted(A, f) : x \in A /\ f < x /\ x < ClearEnd(A, f)
<1>1. /\ Ahead(A, f) \subseteq Columns /\ Predicted(A, f) \subseteq Ahead(A, f)
      /\ \A x \in Ahead(A, f) : x \in A /\ x \in Nat /\ f < x /\ x < Cols
      /\ f \in Nat /\ f < Cols /\ Cols \in Nat
  <2>1. Predicted(A, f) \subseteq Ahead(A, f)
    BY DEF Predicted
  <2>2. Cols \in Nat /\ f \in Nat /\ f < Cols
    BY BitmapAssumption DEF Columns
  <2>3. \A x \in Ahead(A, f) : x \in A /\ x \in Columns /\ f < x /\ x < Cols
    BY DEF Ahead
  <2>4. \A x \in Columns : x \in Nat
    BY DEF Columns
  <2> QED
    BY <2>1, <2>2, <2>3, <2>4
<1>2. CASE Cardinality(Ahead(A, f)) < NumConsumers
  BY <1>1, <1>2 DEF ClearEnd
<1>3. CASE ~(Cardinality(Ahead(A, f)) < NumConsumers)
  <2>1. IsFiniteSet(Ahead(A, f)) /\ NumConsumers \in Nat \ {0}
    BY <1>1, BitsAreColumns, BitsFinite, BitmapAssumption
  <2>2. Ahead(A, f) # {}
    <3>1. Cardinality(Ahead(A, f)) # 0
      BY <1>3, <2>1
    <3> QED
      BY <2>1, <3>1, FS_EmptySet
  <2>3. PICK m \in Ahead(A, f) : \A x \in Ahead(A, f) : m =< x
    <3>1. Ahead(A, f) \subseteq Nat
      BY <1>1
    <3> QED
      BY <2>2, <3>1, Least
  <2>4. m \in Predicted(A, f)
    <3>1. {x \in Ahead(A, f) : x < m} = {}
      <4>1. ASSUME NEW x \in Ahead(A, f) PROVE ~(x < m)
        BY <1>1, <2>3
      <4> QED
        BY <4>1
    <3>2. Cardinality({x \in Ahead(A, f) : x < m}) = 0
      BY <3>1, FS_EmptySet
    <3> QED
      BY <2>1, <3>2 DEF Predicted
  <2>5. Predicted(A, f) \subseteq Columns /\ Predicted(A, f) # {}
    BY <1>1, <2>4
  <2>6. /\ Max(Predicted(A, f)) \in Predicted(A, f)
        /\ \A x \in Predicted(A, f) : x =< Max(Predicted(A, f))
    BY <2>5, MaxIs
  <2>7. ClearEnd(A, f) = Max(Predicted(A, f)) + 1
    BY <1>3 DEF ClearEnd
  <2> DEFINE last == Max(Predicted(A, f))
  <2>8. last \in Nat /\ f < last /\ last < Cols
    BY <1>1, <2>6
  <2>9. ASSUME NEW x \in Predicted(A, f) PROVE x \in A /\ f < x /\ x < last + 1
    <3>1. x \in Nat /\ x \in A /\ f < x /\ x =< last
      BY <1>1, <2>6
    <3> QED
      BY <2>8, <3>1
  <2> HIDE DEF last
  <2> QED
    BY <1>1, <2>7, <2>8, <2>9 DEF last
<1> QED
  BY <1>2, <1>3

\* A row change takes away what is predicted, adds columns at most from there
\* on, and leaves what is not ahead of the column found.
LEMMA HeuristicIs ==
  ASSUME NEW A, A \subseteq Columns, NEW f \in A, NEW B \in Heuristic(A, f)
  PROVE  /\ B \subseteq Columns
         /\ A \ B = Predicted(A, f)
         /\ \A x \in Columns : x =< f => (x \in B <=> x \in A)
<1> DEFINE end == ClearEnd(A, f)
           P == Predicted(A, f)
           partial == end % W # 0
           start == StartWord(end)
           rest == end .. start * W - 1
           words == UNION {Word(i) : i \in start .. LastWord - 1}
<1>1. Columns = 0 .. Cols - 1 /\ Cols \in Nat /\ f \in Columns /\ f \in Nat
  BY BitmapAssumption DEF Columns
<1>2. /\ end \in Nat /\ f < end /\ end =< Cols
      /\ P \subseteq A /\ \A x \in P : f < x /\ x < end
  BY <1>1, ClearEndIs
<1> DEFINE kept == (A \ P) \cup rest \cup words
<1>0. Heuristic(A, f) = IF end >= Cols THEN {A \ P}
                        ELSE IF start < LastWord \/ (start = LastWord /\ end % W = 0)
                             THEN {kept \cup mask : mask \in LastMasks}
                             ELSE {kept}
  BY DEF Heuristic
<1>3. A \ P \subseteq B /\ \A x \in B : x \in A \ P \/ (x \in Columns /\ end =< x)
  <2>1. CASE end >= Cols
    <3>1. B = A \ P
      BY <1>0, <2>1
    <3> QED
      BY <3>1
  <2>2. CASE ~(end >= Cols)
    <3> DEFINE q == end \div W
    <3>1. /\ W \in Nat \ {0} /\ q \in Nat /\ q * W =< end /\ end < q * W + W
          /\ ~partial => end = q * W
      <4>1. W \in Nat \ {0}
        BY LastWordIs
      <4> HIDE DEF end
      <4> QED
        BY <1>2, <4>1, InItsWord
    <3>2. start \in Nat /\ end =< start * W
      <4> HIDE DEF end
      <4> HIDE DEF q
      <4> DEFINE lo == q * W
      <4>1. lo \in Int /\ (q + 1) * W = lo + W
        BY <3>1, TimesLess
      <4>2. CASE partial
        <5>1. start = q + 1
          BY <4>2 DEF q, StartWord
        <5>2. end =< (q + 1) * W
          <6> HIDE DEF lo
          <6> QED
            BY <1>2, <3>1, <4>1 DEF lo
        <5> QED
          BY <3>1, <5>1, <5>2
      <4>3. CASE ~partial
        <5>1. start = q
          BY <4>3 DEF q, StartWord
        <5>2. end = q * W /\ end =< q * W
          BY <1>2, <3>1, <4>3
        <5> QED
          BY <3>1, <5>1, <5>2
      <4> QED
        BY <4>2, <4>3
    <3>3. start * W \in Int /\ start * W =< Cols
      <4> HIDE DEF end
      <4>1. Words \in Nat /\ Words * W = Cols
        BY WordsType, BitsAreColumns
      <4> HIDE DEF q
      <4> DEFINE lo == q * W
                 all == Words * W
      <4>2. lo \in Int /\ all \in Int /\ (lo < all => q < Words)
        BY <3>1, <4>1, TimesLess
      <4>3. lo < all
        <5>1. lo =< end /\ all = Cols
          BY <3>1, <4>1
        <5> HIDE DEF lo, all
        <5> QED
          BY <1>1, <1>2, <2>2, <4>2, <5>1
      <4>4. start =< Words
        BY <3>1, <4>1, <4>2, <4>3 DEF StartWord, q
      <4> HIDE DEF start, lo, all
      <4> QED
        BY <3>1, <3>2, <4>1, <4>4, TimesLess
    <3>4. ASSUME NEW i \in start .. LastWord, NEW x \in Word(i)
          PROVE  x \in Columns /\ end =< x
      <4> HIDE DEF start, end
      <4>1. i \in Int /\ start =< i /\ i =< LastWord /\ LastWord \in Int
        BY <3>2, LastWordIs
      <4>2. /\ i * W \in Int /\ start * W =< i * W /\ i * W =< LastWord * W
            /\ LastWord * W \in Int /\ LastWord * W + W = Cols
        BY <3>1, <3>2, <4>1, LastWordIs, TimesLess
      <4> DEFINE lo == i * W
                 lw == LastWord * W
                 st == start * W
      <4>3. x \in lo .. lo + W - 1
        BY DEF Word
      <4>4. /\ lo \in Int /\ st \in Int /\ lw \in Int /\ st =< lo /\ lo =< lw /\ lw + W = Cols
            /\ end =< st
        BY <3>2, <3>3, <4>2
      <4> HIDE DEF lo, lw, st
      <4>5. x \in Int /\ lo =< x /\ x < lo + W
        BY <3>1, <4>3, <4>4
      <4> QED
        BY <1>1, <1>2, <3>1, <4>4, <4>5
    <3>5. \A x \in words \cup rest : x \in Columns /\ end =< x
      <4> HIDE DEF start, end
      <4>1. ASSUME NEW x \in words PROVE x \in Columns /\ end =< x
        <5>1. PICK i \in start .. LastWord - 1 : x \in Word(i)
          OBVIOUS
        <5>2. i \in start .. LastWord
          BY <3>2, LastWordIs
        <5> QED
          BY <3>4, <5>1, <5>2
      <4>2. ASSUME NEW x \in rest PROVE x \in Columns /\ end =< x
        <5> DEFINE st == start * W
        <5>1. st \in Int /\ st =< Cols /\ x \in end .. st - 1
          BY <3>3
        <5> HIDE DEF st
        <5> QED
          BY <1>1, <1>2, <5>1
      <4> QED
        BY <4>1, <4>2
    <3>6. LastMasks = {{}, Word(LastWord)}
      BY WholeWords DEF LastMasks
    <3>7. CASE start < LastWord \/ (start = LastWord /\ end % W = 0)
      <4>1. B \in {kept \cup mask : mask \in LastMasks}
        <5> HIDE DEF kept, start, partial, end, P
        <5> QED
          BY <1>0, <2>2, <3>7
      <4>2. \A x \in Word(LastWord) : x \in Columns /\ end =< x
        <5> HIDE DEF start, end
        <5>1. LastWord \in start .. LastWord
          BY <3>2, <3>7, LastWordIs
        <5> QED
          BY <3>4, <5>1
      <4> HIDE DEF words, rest, P, end
      <4> QED
        BY <3>5, <3>6, <4>1, <4>2
    <3>8. CASE ~(start < LastWord \/ (start = LastWord /\ end % W = 0))
      <4>1. B = kept
        <5> HIDE DEF kept, start, partial, end, P
        <5> QED
          BY <1>0, <2>2, <3>8
      <4> HIDE DEF words, rest, P, end
      <4> QED
        BY <3>5, <4>1
    <3> QED
      BY <3>7, <3>8
  <2> QED
    BY <2>1, <2>2
<1> HIDE DEF end, P
<1>4. B \subseteq Columns
  BY <1>3
<1>5. A \ B = P
  <2>1. ASSUME NEW x \in P PROVE x \notin B
    <3>1. ~(end =< x) /\ x \notin A \ P
      BY <1>1, <1>2
    <3> QED
      BY <1>3, <3>1
  <2> QED
    BY <1>2, <1>3, <2>1
<1>6. ASSUME NEW x \in Columns, x =< f PROVE x \in B <=> x \in A
  <2>1. x \in Nat /\ ~(end =< x) /\ x \notin P
    BY <1>1, <1>2, <1>6
  <2> QED
    BY <1>3, <2>1
<1> QED
  BY <1>4, <1>5, <1>6 DEF P
-----------------------------------------------------------------------------
(***************************************************************************)
(* The invariant: rows and draws.                                          *)
(***************************************************************************)

\* The map a row's consumers use; it is in SYNC_BITMAP before the row is
\* announced, but for row 0, which has none.
RowMap(r) == IF r = 0 THEN SetAllBits ELSE sync[r - 1]

\* The producer is at most one row ahead of what it announced.
ProducerInv ==
  /\ map \subseteq Columns /\ 0 \in map
  /\ Counter(enq_row) \in DOMAIN heads
  /\ ppc \in {"idle", "sync"} => row = enq_row
  /\ ppc \in {"again", "announce"} => row + 1 = enq_row /\ tail = 0
  /\ ppc = "sync" => tail \in map /\ RoomForRow
  /\ sent = 0 => tail = 0 /\ enq_row = 0 /\ ppc = "idle"

\* A consumer works in a row that was announced, with the map of that row; what
\* it remembers of its last search is right, and the number was drawn.
ConsumerInv ==
  \A c \in Consumers :
    /\ deq_row[c] =< row
    /\ cpc[c] = "map" => last_deq_row[c] < deq_row[c]
    /\ cpc[c] # "map" => last_deq_row[c] = deq_row[c]
    /\ cmap[c] = RowMap(last_deq_row[c])
    /\ Remembers(cmap[c], last_index[c], last_N[c])
    /\ last_N[c] < heads[Counter(last_deq_row[c])]
    /\ cpc[c] \in {"swap", "mark"} => last_index[c] # -1

\* A number of a head counter is drawn once, also in rows that share it.
DrawnOnce ==
  \A c, d \in Consumers :
    c # d /\ Counter(last_deq_row[c]) = Counter(last_deq_row[d]) /\ last_N[c] # -1
    => last_N[c] # last_N[d]

\* Rows and draws.
RowInv == ProducerInv /\ ConsumerInv /\ DrawnOnce
-----------------------------------------------------------------------------
(***************************************************************************)
(* The invariant: values.                                                  *)
(***************************************************************************)

\* No consumer takes what is in cell x for row r, now or later: its number was
\* drawn, and who drew it in this row took something.
Taken(r, x) ==
  /\ Rank(RowMap(r), x) < heads[Counter(r)]
  /\ \A c \in Consumers :
       ~(cpc[c] = "swap" /\ last_deq_row[c] = r /\ last_index[c] = x)

\* A value that a consumer may still take.
Live(x) == items[x].data \in Nat /\ ~Taken(items[x].gen, x)

\* A mark lies only where its row's consumer was.
CellsInv ==
  \A x \in Columns :
    /\ items[x].gen =< enq_row
    /\ items[x].data < sent
    /\ items[x].data = T => items[x].gen =< row /\ Taken(items[x].gen, x)

\* What was returned was sent.
GotInv == /\ T \notin Returned
          /\ \A v \in Returned : v < sent

\* What may still be taken was not returned, and lies in one cell.
LiveInv ==
  /\ \A x \in Columns : Live(x) => items[x].data \notin Returned
  /\ \A x, y \in Columns : Live(x) /\ Live(y) /\ items[x].data = items[y].data => x = y

\* While the row changes, the value is in no cell where it may be taken.
CopyInv ==
  ppc \in {"sync", "again"} =>
    /\ sent - 1 \notin Returned
    /\ \A x \in Columns : Live(x) => items[x].data # sent - 1

\* Values.
ValueInv == CellsInv /\ GotInv /\ LiveInv /\ CopyInv /\ ValuesOnce
-----------------------------------------------------------------------------
(***************************************************************************)
(* The invariant: order, while nothing is overwritten.                     *)
(***************************************************************************)

\* In row 0 a cell that was taken holds a mark, until the producer sees it.
FirstRowInv ==
  enq_row = 0 /\ ppc = "idle" => \A x \in Columns : Taken(0, x) => items[x].data = T

\* The number of cell 0 is drawn once in all rows that share its counter: after
\* the first row change the value there stays, so that the second one, or the
\* producer coming round, overwrites it.
FirstCellInv ==
  /\ sent > 0 => items[0].data # L
  /\ overwritten = {} =>
       /\ enq_row =< 2
       /\ enq_row = 2 => ppc = "again"
       /\ enq_row = 2 \/ (enq_row = 1 /\ ppc # "again") =>
            items[0].data \in Nat /\ Taken(0, 0) /\ Taken(1, 0)

\* The values of the producer's row are behind it.
LapInv ==
  overwritten = {} =>
    \A x \in Columns :
      items[x].data \in Nat /\ items[x].gen = enq_row =>
        /\ ppc = "idle" /\ tail # 0 => x < tail
        /\ ppc # "again"
        /\ ppc = "announce" => x = 0

\* Values ascend from row to row and from cell to cell.
AscendingInv ==
  overwritten = {} =>
    \A x, y \in Columns :
      /\ Live(x) /\ Live(y)
      /\ items[x].gen < items[y].gen \/ (items[x].gen = items[y].gen /\ x < y)
      => items[x].data < items[y].data

\* Cell x is not behind consumer c.
Reaches(c, x) ==
  \/ items[x].gen > last_deq_row[c]
  \/ /\ items[x].gen = last_deq_row[c]
     /\ x > last_index[c] \/ (x = last_index[c] /\ cpc[c] = "swap")

\* What a consumer got is older than what it may still take.
BehindInv ==
  overwritten = {} =>
    \A c \in Consumers : \A m \in DOMAIN got[c] : \A x \in Columns :
      Live(x) /\ Reaches(c, x) => got[c][m] < items[x].data

\* Order.
OrderInv == /\ FirstRowInv /\ KeptInFirstRow
            /\ FirstCellInv /\ LapInv /\ AscendingInv /\ BehindInv /\ InOrder

\* The inductive invariant.
IInv == RowInv /\ ValueInv /\ OrderInv

-----------------------------------------------------------------------------
(***************************************************************************)
(* What the steps do.                                                      *)
(***************************************************************************)

\* A row's counter is the one of every fourth of its number.
LEMMA CounterIs ==
  ASSUME NEW r \in Nat
  PROVE  /\ Counter(r) \in Nat
         /\ \A s \in Nat : s =< r => Counter(s) =< Counter(r)
         /\ r < 4 => Counter(r) = 0
<1>1. Counter(r) \in Nat /\ (r < 4 => Counter(r) = 0)
  BY Z3 DEF Counter
<1>2. ASSUME NEW s \in Nat, s =< r PROVE Counter(s) =< Counter(r)
  BY <1>2, Z3 DEF Counter
<1> QED
  BY <1>1, <1>2

\* Every row up to the producer's has its counter.
LEMMA HasCounter ==
  ASSUME TypeOK, ProducerInv, NEW r \in Nat, r =< enq_row
  PROVE  Counter(r) \in DOMAIN heads /\ heads[Counter(r)] \in Nat
<1>1. /\ heads \in [0 .. NumConsumers - 1 -> Nat] /\ DOMAIN heads = 0 .. NumConsumers - 1
      /\ enq_row \in Nat /\ NumConsumers \in Nat
  BY BitmapAssumption DEF TypeOK, Gens
<1>2. Counter(enq_row) \in 0 .. NumConsumers - 1
  BY <1>1 DEF ProducerInv
<1>3. Counter(r) \in Nat /\ Counter(r) =< Counter(enq_row) /\ Counter(enq_row) \in Nat
  BY <1>1, CounterIs
<1>4. Counter(r) \in 0 .. NumConsumers - 1
  BY <1>1, <1>2, <1>3
<1> QED
  BY <1>1, <1>4

\* The rows a consumer works in are rows the producer announced.
LEMMA RowsOf ==
  ASSUME TypeOK, ProducerInv, ConsumerInv, NEW c \in Consumers
  PROVE  /\ deq_row[c] \in Nat /\ last_deq_row[c] \in Nat /\ row \in Nat /\ enq_row \in Nat
         /\ row =< enq_row /\ deq_row[c] =< enq_row /\ last_deq_row[c] =< deq_row[c]
         /\ last_deq_row[c] =< row
<1>1. deq_row[c] \in Nat /\ last_deq_row[c] \in Nat /\ row \in Nat /\ enq_row \in Nat
  BY DEF TypeOK, Gens
<1>2. row =< enq_row
  BY <1>1 DEF ProducerInv, TypeOK
<1>3. deq_row[c] =< row /\ last_deq_row[c] =< deq_row[c]
  BY <1>1 DEF ConsumerInv
<1> QED
  BY <1>1, <1>2, <1>3

\* Where the producer puts.
LEMMA EnqSwapAt ==
  ASSUME TypeOK, ProducerInv, EnqSwap
  PROVE  LET at == FindSafeIndexFrom(tail, map)
         IN /\ at \in map /\ at \in Columns /\ at \in Nat /\ tail \in Nat
            /\ tail =< at \/ (at = 0 /\ 0 < tail)
            /\ \A b \in map : tail =< b => at =< b
            /\ items[at].data \in Nat \cup {L, T} /\ items[at].gen \in Nat
            /\ sent \in Nat
<1> DEFINE at == FindSafeIndexFrom(tail, map)
<1>1. map \subseteq Columns /\ 0 \in map /\ tail \in Columns /\ Columns \subseteq Nat
  BY DEF ProducerInv, TypeOK, Columns
<1>2. /\ at \in map
      /\ \/ tail =< at /\ \A b \in map : tail =< b => at =< b
         \/ at < tail /\ \A b \in map : b < tail /\ at =< b
  BY <1>1, FindSafe
<1> HIDE DEF at
<1>3. at \in Nat /\ tail \in Nat
  BY <1>1, <1>2
<1>4. tail =< at \/ (at = 0 /\ 0 < tail)
  BY <1>1, <1>2, <1>3
<1>5. \A b \in map : tail =< b => at =< b
  BY <1>1, <1>2, <1>3
<1>6. items[at].data \in Nat \cup {L, T} /\ items[at].gen \in Nat /\ sent \in Nat
  BY <1>1, <1>2 DEF TypeOK, Gens
<1> QED
  BY <1>1, <1>2, <1>3, <1>4, <1>5, <1>6 DEF at

\* What a row change does to the map.
LEMMA EnqSyncMap ==
  ASSUME TypeOK, ProducerInv, EnqSync
  PROVE  /\ map' \subseteq Columns /\ 0 \in map' /\ tail' = 0
         /\ enq_row' = enq_row + 1 /\ enq_row' \in Gens /\ row = enq_row
         /\ sync' = [sync EXCEPT ![enq_row] = map'] /\ enq_row \in Gens
<1>1. /\ map \subseteq Columns /\ tail \in map /\ map' \in Heuristic(map, tail) /\ 0 \in map
      /\ Columns = 0 .. Cols - 1 /\ enq_row \in Gens /\ RoomForRow /\ row = enq_row
      /\ enq_row' = enq_row + 1 /\ tail' = FindSafeIndexFrom(0, map')
      /\ sync' = [sync EXCEPT ![enq_row] = map']
  BY DEF EnqSync, ProducerInv, Columns, TypeOK
<1>2. map' \subseteq Columns /\ \A x \in Columns : x =< tail => (x \in map' <=> x \in map)
  <2> DEFINE B == map'
  <2>1. map \subseteq Columns /\ tail \in map /\ B \in Heuristic(map, tail)
    BY <1>1
  <2> HIDE DEF B
  <2>2. /\ B \subseteq Columns /\ map \ B = Predicted(map, tail)
        /\ \A x \in Columns : x =< tail => (x \in B <=> x \in map)
    BY <2>1, HeuristicIs
  <2> QED
    BY <2>2 DEF B
<1>3. 0 \in map'
  BY <1>1, <1>2
<1>4. FindSafeIndexFrom(0, map') = 0
  <2> DEFINE at == FindSafeIndexFrom(0, map')
  <2>1. /\ at \in map'
        /\ \/ 0 =< at /\ \A b \in map' : 0 =< b => at =< b
           \/ at < 0 /\ \A b \in map' : b < 0 /\ at =< b
    BY <1>2, <1>3, FindSafe
  <2> HIDE DEF at
  <2>2. at \in Nat /\ at =< 0
    BY <1>1, <1>2, <1>3, <2>1
  <2> QED
    BY <2>2 DEF at
<1>5. enq_row + 1 \in Gens
  BY <1>1, BoundsAssumption DEF RoomForRow, Gens
<1> QED
  BY <1>1, <1>2, <1>3, <1>4, <1>5

\* A draw: the number is the counter's, and the search finds the cell with that
\* number in the row's map, or that there is none.
LEMMA DrawIs ==
  ASSUME TypeOK, RowInv, NEW c \in Consumers, DeqDraw(c)
  PROVE  LET h == Counter(deq_row[c])
             N == heads[h]
             at == FindNthSafeIndex(N, cmap[c], last_index[c], last_N[c])
         IN /\ h \in DOMAIN heads /\ N \in Nat /\ deq_row[c] = last_deq_row[c]
            /\ heads' = [heads EXCEPT ![h] = N + 1]
            /\ cmap[c] \subseteq Columns /\ Remembers(cmap[c], last_index[c], last_N[c])
            /\ last_N[c] < N
            /\ at = Nth(cmap[c], N)
            /\ \/ at = -1
               \/ at \in cmap[c] /\ at \in Columns /\ Rank(cmap[c], at) = N
<1> DEFINE h == Counter(deq_row[c])
           N == heads[h]
           at == FindNthSafeIndex(N, cmap[c], last_index[c], last_N[c])
<1>1. h \in DOMAIN heads /\ N \in Nat
  BY RowsOf, HasCounter DEF RowInv
<1>2. heads' = [heads EXCEPT ![h] = N + 1]
  BY <1>1 DEF DeqDraw, Draw
<1>3. cmap[c] \subseteq Columns /\ cmap[c] \subseteq Bits
  BY BitsAreColumns DEF TypeOK
<1>4. /\ deq_row[c] = last_deq_row[c] /\ Remembers(cmap[c], last_index[c], last_N[c])
      /\ last_N[c] < N
  BY DEF RowInv, ConsumerInv, DeqDraw
<1> HIDE DEF h, N
<1>5. at = Nth(cmap[c], N)
  BY <1>1, <1>3, <1>4, FindNthIsNth
<1>6. IsFiniteSet(cmap[c]) /\ cmap[c] \subseteq Int
  <2>1. IsFiniteSet(cmap[c]) /\ cmap[c] \subseteq Nat
    BY <1>3, BitsFinite
  <2> QED
    BY <2>1
<1> HIDE DEF at
<1>7. at = -1 \/ (at \in cmap[c] /\ Rank(cmap[c], at) = N)
  BY <1>5, <1>6, NthAnswer
<1>8. at = -1 \/ (at \in cmap[c] /\ at \in Columns /\ Rank(cmap[c], at) = N)
  BY <1>3, <1>7
<1> QED
  BY <1>1, <1>2, <1>3, <1>4, <1>5, <1>8 DEF h, N, at

-----------------------------------------------------------------------------
(***************************************************************************)
(* Types.                                                                  *)
(***************************************************************************)

\* The columns are numbers from 0.
LEMMA ColumnsAre == Columns = 0 .. Cols - 1 /\ 0 \in Columns /\ Cols \in Nat \ {0}
  BY BitmapAssumption DEF Columns

\* The hint of the next search is the next column, or 0.
LEMMA AfterIs ==
  ASSUME NEW at \in Columns
  PROVE  /\ After(at) \in Columns
         /\ After(at) # 0 => After(at) = at + 1
<1>1. Cols \in Nat \ {0} /\ at \in 0 .. Cols - 1
  BY ColumnsAre
<1>2. CASE at + 1 < Cols
  <2>1. (at + 1) % Cols = at + 1
    BY <1>1, <1>2, Z3
  <2> QED
    BY <1>1, <1>2, <2>1 DEF After, Columns
<1>3. CASE ~(at + 1 < Cols)
  <2>1. at + 1 = Cols
    BY <1>1, <1>3
  <2>2. (at + 1) % Cols = 0
    BY <1>1, <2>1, Z3
  <2> QED
    BY <1>1, <2>2 DEF After, Columns
<1> QED
  BY <1>2, <1>3

\* The variables have their types in the beginning.
LEMMA TypeStart == Init => TypeOK
<1> SUFFICES ASSUME Init PROVE TypeOK
  OBVIOUS
<1>1. 0 \in Columns /\ 0 \in Gens /\ SetAllBits \subseteq Bits
  BY ColumnsAre, BitsAreColumns, BoundsAssumption DEF Gens
<1> QED
  BY <1>1 DEF Init, TypeOK, L, T

\* Every step keeps the types, given where searches may lead.
LEMMA TypeStep == TypeOK /\ RowInv /\ [Next]_vars => TypeOK'
<1> SUFFICES ASSUME TypeOK, RowInv, [Next]_vars PROVE TypeOK'
  OBVIOUS
<1>0. ProducerInv /\ ConsumerInv
  BY DEF RowInv
<1>1. CASE EnqSwap
  <2> DEFINE at == FindSafeIndexFrom(tail, map)
  <2>1. /\ at \in Columns /\ items[at].data \in Nat \cup {L, T} /\ sent \in Nat
    BY <1>0, <1>1, EnqSwapAt
  <2>2. After(at) \in Columns
    BY <2>1, AfterIs
  <2>3. overwritten' \subseteq Nat
    BY <1>1, <2>1 DEF EnqSwap, SwapOut, TypeOK, L, T
  <2>4. /\ items' = [items EXCEPT ![at] = [data |-> sent, gen |-> enq_row]]
        /\ sent' = sent + 1 /\ (tail' = at \/ tail' = After(at)) /\ ppc' \in {ppc, "sync"}
        /\ UNCHANGED <<heads, row, sync, bitmap, enq_row, map, consumer>>
    BY <1>1 DEF EnqSwap
  <2> HIDE DEF at
  <2> QED
    BY <2>1, <2>2, <2>3, <2>4 DEF TypeOK, consumer, cursor
<1>2. CASE EnqSync
  <2>1. /\ map' \subseteq Bits /\ tail' \in Columns /\ enq_row' \in Gens
        /\ sync' = [sync EXCEPT ![enq_row] = map']
    BY <1>0, <1>2, EnqSyncMap, ColumnsAre, BitsAreColumns
  <2> QED
    BY <1>2, <2>1 DEF EnqSync, TypeOK, consumer, cursor
<1>3. CASE EnqSwapAgain
  <2>1. sent - 1 \in Nat /\ tail \in Columns /\ items[tail].data \in Nat \cup {L, T}
    BY <1>0, <1>3 DEF EnqSwapAgain, ProducerInv, TypeOK
  <2>2. overwritten' \subseteq Nat
    BY <1>3, <2>1 DEF EnqSwapAgain, SwapOut, TypeOK, L, T
  <2> QED
    BY <1>3, <2>1, <2>2 DEF EnqSwapAgain, TypeOK, consumer, cursor
<1>4. CASE EnqAnnounce
  <2>1. After(tail) \in Columns
    BY AfterIs DEF TypeOK
  <2> QED
    BY <1>4, <2>1 DEF EnqAnnounce, TypeOK, consumer, cursor
<1>5. ASSUME NEW c \in Consumers, DeqReadRow(c) PROVE TypeOK'
  BY <1>5 DEF DeqReadRow, Go, TypeOK, producer, cursor
<1>6. ASSUME NEW c \in Consumers, DeqGetMap(c) PROVE TypeOK'
  <2>1. deq_row[c] - 1 \in Gens
    <3>1. last_deq_row[c] < deq_row[c] /\ deq_row[c] \in Gens /\ last_deq_row[c] \in Gens
      BY <1>0, <1>6 DEF DeqGetMap, ConsumerInv, TypeOK
    <3> QED
      BY <3>1, BoundsAssumption DEF Gens
  <2>2. sync[deq_row[c] - 1] \in SUBSET Bits
    BY <2>1 DEF TypeOK
  <2> QED
    BY <1>6, <2>2 DEF DeqGetMap, Go, TypeOK, producer
<1>7. ASSUME NEW c \in Consumers, DeqDraw(c) PROVE TypeOK'
  <2> DEFINE h == Counter(deq_row[c])
             N == heads[h]
             at == FindNthSafeIndex(N, cmap[c], last_index[c], last_N[c])
  <2>1. /\ h \in DOMAIN heads /\ N \in Nat /\ heads' = [heads EXCEPT ![h] = N + 1]
        /\ at = -1 \/ at \in Columns
    BY <1>7, DrawIs
  <2>2. heads' \in [0 .. NumConsumers - 1 -> Nat]
    BY <2>1 DEF TypeOK
  <2> HIDE DEF h, N, at
  <2>3. /\ last_value' \in [Consumers -> {L, T}] /\ cpc' \in [Consumers -> {"idle", "map", "draw", "swap", "mark"}]
        /\ last_index' \in [Consumers -> Columns \cup {-1}] /\ last_N' \in [Consumers -> Nat \cup {-1}]
    BY <1>7, <2>1 DEF DeqDraw, Go, TypeOK, h, N, at
  <2> QED
    BY <1>7, <2>2, <2>3 DEF DeqDraw, TypeOK, producer
<1>8. ASSUME NEW c \in Consumers, DeqSwap(c) PROVE TypeOK'
  <2> DEFINE at == last_index[c]
  <2>1. at \in Columns /\ items[at].data \in Nat \cup {L, T} /\ deq_row[c] \in Gens
    BY <1>0, <1>8 DEF DeqSwap, ConsumerInv, TypeOK
  <2>2. items' \in [Columns -> [data : Nat \cup {L, T}, gen : Gens]]
    BY <1>8, <2>1 DEF DeqSwap, TypeOK
  <2>3. got' \in [Consumers -> Seq(Nat \cup {T})]
    <3>1. CASE NoItem(items[at], deq_row[c])
      BY <1>8, <3>1 DEF DeqSwap, TypeOK
    <3>2. CASE ~NoItem(items[at], deq_row[c])
      <4>1. items[at].data \in Nat \cup {T}
        BY <2>1, <3>2 DEF NoItem
      <4>2. Append(got[c], items[at].data) \in Seq(Nat \cup {T})
        BY <4>1 DEF TypeOK
      <4>3. got' = [got EXCEPT ![c] = Append(got[c], items[at].data)]
        BY <1>8, <3>2 DEF DeqSwap
      <4> QED
        BY <4>2, <4>3 DEF TypeOK
    <3> QED
      BY <3>1, <3>2
  <2>4. last_value' \in [Consumers -> {L, T}]
    BY <1>8 DEF DeqSwap, TypeOK
  <2> QED
    BY <1>8, <2>2, <2>3, <2>4 DEF DeqSwap, Go, TypeOK, producer, cursor
<1>9. ASSUME NEW c \in Consumers, DeqMark(c) PROVE TypeOK'
  <2>1. last_index[c] \in Columns
    BY <1>0, <1>9 DEF DeqMark, ConsumerInv, TypeOK
  <2> QED
    BY <1>9, <2>1 DEF DeqMark, Go, TypeOK, producer, cursor
<1>10. CASE UNCHANGED vars
  BY <1>10 DEF vars, producer, consumer, cursor, TypeOK
<1> QED
  BY <1>1, <1>2, <1>3, <1>4, <1>5, <1>6, <1>7, <1>8, <1>9, <1>10 DEF Next, Producer, Consumer

-----------------------------------------------------------------------------
(***************************************************************************)
(* Rows and draws.                                                         *)
(***************************************************************************)

\* In the beginning everybody is in row 0 with its map and drew nothing.
LEMMA RowStart == Init => RowInv
<1> SUFFICES ASSUME Init PROVE RowInv
  OBVIOUS
<1>1. /\ 0 \in Columns /\ SetAllBits = Columns /\ Counter(0) = 0
      /\ 0 \in 0 .. NumConsumers - 1
  BY ColumnsAre, BitsAreColumns, CounterIs, BitmapAssumption
<1>2. ProducerInv
  BY <1>1 DEF Init, ProducerInv
<1>3. ConsumerInv
  BY <1>1 DEF Init, ConsumerInv, RowMap, Remembers
<1>4. DrawnOnce
  BY DEF Init, DrawnOnce
<1> QED
  BY <1>2, <1>3, <1>4 DEF RowInv

\* A step of the producer leaves the maps of announced rows alone.
LEMMA RowMapStays ==
  ASSUME TypeOK, ProducerInv, ConsumerInv, [Next]_vars, NEW r \in Nat, r =< enq_row
  PROVE  RowMap(r)' = RowMap(r)
<1>1. CASE EnqSync
  <2>1. sync' = [sync EXCEPT ![enq_row] = map'] /\ enq_row \in Nat /\ sync \in [Gens -> SUBSET Bits]
    BY <1>1, EnqSyncMap DEF TypeOK, Gens
  <2>2. r # 0 => r - 1 # enq_row
    BY <2>1
  <2> QED
    BY <2>1, <2>2 DEF RowMap
<1>2. CASE ~EnqSync
  <2>1. UNCHANGED sync
    BY <1>2 DEF Next, Producer, Consumer, EnqSwap, EnqSwapAgain, EnqAnnounce, DeqReadRow, DeqGetMap,
                DeqDraw, DeqSwap, DeqMark, vars, producer, consumer, cursor
  <2> QED
    BY <2>1 DEF RowMap
<1> QED
  BY <1>1, <1>2

\* Every step keeps what RowInv says of rows and draws.
LEMMA RowStep == TypeOK /\ TypeOK' /\ RowInv /\ [Next]_vars => RowInv'
<1> SUFFICES ASSUME TypeOK, TypeOK', RowInv, [Next]_vars PROVE RowInv'
  OBVIOUS
<1>0. ProducerInv /\ ConsumerInv /\ DrawnOnce
  BY DEF RowInv
<1>1. CASE Producer
  <2>1. UNCHANGED <<heads, cpc, deq_row, last_deq_row, cmap, last_index, last_N>>
    BY <1>1 DEF Producer, EnqSwap, EnqSync, EnqSwapAgain, EnqAnnounce, consumer, cursor
  <2>2. ProducerInv'
    <3>1. CASE EnqSwap
      <4>1. FindSafeIndexFrom(tail, map) \in map /\ sent \in Nat
        BY <1>0, <3>1, EnqSwapAt
      <4>2. sent' # 0
        BY <3>1, <4>1 DEF EnqSwap
      <4> QED
        BY <1>0, <2>1, <3>1, <4>1, <4>2 DEF EnqSwap, ProducerInv, RoomForRow
    <3>2. CASE EnqSync
      <4>1. /\ map' \subseteq Columns /\ 0 \in map' /\ tail' = 0
            /\ enq_row' = enq_row + 1 /\ row = enq_row /\ sent # 0
        BY <1>0, <3>2, EnqSyncMap DEF EnqSync, ProducerInv
      <4>2. Counter(enq_row + 1) \in DOMAIN heads
        BY <1>0, <3>2 DEF EnqSync, ProducerInv, RoomForRow
      <4> QED
        BY <2>1, <3>2, <4>1, <4>2 DEF EnqSync, ProducerInv
    <3>3. CASE EnqSwapAgain
      BY <1>0, <2>1, <3>3 DEF EnqSwapAgain, ProducerInv
    <3>4. CASE EnqAnnounce
      BY <1>0, <2>1, <3>4 DEF EnqAnnounce, ProducerInv
    <3> QED
      BY <1>1, <3>1, <3>2, <3>3, <3>4 DEF Producer
  <2>3. row =< row'
    <3>1. row \in Nat /\ enq_row \in Nat
      BY DEF TypeOK, Gens
    <3> QED
      BY <1>0, <1>1, <3>1 DEF Producer, EnqSwap, EnqSync, EnqSwapAgain, EnqAnnounce, ProducerInv
  <2>4. ASSUME NEW c \in Consumers
        PROVE  /\ RowMap(last_deq_row[c])' = RowMap(last_deq_row[c])
               /\ deq_row[c] =< row'
    <3>1. last_deq_row[c] \in Nat /\ last_deq_row[c] =< enq_row /\ deq_row[c] \in Nat /\ deq_row[c] =< row
      BY <1>0, RowsOf DEF ConsumerInv
    <3>2. row \in Nat /\ row' \in Nat
      BY DEF TypeOK, Gens
    <3>3. \A r \in Nat : r =< enq_row => RowMap(r)' = RowMap(r)
      BY <1>0, RowMapStays
    <3> QED
      BY <2>1, <2>3, <3>1, <3>2, <3>3
  <2>5. ConsumerInv'
    BY <1>0, <2>1, <2>4 DEF ConsumerInv
  <2>6. DrawnOnce'
    BY <1>0, <2>1 DEF DrawnOnce
  <2> QED
    BY <2>2, <2>5, <2>6 DEF RowInv
<1>2. ASSUME NEW c \in Consumers, Consumer(c) PROVE RowInv'
  <2>1. UNCHANGED <<row, sync, producer>> /\ DOMAIN heads' = DOMAIN heads
    <3>1. DOMAIN heads = 0 .. NumConsumers - 1 /\ DOMAIN heads' = 0 .. NumConsumers - 1
      BY DEF TypeOK
    <3> QED
      BY <1>2, <3>1 DEF Consumer, DeqReadRow, DeqGetMap, DeqDraw, DeqSwap, DeqMark
  <2>2. ProducerInv'
    BY <1>0, <2>1 DEF ProducerInv, producer, RoomForRow
  <2>3. \A r : RowMap(r)' = RowMap(r)
    BY <2>1 DEF RowMap
  <2>4. CASE DeqReadRow(c)
    <3>1. /\ UNCHANGED <<heads, last_deq_row, cmap, last_index, last_N>>
          /\ \A d \in Consumers : d # c => cpc'[d] = cpc[d] /\ deq_row'[d] = deq_row[d]
          /\ deq_row'[c] = row /\ cpc'[c] \in {"map", "draw"}
          /\ cpc'[c] = "draw" => row = last_deq_row[c]
          /\ cpc'[c] = "map" => row # last_deq_row[c]
      BY <2>4 DEF DeqReadRow, Go, cursor, TypeOK
    <3>2. last_deq_row[c] =< row /\ row \in Nat /\ last_deq_row[c] \in Nat
      BY <1>0, RowsOf
    <3>3. ConsumerInv'
      <4> SUFFICES ASSUME NEW d \in Consumers
                   PROVE  /\ deq_row'[d] =< row'
                          /\ cpc'[d] = "map" => last_deq_row'[d] < deq_row'[d]
                          /\ cpc'[d] # "map" => last_deq_row'[d] = deq_row'[d]
                          /\ cmap'[d] = RowMap(last_deq_row[d])'
                          /\ Remembers(cmap'[d], last_index'[d], last_N'[d])
                          /\ last_N'[d] < heads'[Counter(last_deq_row'[d])]
                          /\ cpc'[d] \in {"swap", "mark"} => last_index'[d] # -1
        BY DEF ConsumerInv
      <4>1. CASE d = c
        BY <1>0, <2>1, <2>3, <3>1, <3>2, <4>1 DEF ConsumerInv
      <4>2. CASE d # c
        BY <1>0, <2>1, <2>3, <3>1, <4>2 DEF ConsumerInv
      <4> QED
        BY <4>1, <4>2
    <3>4. DrawnOnce'
      BY <1>0, <3>1 DEF DrawnOnce
    <3> QED
      BY <2>2, <3>3, <3>4 DEF RowInv
  <2>5. CASE DeqGetMap(c)
    <3>1. /\ UNCHANGED <<heads, deq_row>>
          /\ \A d \in Consumers : d # c => /\ cpc'[d] = cpc[d] /\ last_deq_row'[d] = last_deq_row[d]
                                          /\ cmap'[d] = cmap[d] /\ last_index'[d] = last_index[d]
                                          /\ last_N'[d] = last_N[d]
          /\ cmap'[c] = sync[deq_row[c] - 1] /\ cpc'[c] = "draw" /\ last_deq_row'[c] = deq_row[c]
          /\ last_index'[c] = -1 /\ last_N'[c] = -1
      BY <2>5 DEF DeqGetMap, Go, TypeOK
    <3>2. /\ deq_row[c] # 0 /\ deq_row[c] =< row
          /\ heads[Counter(deq_row[c])] \in Nat
      <4>1. /\ deq_row[c] \in Nat /\ last_deq_row[c] \in Nat /\ deq_row[c] =< enq_row
            /\ last_deq_row[c] < deq_row[c] /\ deq_row[c] =< row
        BY <1>0, <2>5, RowsOf DEF ConsumerInv, DeqGetMap
      <4> QED
        BY <1>0, <4>1, HasCounter
    <3>3. ConsumerInv'
      <4> SUFFICES ASSUME NEW d \in Consumers
                   PROVE  /\ deq_row'[d] =< row'
                          /\ cpc'[d] = "map" => last_deq_row'[d] < deq_row'[d]
                          /\ cpc'[d] # "map" => last_deq_row'[d] = deq_row'[d]
                          /\ cmap'[d] = RowMap(last_deq_row[d])'
                          /\ Remembers(cmap'[d], last_index'[d], last_N'[d])
                          /\ last_N'[d] < heads'[Counter(last_deq_row'[d])]
                          /\ cpc'[d] \in {"swap", "mark"} => last_index'[d] # -1
        BY DEF ConsumerInv
      <4>1. CASE d = c
        BY <2>1, <2>3, <3>1, <3>2, <4>1 DEF RowMap, Remembers
      <4>2. CASE d # c
        BY <1>0, <2>1, <2>3, <3>1, <4>2 DEF ConsumerInv
      <4> QED
        BY <4>1, <4>2
    <3>4. DrawnOnce'
      BY <1>0, <3>1 DEF DrawnOnce
    <3> QED
      BY <2>2, <3>3, <3>4 DEF RowInv
  <2>6. CASE DeqDraw(c)
    <3> DEFINE h == Counter(deq_row[c])
               N == heads[h]
               at == FindNthSafeIndex(N, cmap[c], last_index[c], last_N[c])
    <3>1. /\ h \in DOMAIN heads /\ N \in Nat /\ deq_row[c] = last_deq_row[c]
          /\ heads' = [heads EXCEPT ![h] = N + 1]
          /\ Remembers(cmap[c], last_index[c], last_N[c]) /\ last_N[c] < N
          /\ at = -1 \/ (at \in cmap[c] /\ at \in Columns /\ Rank(cmap[c], at) = N)
      BY <2>6, DrawIs
    <3>2. /\ UNCHANGED <<deq_row, last_deq_row, cmap>>
          /\ \A d \in Consumers : d # c => /\ cpc'[d] = cpc[d] /\ last_index'[d] = last_index[d]
                                          /\ last_N'[d] = last_N[d]
          /\ \/ at = -1 /\ cpc'[c] = "idle" /\ UNCHANGED <<last_index, last_N>>
             \/ at # -1 /\ cpc'[c] = "swap" /\ last_index'[c] = at /\ last_N'[c] = N
      BY <2>6 DEF DeqDraw, Go, TypeOK
    <3>3. cpc[c] = "draw" /\ h = Counter(last_deq_row[c])
      BY <2>6, <3>1 DEF DeqDraw
    <3>4. \A d \in Consumers : last_N[d] \in Int /\ last_index[d] \in Int
      BY ColumnsAre DEF TypeOK
    <3> HIDE DEF h, N, at
    <3>5. heads'[h] = N + 1 /\ heads[h] = N /\ \A k \in DOMAIN heads : heads[k] \in Nat
      BY <3>1 DEF N, TypeOK
    <3>6. \A k \in DOMAIN heads : heads'[k] = heads[k] \/ (k = h /\ heads'[k] = heads[k] + 1)
      BY <3>1, <3>5
    <3>7. \A d \in Consumers : last_N[d] < heads[Counter(last_deq_row[d])]
                             /\ Counter(last_deq_row[d]) \in DOMAIN heads
      BY <1>0, RowsOf, HasCounter DEF ConsumerInv
    <3>8. \A d \in Consumers : last_N[d] < heads'[Counter(last_deq_row[d])]
      <4> SUFFICES ASSUME NEW d \in Consumers PROVE last_N[d] < heads'[Counter(last_deq_row[d])]
        OBVIOUS
      <4> DEFINE k == Counter(last_deq_row[d])
      <4>1. k \in DOMAIN heads /\ last_N[d] < heads[k]
        BY <3>7
      <4> HIDE DEF k
      <4>2. last_N[d] < heads'[k]
        BY <3>4, <3>5, <3>6, <4>1
      <4> QED
        BY <4>2 DEF k
    <3>9. ConsumerInv'
      <4> SUFFICES ASSUME NEW d \in Consumers
                   PROVE  /\ deq_row'[d] =< row'
                          /\ cpc'[d] = "map" => last_deq_row'[d] < deq_row'[d]
                          /\ cpc'[d] # "map" => last_deq_row'[d] = deq_row'[d]
                          /\ cmap'[d] = RowMap(last_deq_row[d])'
                          /\ Remembers(cmap'[d], last_index'[d], last_N'[d])
                          /\ last_N'[d] < heads'[Counter(last_deq_row'[d])]
                          /\ cpc'[d] \in {"swap", "mark"} => last_index'[d] # -1
        BY DEF ConsumerInv
      <4>1. CASE d = c
        <5>1. Remembers(cmap'[d], last_index'[d], last_N'[d])
          BY <3>1, <3>2, <4>1 DEF Remembers
        <5>2. last_N'[d] < heads'[Counter(last_deq_row'[d])]
          BY <3>1, <3>2, <3>3, <3>5, <3>8, <4>1
        <5> QED
          BY <1>0, <2>1, <2>3, <3>2, <3>3, <4>1, <5>1, <5>2 DEF ConsumerInv
      <4>2. CASE d # c
        BY <1>0, <2>1, <2>3, <3>2, <3>8, <4>2 DEF ConsumerInv
      <4> QED
        BY <4>1, <4>2
    <3>10. DrawnOnce'
      <4>1. \A d \in Consumers : Counter(last_deq_row[d]) = h => last_N[d] # N
        BY <3>1, <3>4, <3>5, <3>7
      <4> QED
        BY <1>0, <3>2, <3>3, <4>1 DEF DrawnOnce
    <3> QED
      BY <2>2, <3>9, <3>10 DEF RowInv
  <2>7. CASE DeqSwap(c) \/ DeqMark(c)
    <3>1. /\ UNCHANGED <<heads, deq_row, last_deq_row, cmap, last_index, last_N>>
          /\ \A d \in Consumers : d # c => cpc'[d] = cpc[d]
          /\ cpc[c] \in {"swap", "mark"} /\ cpc'[c] \in {"mark", "idle"}
      BY <2>7 DEF DeqSwap, DeqMark, Go, cursor, TypeOK
    <3>2. \A d \in Consumers : /\ cpc[d] = "map" <=> cpc'[d] = "map"
                             /\ cpc'[d] \in {"swap", "mark"} => cpc[d] \in {"swap", "mark"}
      BY <3>1
    <3>3. ConsumerInv'
      BY <1>0, <2>1, <2>3, <3>1, <3>2 DEF ConsumerInv
    <3>4. DrawnOnce'
      BY <1>0, <3>1 DEF DrawnOnce
    <3> QED
      BY <2>2, <3>3, <3>4 DEF RowInv
  <2> QED
    BY <1>2, <2>4, <2>5, <2>6, <2>7 DEF Consumer
<1>3. CASE UNCHANGED vars
  <2>1. \A r : RowMap(r)' = RowMap(r)
    BY <1>3 DEF vars, RowMap
  <2> QED
    BY <1>3, <1>0, <2>1 DEF vars, producer, consumer, cursor, RowInv, ProducerInv, ConsumerInv, DrawnOnce,
                            RoomForRow
<1> QED
  BY <1>1, <1>2, <1>3 DEF Next

\* The variables of BBQ keep their types, and rows and draws are as RowInv says.
THEOREM TypeCorrect == Spec => [](TypeOK /\ RowInv)
<1>1. Init => TypeOK /\ RowInv
  BY TypeStart, RowStart
<1>2. TypeOK /\ RowInv /\ [Next]_vars => (TypeOK /\ RowInv)'
  BY TypeStep, RowStep
<1> QED
  BY <1>1, <1>2, PTL DEF Spec

\* The type invariant the run checks.
THEOREM TypeOKHolds == Spec => []TypeOK
<1>1. TypeOK /\ RowInv => TypeOK
  OBVIOUS
<1> QED
  BY <1>1, TypeCorrect, PTL

\* Consumers in one row have one map; their numbers differ, so their cells do.
LEMMA DifferentCells ==
  ASSUME TypeOK, RowInv, NEW c \in Consumers, NEW d \in Consumers, c # d,
         last_deq_row[c] = last_deq_row[d], last_index[c] = last_index[d], last_index[c] # -1
  PROVE  FALSE
<1> DEFINE A == cmap[c]
<1>1. A = cmap[d] /\ Remembers(A, last_index[c], last_N[c]) /\ Remembers(A, last_index[d], last_N[d])
  BY DEF RowInv, ConsumerInv
<1>2. last_N[c] = Rank(A, last_index[c]) /\ last_N[d] = Rank(A, last_index[c]) /\ last_N[c] \in Nat
  BY <1>1 DEF Remembers
<1>3. last_N[c] # last_N[d]
  BY <1>2 DEF RowInv, DrawnOnce
<1> QED
  BY <1>2, <1>3

\* Consumers share a row without conflict: whoever works in it has the map that
\* was put for it, and no two are on their way to one of its cells.
THEOREM RowSharedHolds == Spec => []RowShared
<1>1. TypeOK /\ RowInv => RowShared
  <2> SUFFICES ASSUME TypeOK, RowInv PROVE RowShared
    OBVIOUS
  <2>1. SameMap
    BY DEF SameMap, RowInv, ConsumerInv, RowMap, TypeOK, Gens
  <2>2. CellsOnce
    <3> SUFFICES ASSUME NEW c \in Consumers, NEW d \in Consumers,
                        c # d, cpc[c] = "swap", cpc[d] = "swap", last_index[c] = last_index[d],
                        deq_row[c] = deq_row[d]
                 PROVE  FALSE
      BY DEF CellsOnce
    <3>1. last_deq_row[c] = last_deq_row[d] /\ last_index[c] # -1
      BY DEF RowInv, ConsumerInv
    <3> QED
      BY <3>1, DifferentCells
  <2> QED
    BY <2>1, <2>2 DEF RowShared
<1> QED
  BY <1>1, TypeCorrect, PTL

\* Both searches find what counting finds, on every map that arises; so enqueue
\* never fails.
THEOREM SearchesRightHolds == Spec => []SearchesRight
<1>1. TypeOK /\ RowInv => SearchesRight
  <2> SUFFICES ASSUME TypeOK, RowInv PROVE SearchesRight
    OBVIOUS
  <2>1. ASSUME NEW c \in Consumers, NEW N \in 0 .. Cols + 1
        PROVE  FindNthSafeIndex(N, cmap[c], last_index[c], last_N[c]) = Nth(cmap[c], N)
    <3>1. /\ cmap[c] \subseteq Bits /\ N \in Nat
          /\ Remembers(cmap[c], last_index[c], last_N[c])
      BY DEF TypeOK, RowInv, ConsumerInv
    <3> QED
      BY <3>1, FindNthIsNth
  <2>2. ASSUME NEW start \in Columns
        PROVE  LET at == FindSafeIndexFrom(start, map)
                   Far(b) == IF b < start THEN b + Words * W ELSE b
               IN at \in map /\ \A b \in map : Far(at) =< Far(b)
    <3> DEFINE at == FindSafeIndexFrom(start, map)
    <3>1. map \subseteq Columns /\ map # {} /\ start \in Nat /\ start < Cols
      BY ColumnsAre DEF RowInv, ProducerInv
    <3>2. /\ at \in map
          /\ \/ start =< at /\ \A b \in map : start =< b => at =< b
             \/ at < start /\ \A b \in map : b < start /\ at =< b
      BY <3>1, FindSafe
    <3>3. \A b \in map : b \in Nat /\ b < Cols
      BY <3>1, ColumnsAre
    <3> HIDE DEF at
    <3> DEFINE size == Words * W
    <3>4. size = Cols /\ Cols \in Nat
      BY BitsAreColumns, ColumnsAre
    <3> HIDE DEF size
    <3>5. \A b \in map : (IF at < start THEN at + size ELSE at) =< (IF b < start THEN b + size ELSE b)
      BY <3>1, <3>2, <3>3, <3>4
    <3> QED
      BY <3>2, <3>5 DEF at, size
  <2> QED
    BY <2>1, <2>2 DEF SearchesRight, FindsNth, FindsNearest
<1> QED
  BY <1>1, TypeCorrect, PTL

-----------------------------------------------------------------------------
(***************************************************************************)
(* Values.                                                                 *)
(***************************************************************************)

\* The rank of a column in a row's map.
LEMMA RowMapIs ==
  ASSUME TypeOK, ProducerInv, NEW r \in Nat, r =< enq_row
  PROVE  /\ RowMap(r) \subseteq Columns /\ RowMap(r) \subseteq Int /\ IsFiniteSet(RowMap(r))
         /\ \A x : Rank(RowMap(r), x) \in Nat
<1>1. RowMap(r) \subseteq Columns
  <2>1. CASE r = 0
    BY <2>1, BitsAreColumns DEF RowMap
  <2>2. CASE r # 0
    <3>1. r - 1 \in Gens
      BY <2>2, BoundsAssumption DEF Gens, TypeOK
    <3> QED
      BY <2>2, <3>1, BitsAreColumns DEF RowMap, TypeOK
  <2> QED
    BY <2>1, <2>2
<1>2. RowMap(r) \subseteq Bits
  BY <1>1, BitsAreColumns
<1>3. IsFiniteSet(RowMap(r)) /\ RowMap(r) \subseteq Nat
  BY <1>2, BitsFinite
<1>4. \A x : Rank(RowMap(r), x) \in Nat
  BY <1>3, RankType
<1> QED
  BY <1>1, <1>3, <1>4

\* A counter only grows.
LEMMA HeadsGrow ==
  ASSUME TypeOK, RowInv, [Next]_vars, NEW k \in DOMAIN heads
  PROVE  heads[k] \in Nat /\ heads'[k] \in Nat /\ heads[k] =< heads'[k]
<1>1. heads[k] \in Nat
  BY DEF TypeOK
<1>2. ASSUME NEW c \in Consumers, DeqDraw(c) PROVE heads'[k] \in Nat /\ heads[k] =< heads'[k]
  <2> DEFINE h == Counter(deq_row[c])
             N == heads[h]
  <2>1. h \in DOMAIN heads /\ N \in Nat /\ heads' = [heads EXCEPT ![h] = N + 1]
    BY <1>2, DrawIs
  <2> HIDE DEF h
  <2> QED
    BY <1>1, <2>1
<1>3. CASE ~(\E c \in Consumers : DeqDraw(c))
  <2>1. UNCHANGED heads
    BY <1>3 DEF Next, Producer, Consumer, EnqSwap, EnqSync, EnqSwapAgain, EnqAnnounce, DeqReadRow,
                DeqGetMap, DeqSwap, DeqMark, vars, producer, consumer, cursor
  <2> QED
    BY <1>1, <2>1
<1> QED
  BY <1>1, <1>2, <1>3

\* Who is on the way to a cell after a step was so before, or drew its number
\* in the step.
LEMMA OnTheWay ==
  ASSUME TypeOK, RowInv, [Next]_vars, NEW d \in Consumers, cpc'[d] = "swap"
  PROVE  \/ cpc[d] = "swap" /\ last_deq_row'[d] = last_deq_row[d] /\ last_index'[d] = last_index[d]
         \/ /\ DeqDraw(d) /\ last_deq_row'[d] = last_deq_row[d]
            /\ Rank(RowMap(last_deq_row[d]), last_index'[d]) = heads[Counter(last_deq_row[d])]
<1>1. CASE DeqDraw(d)
  <2> DEFINE h == Counter(deq_row[d])
             N == heads[h]
             at == FindNthSafeIndex(N, cmap[d], last_index[d], last_N[d])
  <2>1. deq_row[d] = last_deq_row[d] /\ (at = -1 \/ Rank(cmap[d], at) = N)
    BY <1>1, DrawIs
  <2>2. /\ last_deq_row' = last_deq_row
        /\ at # -1 /\ last_index' = [last_index EXCEPT ![d] = at]
    BY <1>1 DEF DeqDraw, Go, TypeOK
  <2>3. last_index'[d] = at
    BY <2>2 DEF TypeOK
  <2>4. cmap[d] = RowMap(last_deq_row[d])
    BY DEF RowInv, ConsumerInv
  <2> HIDE DEF at
  <2> QED
    BY <1>1, <2>1, <2>2, <2>3, <2>4
<1>2. ASSUME NEW c \in Consumers, Consumer(c), ~DeqDraw(d) PROVE
         cpc[d] = "swap" /\ last_deq_row'[d] = last_deq_row[d] /\ last_index'[d] = last_index[d]
  <2>1. CASE c = d
    BY <1>2, <2>1 DEF Consumer, DeqReadRow, DeqGetMap, DeqSwap, DeqMark, Go, TypeOK
  <2>2. CASE c # d
    BY <1>2, <2>2 DEF Consumer, DeqReadRow, DeqGetMap, DeqDraw, DeqSwap, DeqMark, Go, TypeOK, cursor
  <2> QED
    BY <2>1, <2>2
<1>3. CASE Producer \/ UNCHANGED vars
  BY <1>3 DEF Producer, EnqSwap, EnqSync, EnqSwapAgain, EnqAnnounce, vars, consumer, cursor
<1> QED
  BY <1>1, <1>2, <1>3 DEF Next

\* What was taken stays so.
LEMMA TakenStays ==
  ASSUME TypeOK, RowInv, [Next]_vars, NEW r \in Nat, r =< enq_row, NEW x, Taken(r, x)
  PROVE  Taken(r, x)'
<1> DEFINE k == Counter(r)
<1>1. ProducerInv /\ ConsumerInv
  BY DEF RowInv
<1>2. RowMap(r)' = RowMap(r)
  BY <1>1, RowMapStays
<1>3. k \in DOMAIN heads /\ Rank(RowMap(r), x) \in Nat /\ Rank(RowMap(r), x) < heads[k]
  BY <1>1, HasCounter, RowMapIs DEF Taken
<1>4. heads[k] \in Nat /\ heads'[k] \in Nat /\ heads[k] =< heads'[k]
  BY <1>3, HeadsGrow
<1> HIDE DEF k
<1> DEFINE rank == Rank(RowMap(r), x)
<1>5. rank < heads'[k]
  <2> HIDE DEF rank
  <2>1. rank \in Nat /\ rank < heads[k]
    BY <1>3 DEF rank
  <2> QED
    BY <1>4, <2>1
<1>6. Rank(RowMap(r), x)' = rank
  BY <1>2 DEF Rank, Below
<1>7. ASSUME NEW d \in Consumers, cpc'[d] = "swap", last_deq_row'[d] = r, last_index'[d] = x
      PROVE  FALSE
  <2>1. CASE cpc[d] = "swap" /\ last_deq_row'[d] = last_deq_row[d] /\ last_index'[d] = last_index[d]
    BY <1>7, <2>1 DEF Taken
  <2>2. CASE Rank(RowMap(last_deq_row[d]), last_index'[d]) = heads[Counter(last_deq_row[d])]
             /\ last_deq_row'[d] = last_deq_row[d]
    <3>1. rank = heads[k]
      BY <1>7, <2>2 DEF k
    <3> HIDE DEF rank
    <3> QED
      BY <1>3, <1>4, <3>1 DEF rank
  <2> QED
    BY <1>7, <2>1, <2>2, OnTheWay
<1> QED
  BY <1>5, <1>6, <1>7 DEF Taken, k

\* Who is on the way to a cell draws a T into it; nobody else is on the way to
\* it for the same row, so that it was not taken before and is afterwards.
LEMMA SwapTakes ==
  ASSUME TypeOK, RowInv, NEW c \in Consumers, DeqSwap(c)
  PROVE  LET at == last_index[c]
             r == deq_row[c]
         IN /\ at \in Columns /\ r \in Nat /\ r =< enq_row /\ r =< row /\ r = last_deq_row[c]
            /\ ~Taken(r, at) /\ Taken(r, at)'
            /\ items' = [items EXCEPT ![at] = [data |-> T, gen |-> r]]
<1> DEFINE at == last_index[c]
           r == deq_row[c]
<1>1. ProducerInv /\ ConsumerInv /\ [Next]_vars
  BY DEF RowInv, Next, Consumer
<1>2. /\ at \in Columns /\ r \in Nat /\ r =< enq_row /\ r =< row /\ r = last_deq_row[c]
      /\ cpc[c] = "swap" /\ at # -1
  BY <1>1, RowsOf DEF ConsumerInv, DeqSwap, TypeOK
<1>3. ~Taken(r, at)
  BY <1>2 DEF Taken
<1>4. UNCHANGED <<heads, deq_row, last_deq_row, last_index>> /\ cpc' = [cpc EXCEPT ![c] = "mark"]
  BY DEF DeqSwap, Go, cursor
<1>5. Rank(RowMap(r), at)' = Rank(RowMap(r), at)
  <2>1. \A s \in Nat : s =< enq_row => RowMap(s)' = RowMap(s)
    BY <1>1, RowMapStays
  <2> QED
    BY <1>2, <1>4, <2>1 DEF Rank, Below, RowMap
<1>6. Rank(RowMap(r), at) < heads[Counter(r)]
  <2>1. cmap[c] = RowMap(r) /\ Remembers(cmap[c], at, last_N[c]) /\ last_N[c] < heads[Counter(r)]
    BY <1>1, <1>2 DEF ConsumerInv
  <2> QED
    BY <1>2, <2>1 DEF Remembers
<1>7. ASSUME NEW d \in Consumers, cpc'[d] = "swap", last_deq_row[d] = r, last_index[d] = at
      PROVE  FALSE
  <2>1. d # c
    BY <1>4, <1>7 DEF TypeOK
  <2> QED
    BY <1>2, <1>7, <2>1, DifferentCells
<1>8. Taken(r, at)'
  BY <1>4, <1>5, <1>6, <1>7 DEF Taken
<1> QED
  BY <1>2, <1>3, <1>8 DEF DeqSwap

\* What was returned, value by value.
LEMMA ReturnedIs ==
  ASSUME TypeOK
  PROVE  /\ \A v : v \in Returned <=> \E c \in Consumers : \E m \in DOMAIN got[c] : got[c][m] = v
         /\ Returned \subseteq Nat \cup {T}
<1>1. \A v : v \in Returned <=> \E c \in Consumers : \E m \in DOMAIN got[c] : got[c][m] = v
  BY DEF Returned, ToSet
<1>2. \A c \in Consumers : \A m \in DOMAIN got[c] : got[c][m] \in Nat \cup {T}
  BY DEF TypeOK
<1> QED
  BY <1>1, <1>2

\* The data of a cell.
LEMMA CellIs ==
  ASSUME TypeOK, NEW x \in Columns
  PROVE  /\ items[x].data \in Nat \cup {L, T} /\ items[x].data \in Int
         /\ items[x].gen \in Nat /\ items[x].gen \in Gens
  BY DEF TypeOK, Gens, L, T

\* In the beginning there is nothing to return.
LEMMA ValueStart == Init => ValueInv
<1> SUFFICES ASSUME Init PROVE ValueInv
  OBVIOUS
<1>1. \A c \in Consumers : got[c] = <<>>
  BY DEF Init
<1>2. Returned = {}
  BY <1>1 DEF Returned, ToSet
<1>3. CellsInv
  BY DEF Init, CellsInv, L, T
<1>4. GotInv /\ ValuesOnce
  BY <1>1, <1>2 DEF GotInv, ValuesOnce
<1>5. LiveInv /\ CopyInv
  BY <1>2 DEF Init, LiveInv, CopyInv, Live, L
<1> QED
  BY <1>3, <1>4, <1>5 DEF ValueInv

\* A step that swaps nothing keeps the invariant of the values.
LEMMA QuietValueStep ==
  ASSUME TypeOK, TypeOK', RowInv, RowInv', ValueInv, [Next]_vars,
         UNCHANGED <<items, sent, got>>, enq_row =< enq_row', row =< row',
         ppc' \in {"sync", "again"} => ppc \in {"sync", "again"}
  PROVE  ValueInv'
<1>1. \A x \in Columns : items[x].gen =< enq_row /\ items[x].gen \in Nat
  BY CellIs DEF ValueInv, CellsInv
<1>2. \A x \in Columns : Taken(items[x].gen, x) => Taken(items[x].gen, x)'
  <2> SUFFICES ASSUME NEW x \in Columns, Taken(items[x].gen, x)
               PROVE  Taken(items[x].gen, x)'
    OBVIOUS
  <2> DEFINE r == items[x].gen
  <2>1. r \in Nat /\ r =< enq_row /\ r' = r
    BY <1>1
  <2> HIDE DEF r
  <2>2. \A s \in Nat : s =< enq_row /\ Taken(s, x) => Taken(s, x)'
    BY TakenStays
  <2>3. Taken(r, x)
    BY DEF r
  <2>4. Taken(r, x)'
    BY <2>1, <2>2, <2>3 DEF Taken
  <2> QED
    BY <2>4 DEF r
<1>3. \A x \in Columns : Live(x)' => Live(x)
  BY <1>2 DEF Live
<1>4. /\ enq_row \in Nat /\ enq_row' \in Nat /\ row \in Nat /\ row' \in Nat
  BY DEF TypeOK, Gens
<1>5. CellsInv'
  BY <1>1, <1>2, <1>4 DEF ValueInv, CellsInv
<1>6. Returned' = Returned
  BY DEF Returned
<1>7. GotInv' /\ ValuesOnce'
  BY <1>6 DEF ValueInv, GotInv, ValuesOnce
<1>8. LiveInv' /\ CopyInv'
  BY <1>3, <1>6 DEF ValueInv, LiveInv, CopyInv
<1> QED
  BY <1>5, <1>7, <1>8 DEF ValueInv

\* A step of the producer that puts a new or a copied value in a cell: it puts
\* what nobody returned and what is live in no other cell.
LEMMA PutValueStep ==
  ASSUME TypeOK, TypeOK', RowInv, ValueInv, Producer, NEW at \in Columns, NEW v \in Nat,
         items' = [items EXCEPT ![at] = [data |-> v, gen |-> enq_row]],
         UNCHANGED <<heads, row, sync, enq_row, consumer>>,
         sent =< sent', v < sent', v \notin Returned,
         \A x \in Columns : Live(x) => items[x].data # v,
         ppc' = "sync" => items[at].data = T /\ items[at].gen = enq_row /\ v = sent' - 1,
         ppc' # "again"
  PROVE  ValueInv'
<1>1. /\ cpc' = cpc /\ got' = got /\ last_deq_row' = last_deq_row /\ last_index' = last_index
      /\ heads' = heads /\ sync' = sync /\ row' = row /\ enq_row' = enq_row
  BY DEF consumer, cursor
<1>2. \A r, x : Taken(r, x)' <=> Taken(r, x)
  BY <1>1 DEF Taken, Rank, Below, RowMap
<1>3. /\ items'[at].data = v /\ items'[at].gen = enq_row
      /\ \A x \in Columns : x # at => items'[x] = items[x]
  BY DEF TypeOK
<1>4. \A x \in Columns : x # at => (Live(x)' <=> Live(x))
  BY <1>2, <1>3 DEF Live
<1>5. sent \in Nat /\ sent' \in Nat /\ enq_row \in Nat
  BY DEF TypeOK, Gens
<1>6. CellsInv'
  <2> SUFFICES ASSUME NEW x \in Columns
               PROVE  /\ items'[x].gen =< enq_row'
                      /\ items'[x].data < sent'
                      /\ items'[x].data = T => items'[x].gen =< row' /\ Taken(items[x].gen, x)'
    BY DEF CellsInv
  <2>1. CASE x = at
    BY <1>1, <1>3, <1>5, <2>1 DEF T
  <2>2. CASE x # at
    BY <1>1, <1>2, <1>3, <1>5, <2>2, CellIs DEF ValueInv, CellsInv
  <2> QED
    BY <2>1, <2>2
<1>7. Returned' = Returned
  BY <1>1 DEF Returned
<1>8. GotInv' /\ ValuesOnce'
  <2>1. \A u \in Returned : u < sent'
    BY <1>5, ReturnedIs DEF ValueInv, GotInv
  <2> QED
    BY <1>1, <1>7, <2>1 DEF ValueInv, GotInv, ValuesOnce
<1>9. LiveInv'
  BY <1>3, <1>4, <1>7 DEF ValueInv, LiveInv
<1>10. CopyInv'
  <2> SUFFICES ASSUME ppc' = "sync"
               PROVE  /\ sent' - 1 \notin Returned
                      /\ \A x \in Columns : Live(x)' => items'[x].data # sent' - 1
    BY <1>7 DEF CopyInv
  <2>1. v = sent' - 1 /\ Taken(enq_row, at)
    BY DEF ValueInv, CellsInv
  <2>2. ~Live(at)'
    BY <1>1, <1>2, <1>3, <2>1 DEF Live
  <2> QED
    BY <1>3, <1>4, <2>1, <2>2
<1> QED
  BY <1>6, <1>8, <1>9, <1>10 DEF ValueInv

\* A consumer that returns what it swapped out: a live value.
LEMMA ReturnStep ==
  ASSUME TypeOK, TypeOK', RowInv, RowInv', ValueInv, NEW c \in Consumers, DeqSwap(c)
  PROVE  ValueInv'
<1> DEFINE at == last_index[c]
           r == deq_row[c]
<1>0. [Next]_vars /\ UNCHANGED <<heads, row, sync, producer, deq_row, last_index, last_deq_row>>
  BY DEF Next, Consumer, DeqSwap, cursor
<1>1. /\ at \in Columns /\ r \in Nat /\ r =< enq_row /\ r =< row
      /\ ~Taken(r, at) /\ Taken(r, at)'
      /\ items' = [items EXCEPT ![at] = [data |-> T, gen |-> r]]
  BY SwapTakes
<1>2. \A s \in Nat : s =< enq_row => \A x : Taken(s, x) => Taken(s, x)'
  BY <1>0, TakenStays
<1>3. /\ items'[at].data = T /\ items'[at].gen = r
      /\ \A x \in Columns : x # at => items'[x] = items[x]
  BY <1>1 DEF TypeOK
<1>4. \A x \in Columns : Live(x)' => x # at /\ Live(x)
  <2> SUFFICES ASSUME NEW x \in Columns, Live(x)' PROVE x # at /\ Live(x)
    OBVIOUS
  <2>1. x # at
    BY <1>3 DEF Live, T
  <2>2. items[x].gen \in Nat /\ items[x].gen =< enq_row
    BY CellIs DEF ValueInv, CellsInv
  <2>3. Taken(items[x].gen, x) => Taken(items[x].gen, x)'
    BY <1>2, <1>3, <2>1, <2>2 DEF Taken, RowMap, Rank, Below
  <2> QED
    BY <1>3, <2>1, <2>3 DEF Live
<1>5. CellsInv'
  <2> SUFFICES ASSUME NEW x \in Columns
               PROVE  /\ items'[x].gen =< enq_row'
                      /\ items'[x].data < sent'
                      /\ items'[x].data = T => items'[x].gen =< row' /\ Taken(items[x].gen, x)'
    BY DEF CellsInv
  <2>0. sent \in Nat /\ sent' = sent /\ enq_row' = enq_row /\ row' = row
    BY <1>0 DEF producer, TypeOK
  <2>1. CASE x = at
    <3>1. Taken(items[x].gen, x)'
      BY <1>0, <1>1, <1>3, <2>1 DEF Taken, RowMap, Rank, Below
    <3> QED
      BY <1>1, <1>3, <2>0, <2>1, <3>1 DEF T
  <2>2. CASE x # at
    <3>1. items[x].gen \in Nat /\ items[x].gen =< enq_row
      BY CellIs DEF ValueInv, CellsInv
    <3>2. Taken(items[x].gen, x) => Taken(items[x].gen, x)'
      BY <1>2, <1>3, <2>2, <3>1 DEF Taken, RowMap, Rank, Below
    <3> QED
      BY <1>3, <2>0, <2>2, <3>1, <3>2 DEF ValueInv, CellsInv
  <2> QED
    BY <2>1, <2>2
<1>6. CASE NoItem(items[at], r)
  <2>1. got' = got
    BY <1>6 DEF DeqSwap
  <2>2. Returned' = Returned /\ sent' = sent /\ ppc' = ppc
    BY <1>0, <2>1 DEF Returned, producer
  <2>3. GotInv' /\ ValuesOnce'
    BY <2>1, <2>2 DEF ValueInv, GotInv, ValuesOnce
  <2>4. LiveInv' /\ CopyInv'
    BY <1>3, <1>4, <2>2 DEF ValueInv, LiveInv, CopyInv
  <2> QED
    BY <1>5, <2>3, <2>4 DEF ValueInv
<1>7. CASE ~NoItem(items[at], r)
  <2> DEFINE v == items[at].data
  <2>1. v \in Nat \cup {T} /\ items[at].gen = r
    BY <1>1, <1>7, CellIs DEF NoItem
  <2>2. v # T
    BY <1>1, <2>1 DEF ValueInv, CellsInv
  <2>3. v \in Nat /\ Live(at) /\ v \notin Returned /\ v < sent
    BY <1>1, <2>1, <2>2 DEF Live, ValueInv, LiveInv, CellsInv
  <2>4. \A x \in Columns : Live(x)' => Live(x) /\ items'[x].data = items[x].data /\ items[x].data # v
    BY <1>1, <1>3, <1>4, <2>3 DEF ValueInv, LiveInv
  <2>5. got' = [got EXCEPT ![c] = Append(got[c], v)]
    BY <1>7 DEF DeqSwap
  <2>6. v # sent - 1 \/ ppc \notin {"sync", "again"}
    BY <1>1, <2>3 DEF ValueInv, CopyInv
  <2>7. sent' = sent /\ ppc' = ppc
    BY <1>0 DEF producer
  <2> HIDE DEF v
  <2>8. /\ \A d \in Consumers : d # c => got'[d] = got[d]
        /\ got'[c] = Append(got[c], v) /\ got[c] \in Seq(Nat \cup {T})
    BY <2>5 DEF TypeOK
  <2>9. /\ DOMAIN got'[c] = DOMAIN got[c] \cup {Len(got[c]) + 1} /\ Len(got[c]) + 1 \notin DOMAIN got[c]
        /\ got'[c][Len(got[c]) + 1] = v /\ \A m \in DOMAIN got[c] : got'[c][m] = got[c][m]
    BY <2>1, <2>8 DEF v
  <2>10. \A u : u \in Returned' <=> u = v \/ u \in Returned
    <3>1. \A u : u \in Returned <=> \E d \in Consumers : \E m \in DOMAIN got[d] : got[d][m] = u
      BY ReturnedIs
    <3>2. \A u : u \in Returned' <=> \E d \in Consumers : \E m \in DOMAIN got'[d] : got'[d][m] = u
      BY DEF Returned, ToSet
    <3>3. ASSUME NEW u PROVE (\E d \in Consumers : \E m \in DOMAIN got'[d] : got'[d][m] = u)
                             <=> (u = v \/ \E d \in Consumers : \E m \in DOMAIN got[d] : got[d][m] = u)
      BY <2>8, <2>9
    <3> QED
      BY <3>1, <3>2, <3>3
  <2>11. GotInv'
    BY <2>2, <2>3, <2>7, <2>10 DEF ValueInv, GotInv, v
  <2>12. ValuesOnce'
    <3>1. \A d \in Consumers : \A m \in DOMAIN got[d] : got[d][m] # v
      BY <2>3, ReturnedIs
    <3>2. T \notin Returned'
      BY <2>11 DEF GotInv
    <3>3. ASSUME NEW d \in Consumers, NEW e \in Consumers, NEW m \in DOMAIN got'[d], NEW n \in DOMAIN got'[e],
                 got'[d][m] = got'[e][n]
          PROVE  d = e /\ m = n
      <4>1. (d = c /\ m = Len(got[c]) + 1 /\ got'[d][m] = v) \/ (m \in DOMAIN got[d] /\ got'[d][m] = got[d][m])
        BY <2>8, <2>9
      <4>2. (e = c /\ n = Len(got[c]) + 1 /\ got'[e][n] = v) \/ (n \in DOMAIN got[e] /\ got'[e][n] = got[e][n])
        BY <2>8, <2>9
      <4> QED
        BY <3>1, <3>3, <4>1, <4>2 DEF ValueInv, ValuesOnce
    <3> QED
      BY <3>2, <3>3 DEF ValuesOnce
  <2>13. LiveInv'
    BY <2>4, <2>10 DEF ValueInv, LiveInv
  <2>14. CopyInv'
    BY <2>4, <2>6, <2>7, <2>10 DEF ValueInv, CopyInv
  <2> QED
    BY <1>5, <2>11, <2>12, <2>13, <2>14 DEF ValueInv
<1> QED
  BY <1>6, <1>7

\* The invariant of the values is kept.
LEMMA ValueStep == TypeOK /\ TypeOK' /\ RowInv /\ RowInv' /\ ValueInv /\ [Next]_vars => ValueInv'
<1> SUFFICES ASSUME TypeOK, TypeOK', RowInv, RowInv', ValueInv, [Next]_vars PROVE ValueInv'
  OBVIOUS
<1>0. row \in Nat /\ row' \in Nat /\ enq_row \in Nat /\ sent \in Nat
  BY DEF TypeOK, Gens
<1>1. CASE EnqSwap
  <2> DEFINE at == FindSafeIndexFrom(tail, map)
  <2>1. at \in Columns
    BY <1>1, EnqSwapAt DEF RowInv
  <2>2. /\ items' = [items EXCEPT ![at] = [data |-> sent, gen |-> enq_row]]
        /\ UNCHANGED <<heads, row, sync, enq_row, consumer>> /\ sent' = sent + 1
        /\ ppc' = "sync" => items[at].data = T /\ items[at].gen = enq_row
        /\ ppc' # "again"
    BY <1>1 DEF EnqSwap, Overtaken
  <2> HIDE DEF at
  <2>3. sent \notin Returned /\ \A x \in Columns : items[x].data # sent
    BY <1>0, CellIs DEF ValueInv, GotInv, CellsInv
  <2>4. sent =< sent' /\ sent < sent' /\ sent = sent' - 1 /\ Producer
    BY <1>0, <1>1, <2>2 DEF Producer
  <2> QED
    BY <1>0, <2>1, <2>2, <2>3, <2>4, PutValueStep
<1>2. CASE EnqSwapAgain
  <2>1. /\ items' = [items EXCEPT ![tail] = [data |-> sent - 1, gen |-> enq_row]]
        /\ UNCHANGED <<heads, row, sync, enq_row, consumer>> /\ sent' = sent
        /\ ppc = "again" /\ ppc' = "announce" /\ tail \in Columns
    BY <1>2 DEF EnqSwapAgain, TypeOK
  <2>2. sent - 1 \in Nat
    BY <1>0, <2>1 DEF RowInv, ProducerInv
  <2>3. sent - 1 \notin Returned /\ \A x \in Columns : Live(x) => items[x].data # sent - 1
    BY <2>1 DEF ValueInv, CopyInv
  <2>4. sent =< sent' /\ sent - 1 < sent' /\ Producer /\ ppc' # "again" /\ ppc' # "sync"
    BY <1>0, <1>2, <2>1 DEF Producer
  <2> QED
    BY <2>1, <2>2, <2>3, <2>4, PutValueStep
<1>3. ASSUME NEW c \in Consumers, DeqSwap(c) PROVE ValueInv'
  BY <1>3, ReturnStep
<1>4. CASE EnqSync
  BY <1>0, <1>4, QuietValueStep DEF EnqSync, consumer
<1>5. CASE EnqAnnounce
  <2>1. row =< row'
    BY <1>0, <1>5 DEF EnqAnnounce, RowInv, ProducerInv
  <2> QED
    BY <1>0, <1>5, <2>1, QuietValueStep DEF EnqAnnounce, consumer
<1>6. ASSUME NEW c \in Consumers, DeqReadRow(c) \/ DeqGetMap(c) \/ DeqDraw(c) \/ DeqMark(c) PROVE ValueInv'
  <2>1. UNCHANGED <<items, sent, got, enq_row, row, ppc>>
    BY <1>6 DEF DeqReadRow, DeqGetMap, DeqDraw, DeqMark, producer
  <2> QED
    BY <1>0, <2>1, QuietValueStep
<1>7. CASE UNCHANGED vars
  <2>1. UNCHANGED <<items, sent, got, enq_row, row, ppc>>
    BY <1>7 DEF vars, consumer, producer
  <2> QED
    BY <1>0, <2>1, QuietValueStep
<1> QED
  BY <1>1, <1>2, <1>3, <1>4, <1>5, <1>6, <1>7 DEF Next, Producer, Consumer

\* Rows, draws and values together.
THEOREM ValueInvariant == Spec => [](TypeOK /\ RowInv /\ ValueInv)
<1>1. Init => TypeOK /\ RowInv /\ ValueInv
  BY TypeStart, RowStart, ValueStart
<1>2. TypeOK /\ RowInv /\ ValueInv /\ [Next]_vars => (TypeOK /\ RowInv /\ ValueInv)'
  BY TypeStep, RowStep, ValueStep
<1> QED
  BY <1>1, <1>2, PTL DEF Spec

\* No value is returned twice and no mark is returned, however often the
\* producer wraps around, overwrites and changes the row.
THEOREM ValuesOnceHolds == Spec => []ValuesOnce
<1>1. TypeOK /\ RowInv /\ ValueInv => ValuesOnce
  BY DEF ValueInv
<1> QED
  BY <1>1, ValueInvariant, PTL

-----------------------------------------------------------------------------
(***************************************************************************)
(* Order.                                                                  *)
(***************************************************************************)

\* Nothing of a map of columns is below column 0, and in row 0 the rank of a
\* column is the column.
LEMMA RanksOfColumns ==
  /\ \A A \in SUBSET Columns : Rank(A, 0) = 0
  /\ \A x \in Columns : Rank(RowMap(0), x) = x
<1>1. ASSUME NEW A \in SUBSET Columns PROVE Rank(A, 0) = 0
  <2>0. \A y \in A : ~(y < 0)
    BY ColumnsAre
  <2>1. Below(A, 0) = {}
    BY <2>0 DEF Below
  <2> QED
    BY <2>1, FS_EmptySet DEF Rank
<1>2. ASSUME NEW x \in Columns PROVE Rank(RowMap(0), x) = x
  <2>1. Below(RowMap(0), x) = 0 .. x - 1 /\ x \in Nat
    BY BitsAreColumns, ColumnsAre DEF RowMap, Below
  <2>2. Cardinality(0 .. x - 1) = x
    BY <2>1, FS_Interval
  <2> QED
    BY <2>1, <2>2 DEF Rank
<1> QED
  BY <1>1, <1>2

\* While the producer is in row 0: which cells are taken.
LEMMA TakenInFirstRow ==
  ASSUME TypeOK, RowInv, enq_row = 0
  PROVE  /\ heads[0] \in Nat /\ 0 \in DOMAIN heads /\ Counter(0) = 0
         /\ \A c \in Consumers : deq_row[c] = 0 /\ last_deq_row[c] = 0
         /\ \A x \in Columns :
              Taken(0, x) <=> /\ x < heads[0]
                              /\ \A c \in Consumers : ~(cpc[c] = "swap" /\ last_index[c] = x)
<1>1. Counter(0) = 0
  BY CounterIs
<1>2. heads[0] \in Nat /\ 0 \in DOMAIN heads
  <2>1. Counter(0) \in DOMAIN heads /\ heads[Counter(0)] \in Nat
    BY HasCounter DEF RowInv
  <2> QED
    BY <1>1, <2>1
<1>3. ASSUME NEW c \in Consumers PROVE deq_row[c] = 0 /\ last_deq_row[c] = 0
  <2>1. /\ deq_row[c] \in Nat /\ last_deq_row[c] \in Nat /\ deq_row[c] =< enq_row
        /\ last_deq_row[c] =< deq_row[c]
    BY RowsOf DEF RowInv
  <2> QED
    BY <2>1
<1> QED
  BY <1>1, <1>2, <1>3, RanksOfColumns DEF Taken

\* What the producer swaps out, when nothing is overwritten.
LEMMA NothingOut ==
  ASSUME TypeOK, NEW x \in Columns, SwapOut(items[x].data), overwritten' = {}
  PROVE  overwritten = {} /\ items[x].data \in {L, T} /\ items[x].data \notin Nat
<1>1. items[x].data \in Nat \cup {L, T}
  BY CellIs
<1>2. overwritten = {} /\ items[x].data \in {L, T}
  BY <1>1 DEF SwapOut
<1> QED
  BY <1>2 DEF L, T

\* While nothing is overwritten, the producer puts a value ahead of its last
\* one, but for the very first value, or finds that it was overtaken.
LEMMA PutsAhead ==
  ASSUME TypeOK, RowInv, ValueInv, FirstCellInv, EnqSwap, overwritten' = {}
  PROVE  LET at == FindSafeIndexFrom(tail, map)
         IN /\ at \in Columns /\ overwritten = {}
            /\ items[at].data \in {L, T} /\ items[at].data \notin Nat
            /\ \/ Overtaken(items[at])
               \/ sent = 0 /\ at = 0
               \/ 0 < tail /\ tail =< at
<1> DEFINE at == FindSafeIndexFrom(tail, map)
<1>1. /\ at \in map /\ at \in Columns /\ at \in Nat /\ tail \in Nat
      /\ tail =< at \/ (at = 0 /\ 0 < tail)
      /\ \A b \in map : tail =< b => at =< b
  BY EnqSwapAt DEF RowInv
<1>2. SwapOut(items[at].data) /\ ppc = "idle"
  BY DEF EnqSwap
<1>3. 0 \in map /\ 0 \in Columns /\ sent \in Nat /\ enq_row \in Nat /\ (sent = 0 => tail = 0)
  BY ColumnsAre DEF RowInv, ProducerInv, TypeOK, Gens
<1> HIDE DEF at
<1>4. overwritten = {} /\ items[at].data \in {L, T} /\ items[at].data \notin Nat
  BY <1>1, <1>2, NothingOut
<1>5. CASE at # 0
  <2>1. 0 < tail /\ tail =< at
    BY <1>1, <1>3, <1>5
  <2> QED
    BY <1>1, <1>4, <2>1 DEF at
<1>6. CASE at = 0 /\ sent # 0
  <2>1. items[0].data = T
    BY <1>3, <1>4, <1>6 DEF FirstCellInv
  <2>2. items[0].gen \in Nat /\ items[0].gen =< enq_row /\ T \notin Nat
    BY <1>3, CellIs DEF ValueInv, CellsInv, T
  <2>3. enq_row = 0
    BY <1>2, <1>3, <1>4, <2>1, <2>2 DEF FirstCellInv
  <2>4. Overtaken(items[at])
    BY <1>6, <2>1, <2>2, <2>3 DEF Overtaken
  <2> QED
    BY <1>1, <1>4, <2>4 DEF at
<1>7. CASE at = 0 /\ sent = 0
  BY <1>1, <1>4, <1>7 DEF at
<1> QED
  BY <1>5, <1>6, <1>7

\* What a step of a consumer leaves in a cell: what was there, or a T where it
\* was on its way to.
LEMMA ConsumerCells ==
  ASSUME TypeOK, RowInv, ValueInv, NEW c \in Consumers, Consumer(c), NEW x \in Columns
  PROVE  /\ \/ items'[x] = items[x]
            \/ DeqSwap(c) /\ x = last_index[c] /\ items'[x] = [data |-> T, gen |-> deq_row[c]]
         /\ items'[x].data \in Nat => items'[x] = items[x]
         /\ Live(x)' => Live(x) /\ items'[x] = items[x]
<1>1. \/ items'[x] = items[x]
      \/ DeqSwap(c) /\ x = last_index[c] /\ items'[x] = [data |-> T, gen |-> deq_row[c]]
  <2>1. CASE DeqSwap(c)
    <3>1. items' = [items EXCEPT ![last_index[c]] = [data |-> T, gen |-> deq_row[c]]]
      BY <2>1 DEF DeqSwap
    <3> QED
      BY <2>1, <3>1 DEF TypeOK
  <2>2. CASE ~DeqSwap(c)
    BY <2>2 DEF Consumer, DeqReadRow, DeqGetMap, DeqDraw, DeqMark
  <2> QED
    BY <2>1, <2>2
<1>2. items'[x].data \in Nat => items'[x] = items[x]
  BY <1>1 DEF T
<1>3. ASSUME Live(x)' PROVE Live(x) /\ items'[x] = items[x]
  <2>1. items'[x] = items[x]
    BY <1>2, <1>3 DEF Live
  <2>2. items[x].gen \in Nat /\ items[x].gen =< enq_row /\ [Next]_vars
    BY CellIs DEF ValueInv, CellsInv, Next
  <2>3. \A r \in Nat : r =< enq_row /\ Taken(r, x) => Taken(r, x)'
    BY <2>2, TakenStays
  <2>4. Taken(items[x].gen, x) => Taken(items[x].gen, x)'
    BY <2>1, <2>2, <2>3 DEF Taken, RowMap, Rank, Below
  <2> QED
    BY <1>3, <2>1, <2>4 DEF Live
<1> QED
  BY <1>1, <1>2, <1>3

\* A step of the producer changes no draw: what is taken stays as it is in the
\* rows there are.
LEMMA ProducerTakes ==
  ASSUME TypeOK, RowInv, Producer, NEW r \in Nat, r =< enq_row, NEW x
  PROVE  Taken(r, x)' <=> Taken(r, x)
<1>1. RowMap(r)' = RowMap(r)
  BY RowMapStays DEF RowInv, Next
<1>2. UNCHANGED <<heads, cpc, last_deq_row, last_index>>
  BY DEF Producer, EnqSwap, EnqSync, EnqSwapAgain, EnqAnnounce, consumer, cursor
<1> QED
  BY <1>1, <1>2 DEF Taken, Rank, Below

\* Nothing is taken back out of what was overwritten.
LEMMA OverwrittenStays ==
  ASSUME [Next]_vars, overwritten' = {}
  PROVE  overwritten = {}
  BY DEF Next, Producer, Consumer, EnqSwap, EnqSync, EnqSwapAgain, EnqAnnounce, SwapOut, DeqReadRow,
         DeqGetMap, DeqDraw, DeqSwap, DeqMark, vars, producer

\* A step of a consumer leaves the producer's variables alone.
LEMMA ConsumerLeaves ==
  ASSUME NEW c \in Consumers, Consumer(c)
  PROVE  UNCHANGED <<row, sync, enq_row, tail, map, ppc, sent, overwritten>>
  BY DEF Consumer, DeqReadRow, DeqGetMap, DeqDraw, DeqSwap, DeqMark, producer

\* Column 0 keeps its value from the first row change on.
LEMMA FirstCellStep ==
  ASSUME TypeOK, TypeOK', RowInv, RowInv', ValueInv, FirstCellInv, [Next]_vars
  PROVE  FirstCellInv'
<1> DEFINE Kept == items[0].data \in Nat /\ Taken(0, 0) /\ Taken(1, 0)
<1>0. /\ 0 \in Columns /\ enq_row \in Nat /\ row \in Nat /\ sent \in Nat /\ tail \in Columns
      /\ ProducerInv /\ items[0].data \in Nat \cup {L, T} /\ L \notin Nat /\ T \notin Nat /\ T # L
  BY ColumnsAre, CellIs DEF TypeOK, Gens, RowInv, L, T
<1>1. CASE EnqSwap
  <2> DEFINE at == FindSafeIndexFrom(tail, map)
  <2>1. /\ items' = [items EXCEPT ![at] = [data |-> sent, gen |-> enq_row]] /\ ppc = "idle"
        /\ enq_row' = enq_row /\ sent' = sent + 1 /\ ppc' \in {"idle", "sync"}
    BY <1>1 DEF EnqSwap
  <2>2. /\ at \in Columns /\ at \in map /\ \A b \in map : tail =< b => at =< b
    BY <1>0, <1>1, EnqSwapAt
  <2>3. overwritten' = {} => /\ overwritten = {} /\ items[at].data \notin Nat
    BY <1>0, <1>1, PutsAhead
  <2> HIDE DEF at
  <2>4. items'[0].data # L
    <3>1. CASE at = 0
      BY <1>0, <2>1, <3>1 DEF TypeOK
    <3>2. CASE at # 0
      <4>1. sent > 0
        <5>1. sent = 0 => tail = 0 /\ at =< 0
          BY <1>0, <2>2 DEF ProducerInv
        <5>2. at \in Nat
          BY <2>2, ColumnsAre
        <5> QED
          BY <1>0, <3>2, <5>1, <5>2
      <4> QED
        BY <1>0, <2>1, <2>2, <3>2, <4>1 DEF FirstCellInv, TypeOK
    <3> QED
      BY <3>1, <3>2
  <2>5. ASSUME overwritten' = {}
        PROVE  /\ enq_row =< 1
               /\ enq_row = 1 => items'[0].data \in Nat /\ Taken(0, 0)' /\ Taken(1, 0)'
    <3>1. enq_row =< 1 /\ (enq_row = 1 => Kept)
      BY <1>0, <2>1, <2>3, <2>5 DEF FirstCellInv
    <3>2. enq_row = 1 => items'[0] = items[0]
      BY <1>0, <2>1, <2>3, <2>5, <3>1 DEF TypeOK
    <3>3. \A r \in Nat : r =< enq_row => (Taken(r, 0)' <=> Taken(r, 0))
      BY <1>1, ProducerTakes DEF Producer
    <3> QED
      BY <1>0, <3>1, <3>2, <3>3
  <2> QED
    BY <1>0, <2>1, <2>4, <2>5 DEF FirstCellInv
<1>2. CASE EnqSync
  <2>1. /\ UNCHANGED <<items, overwritten, sent>> /\ ppc = "sync" /\ ppc' = "again"
        /\ enq_row' = enq_row + 1
    BY <1>2 DEF EnqSync
  <2>2. \A r \in Nat : r =< enq_row => (Taken(r, 0)' <=> Taken(r, 0))
    BY <1>2, ProducerTakes DEF Producer
  <2> QED
    BY <1>0, <2>1, <2>2 DEF FirstCellInv
<1>3. CASE EnqSwapAgain
  <2>1. /\ items' = [items EXCEPT ![0] = [data |-> sent - 1, gen |-> enq_row]] /\ sent' = sent
        /\ SwapOut(items[0].data) /\ ppc' = "announce" /\ ppc = "again" /\ enq_row' = enq_row
        /\ row + 1 = enq_row /\ sent # 0
    BY <1>0, <1>3 DEF EnqSwapAgain, ProducerInv
  <2>2. items'[0].data = sent - 1 /\ sent - 1 \in Nat
    BY <1>0, <2>1 DEF TypeOK
  <2>3. ASSUME overwritten' = {} PROVE enq_row = 1 /\ Taken(0, 0)' /\ Taken(1, 0)'
    <3>1. overwritten = {} /\ items[0].data = T
      <4>1. overwritten = {} /\ items[0].data \in {L, T}
        BY <1>0, <2>1, <2>3, NothingOut
      <4> QED
        BY <1>0, <2>1, <4>1 DEF FirstCellInv
    <3>2. enq_row = 1
      BY <1>0, <2>1, <3>1 DEF FirstCellInv
    <3>3. items[0].gen = 0 /\ Taken(0, 0)
      <4>1. items[0].gen \in Nat /\ items[0].gen =< row /\ Taken(items[0].gen, 0)
        BY <1>0, <3>1, CellIs DEF ValueInv, CellsInv
      <4>2. items[0].gen = 0
        BY <1>0, <2>1, <3>2, <4>1
      <4> QED
        BY <4>1, <4>2
    <3>4. Counter(0) = 0 /\ Counter(1) = 0
      BY CounterIs
    <3>5. Rank(RowMap(0), 0) = 0 /\ Rank(RowMap(1), 0) = 0
      <4>1. RowMap(0) \subseteq Columns /\ RowMap(1) \subseteq Columns
        BY <1>0, <3>2, RowMapIs
      <4> QED
        BY <4>1, RanksOfColumns
    <3>6. \A c \in Consumers : last_deq_row[c] # 1
      <4>1. ASSUME NEW c \in Consumers PROVE last_deq_row[c] # 1
        <5>1. last_deq_row[c] =< row /\ last_deq_row[c] \in Nat
          BY RowsOf DEF RowInv
        <5> QED
          BY <1>0, <2>1, <3>2, <5>1
      <4> QED
        BY <4>1
    <3>7. Taken(1, 0)
      BY <3>3, <3>4, <3>5, <3>6 DEF Taken
    <3>8. \A r \in Nat : r =< enq_row => (Taken(r, 0)' <=> Taken(r, 0))
      BY <1>3, ProducerTakes DEF Producer
    <3> QED
      BY <1>0, <3>2, <3>3, <3>7, <3>8
  <2> QED
    BY <1>0, <2>1, <2>2, <2>3 DEF FirstCellInv
<1>4. CASE EnqAnnounce
  <2>1. /\ UNCHANGED <<items, overwritten, sent, enq_row>> /\ ppc = "announce" /\ ppc' = "idle"
    BY <1>4 DEF EnqAnnounce
  <2>2. \A r \in Nat : r =< enq_row => (Taken(r, 0)' <=> Taken(r, 0))
    BY <1>4, ProducerTakes DEF Producer
  <2> QED
    BY <1>0, <2>1, <2>2 DEF FirstCellInv
<1>5. ASSUME NEW c \in Consumers, Consumer(c) PROVE FirstCellInv'
  <2>1. UNCHANGED <<row, enq_row, ppc, sent, overwritten>>
    BY <1>5, ConsumerLeaves
  <2>2. \/ items'[0] = items[0]
        \/ DeqSwap(c) /\ 0 = last_index[c] /\ items'[0] = [data |-> T, gen |-> deq_row[c]]
    BY <1>0, <1>5, ConsumerCells
  <2>3. items'[0].data # L \/ items'[0] = items[0]
    BY <1>0, <2>2
  <2>4. ASSUME overwritten = {}, enq_row = 2 \/ (enq_row = 1 /\ ppc # "again")
        PROVE  items'[0].data \in Nat /\ Taken(0, 0)' /\ Taken(1, 0)'
    <3>1. Kept
      BY <2>4 DEF FirstCellInv
    <3>2. row =< 1 /\ 0 =< enq_row /\ 1 =< enq_row
      <4>1. row =< enq_row
        BY RowsOf DEF RowInv
      <4>2. enq_row = 2 => row = 1
        BY <1>0, <2>4 DEF ProducerInv, FirstCellInv
      <4> QED
        BY <1>0, <2>4, <4>1, <4>2
    <3>3. \A r \in Nat : r =< enq_row /\ Taken(r, 0) => Taken(r, 0)'
      BY TakenStays
    <3>4. ~(DeqSwap(c) /\ 0 = last_index[c])
      <4> SUFFICES ASSUME DeqSwap(c), 0 = last_index[c] PROVE FALSE
        OBVIOUS
      <4>1. deq_row[c] \in Nat /\ deq_row[c] =< row /\ ~Taken(deq_row[c], 0)
        BY SwapTakes
      <4>2. deq_row[c] = 0 \/ deq_row[c] = 1
        BY <1>0, <3>2, <4>1
      <4> QED
        BY <3>1, <4>1, <4>2
    <3> QED
      BY <2>2, <3>1, <3>2, <3>3, <3>4
  <2> QED
    BY <1>0, <2>1, <2>3, <2>4 DEF FirstCellInv
<1>6. CASE UNCHANGED vars
  BY <1>6 DEF vars, producer, consumer, cursor, FirstCellInv, Taken, Rank, Below, RowMap
<1> QED
  BY <1>1, <1>2, <1>3, <1>4, <1>5, <1>6 DEF Next, Producer

\* The values of the producer's row stay behind it.
LEMMA LapStep ==
  ASSUME TypeOK, TypeOK', RowInv, ValueInv, FirstCellInv, LapInv, [Next]_vars
  PROVE  LapInv'
<1> SUFFICES ASSUME overwritten' = {}, NEW x \in Columns,
                    items'[x].data \in Nat, items'[x].gen = enq_row'
             PROVE  /\ ppc' = "idle" /\ tail' # 0 => x < tail'
                    /\ ppc' # "again"
                    /\ ppc' = "announce" => x = 0
  BY DEF LapInv
<1>0. /\ overwritten = {} /\ x \in Nat /\ tail \in Columns /\ tail \in Nat /\ sent \in Nat /\ enq_row \in Nat
  BY OverwrittenStays, ColumnsAre DEF TypeOK, Gens
<1>1. CASE EnqSwap
  <2> DEFINE at == FindSafeIndexFrom(tail, map)
  <2>1. /\ items' = [items EXCEPT ![at] = [data |-> sent, gen |-> enq_row]] /\ ppc = "idle"
        /\ enq_row' = enq_row
        /\ IF Overtaken(items[at]) THEN tail' = at /\ ppc' = "sync"
                                   ELSE tail' = After(at) /\ ppc' = "idle"
    BY <1>1 DEF EnqSwap
  <2>2. /\ at \in Columns
        /\ Overtaken(items[at]) \/ (sent = 0 /\ at = 0) \/ (0 < tail /\ tail =< at)
    BY <1>1, PutsAhead
  <2> HIDE DEF at
  <2>3. CASE Overtaken(items[at])
    BY <2>1, <2>3
  <2>4. CASE ~Overtaken(items[at])
    <3>1. at \in Nat /\ (After(at) # 0 => After(at) = at + 1)
      BY <2>2, AfterIs, ColumnsAre
    <3>2. x = at \/ (0 < tail /\ tail =< at /\ x < tail)
      <4>1. CASE x # at
        <5>1. items'[x] = items[x]
          BY <2>1, <4>1 DEF TypeOK
        <5>2. items[x].data < sent
          BY DEF ValueInv, CellsInv
        <5>3. sent # 0
          BY <5>1, <5>2
        <5> QED
          BY <1>0, <2>1, <2>2, <2>4, <5>1, <5>3 DEF LapInv
      <4> QED
        BY <4>1
    <3> QED
      BY <1>0, <2>1, <2>4, <3>1, <3>2
  <2> QED
    BY <2>3, <2>4
<1>2. CASE EnqSync
  <2>1. items' = items /\ enq_row' = enq_row + 1
    BY <1>2 DEF EnqSync
  <2>2. items[x].gen =< enq_row
    BY DEF ValueInv, CellsInv
  <2> QED
    BY <1>0, <2>1, <2>2
<1>3. CASE EnqSwapAgain
  <2>1. /\ items' = [items EXCEPT ![tail] = [data |-> sent - 1, gen |-> enq_row]] /\ tail = 0
        /\ ppc = "again" /\ ppc' = "announce" /\ enq_row' = enq_row
    BY <1>3 DEF EnqSwapAgain, RowInv, ProducerInv
  <2>2. x = 0
    <3>1. CASE x # 0
      <4>1. items'[x] = items[x]
        BY <2>1, <3>1 DEF TypeOK
      <4> QED
        BY <1>0, <2>1, <4>1 DEF LapInv
    <3> QED
      BY <3>1
  <2> QED
    BY <2>1, <2>2
<1>4. CASE EnqAnnounce
  <2>1. /\ UNCHANGED <<items, enq_row>> /\ ppc = "announce" /\ ppc' = "idle" /\ tail = 0 /\ tail' = After(tail)
    BY <1>4 DEF EnqAnnounce, RowInv, ProducerInv
  <2>2. x = 0
    BY <1>0, <2>1 DEF LapInv
  <2>3. After(0) # 0 => After(0) = 1
    BY ColumnsAre, AfterIs
  <2> QED
    BY <2>1, <2>2, <2>3
<1>5. ASSUME NEW c \in Consumers, Consumer(c)
      PROVE  /\ ppc' = "idle" /\ tail' # 0 => x < tail'
             /\ ppc' # "again"
             /\ ppc' = "announce" => x = 0
  <2>1. UNCHANGED <<enq_row, tail, ppc>> /\ items'[x] = items[x]
    BY <1>5, ConsumerLeaves, ConsumerCells
  <2> QED
    BY <1>0, <2>1 DEF LapInv
<1>6. CASE UNCHANGED vars
  BY <1>0, <1>6 DEF vars, producer, LapInv
<1> QED
  BY <1>1, <1>2, <1>3, <1>4, <1>5, <1>6 DEF Next, Producer

\* What is live after a step is a value that was live before in its cell, or
\* the value that the producer puts: a new one, or the copy in the new row.
LEMMA LiveBefore ==
  ASSUME TypeOK, TypeOK', RowInv, ValueInv, FirstCellInv, [Next]_vars, overwritten' = {},
         NEW x \in Columns, Live(x)'
  PROVE  /\ items'[x] = items[x] => Live(x)
         /\ \/ items'[x] = items[x]
            \/ /\ items'[x].gen = enq_row /\ UNCHANGED consumer
               /\ \A y \in Columns : y # x => items'[y] = items[y]
               /\ \/ /\ items'[x].data = sent
                     /\ (sent = 0 /\ x = 0) \/ (ppc = "idle" /\ 0 < tail /\ tail =< x)
                  \/ ppc = "again" /\ items'[x].data = sent - 1
<1>0. enq_row \in Nat
  BY DEF TypeOK, Gens
<1>1. ASSUME items'[x] = items[x] PROVE Live(x)
  <2>1. items[x].gen \in Nat /\ items[x].gen =< enq_row
    BY CellIs DEF ValueInv, CellsInv
  <2>2. \A r \in Nat : r =< enq_row /\ Taken(r, x) => Taken(r, x)'
    BY TakenStays
  <2>3. Taken(items[x].gen, x) => Taken(items[x].gen, x)'
    BY <1>1, <2>1, <2>2 DEF Taken, RowMap, Rank, Below
  <2> QED
    BY <1>1, <2>3 DEF Live
<1>2. CASE EnqSwap
  <2> DEFINE at == FindSafeIndexFrom(tail, map)
  <2>1. /\ items' = [items EXCEPT ![at] = [data |-> sent, gen |-> enq_row]]
        /\ UNCHANGED consumer /\ enq_row' = enq_row /\ ppc = "idle"
    BY <1>2 DEF EnqSwap
  <2>2. /\ at \in Columns
        /\ Overtaken(items[at]) \/ (sent = 0 /\ at = 0) \/ (0 < tail /\ tail =< at)
    BY <1>2, PutsAhead
  <2>3. \A r \in Nat : r =< enq_row => (Taken(r, x)' <=> Taken(r, x))
    BY <1>2, ProducerTakes DEF Producer
  <2> HIDE DEF at
  <2>4. CASE x = at
    <3>1. /\ items'[x].data = sent /\ items'[x].gen = enq_row
          /\ \A y \in Columns : y # x => items'[y] = items[y]
      BY <2>1, <2>2, <2>4 DEF TypeOK
    <3>2. ~Overtaken(items[at])
      <4> SUFFICES ASSUME Overtaken(items[at]) PROVE FALSE
        OBVIOUS
      <4>1. PICK r \in Nat : r = enq_row
        BY <1>0
      <4>2. Taken(r, x)
        BY <2>4, <4>1 DEF Overtaken, ValueInv, CellsInv
      <4>3. Taken(r, x)'
        BY <1>0, <2>3, <4>1, <4>2
      <4>4. items'[x].gen = r
        BY <3>1, <4>1
      <4> QED
        BY <4>3, <4>4 DEF Live, Taken, RowMap, Rank, Below
    <3> QED
      BY <1>1, <2>1, <2>2, <2>4, <3>1, <3>2
  <2>5. CASE x # at
    BY <1>1, <2>1, <2>5 DEF TypeOK
  <2> QED
    BY <2>4, <2>5
<1>3. CASE EnqSwapAgain
  <2>1. /\ items' = [items EXCEPT ![tail] = [data |-> sent - 1, gen |-> enq_row]] /\ tail \in Columns
        /\ UNCHANGED consumer /\ enq_row' = enq_row /\ ppc = "again"
    BY <1>3 DEF EnqSwapAgain, TypeOK
  <2>2. CASE x = tail
    <3>1. /\ items'[x].data = sent - 1 /\ items'[x].gen = enq_row
          /\ \A y \in Columns : y # x => items'[y] = items[y]
      BY <2>1, <2>2 DEF TypeOK
    <3> QED
      BY <1>1, <2>1, <3>1
  <2>3. CASE x # tail
    BY <1>1, <2>1, <2>3 DEF TypeOK
  <2> QED
    BY <2>2, <2>3
<1>4. ASSUME NEW c \in Consumers, Consumer(c) PROVE Live(x) /\ items'[x] = items[x]
  BY <1>4, ConsumerCells
<1>5. CASE EnqSync \/ EnqAnnounce \/ UNCHANGED vars
  <2>1. items' = items
    BY <1>5 DEF EnqSync, EnqAnnounce, vars
  <2> QED
    BY <1>1, <2>1
<1> QED
  BY <1>1, <1>2, <1>3, <1>4, <1>5 DEF Next, Producer

\* Live values ascend from row to row and from cell to cell.
LEMMA AscendingStep ==
  ASSUME TypeOK, TypeOK', RowInv, ValueInv, FirstCellInv, LapInv, AscendingInv, [Next]_vars
  PROVE  AscendingInv'
<1> SUFFICES ASSUME overwritten' = {}, NEW x \in Columns, NEW y \in Columns, Live(x)', Live(y)',
                    \/ items'[x].gen < items'[y].gen
                    \/ items'[x].gen = items'[y].gen /\ x < y
             PROVE  items'[x].data < items'[y].data
  BY DEF AscendingInv
<1>0. /\ overwritten = {} /\ x \in Nat /\ y \in Nat /\ tail \in Nat /\ sent \in Nat /\ enq_row \in Nat
      /\ x # y
  <2>1. x \in Nat /\ y \in Nat /\ tail \in Nat /\ sent \in Nat /\ enq_row \in Nat
    BY ColumnsAre DEF TypeOK, Gens
  <2>2. items'[x].gen \in Nat
    BY DEF TypeOK, Gens
  <2> QED
    BY <2>1, <2>2, OverwrittenStays
<1>1. /\ items[x].data \in Int /\ items[y].data \in Int /\ items[x].data < sent /\ items[y].data < sent
      /\ items[x].gen \in Nat /\ items[y].gen \in Nat /\ items[y].gen =< enq_row
  BY CellIs DEF ValueInv, CellsInv
<1>2. CASE items'[x] = items[x] /\ items'[y] = items[y]
  <2>1. Live(x) /\ Live(y)
    BY <1>2, LiveBefore
  <2> QED
    BY <1>0, <1>2, <2>1 DEF AscendingInv
<1>3. CASE items'[y] # items[y]
  <2>1. /\ items'[x] = items[x]
        /\ items'[y].data = sent \/ (ppc = "again" /\ items'[y].data = sent - 1)
    BY <1>0, <1>3, LiveBefore
  <2>2. Live(x)
    BY <2>1, LiveBefore
  <2>3. ppc = "again" => items[x].data # sent - 1
    BY <2>2 DEF ValueInv, CopyInv
  <2> QED
    BY <1>0, <1>1, <2>1, <2>3
<1>4. CASE items'[x] # items[x]
  <2>1. /\ items'[x].gen = enq_row /\ items'[y] = items[y]
        /\ \/ (sent = 0 /\ x = 0) \/ (ppc = "idle" /\ 0 < tail /\ tail =< x)
           \/ ppc = "again"
    BY <1>0, <1>4, LiveBefore
  <2>2. Live(y)
    BY <2>1, LiveBefore
  <2>3. items[y].data \in Nat /\ sent # 0
    BY <1>1, <2>2 DEF Live
  <2>4. items[y].gen = enq_row /\ x < y
    BY <1>0, <1>1, <2>1
  <2> QED
    BY <1>0, <2>1, <2>3, <2>4 DEF LapInv
<1> QED
  BY <1>2, <1>3, <1>4

\* A consumer only moves on: it reaches nothing that was behind it.
LEMMA ReachesBefore ==
  ASSUME TypeOK, TypeOK', RowInv, [Next]_vars, NEW c \in Consumers, NEW x \in Columns,
         items'[x] = items[x], Reaches(c, x)'
  PROVE  Reaches(c, x)
<1> DEFINE gen == items[x].gen
           r == last_deq_row[c]
           i == last_index[c]
<1>0. /\ gen \in Nat /\ r \in Nat /\ i \in Int /\ x \in Nat
      /\ gen > last_deq_row'[c]
         \/ (gen = last_deq_row'[c] /\ (x > last_index'[c] \/ (x = last_index'[c] /\ cpc'[c] = "swap")))
  <2>1. gen \in Nat /\ r \in Nat /\ x \in Nat
    BY ColumnsAre DEF TypeOK, Gens
  <2>2. i \in Int
    BY ColumnsAre DEF TypeOK
  <2> QED
    BY <2>1, <2>2 DEF Reaches
<1>1. CASE DeqGetMap(c)
  <2>1. last_deq_row'[c] = deq_row[c] /\ r < deq_row[c] /\ deq_row[c] \in Nat
    BY <1>1, RowsOf DEF DeqGetMap, TypeOK, RowInv, ConsumerInv
  <2> HIDE DEF gen, r
  <2>2. gen > r
    BY <1>0, <2>1
  <2> QED
    BY <2>2 DEF Reaches, gen, r
<1>2. CASE DeqDraw(c)
  <2> DEFINE N == heads[Counter(deq_row[c])]
             at == FindNthSafeIndex(N, cmap[c], i, last_N[c])
             A == cmap[c]
  <2>1. /\ N \in Nat /\ A \subseteq Columns /\ Remembers(A, i, last_N[c]) /\ last_N[c] < N
        /\ at = -1 \/ (at \in A /\ at \in Columns /\ Rank(A, at) = N)
    BY <1>2, DrawIs
  <2>2. /\ last_deq_row'[c] = r
        /\ \/ at = -1 /\ last_index'[c] = i /\ cpc'[c] = "idle"
           \/ at # -1 /\ last_index'[c] = at
    BY <1>2 DEF DeqDraw, Go, TypeOK
  <2> HIDE DEF at, N, A
  <2>3. A \subseteq Int /\ IsFiniteSet(A)
    <3>1. A \subseteq Bits
      BY <2>1, BitsAreColumns
    <3>2. A \subseteq Nat /\ IsFiniteSet(A)
      BY <3>1, BitsFinite
    <3> QED
      BY <3>2
  <2>4. at # -1 => i < at
    <3> SUFFICES ASSUME at # -1 PROVE i < at
      OBVIOUS
    <3>1. at \in A /\ at \in Nat /\ Rank(A, at) = N
      BY <2>1, ColumnsAre
    <3>2. CASE i = -1
      BY <3>1, <3>2
    <3>3. CASE i # -1
      <4>1. i \in A /\ Rank(A, i) = last_N[c] /\ last_N[c] \in Nat
        BY <2>1, <3>3 DEF Remembers
      <4>2. ~(at < i)
        <5>1. ASSUME at < i PROVE FALSE
          <6>1. Rank(A, at) < Rank(A, i)
            BY <1>0, <2>3, <3>1, <5>1, RankStrict
          <6> QED
            BY <2>1, <3>1, <4>1, <6>1
        <5> QED
          BY <5>1
      <4>3. at # i
        BY <2>1, <3>1, <4>1
      <4> QED
        BY <1>0, <3>1, <4>2, <4>3
    <3> QED
      BY <3>2, <3>3
  <2>5. at # -1 => at \in Nat
    BY <2>1, ColumnsAre
  <2> HIDE DEF gen, r, i
  <2>6. gen > r \/ (gen = r /\ x > i)
    BY <1>0, <2>2, <2>4, <2>5
  <2> QED
    BY <2>6 DEF Reaches, gen, r, i
<1>3. CASE ~DeqGetMap(c) /\ ~DeqDraw(c)
  <2>1. /\ last_deq_row'[c] = last_deq_row[c] /\ last_index'[c] = last_index[c]
        /\ cpc'[c] = "swap" => cpc[c] = "swap"
    <3>1. CASE Producer \/ UNCHANGED vars
      BY <3>1 DEF Producer, EnqSwap, EnqSync, EnqSwapAgain, EnqAnnounce, vars, consumer, cursor
    <3>2. ASSUME NEW d \in Consumers, Consumer(d)
          PROVE  /\ last_deq_row'[c] = last_deq_row[c] /\ last_index'[c] = last_index[c]
                 /\ cpc'[c] = "swap" => cpc[c] = "swap"
      <4>1. CASE d = c
        BY <1>3, <3>2, <4>1 DEF Consumer, DeqReadRow, DeqSwap, DeqMark, Go, TypeOK, cursor
      <4>2. CASE d # c
        BY <3>2, <4>2 DEF Consumer, DeqReadRow, DeqGetMap, DeqDraw, DeqSwap, DeqMark, Go, TypeOK, cursor
      <4> QED
        BY <4>1, <4>2
    <3> QED
      BY <3>1, <3>2 DEF Next
  <2> QED
    BY <1>0, <2>1 DEF Reaches
<1> QED
  BY <1>1, <1>2, <1>3

\* What a consumer got in a step is a live value that it swapped out.
LEMMA GotStep ==
  ASSUME TypeOK, RowInv, ValueInv, [Next]_vars, NEW c \in Consumers
  PROVE  \/ got'[c] = got[c]
         \/ LET at == last_index[c]
            IN /\ DeqSwap(c) /\ at \in Columns /\ Live(at) /\ Reaches(c, at)
               /\ items[at].gen = last_deq_row[c] /\ items[at].data \in Nat
               /\ got'[c] = Append(got[c], items[at].data) /\ got[c] \in Seq(Nat \cup {T})
               /\ DOMAIN got'[c] = DOMAIN got[c] \cup {Len(got[c]) + 1}
               /\ \A m \in DOMAIN got[c] : got'[c][m] = got[c][m] /\ m \in Nat /\ m =< Len(got[c])
               /\ got'[c][Len(got[c]) + 1] = items[at].data /\ Len(got[c]) \in Nat
<1> DEFINE at == last_index[c]
<1>1. CASE DeqSwap(c) /\ ~NoItem(items[at], deq_row[c])
  <2>1. at \in Columns /\ ~Taken(deq_row[c], at) /\ deq_row[c] = last_deq_row[c] /\ cpc[c] = "swap"
    BY <1>1, SwapTakes DEF DeqSwap
  <2>2. items[at].gen = last_deq_row[c] /\ items[at].data \in Nat \cup {T}
    BY <1>1, <2>1, CellIs DEF NoItem
  <2>3. items[at].data \in Nat
    BY <2>1, <2>2 DEF ValueInv, CellsInv
  <2>4. Live(at) /\ Reaches(c, at)
    BY <2>1, <2>2, <2>3 DEF Live, Reaches
  <2>5. got' = [got EXCEPT ![c] = Append(got[c], items[at].data)]
    BY <1>1 DEF DeqSwap
  <2>6. got'[c] = Append(got[c], items[at].data) /\ got[c] \in Seq(Nat \cup {T})
    BY <2>5 DEF TypeOK
  <2> DEFINE v == items[at].data
             s == got[c]
  <2>7. /\ DOMAIN Append(s, v) = DOMAIN s \cup {Len(s) + 1}
        /\ \A m \in DOMAIN s : Append(s, v)[m] = s[m] /\ m \in Nat /\ m =< Len(s)
        /\ Append(s, v)[Len(s) + 1] = v /\ Len(s) \in Nat
    <3>1. s \in Seq(Nat \cup {T}) /\ v \in Nat \cup {T}
      BY <2>2, <2>6
    <3> HIDE DEF s, v
    <3> QED
      BY <3>1
  <2> QED
    BY <1>1, <2>1, <2>2, <2>3, <2>4, <2>6, <2>7
<1>2. CASE ~(DeqSwap(c) /\ ~NoItem(items[at], deq_row[c]))
  <2>1. CASE \E d \in Consumers : DeqSwap(d)
    BY <1>2, <2>1 DEF DeqSwap, TypeOK
  <2>2. CASE ~(\E d \in Consumers : DeqSwap(d))
    BY <2>2 DEF Next, Producer, Consumer, EnqSwap, EnqSync, EnqSwapAgain, EnqAnnounce, DeqReadRow,
                DeqGetMap, DeqDraw, DeqMark, vars, consumer
  <2> QED
    BY <2>1, <2>2
<1> QED
  BY <1>1, <1>2

\* What a consumer got is older than what it may still take.
LEMMA BehindStep ==
  ASSUME TypeOK, TypeOK', RowInv, ValueInv, FirstCellInv, AscendingInv, BehindInv, [Next]_vars
  PROVE  BehindInv'
<1> SUFFICES ASSUME overwritten' = {}, NEW c \in Consumers, NEW m \in DOMAIN got'[c], NEW x \in Columns,
                    Live(x)', Reaches(c, x)'
             PROVE  got'[c][m] < items'[x].data
  BY DEF BehindInv
<1>0. overwritten = {} /\ sent \in Nat
  BY OverwrittenStays DEF TypeOK
<1>1. CASE items'[x] # items[x]
  <2>1. /\ got' = got
        /\ items'[x].data = sent \/ (ppc = "again" /\ items'[x].data = sent - 1)
    BY <1>1, LiveBefore DEF consumer
  <2>2. got[c][m] \in Returned /\ m \in DOMAIN got[c]
    BY <2>1, ReturnedIs
  <2>3. got[c][m] \in Nat /\ got[c][m] < sent
    BY <2>2, ReturnedIs DEF ValueInv, GotInv
  <2>4. ppc = "again" => got[c][m] # sent - 1
    BY <2>2 DEF ValueInv, CopyInv
  <2> QED
    BY <1>0, <2>1, <2>3, <2>4
<1>2. CASE items'[x] = items[x]
  <2>1. Live(x) /\ Reaches(c, x)
    BY <1>2, LiveBefore, ReachesBefore
  <2>2. CASE m \in DOMAIN got[c] /\ got'[c][m] = got[c][m]
    BY <1>0, <1>2, <2>1, <2>2 DEF BehindInv
  <2>3. CASE ~(m \in DOMAIN got[c] /\ got'[c][m] = got[c][m])
    <3> DEFINE at == last_index[c]
    <3>1. /\ DeqSwap(c) /\ at \in Columns /\ Live(at) /\ items[at].gen = last_deq_row[c]
          /\ got'[c][m] = items[at].data
      BY <2>3, GotStep
    <3>2. items'[at].data = T /\ UNCHANGED <<last_deq_row, last_index>> /\ cpc'[c] # "swap"
      BY <3>1 DEF DeqSwap, Go, TypeOK, cursor
    <3>3. x # at
      BY <3>2 DEF Live, T
    <3>4. items[x].gen > items[at].gen \/ (items[x].gen = items[at].gen /\ x > at)
      BY <1>2, <3>1, <3>2 DEF Reaches
    <3>5. items[x].gen \in Nat /\ items[at].gen \in Nat /\ x \in Nat /\ at \in Nat
      BY <3>1, CellIs, ColumnsAre
    <3>6. items[at].gen < items[x].gen \/ (items[at].gen = items[x].gen /\ at < x)
      BY <3>4, <3>5
    <3> QED
      BY <1>0, <1>2, <2>1, <3>1, <3>6 DEF AscendingInv
  <2> QED
    BY <2>2, <2>3
<1> QED
  BY <1>1, <1>2

\* What consumers get ascends.
LEMMA InOrderStep ==
  ASSUME TypeOK, TypeOK', RowInv, ValueInv, BehindInv, InOrder, [Next]_vars
  PROVE  InOrder'
<1> SUFFICES ASSUME overwritten' = {}, NEW c \in Consumers, NEW m \in DOMAIN got'[c], NEW n \in DOMAIN got'[c],
                    m < n
             PROVE  got'[c][m] < got'[c][n]
  BY DEF InOrder
<1>0. overwritten = {}
  BY OverwrittenStays
<1>1. CASE got'[c] = got[c]
  BY <1>0, <1>1 DEF InOrder
<1>2. CASE got'[c] # got[c]
  <2> DEFINE at == last_index[c]
             len == Len(got[c])
  <2>1. /\ at \in Columns /\ Live(at) /\ Reaches(c, at)
        /\ DOMAIN got'[c] = DOMAIN got[c] \cup {len + 1} /\ len \in Nat
        /\ \A k \in DOMAIN got[c] : got'[c][k] = got[c][k] /\ k \in Nat /\ k =< len
        /\ got'[c][len + 1] = items[at].data
    BY <1>2, GotStep
  <2> HIDE DEF at, len
  <2>2. m \in DOMAIN got[c]
    BY <2>1
  <2>3. CASE n \in DOMAIN got[c]
    BY <1>0, <2>1, <2>2, <2>3 DEF InOrder
  <2>4. CASE n = len + 1
    BY <1>0, <2>1, <2>2, <2>4 DEF BehindInv
  <2> QED
    BY <2>1, <2>3, <2>4
<1> QED
  BY <1>1, <1>2

\* A step of a consumer in row 0: who draws a number there is on its way to the
\* cell of that number; others change nothing of what is taken.
LEMMA FirstRowDraws ==
  ASSUME TypeOK, RowInv, enq_row = 0, NEW c \in Consumers, Consumer(c), NEW x \in Columns
  PROVE  /\ heads'[0] = heads[0] \/ (DeqDraw(c) /\ heads'[0] = heads[0] + 1)
         /\ DeqDraw(c) /\ x = heads[0] => cpc'[c] = "swap" /\ last_index'[c] = x
         /\ \A d \in Consumers :
              /\ cpc[d] = "swap" /\ last_index[d] = x =>
                   \/ cpc'[d] = "swap" /\ last_index'[d] = x
                   \/ d = c /\ DeqSwap(c)
              /\ cpc'[d] = "swap" /\ last_index'[d] = x =>
                   \/ cpc[d] = "swap" /\ last_index[d] = x
                   \/ d = c /\ DeqDraw(c)
<1>1. /\ heads[0] \in Nat /\ 0 \in DOMAIN heads /\ Counter(0) = 0
      /\ \A d \in Consumers : deq_row[d] = 0 /\ last_deq_row[d] = 0
  BY TakenInFirstRow
<1>2. heads'[0] = heads[0] \/ (DeqDraw(c) /\ heads'[0] = heads[0] + 1)
  <2>1. CASE DeqDraw(c)
    BY <1>1, <2>1, DrawIs
  <2>2. CASE ~DeqDraw(c)
    BY <2>2 DEF Consumer, DeqReadRow, DeqGetMap, DeqSwap, DeqMark
  <2> QED
    BY <2>1, <2>2
<1>3. ASSUME DeqDraw(c), x = heads[0] PROVE cpc'[c] = "swap" /\ last_index'[c] = x
  <2> DEFINE N == heads[Counter(deq_row[c])]
             at == FindNthSafeIndex(N, cmap[c], last_index[c], last_N[c])
  <2>1. at = Nth(cmap[c], N) /\ N = x
    BY <1>1, <1>3, DrawIs
  <2>2. cmap[c] = RowMap(0) /\ RowMap(0) = Columns /\ x \in RowMap(0)
    BY <1>1, BitsAreColumns DEF RowInv, ConsumerInv, RowMap
  <2>3. IsFiniteSet(Columns) /\ Columns \subseteq Int
    <3>1. IsFiniteSet(Columns)
      BY BitsAreColumns, BitsFinite
    <3> QED
      BY <3>1, ColumnsAre
  <2>4. Rank(RowMap(0), x) = x
    BY RanksOfColumns
  <2>5. Nth(RowMap(0), x) = x
    BY <2>2, <2>3, <2>4, NthIs
  <2>6. at = x
    BY <2>1, <2>2, <2>5
  <2>7. x # -1
    BY ColumnsAre
  <2> HIDE DEF N
  <2>8. last_index' = [last_index EXCEPT ![c] = at] /\ cpc' = [cpc EXCEPT ![c] = "swap"]
    BY <1>3, <2>6, <2>7 DEF DeqDraw, Go, N
  <2> QED
    BY <2>6, <2>8 DEF TypeOK
<1>4. ASSUME NEW d \in Consumers
      PROVE  /\ cpc[d] = "swap" /\ last_index[d] = x =>
                  \/ cpc'[d] = "swap" /\ last_index'[d] = x
                  \/ d = c /\ DeqSwap(c)
             /\ cpc'[d] = "swap" /\ last_index'[d] = x =>
                  \/ cpc[d] = "swap" /\ last_index[d] = x
                  \/ d = c /\ DeqDraw(c)
  <2>1. CASE d # c
    BY <2>1 DEF Consumer, DeqReadRow, DeqGetMap, DeqDraw, DeqSwap, DeqMark, Go, TypeOK, cursor
  <2>2. CASE d = c
    BY <2>2 DEF Consumer, DeqReadRow, DeqGetMap, DeqDraw, DeqSwap, DeqMark, Go, TypeOK, cursor
  <2> QED
    BY <2>1, <2>2
<1> QED
  BY <1>2, <1>3, <1>4

\* A cell of row 0 that was taken holds a T.
LEMMA FirstRowStep ==
  ASSUME TypeOK, TypeOK', RowInv, RowInv', ValueInv, FirstRowInv, [Next]_vars
  PROVE  FirstRowInv'
<1> SUFFICES ASSUME enq_row' = 0, ppc' = "idle", NEW x \in Columns, Taken(0, x)'
             PROVE  items'[x].data = T
  BY DEF FirstRowInv
<1>0. (ppc = "idle" /\ enq_row' = enq_row) \/ EnqAnnounce
  BY DEF Next, Producer, Consumer, EnqSwap, EnqSync, EnqSwapAgain, EnqAnnounce, DeqReadRow, DeqGetMap,
         DeqDraw, DeqSwap, DeqMark, vars, producer
<1>1. ~EnqAnnounce
  <2> SUFFICES ASSUME EnqAnnounce PROVE FALSE
    OBVIOUS
  <2>1. enq_row = 0 /\ row + 1 = enq_row /\ row \in Nat
    BY DEF EnqAnnounce, RowInv, ProducerInv, TypeOK, Gens
  <2> QED
    BY <2>1
<1>2. ppc = "idle" /\ enq_row = 0
  BY <1>0, <1>1
<1>3. CASE EnqSwap
  <2> DEFINE at == FindSafeIndexFrom(tail, map)
  <2>1. items' = [items EXCEPT ![at] = [data |-> sent, gen |-> enq_row]] /\ at \in Columns
    BY <1>3, EnqSwapAt DEF EnqSwap, RowInv
  <2>2. ~Overtaken(items[at])
    BY <1>3 DEF EnqSwap
  <2> HIDE DEF at
  <2>3. Taken(0, x)
    BY <1>2, <1>3, ProducerTakes DEF Producer
  <2>4. items[x].data = T
    BY <1>2, <2>3 DEF FirstRowInv
  <2>5. items[x].gen = 0
    BY <1>2, CellIs DEF ValueInv, CellsInv
  <2>6. x # at
    BY <1>2, <2>2, <2>4, <2>5 DEF Overtaken
  <2> QED
    BY <2>1, <2>4, <2>6 DEF TypeOK
<1>4. ASSUME NEW c \in Consumers, Consumer(c) PROVE items'[x].data = T
  <2>1. /\ heads[0] \in Nat
        /\ Taken(0, x) <=> /\ x < heads[0]
                           /\ \A d \in Consumers : ~(cpc[d] = "swap" /\ last_index[d] = x)
    BY <1>2, TakenInFirstRow
  <2>2. Taken(0, x)' => /\ x < heads'[0]
                        /\ \A d \in Consumers : ~(cpc'[d] = "swap" /\ last_index'[d] = x)
    <3>1. Taken(0, x)' => Rank(RowMap(0), x)' < heads'[Counter(0)]
                          /\ \A d \in Consumers : ~(cpc'[d] = "swap" /\ last_deq_row'[d] = 0 /\ last_index'[d] = x)
      BY DEF Taken
    <3>2. Rank(RowMap(0), x)' = x /\ Counter(0) = 0
      <4>1. RowMap(0)' = RowMap(0) /\ Rank(RowMap(0), x) = x /\ Counter(0) = 0
        BY <1>2, TakenInFirstRow, RanksOfColumns DEF RowMap
      <4> QED
        BY <4>1 DEF Rank, Below
    <3>3. \A d \in Consumers : last_deq_row'[d] = 0
      <4>1. \A d \in Consumers : last_deq_row[d] = 0 /\ deq_row[d] = 0
        BY <1>2, TakenInFirstRow
      <4> QED
        BY <1>4, <4>1 DEF Consumer, DeqReadRow, DeqGetMap, DeqDraw, DeqSwap, DeqMark, TypeOK, cursor
    <3> QED
      BY <3>1, <3>2, <3>3
  <2>3. /\ heads'[0] = heads[0] \/ (DeqDraw(c) /\ heads'[0] = heads[0] + 1)
        /\ DeqDraw(c) /\ x = heads[0] => cpc'[c] = "swap" /\ last_index'[c] = x
        /\ \A d \in Consumers :
             cpc[d] = "swap" /\ last_index[d] = x =>
               \/ cpc'[d] = "swap" /\ last_index'[d] = x
               \/ d = c /\ DeqSwap(c)
    BY <1>2, <1>4, FirstRowDraws
  <2>4. x < heads[0] /\ \A d \in Consumers : cpc[d] = "swap" /\ last_index[d] = x => d = c /\ DeqSwap(c)
    <3>1. x \in Nat
      BY ColumnsAre
    <3> QED
      BY <2>1, <2>2, <2>3, <3>1
  <2>5. CASE Taken(0, x)
    <3>1. items[x].data = T
      BY <1>2, <2>5 DEF FirstRowInv
    <3> QED
      <4>1. items'[x] = items[x] \/ items'[x] = [data |-> T, gen |-> deq_row[c]]
        BY <1>4, ConsumerCells
      <4> QED
        BY <3>1, <4>1
  <2>6. CASE ~Taken(0, x)
    <3>1. DeqSwap(c) /\ last_index[c] = x
      BY <2>1, <2>4, <2>6
    <3> QED
      BY <3>1, SwapTakes, SMTT(30) DEF TypeOK
  <2> QED
    BY <2>5, <2>6
<1>5. CASE UNCHANGED vars
  <2>1. Taken(0, x)
    BY <1>5 DEF vars, producer, consumer, cursor, Taken, Rank, Below, RowMap
  <2> QED
    BY <1>2, <1>5, <2>1 DEF vars, FirstRowInv
<1>6. CASE EnqSync \/ EnqSwapAgain
  BY <1>2, <1>6 DEF EnqSync, EnqSwapAgain
<1> QED
  BY <1>1, <1>3, <1>4, <1>5, <1>6 DEF Next, Producer

\* In row 0 a value is returned or a consumer has it or will get to it.
LEMMA KeptStep ==
  ASSUME TypeOK, TypeOK', RowInv, RowInv', ValueInv, FirstRowInv, FirstCellInv, KeptInFirstRow, [Next]_vars
  PROVE  KeptInFirstRow'
<1> DEFINE Way(x) == \E c \in Consumers : cpc[c] = "swap" /\ last_index[c] = x
<1> SUFFICES ASSUME enq_row' = 0, ppc' = "idle", overwritten' = {},
                    NEW v \in Values', v \notin Returned'
             PROVE  \E x \in Columns : /\ items'[x] = [data |-> v, gen |-> 0]
                                       /\ x >= heads'[0] \/ Way(x)'
  BY DEF KeptInFirstRow
<1>0. /\ enq_row \in Nat /\ sent \in Nat /\ overwritten = {}
      /\ (ppc = "idle" /\ enq_row' = enq_row) \/ EnqAnnounce
  <2>1. enq_row \in Nat /\ sent \in Nat /\ overwritten = {}
    BY OverwrittenStays DEF TypeOK, Gens
  <2> QED
    BY <2>1 DEF Next, Producer, Consumer, EnqSwap, EnqSync, EnqSwapAgain, EnqAnnounce, DeqReadRow,
                DeqGetMap, DeqDraw, DeqSwap, DeqMark, vars, producer
<1>1. ~EnqAnnounce
  <2> SUFFICES ASSUME EnqAnnounce PROVE FALSE
    OBVIOUS
  <2>1. enq_row = 0 /\ row + 1 = enq_row /\ row \in Nat
    BY DEF EnqAnnounce, RowInv, ProducerInv, TypeOK, Gens
  <2> QED
    BY <2>1
<1>2. ppc = "idle" /\ enq_row = 0
  BY <1>0, <1>1
<1>3. ASSUME v \in Values, v \notin Returned
      PROVE  \E x \in Columns : items[x] = [data |-> v, gen |-> 0] /\ (x >= heads[0] \/ Way(x))
  BY <1>0, <1>2, <1>3 DEF KeptInFirstRow
<1>4. CASE EnqSwap
  <2> DEFINE at == FindSafeIndexFrom(tail, map)
  <2>1. /\ items' = [items EXCEPT ![at] = [data |-> sent, gen |-> 0]] /\ sent' = sent + 1
        /\ ~Overtaken(items[at]) /\ UNCHANGED <<heads, consumer>>
    BY <1>2, <1>4 DEF EnqSwap
  <2>2. at \in Columns /\ items[at].data \notin Nat /\ items[at].data \in {L, T}
    BY <1>4, PutsAhead
  <2> HIDE DEF at
  <2>3. UNCHANGED <<heads, cpc, last_index, got>> /\ Returned' = Returned
    BY <2>1 DEF consumer, cursor, Returned
  <2>4. \A x : Way(x)' <=> Way(x)
    BY <2>3
  <2>5. CASE v = sent
    <3>1. ~Taken(0, at)
      <4>1. items[at].gen = 0
        BY <1>2, <2>2, CellIs DEF ValueInv, CellsInv
      <4>2. items[at].data # T
        BY <1>2, <2>1, <4>1 DEF Overtaken
      <4> QED
        BY <1>2, <2>2, <4>2 DEF FirstRowInv
    <3>2. ~(at < heads[0]) \/ Way(at)
      BY <1>2, <2>2, <3>1, TakenInFirstRow
    <3>3. at >= heads[0] \/ Way(at)
      <4>1. at \in Nat /\ heads[0] \in Nat
        BY <1>2, <2>2, TakenInFirstRow, ColumnsAre
      <4> QED
        BY <3>2, <4>1
    <3>4. items'[at] = [data |-> v, gen |-> 0]
      BY <2>1, <2>2, <2>5 DEF TypeOK
    <3> QED
      BY <2>2, <2>3, <2>4, <3>3, <3>4
  <2>6. CASE v # sent
    <3>1. v \in Values /\ v \notin Returned /\ v \in Nat
      BY <1>0, <2>1, <2>3, <2>6 DEF Values
    <3>2. PICK x \in Columns : items[x] = [data |-> v, gen |-> 0] /\ (x >= heads[0] \/ Way(x))
      BY <1>3, <3>1
    <3>3. items'[x] = items[x]
      BY <2>1, <2>2, <3>1, <3>2 DEF TypeOK
    <3> QED
      BY <2>3, <2>4, <3>2, <3>3
  <2> QED
    BY <2>5, <2>6
<1>5. ASSUME NEW c \in Consumers, Consumer(c)
      PROVE  \E x \in Columns : items'[x] = [data |-> v, gen |-> 0] /\ (x >= heads'[0] \/ Way(x)')
  <2>1. sent' = sent
    BY <1>5, ConsumerLeaves
  <2>2. \A u \in Returned : u \in Returned'
    <3>1. \A d \in Consumers : \A m \in DOMAIN got[d] : m \in DOMAIN got'[d] /\ got'[d][m] = got[d][m]
      <4> SUFFICES ASSUME NEW d \in Consumers
                   PROVE  \A m \in DOMAIN got[d] : m \in DOMAIN got'[d] /\ got'[d][m] = got[d][m]
        OBVIOUS
      <4> QED
        BY GotStep
    <3>2. \A u : u \in Returned' <=> \E d \in Consumers : \E m \in DOMAIN got'[d] : got'[d][m] = u
      BY DEF Returned, ToSet
    <3> QED
      BY <3>1, <3>2, ReturnedIs
  <2>3. v \in Values /\ v \notin Returned /\ v \in Nat
    BY <1>0, <2>1, <2>2 DEF Values
  <2>4. PICK x \in Columns : items[x] = [data |-> v, gen |-> 0] /\ (x >= heads[0] \/ Way(x))
    BY <1>3, <2>3
  <2>5. ~(DeqSwap(c) /\ last_index[c] = x)
    <3> SUFFICES ASSUME DeqSwap(c), last_index[c] = x PROVE FALSE
      OBVIOUS
    <3>1. deq_row[c] = 0 /\ v # L
      BY <1>2, <2>3, TakenInFirstRow DEF L
    <3>2. got' = [got EXCEPT ![c] = Append(got[c], v)]
      BY <2>4, <3>1 DEF DeqSwap, NoItem
    <3>3. got'[c] = Append(got[c], v) /\ got[c] \in Seq(Nat \cup {T})
      BY <3>2 DEF TypeOK
    <3> DEFINE s == got[c]
    <3>4. Len(s) + 1 \in DOMAIN Append(s, v) /\ Append(s, v)[Len(s) + 1] = v
      <4>1. s \in Seq(Nat \cup {T}) /\ v \in Nat \cup {T}
        BY <2>3, <3>3
      <4> HIDE DEF s
      <4> QED
        BY <4>1
    <3>5. v \in Returned'
      BY <3>3, <3>4 DEF Returned, ToSet
    <3> QED
      BY <3>5
  <2>6. items'[x] = items[x]
    BY <1>5, <2>5, ConsumerCells
  <2>7. /\ heads'[0] = heads[0] \/ (DeqDraw(c) /\ heads'[0] = heads[0] + 1)
        /\ DeqDraw(c) /\ x = heads[0] => cpc'[c] = "swap" /\ last_index'[c] = x
        /\ \A d \in Consumers : cpc[d] = "swap" /\ last_index[d] = x =>
              (cpc'[d] = "swap" /\ last_index'[d] = x) \/ (d = c /\ DeqSwap(c))
    BY <1>2, <1>5, FirstRowDraws
  <2>8. x >= heads'[0] \/ Way(x)'
    <3>1. CASE Way(x)
      <4>1. PICK d \in Consumers : cpc[d] = "swap" /\ last_index[d] = x
        BY <3>1
      <4>2. cpc'[d] = "swap" /\ last_index'[d] = x
        BY <2>5, <2>7, <4>1
      <4> QED
        BY <4>2
    <3>2. CASE x >= heads[0]
      <4>1. x \in Nat /\ heads[0] \in Nat
        BY <1>2, TakenInFirstRow, ColumnsAre
      <4>2. DeqDraw(c) /\ x = heads[0] => Way(x)'
        BY <2>7
      <4> QED
        BY <2>7, <3>2, <4>1, <4>2
    <3> QED
      BY <2>4, <3>1, <3>2
  <2> QED
    BY <2>4, <2>6, <2>8
<1>6. CASE UNCHANGED vars
  <2>1. v \in Values /\ v \notin Returned
    BY <1>6 DEF vars, producer, consumer, Values, Returned
  <2> QED
    BY <1>3, <1>6, <2>1 DEF vars, consumer, cursor
<1>7. CASE EnqSync \/ EnqSwapAgain
  BY <1>2, <1>7 DEF EnqSync, EnqSwapAgain
<1> QED
  BY <1>1, <1>4, <1>5, <1>6, <1>7 DEF Next, Producer

\* In the beginning the row is empty and nothing was drawn.
LEMMA OrderStart == Init => OrderInv
<1> SUFFICES ASSUME Init PROVE OrderInv
  OBVIOUS
<1>1. TypeOK /\ RowInv /\ enq_row = 0
  BY TypeStart, RowStart DEF Init
<1>2. \A x \in Columns : ~Taken(0, x) /\ ~Live(x) /\ items[x].data = L /\ items[x].data \notin Nat
  <2>1. heads[0] = 0
    BY <1>1, TakenInFirstRow DEF Init
  <2> QED
    BY <1>1, <2>1, TakenInFirstRow, ColumnsAre DEF Init, Live, L
<1>3. FirstRowInv /\ FirstCellInv /\ LapInv /\ AscendingInv
  BY <1>2 DEF Init, FirstRowInv, FirstCellInv, LapInv, AscendingInv
<1>4. BehindInv /\ InOrder
  BY DEF Init, BehindInv, InOrder
<1>5. KeptInFirstRow
  <2>1. Values = {}
    BY DEF Init, Values
  <2> QED
    BY <2>1 DEF KeptInFirstRow
<1> QED
  BY <1>3, <1>4, <1>5 DEF OrderInv

\* The invariant: rows are drawn from without conflict, what may still be taken
\* is what nobody returned, and while nothing is overwritten it ascends ahead of
\* every consumer.
THEOREM Invariant == Spec => [](TypeOK /\ IInv)
<1>1. Init => TypeOK /\ IInv
  BY TypeStart, RowStart, ValueStart, OrderStart DEF IInv
<1>2. TypeOK /\ IInv /\ [Next]_vars => (TypeOK /\ IInv)'
  <2> SUFFICES ASSUME TypeOK, RowInv, ValueInv, OrderInv, [Next]_vars PROVE TypeOK' /\ IInv'
    BY DEF IInv
  <2>1. TypeOK' /\ RowInv' /\ ValueInv'
    BY TypeStep, RowStep, ValueStep
  <2>2. OrderInv'
    BY <2>1, FirstRowStep, KeptStep, FirstCellStep, LapStep, AscendingStep, BehindStep, InOrderStep
       DEF OrderInv
  <2> QED
    BY <2>1, <2>2 DEF IInv
<1> QED
  BY <1>1, <1>2, PTL DEF Spec

\* Until the producer overwrites a value, every consumer gets values in the
\* order of the enqueue calls, across row changes, and in row 0 none is lost.
THEOREM UntilOverwrittenHolds == Spec => []UntilOverwritten
<1>1. TypeOK /\ IInv => UntilOverwritten
  BY DEF IInv, OrderInv, UntilOverwritten
<1> QED
  BY <1>1, Invariant, PTL

\* Rows up to the fourth share a head counter, so that the value copied to the
\* first cell of row 1 is never drawn: the second row change overwrites it.
OneRowChange == row > 1 => overwritten # {}

\* Every second row change loses a value: no row after row 1 is announced
\* before the producer overwrote a value that nobody had taken.
THEOREM SecondRowOverwrites == Spec => []OneRowChange
<1>1. TypeOK /\ IInv => OneRowChange
  <2> SUFFICES ASSUME TypeOK, IInv, row > 1, overwritten = {} PROVE FALSE
    BY DEF OneRowChange
  <2>1. row \in Nat /\ enq_row \in Nat /\ ProducerInv /\ FirstCellInv
    BY DEF TypeOK, Gens, IInv, RowInv, OrderInv
  <2>2. enq_row =< 2 /\ (enq_row = 2 => ppc = "again")
    BY <2>1 DEF FirstCellInv
  <2>3. row =< enq_row /\ (ppc = "again" => row + 1 = enq_row)
    BY <2>1 DEF ProducerInv, TypeOK
  <2> QED
    BY <2>1, <2>2, <2>3
<1> QED
  BY <1>1, Invariant, PTL

-----------------------------------------------------------------------------
(***************************************************************************)
(* Row changes.                                                            *)
(***************************************************************************)

\* The first n of a set are n, or they are all.
LEMMA FirstOf ==
  ASSUME NEW A, A \subseteq Nat, IsFiniteSet(A), NEW n \in Nat
  PROVE  LET P == {b \in A : Rank(A, b) < n}
         IN /\ Cardinality(P) \in Nat /\ Cardinality(P) =< n
            /\ Cardinality(P) < n => P = A
            /\ \A b \in P, x \in A \ P : b < x
<1> DEFINE P == {b \in A : Rank(A, b) < n}
<1>0. A \subseteq Int /\ IsFiniteSet(P) /\ Cardinality(P) \in Nat
  <2>1. IsFiniteSet(P)
    BY FS_Subset
  <2> QED
    BY <2>1, FS_CardinalityType
<1>1. \A b \in A : Rank(A, b) \in Nat
  BY RankType
<1>2. Cardinality(P) =< n
  <2> DEFINE f == [b \in P |-> Rank(A, b)]
             to == 0 .. n - 1
  <2>1. f \in [P -> to]
    <3>1. \A b \in P : Rank(A, b) \in Nat /\ Rank(A, b) < n
      BY <1>1
    <3>2. \A b \in P : Rank(A, b) \in 0 .. n - 1
      BY <3>1
    <3> QED
      BY <3>2
  <2>2. \A b, c \in P : f[b] = f[c] => b = c
    BY <1>0, RankInjective
  <2>3. IsFiniteSet(to) /\ Cardinality(to) = n
    BY FS_Interval
  <2> HIDE DEF f, to, P
  <2>4. f \in Injection(P, to)
    BY <2>1, <2>2 DEF Injection, IsInjective
  <2>5. Cardinality(P) =< Cardinality(to)
    BY <2>3, <2>4, FS_Injection
  <2> QED
    BY <2>3, <2>5
<1>3. ASSUME Cardinality(P) < n PROVE P = A
  <2> DEFINE out == A \ P
  <2>1. SUFFICES ASSUME out # {} PROVE FALSE
    OBVIOUS
  <2>2. PICK m \in out : \A x \in out : m =< x
    BY <2>1, Least
  <2>3. m \in A /\ Rank(A, m) \in Nat /\ ~(Rank(A, m) < n)
    BY <1>1, <2>2
  <2>4. Below(A, m) \subseteq P
    <3>1. \A x \in A : x < m => ~(m =< x)
      BY <2>3
    <3> QED
      BY <2>2, <3>1 DEF Below
  <2>5. Cardinality(Below(A, m)) =< Cardinality(P)
    BY <1>0, <2>4, FS_Subset
  <2> HIDE DEF P
  <2> QED
    BY <1>0, <1>3, <2>3, <2>5 DEF Rank
<1>4. ASSUME NEW b \in P, NEW x \in A \ P PROVE b < x
  <2>1. b \in A /\ x \in A /\ b # x /\ b \in Int /\ x \in Int /\ Rank(A, b) < n /\ ~(Rank(A, x) < n)
    BY <1>0, <1>4
  <2>2. Rank(A, b) \in Nat /\ Rank(A, x) \in Nat
    BY <1>1, <2>1
  <2>3. ~(x < b)
    <3>1. ASSUME x < b PROVE FALSE
      <4>1. Rank(A, x) < Rank(A, b)
        BY <1>0, <2>1, <3>1, RankStrict
      <4> QED
        BY <2>1, <2>2, <4>1
    <3> QED
      BY <3>1
  <2> QED
    BY <2>1, <2>3
<1> QED
  BY <1>0, <1>2, <1>3, <1>4

\* A row change takes the next NumConsumers safe indices away, or all there are,
\* and leaves the map up to the index found as it was.
THEOREM RowChangeHolds == Spec => RowChange
<1> DEFINE up == 0 .. tail
           gone == map \ map'
           Right == /\ tail \in map'
                    /\ map' \cap up = map \cap up
                    /\ Cardinality(gone) =< NumConsumers
                    /\ Cardinality(gone) < NumConsumers => gone = {b \in map : b > tail /\ b < Cols}
                    /\ \A b \in gone, x \in map \ (gone \cup up) : b < x
<1>1. ASSUME TypeOK, RowInv, EnqSync PROVE Right
  <2> DEFINE A == Ahead(map, tail)
             B == map'
             P == {b \in A : Rank(A, b) < NumConsumers}
  <2>1. map \subseteq Columns /\ tail \in map /\ B \in Heuristic(map, tail)
    BY <1>1 DEF EnqSync, RowInv, ProducerInv
  <2> HIDE DEF B
  <2>2. /\ B \subseteq Columns /\ map \ B = Predicted(map, tail)
        /\ \A x \in Columns : x =< tail => (x \in B <=> x \in map)
    BY <2>1, HeuristicIs
  <2>3. Predicted(map, tail) = P
    BY DEF Predicted, Rank, Below
  <2>4. A = {b \in map : b > tail /\ b < Cols} /\ A \subseteq map /\ A \subseteq Nat
    <3>1. map \subseteq Nat /\ tail \in Nat
      BY <2>1, ColumnsAre
    <3> QED
      BY <3>1 DEF Ahead
  <2>5. IsFiniteSet(A)
    <3>1. A \subseteq Bits
      BY <2>1, <2>4, BitsAreColumns
    <3> QED
      BY <3>1, BitsFinite
  <2>6. NumConsumers \in Nat
    BY BitmapAssumption
  <2> HIDE DEF A
  <2>7. /\ Cardinality(P) =< NumConsumers
        /\ Cardinality(P) < NumConsumers => P = A
        /\ \A b \in P, x \in A \ P : b < x
    BY <2>4, <2>5, <2>6, FirstOf
  <2> HIDE DEF P
  <2>8. \A x \in map : x \in Nat /\ x < Cols /\ x \in Columns /\ tail \in Nat /\ tail \in Columns
    BY <2>1, ColumnsAre
  <2>9. tail \in B
    BY <2>1, <2>2, <2>8
  <2>10. \A x : x \in B /\ x \in up <=> x \in map /\ x \in up
    <3>1. \A x \in up : x =< tail
      BY <2>1, <2>8
    <3> QED
      BY <2>1, <2>2, <3>1
  <2>11. ASSUME NEW x \in map \ (P \cup up) PROVE x \in A \ P
    <3>1. x \in Nat /\ x < Cols /\ tail \in Nat /\ ~(x \in 0 .. tail)
      BY <2>8, <2>11
    <3>2. x > tail
      BY <3>1
    <3> QED
      BY <2>4, <2>11, <3>1, <3>2
  <2>12. gone = P
    BY <2>2, <2>3 DEF B
  <2>13. /\ Cardinality(gone) =< NumConsumers
         /\ Cardinality(gone) < NumConsumers => gone = {b \in map : b > tail /\ b < Cols}
         /\ \A b \in gone, x \in map \ (gone \cup up) : b < x
    BY <2>4, <2>7, <2>11, <2>12
  <2>14. map' \cap up = map \cap up
    BY <2>10 DEF B
  <2> QED
    BY <2>9, <2>13, <2>14 DEF B
<1>2. ASSUME TypeOK, RowInv, [Next]_vars, map' # map PROVE Right
  <2>1. EnqSync
    BY <1>2 DEF Next, Producer, Consumer, EnqSwap, EnqSwapAgain, EnqAnnounce, DeqReadRow, DeqGetMap,
                DeqDraw, DeqSwap, DeqMark, vars, producer
  <2> QED
    BY <1>1, <1>2, <2>1
<1>3. TypeOK /\ RowInv /\ [Next]_vars => [map' # map => Right]_vars
  BY <1>2
<1> QED
  BY <1>3, TypeCorrect, PTL DEF Spec, RowChange

\* A row changes only after a number of its counter was drawn.
DrawnInv == /\ ppc = "sync" => heads[Counter(enq_row)] > 0
            /\ ppc = "again" => heads[Counter(row)] > 0

\* The values that nobody returned, that no cell holds for a consumer to take,
\* and that the producer does not put again.
Lost == {v \in Values : /\ v \notin Returned
                        /\ \A x \in Columns : Live(x) => items[x].data # v
                        /\ ~(ppc \in {"sync", "again"} /\ v = sent - 1)}

\* A row change between rows with one head counter loses the value it copied:
\* the number of the new row's first cell was drawn before the change.
CopyLost == ppc = "announce" /\ Counter(row) = Counter(enq_row) => sent - 1 \in Lost

\* A number is drawn before the row changes.
LEMMA DrawnStep == TypeOK /\ TypeOK' /\ RowInv /\ ValueInv /\ DrawnInv /\ [Next]_vars => DrawnInv'
<1> SUFFICES ASSUME TypeOK, TypeOK', RowInv, ValueInv, DrawnInv, [Next]_vars PROVE DrawnInv'
  OBVIOUS
<1>0. /\ enq_row \in Nat /\ row \in Nat /\ row =< enq_row /\ ProducerInv
      /\ \A r \in Nat : r =< enq_row => Counter(r) \in DOMAIN heads
  <2>1. enq_row \in Nat /\ row \in Nat /\ row =< enq_row /\ ProducerInv
    BY SMTT(30) DEF TypeOK, Gens, RowInv, ProducerInv
  <2> QED
    BY <2>1, HasCounter
<1>1. \A r \in Nat : r =< enq_row /\ heads[Counter(r)] > 0 => heads'[Counter(r)] > 0
  <2> SUFFICES ASSUME NEW r \in Nat, r =< enq_row, heads[Counter(r)] > 0 PROVE heads'[Counter(r)] > 0
    OBVIOUS
  <2> DEFINE k == Counter(r)
  <2>1. k \in DOMAIN heads
    BY <1>0
  <2> HIDE DEF k
  <2>2. heads[k] \in Nat /\ heads'[k] \in Nat /\ heads[k] =< heads'[k]
    BY <2>1, HeadsGrow
  <2>3. heads[k] > 0
    BY DEF k
  <2>4. heads'[k] > 0
    BY <2>2, <2>3
  <2> QED
    BY <2>4 DEF k
<1>2. CASE EnqSwap
  <2> DEFINE at == FindSafeIndexFrom(tail, map)
  <2>1. at \in Columns /\ UNCHANGED <<heads, enq_row>> /\ ppc' # "again"
        /\ (ppc' = "sync" => Overtaken(items[at]))
    BY <1>0, <1>2, EnqSwapAt DEF EnqSwap
  <2> HIDE DEF at
  <2>2. ASSUME Overtaken(items[at]) PROVE heads[Counter(enq_row)] > 0
    <3>1. Rank(RowMap(enq_row), at) < heads[Counter(enq_row)]
      BY <2>1, <2>2 DEF Overtaken, ValueInv, CellsInv, Taken
    <3>2. Rank(RowMap(enq_row), at) \in Nat /\ heads[Counter(enq_row)] \in Nat
      BY <1>0, RowMapIs, HasCounter
    <3> QED
      BY <3>1, <3>2
  <2> QED
    BY <2>1, <2>2 DEF DrawnInv
<1>3. CASE EnqSync
  <2>1. ppc = "sync" /\ ppc' = "again" /\ UNCHANGED <<heads, row>> /\ row = enq_row
    BY <1>0, <1>3 DEF EnqSync, ProducerInv
  <2> QED
    BY <2>1 DEF DrawnInv
<1>4. CASE EnqSwapAgain \/ EnqAnnounce
  BY <1>4 DEF EnqSwapAgain, EnqAnnounce, DrawnInv
<1>5. CASE UNCHANGED <<row, enq_row, ppc>>
  BY <1>0, <1>1, <1>5 DEF DrawnInv
<1>6. ASSUME NEW c \in Consumers, Consumer(c) PROVE UNCHANGED <<row, enq_row, ppc>>
  BY <1>6, ConsumerLeaves
<1> QED
  BY <1>2, <1>3, <1>4, <1>5, <1>6 DEF Next, Producer, vars, producer

\* What becomes live in a step is the producer's new value or its copy.
LEMMA LiveOrPut ==
  ASSUME TypeOK, RowInv, ValueInv, [Next]_vars, NEW x \in Columns, Live(x)'
  PROVE  \/ Live(x) /\ items'[x] = items[x]
         \/ items'[x].data = sent /\ sent' = sent + 1
         \/ ppc = "again" /\ items'[x].data = sent - 1
<1>1. ASSUME items'[x] = items[x] PROVE Live(x)
  <2>1. items[x].gen \in Nat /\ items[x].gen =< enq_row
    BY CellIs DEF ValueInv, CellsInv
  <2>2. \A r \in Nat : r =< enq_row /\ Taken(r, x) => Taken(r, x)'
    BY TakenStays
  <2>3. Taken(items[x].gen, x) => Taken(items[x].gen, x)'
    BY <1>1, <2>1, <2>2 DEF Taken, RowMap, Rank, Below
  <2> QED
    BY <1>1, <2>3 DEF Live
<1>2. CASE EnqSwap
  <2> DEFINE at == FindSafeIndexFrom(tail, map)
  <2>1. items' = [items EXCEPT ![at] = [data |-> sent, gen |-> enq_row]] /\ sent' = sent + 1
    BY <1>2 DEF EnqSwap
  <2> HIDE DEF at
  <2>2. items'[x] = items[x] \/ items'[x].data = sent
    BY <2>1 DEF TypeOK
  <2> QED
    BY <1>1, <2>1, <2>2
<1>3. CASE EnqSwapAgain
  <2>1. items' = [items EXCEPT ![tail] = [data |-> sent - 1, gen |-> enq_row]] /\ ppc = "again"
    BY <1>3 DEF EnqSwapAgain
  <2>2. items'[x] = items[x] \/ items'[x].data = sent - 1
    BY <2>1 DEF TypeOK
  <2> QED
    BY <1>1, <2>1, <2>2
<1>4. ASSUME NEW c \in Consumers, Consumer(c) PROVE Live(x) /\ items'[x] = items[x]
  BY <1>4, ConsumerCells
<1>5. CASE EnqSync \/ EnqAnnounce \/ UNCHANGED vars
  <2>1. items' = items
    BY <1>5 DEF EnqSync, EnqAnnounce, vars
  <2> QED
    BY <1>1, <2>1
<1> QED
  BY <1>2, <1>3, <1>4, <1>5 DEF Next, Producer

\* What is lost stays lost.
LEMMA LostStep == TypeOK /\ TypeOK' /\ RowInv /\ RowInv' /\ ValueInv /\ [Next]_vars => Lost \subseteq Lost'
<1> SUFFICES ASSUME TypeOK, TypeOK', RowInv, RowInv', ValueInv, [Next]_vars, NEW v \in Lost PROVE v \in Lost'
  OBVIOUS
<1>0. /\ v \in Nat /\ v < sent /\ v \notin Returned /\ sent \in Nat /\ sent' \in Nat
      /\ \A x \in Columns : Live(x) => items[x].data # v
      /\ ~(ppc \in {"sync", "again"} /\ v = sent - 1)
  BY DEF Lost, Values, TypeOK
<1>1. /\ sent' = sent \/ sent' = sent + 1
      /\ ppc' \in {"sync", "again"} => (ppc \in {"sync", "again"} /\ sent' = sent) \/ sent' = sent + 1
  <2>1. ASSUME NEW c \in Consumers, Consumer(c) PROVE UNCHANGED <<ppc, sent>>
    BY <2>1, ConsumerLeaves
  <2> QED
    BY <2>1 DEF Next, Producer, EnqSwap, EnqSync, EnqSwapAgain, EnqAnnounce, vars, producer
<1>2. v \in Values' /\ ~(ppc' \in {"sync", "again"} /\ v = sent' - 1)
  <2>1. v \in Nat /\ sent \in Nat /\ sent' \in Nat /\ v < sent /\ (sent' = sent \/ sent' = sent + 1)
    BY <1>0, <1>1
  <2>2. v < sent' /\ (sent' = sent + 1 => v # sent' - 1)
    <3>1. \A a, b, d \in Nat : a < b /\ (d = b \/ d = b + 1) => a < d /\ (d = b + 1 => a # d - 1)
      OBVIOUS
    <3> QED
      BY <2>1, <3>1, Zenon
  <2>3. v \in Values'
    <3>1. \A a, d \in Nat : a < d => a \in 0 .. d - 1
      OBVIOUS
    <3>2. v \in 0 .. sent' - 1
      BY <2>1, <2>2, <3>1, Zenon
    <3> QED
      BY <3>2 DEF Values
  <2>4. ~(ppc' \in {"sync", "again"} /\ v = sent' - 1)
    BY <1>0, <1>1, <2>2, Zenon
  <2> QED
    BY <2>3, <2>4
<1>3. \A x \in Columns : Live(x)' => items'[x].data # v
  <2> SUFFICES ASSUME NEW x \in Columns, Live(x)' PROVE items'[x].data # v
    OBVIOUS
  <2>1. \/ Live(x) /\ items'[x] = items[x]
        \/ items'[x].data = sent
        \/ ppc = "again" /\ items'[x].data = sent - 1
    BY LiveOrPut
  <2> QED
    BY <1>0, <2>1
<1>4. v \notin Returned'
  <2> SUFFICES ASSUME NEW c \in Consumers, NEW m \in DOMAIN got'[c], got'[c][m] = v PROVE FALSE
    BY DEF Returned, ToSet
  <2>1. CASE m \in DOMAIN got[c] /\ got'[c][m] = got[c][m]
    BY <1>0, <2>1, ReturnedIs
  <2>2. CASE ~(m \in DOMAIN got[c] /\ got'[c][m] = got[c][m])
    <3> DEFINE at == last_index[c]
    <3>1. at \in Columns /\ Live(at) /\ got'[c][m] = items[at].data
      BY <2>2, GotStep
    <3> QED
      BY <1>0, <3>1
  <2> QED
    BY <2>1, <2>2
<1> QED
  BY <1>2, <1>3, <1>4 DEF Lost

\* The row change loses the copy.
LEMMA CopyLostStep ==
  TypeOK /\ TypeOK' /\ RowInv /\ RowInv' /\ ValueInv /\ DrawnInv /\ CopyLost /\ [Next]_vars => CopyLost'
<1> SUFFICES ASSUME TypeOK, TypeOK', RowInv, RowInv', ValueInv, DrawnInv, CopyLost, [Next]_vars,
                    ppc' = "announce", Counter(row') = Counter(enq_row')
             PROVE  sent' - 1 \in Lost'
  BY DEF CopyLost
<1>0. 0 \in Columns /\ enq_row \in Nat /\ row \in Nat /\ sent \in Nat /\ ProducerInv
  BY ColumnsAre DEF TypeOK, Gens, RowInv
<1>1. CASE EnqSwapAgain
  <2>1. /\ items' = [items EXCEPT ![0] = [data |-> sent - 1, gen |-> enq_row]]
        /\ UNCHANGED <<sent, row, enq_row, heads, sync, consumer>> /\ ppc = "again"
        /\ row + 1 = enq_row /\ sent # 0
    BY <1>0, <1>1 DEF EnqSwapAgain, ProducerInv
  <2>2. Taken(enq_row, 0)
    <3>1. heads[Counter(enq_row)] > 0
      BY <2>1 DEF DrawnInv
    <3>2. Rank(RowMap(enq_row), 0) = 0
      BY <1>0, RowMapIs, RanksOfColumns
    <3>3. \A c \in Consumers : last_deq_row[c] # enq_row
      <4> SUFFICES ASSUME NEW c \in Consumers PROVE last_deq_row[c] # enq_row
        OBVIOUS
      <4>1. last_deq_row[c] =< row /\ last_deq_row[c] \in Nat
        BY RowsOf DEF RowInv
      <4> QED
        BY <1>0, <2>1, <4>1
    <3> QED
      BY <3>1, <3>2, <3>3 DEF Taken
  <2>3. /\ items'[0].gen = enq_row /\ \A x \in Columns : x # 0 => items'[x] = items[x]
    BY <1>0, <2>1 DEF TypeOK
  <2>4. UNCHANGED <<heads, sync, cpc, last_deq_row, last_index, got>>
    BY <2>1 DEF consumer, cursor
  <2>5. \A r, x : Taken(r, x)' <=> Taken(r, x)
    BY <2>4 DEF Taken, Rank, Below, RowMap
  <2>6. ~Live(0)'
    <3>1. PICK r \in Nat : r = enq_row
      BY <1>0
    <3>2. Taken(r, 0)'
      BY <2>2, <2>5, <3>1
    <3> QED
      BY <2>3, <3>1, <3>2 DEF Live, Taken, RowMap, Rank, Below
  <2>7. \A x \in Columns : Live(x)' => items'[x].data # sent - 1
    <3> SUFFICES ASSUME NEW x \in Columns, Live(x)' PROVE items'[x].data # sent - 1
      OBVIOUS
    <3>1. x # 0 /\ items'[x] = items[x]
      BY <2>3, <2>6
    <3>2. Live(x)
      BY <2>4, <3>1 DEF Live, Taken, RowMap, Rank, Below
    <3> QED
      BY <2>1, <3>1, <3>2 DEF ValueInv, CopyInv
  <2>8. sent - 1 \notin Returned'
    BY <2>1, <2>4 DEF ValueInv, CopyInv, Returned
  <2>9. sent' - 1 \in Values' /\ sent' = sent
    BY <1>0, <2>1 DEF Values
  <2> QED
    BY <2>7, <2>8, <2>9 DEF Lost
<1>2. CASE ~EnqSwapAgain
  <2>1. ppc = "announce" /\ UNCHANGED <<row, enq_row, sent>>
    <3>1. ASSUME NEW c \in Consumers, Consumer(c) PROVE UNCHANGED <<ppc, row, enq_row, sent>>
      BY <3>1, ConsumerLeaves
    <3> QED
      BY <1>2, <3>1 DEF Next, Producer, EnqSwap, EnqSync, EnqAnnounce, vars, producer
  <2>2. sent - 1 \in Lost
    BY <2>1 DEF CopyLost
  <2> QED
    BY <2>1, <2>2, LostStep
<1> QED
  BY <1>1, <1>2

\* A value that no consumer can take any more is never returned.
THEOREM LostForever == Spec => [][Lost \subseteq Lost']_vars
<1>1. TypeOK /\ TypeOK' /\ RowInv /\ RowInv' /\ ValueInv /\ [Next]_vars => [Lost \subseteq Lost']_vars
  BY LostStep
<1> QED
  BY <1>1, ValueInvariant, PTL DEF Spec

\* Whenever the row changes between rows that share a head counter - the first
\* three times, and three times out of every four - the value of that enqueue
\* call is lost, though the call succeeds.
THEOREM RowChangeLosesValue == Spec => []CopyLost
<1>1. Init => DrawnInv /\ CopyLost
  BY DEF Init, DrawnInv, CopyLost
<1>2. TypeOK /\ TypeOK' /\ RowInv /\ RowInv' /\ ValueInv /\ DrawnInv /\ CopyLost /\ [Next]_vars
      => DrawnInv' /\ CopyLost'
  BY DrawnStep, CopyLostStep
<1> QED
  BY <1>1, <1>2, ValueInvariant, PTL DEF Spec
=============================================================================
