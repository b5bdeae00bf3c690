----------------------------- MODULE BdFFQ_proofs -----------------------------
(***************************************************************************)
(* The safety of bdFFQ for every number of consumers, cells and retries,   *)
(* and all batch sizes that divide N.  The producer and a call both act on *)
(* ranges of tickets, element by element.  What makes this right is that a *)
(* ticket the producer is over, and whose cell does not hold it, never     *)
(* turns up there again: a match can be trusted until the call itself      *)
(* empties the cell, and a skipped ticket for ever.                        *)
(***************************************************************************)
EXTENDS BdFFQ, FiniteSetTheorems, TLAPS

\* The offsets of the producer's round that it has still to mark or publish.
Unwritten == CASE ppc = "publish"         -> ptodo
               [] ppc \in {"mark", "put"} -> free
               [] OTHER                   -> 0 .. left - 1

\* The tickets that the producer is done with, or whose cells it only marks
\* from now on.
over == {t \in 0 .. tail + left - 1 : \A j \in Unwritten : t # tail + j}

\* Nothing is published under these again.
past == {t \in over : ranks[Slot(t)] # t}

\* What the steps of the producer know of its round.
RoundInv ==
  /\ ppc = "idle" => left = 0
  /\ ppc # "idle" => left > 0 /\ sent > 0
  /\ ppc = "mark" => ptodo \subseteq busy
  /\ ppc = "publish" => ptodo \subseteq free

\* A call that waits has retries left.
RetryInv == \A c \in Consumers : cpc[c] = "wait" => retry[c] < MaxRetries

\* An occupied cell holds a datum that was put under its rank; a gap mark is
\* that of a ticket the producer is over.
CellsInv ==
  /\ \A s \in Slots : Busy(s) =>
       /\ Slot(ranks[s]) = s
       /\ ranks[s] \in over
       /\ datas[s] \in book
       /\ datas[s][1] = ranks[s]
  /\ \A s \in Slots : gaps[s] > 0 => Slot(gaps[s]) = s /\ gaps[s] \in over

\* The producer writes into cells that are empty, and publishes what it wrote.
ProducerInv ==
  /\ ppc \in {"read", "mark", "put"} => \A j \in free : ~Busy(Slot(tail + j))
  /\ ppc = "publish" => \A j \in ptodo : /\ ~Busy(Slot(tail + j))
                                         /\ datas[Slot(tail + j)] = Datum(j)
                                         /\ Datum(j) \in book

\* There is one datum under a ticket.
BookInv == /\ \A d \in book : d[1] < putTickets
           /\ \A d, e \in book : d[1] = e[1] => d = e

\* The ranges of the calls in progress were drawn from head and do not overlap.
RangesInv ==
  /\ \A c \in Consumers : cpc[c] # "idle" => base[c] + DeqK =< head
  /\ \A c, d \in Consumers : c # d /\ cpc[c] # "idle" /\ cpc[d] # "idle" =>
       base[c] + DeqK =< base[d] \/ base[d] + DeqK =< base[c]

\* Ticket 0 is skipped by the mark that the memory holds from the start.
final == past \cup {0}

\* What the masks of a call say about its tickets.
MasksOf(c) ==
  /\ cpc[c] \in {"scan", "gaps"} => extra[c] = {}
  /\ cpc[c] = "scan" => candidates[c] = {}
  /\ cpc[c] \in {"scan", "gaps", "recheck"} =>
       \A i \in Offsets : \/ i \in ready[c] \cup pending[c]
                          \/ cpc[c] = "scan" /\ i \in todo[c]
                          \/ base[c] + i \in past
  /\ cpc[c] \in {"gaps", "recheck"} =>
       \A i \in candidates[c] : base[c] + i \in over \cup {0}
  /\ cpc[c] = "recheck" =>
       /\ todo[c] \subseteq candidates[c]
       /\ \A i \in candidates[c] \ todo[c] : i \in extra[c] \/ base[c] + i \in final
  /\ cpc[c] \in {"get", "clear", "redraw"} =>
       \A i \in Offsets : \/ i \in Combined(c)
                          \/ base[c] + i \in undecided
                          \/ base[c] + i \in final
  /\ cpc[c] = "redraw" => Combined(c) = {}
  /\ cpc[c] = "clear" => /\ todo[c] \subseteq Combined(c)
                         /\ \A i \in Combined(c) \ todo[c] : base[c] + i \in past

MasksInv == \A c \in Consumers : MasksOf(c)

\* The offsets whose data consumer c found in their cells and has not taken
\* from there yet.
Found(c) == CASE cpc[c] \in {"scan", "gaps", "recheck", "get"} -> Combined(c)
              [] cpc[c] = "clear"                              -> todo[c]
              [] OTHER                                         -> {}

\* What was found is still there.
FoundInv == \A c \in Consumers : \A i \in Found(c) : Matches(c, i)

\* The list of the data that a call copied out.
Copied(c) ==
  /\ \A m, n \in DOMAIN out[c] : m < n => out[c][m][1] < out[c][n][1]
  /\ \A n \in DOMAIN out[c] : /\ out[c][n] \in book
                              /\ \E i \in Combined(c) : out[c][n][1] = base[c] + i
  /\ \A i \in Combined(c) : \E n \in DOMAIN out[c] : out[c][n][1] = base[c] + i
  /\ Len(out[c]) =< DeqK

OutInv == \A c \in Consumers : cpc[c] = "clear" => Copied(c)

\* A datum that was returned is in no cell, under nobody's ticket, and older
\* than what its consumer now works on.
GotInv == \A c \in Consumers : \A n \in DOMAIN got[c] :
            /\ got[c][n] \in book
            /\ got[c][n][1] \in past
            /\ got[c][n][1] < head
            /\ \A d \in Consumers : ~Holds(d, got[c][n][1])
            /\ cpc[c] # "idle" => got[c][n][1] < base[c]

\* Every datum put is published, about to be, in somebody's hands or returned.
StoredInv == \A d \in book :
               \/ Published(d)
               \/ ppc = "publish" /\ \E j \in ptodo : d[1] = tail + j
               \/ \E c \in Consumers : d \in InHand(c)
               \/ d \in Returned

\* Every ticket drawn is held, was given up, or is settled.
DrawnInv == \A t \in 0 .. head - 1 :
              \/ \E c \in Consumers : Holds(c, t)
              \/ t \in timedOut \cup undecided
              \/ t \in final

\* A ticket that was skipped is settled.
PassedInv == passed \subseteq final

TypeInv == TypeOK /\ RoundInv /\ RetryInv

IInv == /\ CellsInv /\ ProducerInv /\ BookInv /\ RangesInv /\ MasksInv /\ FoundInv
        /\ OutInv /\ GotInv /\ StoredInv /\ DrawnInv /\ PassedInv
-----------------------------------------------------------------------------
\* Division with remainder.
LEMMA ModDiv ==
  ASSUME NEW n \in Nat \ {0}, NEW i \in Int
  PROVE  /\ (i % n) \in 0 .. n - 1
         /\ (i \div n) \in Int
         /\ i = n * (i \div n) + (i % n)
  BY Z3

\* Positions less than a ring's length apart have different slots.
LEMMA ModInjective ==
  ASSUME NEW n \in Nat \ {0}, NEW i \in Int, NEW j \in Int, i < j, j < i + n
  PROVE  i % n # j % n
<1>1. PICK p \in Int, q \in Int : i = n * p + (i % n) /\ j = n * q + (j % n)
  BY ModDiv
<1>2. i % n = j % n => j - i = n * (q - p)
  BY <1>1, ModDiv, Z3
<1>3. \A d \in Int : n * d < n => n * d =< 0
  <2>1. \A d \in Int : d >= 1 => n * d >= n
    BY Z3
  <2> QED
    BY <2>1, Z3
<1> QED
  BY <1>2, <1>3

\* Every ticket has a cell, ...
LEMMA SlotType == ASSUME NEW t \in Int PROVE Slot(t) \in Slots
  BY ModDiv, SizeAssumption DEF Slot, Slots

\* ... and two tickets less than N apart have different ones.
LEMMA NearSlots ==
  ASSUME NEW b \in Nat, NEW i \in 0 .. N - 1, NEW j \in 0 .. N - 1, i # j
  PROVE  Slot(b + i) # Slot(b + j)
<1>0. N \in Nat \ {0}
  BY SizeAssumption
<1>1. CASE i < j
  <2>1. b + i \in Int /\ b + j \in Int /\ b + i < b + j /\ b + j < (b + i) + N
    BY <1>0, <1>1
  <2> QED
    BY <1>0, <2>1, ModInjective DEF Slot
<1>2. CASE j < i
  <2>1. b + i \in Int /\ b + j \in Int /\ b + j < b + i /\ b + i < (b + j) + N
    BY <1>0, <1>2
  <2> QED
    BY <1>0, <2>1, ModInjective DEF Slot
<1> QED
  BY <1>0, <1>1, <1>2

\* TypeOK in two parts, the second one the consumers' own.
SharedType == /\ ranks \in [Slots -> Nat \cup {EMPTY_CELL}] /\ gaps \in [Slots -> Nat]
              /\ datas \in [Slots -> Nat \X Nat] /\ book \subseteq Nat \X Nat
              /\ head \in Nat /\ tail \in Nat /\ sent \in Nat /\ left \in 0 .. EnqK
              /\ ppc \in {"idle", "read", "mark", "put", "publish", "overrun"}
              /\ free \subseteq 0 .. left - 1 /\ ptodo \subseteq 0 .. left - 1

Steps == {"idle", "scan", "gaps", "recheck", "wait", "get", "clear", "redraw"}

ConsumersType == /\ cpc \in [Consumers -> Steps]
                 /\ base \in [Consumers -> Nat] /\ retry \in [Consumers -> 0 .. MaxRetries]
                 /\ ready \in [Consumers -> SUBSET Offsets]
                 /\ pending \in [Consumers -> SUBSET Offsets]
                 /\ candidates \in [Consumers -> SUBSET Offsets]
                 /\ extra \in [Consumers -> SUBSET Offsets]
                 /\ todo \in [Consumers -> SUBSET Offsets]
                 /\ out \in [Consumers -> Seq(Nat \X Nat)]
                 /\ got \in [Consumers -> Seq(Nat \X Nat)]
                 /\ passed \subseteq Nat /\ undecided \subseteq Nat /\ timedOut \subseteq Nat

\* The two parts are all of it.
LEMMA TypeParts == TypeOK <=> SharedType /\ ConsumersType
<1>1. UNION {passed, undecided, timedOut} \subseteq Nat
        <=> passed \subseteq Nat /\ undecided \subseteq Nat /\ timedOut \subseteq Nat
  BY Zenon
<1>2. (\A m \in {ready, pending, candidates, extra, todo} : m \in [Consumers -> SUBSET Offsets])
        <=> /\ ready \in [Consumers -> SUBSET Offsets]
            /\ pending \in [Consumers -> SUBSET Offsets]
            /\ candidates \in [Consumers -> SUBSET Offsets]
            /\ extra \in [Consumers -> SUBSET Offsets]
            /\ todo \in [Consumers -> SUBSET Offsets]
  BY Zenon
<1> QED
  BY <1>1, <1>2, Zenon DEF TypeOK, SharedType, ConsumersType, Steps

\* The sizes of the batches.
LEMMA Sizes == /\ N \in Nat \ {0} /\ EnqK \in Nat \ {0} /\ DeqK \in Nat \ {0}
               /\ EnqK =< N /\ DeqK =< N
  BY SizeAssumption

\* The round that follows one: it is shorter by what was put.
LEMMA AdvanceFacts ==
  ASSUME SharedType, Advance
  PROVE  /\ tail' = tail + left /\ left' \in 0 .. left /\ free' = {}
         /\ ptodo' = 0 .. left' - 1
         /\ ppc' \in {"idle", "read", "overrun"}
         /\ ppc' = "idle" <=> left' = 0
<1> DEFINE k == left - Cardinality(free)
<1>1. left \in Nat /\ tail \in Nat
  BY Sizes DEF SharedType
<1>2. Cardinality(free) \in Nat
  <2>1. IsFiniteSet(0 .. left - 1)
    BY <1>1, FS_Interval
  <2>2. IsFiniteSet(free)
    BY <2>1, FS_Subset DEF SharedType
  <2> QED
    BY <2>2, FS_CardinalityType
<1>3. CASE k > 0
  <2>1. Round(tail + left, k)
    BY <1>3 DEF Advance
  <2> QED
    BY <1>1, <1>2, <1>3, <2>1 DEF Round
<1>4. CASE ~(k > 0)
  <2>1. Done
    BY <1>4 DEF Advance
  <2> QED
    BY <1>1, <2>1 DEF Done
<1> QED
  BY <1>3, <1>4

-----------------------------------------------------------------------------
\* A datum of the round in progress.
LEMMA DatumType ==
  ASSUME SharedType, RoundInv, ppc # "idle", NEW j \in 0 .. left - 1
  PROVE  Datum(j) \in Nat \X Nat
<1>1. /\ tail \in Nat /\ sent \in Nat /\ sent > 0 /\ left \in Nat /\ left =< EnqK
      /\ EnqK \in Nat /\ j \in Nat
  BY Sizes DEF SharedType, RoundInv
<1>2. PICK n \in Nat : sent = n + 1
  <2>1. sent - 1 \in Nat /\ sent = (sent - 1) + 1
    BY <1>1
  <2> QED
    BY <2>1
<1>3. n * EnqK \in Nat /\ sent * EnqK = n * EnqK + EnqK
  BY <1>1, <1>2
<1>4. sent * EnqK - left + j \in Nat
  BY <1>1, <1>3
<1> QED
  BY <1>1, <1>4 DEF Datum

\* The producer's steps keep the types, ...
LEMMA ProducerType ==
  ASSUME TypeInv, Producer
  PROVE  SharedType' /\ ConsumersType' /\ RoundInv'
<1>0. SharedType /\ ConsumersType /\ RoundInv
  BY TypeParts DEF TypeInv
<1>1. ConsumersType'
  <2>1. UNCHANGED consumer
    BY DEF Producer, EnqueueBatch, EnqStep, EnqReadRank, EnqMarkGap, EnqPutData, EnqPublish
  <2> QED
    BY <1>0, <2>1 DEF ConsumersType, consumer, masks, history
<1>2. /\ ranks \in [Slots -> Nat \cup {EMPTY_CELL}] /\ gaps \in [Slots -> Nat]
      /\ datas \in [Slots -> Nat \X Nat] /\ book \subseteq Nat \X Nat
      /\ head \in Nat /\ tail \in Nat /\ sent \in Nat /\ left \in Nat /\ left =< EnqK
      /\ EnqK \in Nat \ {0}
      /\ free \subseteq 0 .. left - 1 /\ ptodo \subseteq 0 .. left - 1
  BY <1>0, Sizes DEF SharedType
<1>3. \A j \in 0 .. left - 1 : tail + j \in Nat /\ Slot(tail + j) \in Slots
  BY <1>2, SlotType
<1>4. ASSUME Advance, UNCHANGED sent, sent > 0
      PROVE  /\ tail' \in Nat /\ left' \in 0 .. EnqK
             /\ ppc' \in {"idle", "read", "mark", "put", "publish", "overrun"}
             /\ free' \subseteq 0 .. left' - 1 /\ ptodo' \subseteq 0 .. left' - 1
             /\ RoundInv'
  <2>1. /\ tail' = tail + left /\ left' \in 0 .. left /\ free' = {}
        /\ ptodo' = 0 .. left' - 1
        /\ ppc' \in {"idle", "read", "overrun"}
        /\ ppc' = "idle" <=> left' = 0
    BY <1>0, <1>4, AdvanceFacts
  <2>2. RoundInv'
    <3>1. PICK l \in 0 .. left : l = left'
      BY <2>1
    <3>2. ppc' # "idle" => left' > 0 /\ sent' > 0
      BY <1>2, <1>4, <2>1, <3>1
    <3> QED
      BY <2>1, <3>2 DEF RoundInv
  <2> QED
    BY <1>2, <2>1, <2>2
<1>5. CASE EnqueueBatch
  <2>1. /\ tail' = tail /\ left' = EnqK /\ free' = {} /\ ptodo' = 0 .. EnqK - 1
        /\ sent' = sent + 1 /\ ppc' \in {"read", "overrun"}
        /\ UNCHANGED <<ranks, gaps, datas, head, book>>
    BY <1>5 DEF EnqueueBatch, Round, windows
  <2>2. RoundInv'
    BY <1>2, <2>1 DEF RoundInv
  <2> QED
    BY <1>1, <1>2, <2>1, <2>2 DEF SharedType
<1>6. ASSUME NEW j \in ptodo, EnqReadRank(j) PROVE SharedType' /\ RoundInv'
  <2>1. /\ tail' = tail /\ left' = left /\ free' \subseteq free \cup {j}
        /\ \/ ppc' = "read" /\ ptodo' = ptodo \ {j}
           \/ ppc' = "put" /\ ptodo' = {}
           \/ ppc' = "mark" /\ ptodo' = (0 .. left - 1) \ free'
        /\ UNCHANGED <<ranks, gaps, datas, head, sent, book>> /\ ppc = "read"
    BY <1>6 DEF EnqReadRank, EnqGo, windows
  <2>2. free' \subseteq 0 .. left - 1 /\ ptodo' \subseteq 0 .. left - 1
    BY <1>2, <2>1
  <2>3. RoundInv'
    BY <1>0, <2>1 DEF RoundInv, busy
  <2> QED
    BY <1>2, <2>1, <2>2, <2>3 DEF SharedType
<1>7. ASSUME NEW j \in ptodo, EnqMarkGap(j) PROVE SharedType' /\ RoundInv'
  <2>1. /\ ppc = "mark" /\ gaps' = [gaps EXCEPT ![Slot(tail + j)] = tail + j]
        /\ UNCHANGED <<ranks, datas, head, sent, book>>
    BY <1>7 DEF EnqMarkGap
  <2>2. gaps' \in [Slots -> Nat]
    BY <1>2, <1>3, <2>1
  <2>3. CASE UNCHANGED <<tail, left, free>> /\ ppc' = "mark" /\ ptodo' = ptodo \ {j}
    <3>1. RoundInv'
      BY <1>0, <2>1, <2>3 DEF RoundInv, busy
    <3> QED
      BY <1>2, <2>1, <2>2, <2>3, <3>1 DEF SharedType
  <2>4. CASE UNCHANGED <<tail, left, free>> /\ ppc' = "put" /\ ptodo' = {}
    <3>1. RoundInv'
      BY <1>0, <2>1, <2>4 DEF RoundInv
    <3> QED
      BY <1>2, <2>1, <2>2, <2>4, <3>1 DEF SharedType
  <2>5. CASE Advance
    <3>1. sent > 0
      BY <1>0, <2>1 DEF RoundInv
    <3> QED
      BY <1>2, <1>4, <2>1, <2>2, <2>5, <3>1 DEF SharedType
  <2>6. \/ UNCHANGED <<tail, left, free>> /\ ppc' = "mark" /\ ptodo' = ptodo \ {j}
        \/ UNCHANGED <<tail, left, free>> /\ ppc' = "put" /\ ptodo' = {}
        \/ Advance
    BY <1>7 DEF EnqMarkGap, EnqGo
  <2> QED
    BY <2>3, <2>4, <2>5, <2>6
<1>8. CASE EnqPutData
  <2>1. /\ ppc = "put" /\ ppc' = "publish" /\ ptodo' = free
        /\ UNCHANGED <<ranks, gaps, head, free, sent, tail, left>>
        /\ book' = book \cup {Datum(j) : j \in free}
    BY <1>8 DEF EnqPutData, EnqGo
  <2>2. \A j \in free : Datum(j) \in Nat \X Nat
    BY <1>0, <1>2, <2>1, DatumType
  <2>3. datas' \in [Slots -> Nat \X Nat]
    <3>1. datas' = [s \in Slots |->
                      IF \E j \in free : s = Slot(tail + j)
                      THEN Datum(CHOOSE j \in free : s = Slot(tail + j)) ELSE datas[s]]
      BY <1>8 DEF EnqPutData
    <3>2. ASSUME NEW s \in Slots
          PROVE (IF \E j \in free : s = Slot(tail + j)
                 THEN Datum(CHOOSE j \in free : s = Slot(tail + j)) ELSE datas[s]) \in Nat \X Nat
      <4>1. CASE \E j \in free : s = Slot(tail + j)
        <5>1. (CHOOSE j \in free : s = Slot(tail + j)) \in free
          BY <4>1
        <5> QED
          BY <2>2, <4>1, <5>1, Zenon
      <4>2. CASE ~\E j \in free : s = Slot(tail + j)
        <5>1. datas[s] \in Nat \X Nat
          BY <1>2
        <5> QED
          BY <4>2, <5>1, Zenon
      <4> QED
        BY <4>1, <4>2
    <3> QED
      BY <3>1, <3>2, Zenon
  <2>4. book' \subseteq Nat \X Nat
    BY <1>2, <2>1, <2>2, Zenon
  <2>5. RoundInv'
    BY <1>0, <2>1 DEF RoundInv
  <2>6. left' \in 0 .. EnqK /\ free' \subseteq 0 .. left' - 1 /\ ptodo' \subseteq 0 .. left' - 1
    BY <1>2, <2>1
  <2>7. ranks' \in [Slots -> Nat \cup {EMPTY_CELL}] /\ gaps' \in [Slots -> Nat]
        /\ head' \in Nat /\ tail' \in Nat /\ sent' \in Nat
        /\ ppc' \in {"idle", "read", "mark", "put", "publish", "overrun"}
    BY <1>2, <2>1
  <2> QED
    BY <1>1, <2>3, <2>4, <2>5, <2>6, <2>7, Zenon DEF SharedType
<1>9. ASSUME NEW j \in ptodo, EnqPublish(j) PROVE SharedType' /\ RoundInv'
  <2>1. /\ ppc = "publish" /\ ranks' = [ranks EXCEPT ![Slot(tail + j)] = tail + j]
        /\ UNCHANGED <<gaps, datas, head, sent, book>>
    BY <1>9 DEF EnqPublish
  <2>2. ranks' \in [Slots -> Nat \cup {EMPTY_CELL}]
    BY <1>2, <1>3, <2>1
  <2>3. CASE UNCHANGED <<tail, left, free>> /\ ppc' = "publish" /\ ptodo' = ptodo \ {j}
    <3>1. RoundInv'
      BY <1>0, <2>1, <2>3 DEF RoundInv
    <3> QED
      BY <1>2, <2>1, <2>2, <2>3, <3>1 DEF SharedType
  <2>4. CASE Advance
    <3>1. sent > 0
      BY <1>0, <2>1 DEF RoundInv
    <3> QED
      BY <1>2, <1>4, <2>1, <2>2, <2>4, <3>1 DEF SharedType
  <2>5. \/ UNCHANGED <<tail, left, free>> /\ ppc' = "publish" /\ ptodo' = ptodo \ {j}
        \/ Advance
    BY <1>9 DEF EnqPublish, EnqGo
  <2> QED
    BY <2>3, <2>4, <2>5
<1> QED
  BY <1>1, <1>5, <1>6, <1>7, <1>8, <1>9 DEF Producer, EnqStep

\* The outcomes of a decision.
LEMMA DecideFacts ==
  ASSUME NEW c \in Consumers, NEW combined, NEW undec, Decide(c, combined, undec)
  PROVE  /\ todo' = [todo EXCEPT ![c] = {}]
         /\ \/ /\ cpc' = [cpc EXCEPT ![c] = "wait"] /\ retry[c] < MaxRetries
               /\ undecided' = undecided /\ timedOut' = timedOut
            \/ /\ cpc' = [cpc EXCEPT ![c] = "idle"]
               /\ undecided' = undecided /\ timedOut' = timedOut \cup Tickets(c)
            \/ /\ cpc' = [cpc EXCEPT ![c] = "redraw"] /\ combined = {}
               /\ undecided' = undecided \cup {base[c] + i : i \in undec}
               /\ timedOut' = timedOut
            \/ /\ cpc' = [cpc EXCEPT ![c] = "get"]
               /\ undecided' = undecided \cup {base[c] + i : i \in undec}
               /\ timedOut' = timedOut
  BY DEF Decide, Go, RetriesLeft

\* What a decision does to the types.
LEMMA DecideType ==
  ASSUME ConsumersType, NEW c \in Consumers, NEW combined, NEW undec \in SUBSET Offsets,
         Decide(c, combined, undec)
  PROVE  /\ cpc' \in [Consumers -> Steps] /\ todo' \in [Consumers -> SUBSET Offsets]
         /\ undecided' \subseteq Nat /\ timedOut' \subseteq Nat
<1>1. cpc' \in [Consumers -> Steps] /\ todo' \in [Consumers -> SUBSET Offsets]
  BY DecideFacts DEF ConsumersType, Steps
<1>2. Tickets(c) \subseteq Nat /\ {base[c] + i : i \in undec} \subseteq Nat
  BY Sizes DEF ConsumersType, Offsets, Tickets
<1>3. /\ undecided' = undecided \/ undecided' = undecided \cup {base[c] + i : i \in undec}
      /\ timedOut' = timedOut \/ timedOut' = timedOut \cup Tickets(c)
  BY DecideFacts
<1> QED
  BY <1>1, <1>2, <1>3, Zenon DEF ConsumersType

\* A list of offsets read from datas is a sequence of data.
LEMMA TakenType ==
  ASSUME SharedType, ConsumersType, NEW c \in Consumers, NEW kept \in SUBSET Offsets,
         NEW taken \in SeqOf(kept, DeqK)
  PROVE  /\ \E k \in 0 .. DeqK : DOMAIN taken = 1 .. k /\ taken \in [1 .. k -> kept]
         /\ [n \in DOMAIN taken |-> datas[Slot(base[c] + taken[n])]] \in Seq(Nat \X Nat)
<1>1. PICK k \in 0 .. DeqK : taken \in [1 .. k -> kept]
  BY DEF SeqOf
<1>2. ASSUME NEW n \in 1 .. k PROVE datas[Slot(base[c] + taken[n])] \in Nat \X Nat
  <2>1. taken[n] \in Int /\ base[c] \in Nat
    <3>1. taken[n] \in Offsets
      BY <1>1
    <3> QED
      BY <3>1, Sizes DEF ConsumersType, Offsets
  <2>2. Slot(base[c] + taken[n]) \in Slots
    BY <2>1, SlotType
  <2> QED
    BY <2>2 DEF SharedType
<1>3. k \in Nat
  BY Sizes
<1>4. [n \in 1 .. k |-> datas[Slot(base[c] + taken[n])]] \in Seq(Nat \X Nat)
  BY <1>2, <1>3
<1> QED
  BY <1>1, <1>4

\* A call starts an iteration with empty masks.
LEMMA ClearMasksType ==
  ASSUME ConsumersType, NEW c \in Consumers, ClearMasks(c)
  PROVE  /\ ready' \in [Consumers -> SUBSET Offsets] /\ pending' \in [Consumers -> SUBSET Offsets]
         /\ candidates' \in [Consumers -> SUBSET Offsets]
         /\ extra' \in [Consumers -> SUBSET Offsets]
<1>1. ready' \in [Consumers -> SUBSET Offsets] /\ pending' \in [Consumers -> SUBSET Offsets]
  BY DEF ClearMasks, ConsumersType
<1>2. candidates' \in [Consumers -> SUBSET Offsets] /\ extra' \in [Consumers -> SUBSET Offsets]
  BY DEF ClearMasks, ConsumersType
<1> QED
  BY <1>1, <1>2

\* The next bulk call.
LEMMA GoType ==
  ASSUME ConsumersType, NEW c \in Consumers, NEW step \in Steps, NEW s \in SUBSET Offsets,
         Go(c, step, s)
  PROVE  cpc' \in [Consumers -> Steps] /\ todo' \in [Consumers -> SUBSET Offsets]
<1>1. cpc' \in [Consumers -> Steps]
  BY DEF ConsumersType, Go
<1>2. todo' \in [Consumers -> SUBSET Offsets]
  BY DEF ConsumersType, Go
<1> QED
  BY <1>1, <1>2

\* The dequeue steps keep the types, too.
LEMMA ConsumerType ==
  ASSUME TypeInv, NEW c \in Consumers, Consumer(c)
  PROVE  SharedType' /\ ConsumersType'
<1> USE DEF windows, producer, masks, history
<1>0. /\ SharedType /\ ConsumersType /\ RetryInv /\ retry[c] \in 0 .. MaxRetries
      /\ MaxRetries \in Nat \ {0} /\ base[c] \in Nat
  BY TypeParts, LimitsAssumption DEF TypeInv, ConsumersType
<1>1. /\ pending[c] \in SUBSET Offsets /\ ready[c] \in SUBSET Offsets
      /\ candidates[c] \in SUBSET Offsets /\ extra[c] \in SUBSET Offsets
      /\ todo[c] \in SUBSET Offsets /\ {} \in SUBSET Offsets /\ Offsets \in SUBSET Offsets
      /\ Combined(c) \in SUBSET Offsets
  BY <1>0 DEF ConsumersType, Combined
<1>2. /\ "scan" \in Steps /\ "gaps" \in Steps /\ "recheck" \in Steps /\ "wait" \in Steps
      /\ "get" \in Steps /\ "clear" \in Steps /\ "redraw" \in Steps /\ "idle" \in Steps
  BY DEF Steps
<1>3. UNCHANGED <<windows, head, producer>> => SharedType'
  BY <1>0 DEF SharedType
<1>4. ASSUME Draw(c) PROVE base' \in [Consumers -> Nat] /\ head' \in Nat
  BY <1>0, <1>4, Sizes DEF Draw, SharedType, ConsumersType
<1>5. CASE DeqDraw(c)
  <2>1. /\ ready' \in [Consumers -> SUBSET Offsets] /\ pending' \in [Consumers -> SUBSET Offsets]
        /\ candidates' \in [Consumers -> SUBSET Offsets]
        /\ extra' \in [Consumers -> SUBSET Offsets]
    BY <1>0, <1>5, ClearMasksType DEF DeqDraw
  <2>2. cpc' \in [Consumers -> Steps] /\ todo' \in [Consumers -> SUBSET Offsets]
    BY <1>0, <1>1, <1>2, <1>5, GoType DEF DeqDraw
  <2>3. base' \in [Consumers -> Nat] /\ head' \in Nat
    BY <1>4, <1>5 DEF DeqDraw
  <2>4. retry' \in [Consumers -> 0 .. MaxRetries]
    BY <1>0, <1>5 DEF DeqDraw, ConsumersType
  <2> QED
    BY <1>0, <1>5, <2>1, <2>2, <2>3, <2>4 DEF DeqDraw, SharedType, ConsumersType
<1>6. CASE DeqWait(c)
  <2>1. /\ ready' \in [Consumers -> SUBSET Offsets] /\ pending' \in [Consumers -> SUBSET Offsets]
        /\ candidates' \in [Consumers -> SUBSET Offsets]
        /\ extra' \in [Consumers -> SUBSET Offsets]
    BY <1>0, <1>6, ClearMasksType DEF DeqWait
  <2>2. cpc' \in [Consumers -> Steps] /\ todo' \in [Consumers -> SUBSET Offsets]
    BY <1>0, <1>1, <1>2, <1>6, GoType DEF DeqWait
  <2>3. retry' \in [Consumers -> 0 .. MaxRetries]
    <3>1. retry[c] < MaxRetries
      BY <1>0, <1>6 DEF DeqWait, RetryInv
    <3>2. retry[c] + 1 \in 0 .. MaxRetries
      BY <1>0, <3>1
    <3> QED
      BY <1>0, <1>6, <3>2 DEF DeqWait, ConsumersType
  <2> QED
    BY <1>0, <1>3, <1>6, <2>1, <2>2, <2>3 DEF DeqWait, ConsumersType
<1>7. CASE DeqRedraw(c)
  <2>1. /\ ready' \in [Consumers -> SUBSET Offsets] /\ pending' \in [Consumers -> SUBSET Offsets]
        /\ candidates' \in [Consumers -> SUBSET Offsets]
        /\ extra' \in [Consumers -> SUBSET Offsets]
    BY <1>0, <1>7, ClearMasksType DEF DeqRedraw
  <2>2. base' \in [Consumers -> Nat] /\ head' \in Nat
    BY <1>4, <1>7 DEF DeqRedraw
  <2>3. {head + i : i \in Offsets} \subseteq Nat
    BY <1>0, Sizes DEF SharedType, Offsets
  <2>4. /\ \/ Go(c, "scan", Offsets) \/ Go(c, "idle", {})
        /\ \/ retry' = [retry EXCEPT ![c] = retry[c] + 1] /\ retry[c] < MaxRetries
           \/ retry' = retry
        /\ timedOut' = timedOut \/ timedOut' = timedOut \cup {head + i : i \in Offsets}
        /\ UNCHANGED <<windows, producer, out, got, passed, undecided>>
    BY <1>0, <1>7 DEF DeqRedraw, RetriesLeft, ConsumersType
  <2>5. cpc' \in [Consumers -> Steps] /\ todo' \in [Consumers -> SUBSET Offsets]
    <3>1. CASE Go(c, "scan", Offsets)
      BY <1>0, <1>1, <1>2, <3>1, GoType
    <3>2. CASE Go(c, "idle", {})
      BY <1>0, <1>1, <1>2, <3>2, GoType
    <3> QED
      BY <2>4, <3>1, <3>2
  <2>6. retry' \in [Consumers -> 0 .. MaxRetries]
    <3>1. retry[c] < MaxRetries => retry[c] + 1 \in 0 .. MaxRetries
      BY <1>0
    <3> QED
      BY <1>0, <2>4, <3>1 DEF ConsumersType
  <2>7. timedOut' \subseteq Nat
    BY <1>0, <2>3, <2>4, Zenon DEF ConsumersType
  <2> QED
    BY <1>0, <2>1, <2>2, <2>4, <2>5, <2>6, <2>7 DEF SharedType, ConsumersType
<1>8. CASE DeqGetData(c)
  <2>1. PICK taken \in SeqOf(Combined(c), DeqK) :
          out' = [out EXCEPT ![c] =
                    [n \in DOMAIN taken |-> datas[Slot(base[c] + taken[n])]]]
    BY <1>8 DEF DeqGetData
  <2>2. out' \in [Consumers -> Seq(Nat \X Nat)]
    <3>1. [n \in DOMAIN taken |-> datas[Slot(base[c] + taken[n])]] \in Seq(Nat \X Nat)
      BY <1>0, <1>1, TakenType
    <3> QED
      BY <1>0, <2>1, <3>1 DEF ConsumersType
  <2>3. cpc' \in [Consumers -> Steps] /\ todo' \in [Consumers -> SUBSET Offsets]
    BY <1>0, <1>1, <1>2, <1>8, GoType DEF DeqGetData
  <2> QED
    BY <1>0, <1>3, <1>8, <2>2, <2>3 DEF DeqGetData, ConsumersType
<1>9. ASSUME NEW i \in todo[c], DeqScan(c, i) PROVE SharedType' /\ ConsumersType'
  <2> DEFINE rdy == IF Matches(c, i) THEN ready[c] \cup {i} ELSE ready[c]
             pend == IF RankAt(c, i) < base[c] + i THEN pending[c] \cup {i} ELSE pending[c]
  <2>1. rdy \in SUBSET Offsets /\ pend \in SUBSET Offsets /\ todo[c] \ {i} \in SUBSET Offsets
    BY <1>1
  <2>2. /\ ready' = [ready EXCEPT ![c] = rdy] /\ pending' = [pending EXCEPT ![c] = pend]
        /\ \/ Decide(c, rdy, {})
           \/ Go(c, "scan", todo[c] \ {i}) /\ UNCHANGED <<undecided, timedOut>>
           \/ Go(c, "gaps", pend) /\ UNCHANGED <<undecided, timedOut>>
        /\ UNCHANGED <<windows, head, producer, base, retry, candidates, extra, out, got, passed>>
    BY <1>9 DEF DeqScan
  <2> HIDE DEF rdy, pend
  <2>3. ready' \in [Consumers -> SUBSET Offsets] /\ pending' \in [Consumers -> SUBSET Offsets]
    BY <1>0, <2>1, <2>2 DEF ConsumersType
  <2>4. /\ cpc' \in [Consumers -> Steps] /\ todo' \in [Consumers -> SUBSET Offsets]
        /\ undecided' \subseteq Nat /\ timedOut' \subseteq Nat
    <3>1. CASE Decide(c, rdy, {})
      BY <1>0, <1>1, <3>1, DecideType
    <3>2. CASE Go(c, "scan", todo[c] \ {i}) /\ UNCHANGED <<undecided, timedOut>>
      <4>1. cpc' \in [Consumers -> Steps] /\ todo' \in [Consumers -> SUBSET Offsets]
        BY <1>0, <1>2, <2>1, <3>2, GoType
      <4> QED
        BY <1>0, <3>2, <4>1 DEF ConsumersType
    <3>3. CASE Go(c, "gaps", pend) /\ UNCHANGED <<undecided, timedOut>>
      <4>1. cpc' \in [Consumers -> Steps] /\ todo' \in [Consumers -> SUBSET Offsets]
        BY <1>0, <1>2, <2>1, <3>3, GoType
      <4> QED
        BY <1>0, <3>3, <4>1 DEF ConsumersType
    <3> QED
      BY <2>2, <3>1, <3>2, <3>3
  <2> QED
    BY <1>0, <1>3, <2>2, <2>3, <2>4 DEF ConsumersType
<1>10. ASSUME NEW i \in todo[c], DeqReadGap(c, i) PROVE SharedType' /\ ConsumersType'
  <2> DEFINE cand == IF gaps[Slot(base[c] + i)] >= base[c] + i
                     THEN candidates[c] \cup {i} ELSE candidates[c]
  <2>1. cand \in SUBSET Offsets /\ todo[c] \ {i} \in SUBSET Offsets
    BY <1>1
  <2>2. /\ candidates' = [candidates EXCEPT ![c] = cand]
        /\ \/ Decide(c, ready[c], pending[c])
           \/ Go(c, "gaps", todo[c] \ {i}) /\ UNCHANGED <<undecided, timedOut>>
           \/ Go(c, "recheck", cand) /\ UNCHANGED <<undecided, timedOut>>
        /\ UNCHANGED <<windows, head, producer, base, retry, ready, pending, extra, out, got, passed>>
    BY <1>10 DEF DeqReadGap
  <2> HIDE DEF cand
  <2>3. candidates' \in [Consumers -> SUBSET Offsets]
    BY <1>0, <2>1, <2>2 DEF ConsumersType
  <2>4. /\ cpc' \in [Consumers -> Steps] /\ todo' \in [Consumers -> SUBSET Offsets]
        /\ undecided' \subseteq Nat /\ timedOut' \subseteq Nat
    <3>1. CASE Decide(c, ready[c], pending[c])
      BY <1>0, <1>1, <3>1, DecideType
    <3>2. CASE Go(c, "gaps", todo[c] \ {i}) /\ UNCHANGED <<undecided, timedOut>>
      <4>1. cpc' \in [Consumers -> Steps] /\ todo' \in [Consumers -> SUBSET Offsets]
        BY <1>0, <1>2, <2>1, <3>2, GoType
      <4> QED
        BY <1>0, <3>2, <4>1 DEF ConsumersType
    <3>3. CASE Go(c, "recheck", cand) /\ UNCHANGED <<undecided, timedOut>>
      <4>1. cpc' \in [Consumers -> Steps] /\ todo' \in [Consumers -> SUBSET Offsets]
        BY <1>0, <1>2, <2>1, <3>3, GoType
      <4> QED
        BY <1>0, <3>3, <4>1 DEF ConsumersType
    <3> QED
      BY <2>2, <3>1, <3>2, <3>3
  <2> QED
    BY <1>0, <1>3, <2>2, <2>3, <2>4 DEF ConsumersType
<1>11. ASSUME NEW i \in todo[c], DeqRecheck(c, i) PROVE SharedType' /\ ConsumersType'
  <2> DEFINE ext == IF Gone(c, i) THEN extra[c] ELSE extra[c] \cup {i}
  <2>1. ext \in SUBSET Offsets /\ todo[c] \ {i} \in SUBSET Offsets
        /\ pending[c] \ candidates[c] \in SUBSET Offsets /\ base[c] + i \in Nat
    BY <1>0, <1>1, Sizes DEF Offsets
  <2>2. /\ extra' = [extra EXCEPT ![c] = ext]
        /\ passed' = passed \/ passed' = passed \cup {base[c] + i}
        /\ \/ Decide(c, ready[c] \cup ext, pending[c] \ candidates[c])
           \/ Go(c, "recheck", todo[c] \ {i}) /\ UNCHANGED <<undecided, timedOut>>
        /\ UNCHANGED <<windows, head, producer, base, retry, ready, pending, candidates, out, got>>
    BY <1>11 DEF DeqRecheck
  <2> HIDE DEF ext
  <2>3. extra' \in [Consumers -> SUBSET Offsets]
    BY <1>0, <2>1, <2>2 DEF ConsumersType
  <2>4. /\ cpc' \in [Consumers -> Steps] /\ todo' \in [Consumers -> SUBSET Offsets]
        /\ undecided' \subseteq Nat /\ timedOut' \subseteq Nat
    <3>1. CASE Decide(c, ready[c] \cup ext, pending[c] \ candidates[c])
      BY <1>0, <2>1, <3>1, DecideType
    <3>2. CASE Go(c, "recheck", todo[c] \ {i}) /\ UNCHANGED <<undecided, timedOut>>
      <4>1. cpc' \in [Consumers -> Steps] /\ todo' \in [Consumers -> SUBSET Offsets]
        BY <1>0, <1>2, <2>1, <3>2, GoType
      <4> QED
        BY <1>0, <3>2, <4>1 DEF ConsumersType
    <3> QED
      BY <2>2, <3>1, <3>2
  <2>5. passed' \subseteq Nat
    BY <1>0, <2>1, <2>2, Zenon DEF ConsumersType
  <2> QED
    BY <1>0, <1>3, <2>2, <2>3, <2>4, <2>5 DEF ConsumersType
<1>12. ASSUME NEW i \in todo[c], DeqClearRank(c, i) PROVE SharedType' /\ ConsumersType'
  <2>1. Slot(base[c] + i) \in Slots
    BY <1>0, <1>1, SlotType, Sizes DEF Offsets
  <2>2. ranks' \in [Slots -> Nat \cup {EMPTY_CELL}]
    BY <1>0, <1>12, <2>1 DEF DeqClearRank, SharedType
  <2>3. /\ \/ Go(c, "idle", {}) /\ got' = [got EXCEPT ![c] = @ \o out[c]]
           \/ Go(c, "clear", todo[c] \ {i}) /\ got' = got
        /\ UNCHANGED <<gaps, datas, head, producer, base, retry, masks, out, passed,
                       undecided, timedOut>>
    BY <1>12 DEF DeqClearRank
  <2>4. cpc' \in [Consumers -> Steps] /\ todo' \in [Consumers -> SUBSET Offsets]
    <3>1. CASE Go(c, "idle", {})
      BY <1>0, <1>1, <1>2, <3>1, GoType
    <3>2. CASE Go(c, "clear", todo[c] \ {i})
      <4>1. todo[c] \ {i} \in SUBSET Offsets
        BY <1>1
      <4> QED
        BY <1>0, <1>2, <3>2, <4>1, GoType
    <3> QED
      BY <2>3, <3>1, <3>2
  <2>5. got' \in [Consumers -> Seq(Nat \X Nat)]
    <3>1. got[c] \o out[c] \in Seq(Nat \X Nat)
      BY <1>0 DEF ConsumersType
    <3> QED
      BY <1>0, <2>3, <3>1 DEF ConsumersType
  <2> QED
    BY <1>0, <2>2, <2>3, <2>4, <2>5 DEF SharedType, ConsumersType
<1> QED
  BY <1>5, <1>6, <1>7, <1>8, <1>9, <1>10, <1>11, <1>12 DEF Consumer

\* A call waits only when it has retries left.
LEMMA RetryStep ==
  ASSUME TypeInv, [Next]_vars
  PROVE  RetryInv'
<1>0. /\ cpc \in [Consumers -> Steps] /\ retry \in [Consumers -> 0 .. MaxRetries] /\ RetryInv
  BY DEF TypeInv, TypeOK, Steps
<1>1. CASE Producer \/ UNCHANGED vars
  <2>1. cpc' = cpc /\ retry' = retry
    BY <1>1 DEF Producer, EnqueueBatch, EnqStep, EnqReadRank, EnqMarkGap, EnqPutData, EnqPublish,
                vars, consumer
  <2> QED
    BY <1>0, <2>1 DEF RetryInv
<1>2. ASSUME NEW c \in Consumers, Consumer(c) PROVE RetryInv'
  <2>1. ASSUME NEW step \in Steps \ {"wait"}, NEW s, Go(c, step, s)
        PROVE  /\ cpc'[c] # "wait" /\ \A d \in Consumers \ {c} : cpc'[d] = cpc[d]
    BY <1>0, <2>1 DEF Go
  <2>2. ASSUME NEW combined, NEW undec, Decide(c, combined, undec)
        PROVE  /\ cpc'[c] = "wait" => retry[c] < MaxRetries
               /\ \A d \in Consumers \ {c} : cpc'[d] = cpc[d]
    BY <1>0, <2>2, DecideFacts
  <2>3. /\ "scan" \in Steps \ {"wait"} /\ "gaps" \in Steps \ {"wait"}
        /\ "recheck" \in Steps \ {"wait"} /\ "clear" \in Steps \ {"wait"}
        /\ "idle" \in Steps \ {"wait"}
    BY DEF Steps
  <2>4. CASE DeqDraw(c) \/ DeqWait(c) \/ DeqRedraw(c)
    <3>1. Go(c, "scan", Offsets) \/ Go(c, "idle", {})
      BY <2>4 DEF DeqDraw, DeqWait, DeqRedraw
    <3>2. cpc'[c] # "wait" /\ \A d \in Consumers \ {c} : cpc'[d] = cpc[d]
      BY <2>1, <2>3, <3>1
    <3>3. \A d \in Consumers \ {c} : retry'[d] = retry[d]
      BY <1>0, <2>4 DEF DeqDraw, DeqWait, DeqRedraw
    <3> QED
      BY <1>0, <3>2, <3>3 DEF RetryInv
  <2>5. CASE DeqGetData(c) \/ \E i \in todo[c] : DeqClearRank(c, i)
    <3>1. retry' = retry /\ \E s : Go(c, "clear", s) \/ Go(c, "idle", s)
      BY <2>5 DEF DeqGetData, DeqClearRank
    <3>2. cpc'[c] # "wait" /\ \A d \in Consumers \ {c} : cpc'[d] = cpc[d]
      BY <2>1, <2>3, <3>1
    <3> QED
      BY <1>0, <3>1, <3>2 DEF RetryInv
  <2>6. CASE \E i \in todo[c] : DeqScan(c, i) \/ DeqReadGap(c, i) \/ DeqRecheck(c, i)
    <3>1. /\ retry' = retry
          /\ \/ \E s : Go(c, "scan", s) \/ Go(c, "gaps", s) \/ Go(c, "recheck", s)
             \/ \E combined, undec : Decide(c, combined, undec)
      BY <2>6 DEF DeqScan, DeqReadGap, DeqRecheck
    <3>2. /\ cpc'[c] = "wait" => retry[c] < MaxRetries
          /\ \A d \in Consumers \ {c} : cpc'[d] = cpc[d]
      BY <2>1, <2>2, <2>3, <3>1
    <3> QED
      BY <1>0, <3>1, <3>2 DEF RetryInv
  <2> QED
    BY <1>2, <2>4, <2>5, <2>6 DEF Consumer
<1> QED
  BY <1>1, <1>2 DEF Next

\* Every variable keeps its type, and no call waits beyond the limit.
THEOREM TypeCorrect == Spec => []TypeInv
<1>1. Init => TypeInv
  <2> SUFFICES ASSUME Init PROVE TypeInv
    OBVIOUS
  <2>1. SharedType
    BY Sizes DEF Init, SharedType, EMPTY_CELL
  <2>2. ConsumersType
    BY LimitsAssumption DEF Init, ConsumersType, Steps
  <2>3. RoundInv /\ RetryInv
    BY DEF Init, RoundInv, RetryInv
  <2> QED
    BY <2>1, <2>2, <2>3, TypeParts DEF TypeInv
<1>2. TypeInv /\ [Next]_vars => TypeInv'
  <2> SUFFICES ASSUME TypeInv, [Next]_vars PROVE TypeInv'
    OBVIOUS
  <2>0. RetryInv'
    BY RetryStep
  <2>1. SharedType' /\ ConsumersType' => TypeOK'
    BY TypeParts, PTL
  <2>2. CASE Producer
    BY <2>0, <2>1, <2>2, ProducerType DEF TypeInv
  <2>3. ASSUME NEW c \in Consumers, Consumer(c) PROVE TypeInv'
    <3>1. UNCHANGED producer
      BY <2>3 DEF Consumer, DeqDraw, DeqWait, DeqScan, DeqReadGap, DeqRecheck, DeqGetData,
                  DeqClearRank, DeqRedraw
    <3>2. RoundInv'
      BY <3>1 DEF TypeInv, RoundInv, producer, busy
    <3> QED
      BY <2>0, <2>1, <2>3, <3>2, ConsumerType DEF TypeInv
  <2>4. CASE UNCHANGED vars
    <3>1. SharedType' /\ ConsumersType'
      <4>1. SharedType /\ ConsumersType
        BY TypeParts DEF TypeInv
      <4>2. SharedType'
        BY <2>4, <4>1 DEF SharedType, vars, windows, producer
      <4>3. ConsumersType'
        BY <2>4, <4>1 DEF ConsumersType, vars, consumer, masks, history
      <4> QED
        BY <4>2, <4>3
    <3>2. RoundInv'
      BY <2>4 DEF TypeInv, RoundInv, vars, producer, busy
    <3> QED
      BY <2>0, <2>1, <3>1, <3>2 DEF TypeInv
  <2> QED
    BY <2>2, <2>3, <2>4 DEF Next
<1> QED
  BY <1>1, <1>2, PTL DEF Spec

\* The masks and the data of every call, and the producer's round, keep their types.
THEOREM TypeOKHolds == Spec => []TypeOK
<1>1. TypeInv => TypeOK
  BY DEF TypeInv
<1> QED
  BY <1>1, TypeCorrect, PTL

-----------------------------------------------------------------------------
\* The cell of a ticket of consumer c, ...
LEMMA TicketType ==
  ASSUME TypeInv, NEW c \in Consumers, NEW i \in Offsets
  PROVE  /\ i \in Nat /\ base[c] \in Nat /\ base[c] + i \in Nat /\ i < DeqK /\ i \in 0 .. N - 1
         /\ Slot(base[c] + i) \in Slots
<1>1. i \in Nat /\ i < DeqK /\ base[c] \in Nat /\ i \in 0 .. N - 1
  BY Sizes DEF Offsets, TypeInv, TypeOK
<1> QED
  BY <1>1, SlotType

\* ... and of one of the producer's round.
LEMMA RoundType ==
  ASSUME TypeInv, NEW j \in 0 .. left - 1
  PROVE  /\ j \in Nat /\ tail \in Nat /\ left \in Nat /\ tail + j \in Nat /\ j < left
         /\ j \in 0 .. N - 1
         /\ Slot(tail + j) \in Slots
<1>1. j \in Nat /\ j < left /\ tail \in Nat /\ left \in Nat /\ j \in 0 .. N - 1
  BY Sizes DEF TypeInv, TypeOK
<1> QED
  BY <1>1, SlotType

\* No two calls hold the same ticket.
LEMMA Apart ==
  ASSUME TypeInv, RangesInv, NEW c \in Consumers, NEW d \in Consumers, c # d,
         cpc[c] # "idle", cpc[d] # "idle", NEW i \in Offsets, NEW j \in Offsets
  PROVE  base[c] + i # base[d] + j
<1>1. /\ i \in Nat /\ j \in Nat /\ i < DeqK /\ j < DeqK /\ base[c] \in Nat /\ base[d] \in Nat
      /\ DeqK \in Nat
  BY TicketType, Sizes
<1>2. base[c] + DeqK =< base[d] \/ base[d] + DeqK =< base[c]
  BY DEF RangesInv
<1> QED
  BY <1>1, <1>2

\* What was copied out lies under tickets of the call.
LEMMA HandHolds ==
  ASSUME TypeInv, IInv, NEW c \in Consumers, NEW d \in InHand(c)
  PROVE  /\ cpc[c] = "clear" /\ Holds(c, d[1]) /\ d \in book
         /\ \E i \in Combined(c) : d[1] = base[c] + i
         /\ \E n \in DOMAIN out[c] : d = out[c][n]
<1>1. cpc[c] = "clear" /\ d \in ToSet(out[c])
  BY DEF InHand
<1>2. PICK n \in DOMAIN out[c] : d = out[c][n]
  BY <1>1 DEF ToSet
<1>3. d \in book /\ \E i \in Combined(c) : d[1] = base[c] + i
  BY <1>1, <1>2 DEF IInv, OutInv, Copied
<1>4. Combined(c) \subseteq Offsets
  BY DEF Combined, TypeInv, TypeOK
<1>5. Holds(c, d[1])
  BY <1>1, <1>3, <1>4 DEF Holds, Tickets
<1> QED
  BY <1>1, <1>2, <1>3, <1>5

\* The tickets that count as past are tickets.
LEMMA OverType ==
  ASSUME TypeInv
  PROVE  over \subseteq Nat /\ past \subseteq over /\ final \subseteq Nat
<1>1. tail \in Nat /\ left \in Nat
  BY Sizes DEF TypeInv, TypeOK
<1>2. over \subseteq Nat /\ past \subseteq over
  BY <1>1 DEF over, past
<1> QED
  BY <1>2 DEF final
-----------------------------------------------------------------------------
\* What a call knows of its tickets it keeps knowing.
LEMMA MasksStay ==
  ASSUME NEW d \in Consumers, MasksOf(d),
         cpc'[d] = cpc[d], base'[d] = base[d], todo'[d] = todo[d],
         ready'[d] = ready[d], pending'[d] = pending[d],
         candidates'[d] = candidates[d], extra'[d] = extra[d],
         over \subseteq over', past \subseteq past', undecided \subseteq undecided'
  PROVE  MasksOf(d)'
<1>1. Combined(d)' = Combined(d)
  BY DEF Combined
<1>2. final \subseteq final'
  BY DEF final
<1>3. cpc[d] \in {"scan", "gaps", "recheck"} =>
       \A i \in Offsets : \/ i \in ready[d] \cup pending[d]
                          \/ cpc[d] = "scan" /\ i \in todo[d]
                          \/ base[d] + i \in past'
  BY DEF MasksOf
<1>4. cpc[d] \in {"gaps", "recheck"} =>
       \A i \in candidates[d] : base[d] + i \in over' \cup {0}
  BY DEF MasksOf
<1>5. cpc[d] = "recheck" =>
       /\ todo[d] \subseteq candidates[d]
       /\ \A i \in candidates[d] \ todo[d] : i \in extra[d] \/ base[d] + i \in final'
  BY <1>2 DEF MasksOf
<1>6. cpc[d] \in {"get", "clear", "redraw"} =>
       \A i \in Offsets : \/ i \in Combined(d)
                          \/ base[d] + i \in undecided'
                          \/ base[d] + i \in final'
  BY <1>2 DEF MasksOf
<1>7. cpc[d] = "clear" => /\ todo[d] \subseteq Combined(d)
                          /\ \A i \in Combined(d) \ todo[d] : base[d] + i \in past'
  BY DEF MasksOf
<1>8. /\ cpc[d] \in {"scan", "gaps"} => extra[d] = {}
      /\ cpc[d] = "scan" => candidates[d] = {}
      /\ cpc[d] = "redraw" => Combined(d) = {}
  BY DEF MasksOf
<1> QED
  BY <1>1, <1>3, <1>4, <1>5, <1>6, <1>7, <1>8, Zenon DEF MasksOf

\* What it has found and copied out it keeps.
LEMMA FoundStay ==
  ASSUME NEW d \in Consumers,
         cpc'[d] = cpc[d], todo'[d] = todo[d], ready'[d] = ready[d], extra'[d] = extra[d]
  PROVE  Found(d)' = Found(d)
<1>1. Combined(d)' = Combined(d)
  BY DEF Combined
<1> QED
  BY <1>1, Zenon DEF Found

\* The list that it copied out stays as good as it was.
LEMMA CopiedStay ==
  ASSUME NEW d \in Consumers, Copied(d), out'[d] = out[d], base'[d] = base[d],
         ready'[d] = ready[d], extra'[d] = extra[d], book \subseteq book'
  PROVE  Copied(d)'
<1>1. Combined(d)' = Combined(d)
  BY DEF Combined
<1>2. /\ \A m, n \in DOMAIN out[d] : m < n => out[d][m][1] < out[d][n][1]
      /\ \A n \in DOMAIN out[d] : /\ out[d][n] \in book'
                                  /\ \E i \in Combined(d) : out[d][n][1] = base[d] + i
      /\ \A i \in Combined(d) : \E n \in DOMAIN out[d] : out[d][n][1] = base[d] + i
      /\ Len(out[d]) =< DeqK
  BY DEF Copied
<1> QED
  BY <1>1, <1>2, ZenonT(30) DEF Copied

-----------------------------------------------------------------------------
\* What was read from a cell before the producer's step is read from it after.
LEMMA PastStays ==
  ASSUME TypeInv, over \subseteq over',
         \A s \in Slots : ranks'[s] = ranks[s] \/ ranks'[s] \notin over
  PROVE  past \subseteq past'
<1> SUFFICES ASSUME NEW t \in past PROVE t \in past'
  OBVIOUS
<1>1. t \in over /\ t \in over' /\ t \in Nat /\ ranks[Slot(t)] # t
  BY OverType DEF past
<1>2. ranks'[Slot(t)] # t
  <2>1. Slot(t) \in Slots
    BY <1>1, SlotType
  <2> QED
    BY <1>1, <2>1
<1> QED
  BY <1>1, <1>2 DEF past, Slot

\* What the consumers know survives every step of the producer: it touches no
\* occupied cell, and publishes nothing under a ticket it is done with.
LEMMA ConsumersUndisturbed ==
  ASSUME TypeInv, IInv, UNCHANGED <<head, consumer>>, over \subseteq over', book \subseteq book',
         \A s \in Slots : Busy(s) => ranks'[s] = ranks[s],
         \A s \in Slots : ranks'[s] = ranks[s] \/ ranks'[s] \notin over
  PROVE  RangesInv' /\ MasksInv' /\ FoundInv' /\ OutInv' /\ GotInv' /\ DrawnInv' /\ PassedInv'
<1>0. UNCHANGED <<head, cpc, base, retry, ready, pending, candidates, extra, todo, out, got,
                  passed, undecided, timedOut>>
  BY DEF consumer, masks, history
<1>1. past \subseteq past' /\ final \subseteq final'
  <2>1. past \subseteq past'
    BY PastStays
  <2> QED
    BY <2>1 DEF final
<1>2. RangesInv'
  BY <1>0 DEF IInv, RangesInv
<1>3. MasksInv'
  <2> SUFFICES ASSUME NEW d \in Consumers PROVE MasksOf(d)'
    BY DEF MasksInv
  <2>1. MasksOf(d)
    BY DEF IInv, MasksInv
  <2> QED
    BY <1>0, <1>1, <2>1, MasksStay
<1>4. FoundInv'
  <2> SUFFICES ASSUME NEW d \in Consumers, NEW i \in Found(d)'
               PROVE  ranks'[Slot(base[d] + i)] = base[d] + i
    BY <1>0 DEF FoundInv, Matches, RankAt, Slot
  <2>1. i \in Found(d)
    BY <1>0, FoundStay
  <2>2. i \in Offsets
    BY <2>1 DEF Found, Combined, TypeInv, TypeOK
  <2>3. ranks[Slot(base[d] + i)] = base[d] + i
    BY <2>1 DEF IInv, FoundInv, Matches, RankAt
  <2>4. base[d] + i \in Nat /\ Slot(base[d] + i) \in Slots
    BY <2>2, TicketType
  <2> QED
    BY <2>3, <2>4 DEF Busy
<1>5. OutInv'
  <2> SUFFICES ASSUME NEW d \in Consumers, cpc[d] = "clear" PROVE Copied(d)'
    BY <1>0 DEF OutInv
  <2>1. Copied(d)
    BY DEF IInv, OutInv
  <2> QED
    BY <1>0, <2>1, CopiedStay
<1>6. GotInv'
  <2> SUFFICES ASSUME NEW d \in Consumers, NEW n \in DOMAIN got[d]
               PROVE  /\ got[d][n] \in book'
                      /\ got[d][n][1] \in past'
                      /\ got[d][n][1] < head
                      /\ \A e \in Consumers : ~Holds(e, got[d][n][1])
                      /\ cpc[d] # "idle" => got[d][n][1] < base[d]
    BY <1>0 DEF GotInv, Holds, Tickets
  <2> QED
    BY <1>1 DEF IInv, GotInv
<1>7. DrawnInv'
  <2> SUFFICES ASSUME NEW t \in 0 .. head - 1
               PROVE  \/ \E d \in Consumers : Holds(d, t)
                      \/ t \in timedOut \cup undecided
                      \/ t \in final'
    BY <1>0 DEF DrawnInv, Holds, Tickets
  <2> QED
    BY <1>1 DEF IInv, DrawnInv
<1>8. PassedInv'
  BY <1>0, <1>1 DEF IInv, PassedInv
<1> QED
  BY <1>2, <1>3, <1>4, <1>5, <1>6, <1>7, <1>8

-----------------------------------------------------------------------------
\* The producer is done with all tickets before tail, ...
LEMMA DoneBelow == SharedType => 0 .. tail - 1 \subseteq over
<1> SUFFICES ASSUME SharedType, NEW t \in 0 .. tail - 1 PROVE t \in over
  OBVIOUS
<1>1. tail \in Nat /\ left \in Nat /\ t \in Nat /\ t < tail /\ Unwritten \subseteq Nat
  BY Sizes DEF SharedType, Unwritten
<1>2. \A j \in Unwritten : t # tail + j
  BY <1>1
<1> QED
  BY <1>1, <1>2 DEF over

\* ... and at the start of a round with no other.
LEMMA NoneInRound ==
  ASSUME SharedType, ppc \notin {"mark", "put", "publish"}
  PROVE  over = 0 .. tail - 1
<1>1. tail \in Nat /\ left \in Nat /\ Unwritten = 0 .. left - 1
  BY Sizes DEF SharedType, Unwritten
<1>2. ASSUME NEW t \in over PROVE t \in 0 .. tail - 1
  <2>1. t \in 0 .. tail + left - 1 /\ \A j \in 0 .. left - 1 : t # tail + j
    BY <1>1, <1>2 DEF over
  <2>2. CASE t < tail
    BY <1>1, <2>1, <2>2
  <2>3. CASE ~(t < tail)
    <3>1. t - tail \in 0 .. left - 1 /\ t = tail + (t - tail)
      BY <1>1, <2>1, <2>3
    <3> QED
      BY <2>1, <3>1
  <2> QED
    BY <2>2, <2>3
<1> QED
  BY <1>2, DoneBelow

\* The steps of an enqueue call that write neither data nor ranks.
LEMMA ProducerFrame ==
  ASSUME TypeInv, IInv, UNCHANGED <<ranks, datas, head, book, consumer>>,
         \/ ppc # "publish" /\ ppc' # "publish" /\ tail =< tail' /\ tail' \in Nat
         \/ UNCHANGED <<tail, ppc, ptodo, left>>,
         over \subseteq over',
         \A s \in Slots : gaps'[s] > 0 => Slot(gaps'[s]) = s /\ gaps'[s] \in over',
         ProducerInv'
  PROVE  IInv'
<1>0. got' = got /\ cpc' = cpc /\ out' = out
  BY DEF consumer, history
<1>1. CellsInv'
  BY DEF IInv, CellsInv, Busy, Slot
<1>2. BookInv'
  <2>1. \A d \in book : d[1] < putTickets'
    <3> SUFFICES ASSUME NEW d \in book PROVE d[1] < putTickets'
      OBVIOUS
    <3>1. d[1] \in Nat /\ d[1] < putTickets /\ tail \in Nat /\ left \in Nat
      BY Sizes DEF IInv, BookInv, TypeInv, TypeOK
    <3> QED
      BY <3>1 DEF putTickets
  <2> QED
    BY <2>1 DEF IInv, BookInv
<1>3. StoredInv'
  <2>1. \A c \in Consumers : InHand(c)' = InHand(c)
    BY <1>0 DEF InHand
  <2>2. Returned' = Returned
    BY <1>0 DEF Returned
  <2> SUFFICES ASSUME NEW d \in book
               PROVE  \/ ranks[Slot(d[1])] = d[1] /\ datas[Slot(d[1])] = d
                      \/ ppc' = "publish" /\ \E j \in ptodo' : d[1] = tail' + j
                      \/ \E c \in Consumers : d \in InHand(c)
                      \/ d \in Returned
    BY <2>1, <2>2 DEF StoredInv, Published, Slot
  <2> QED
    BY DEF IInv, StoredInv, Published
<1>4. RangesInv' /\ MasksInv' /\ FoundInv' /\ OutInv' /\ GotInv' /\ DrawnInv' /\ PassedInv'
  BY ConsumersUndisturbed
<1> QED
  BY <1>1, <1>2, <1>3, <1>4 DEF IInv

\* The start of a call, and the read of a rank.
LEMMA ReadKeepsInv ==
  ASSUME TypeInv, IInv, EnqueueBatch \/ \E j \in ptodo : EnqReadRank(j)
  PROVE  IInv'
<1>0. /\ SharedType /\ RoundInv /\ tail \in Nat /\ left \in Nat
      /\ free \subseteq 0 .. left - 1 /\ ptodo \subseteq 0 .. left - 1
  BY TypeParts, Sizes DEF TypeInv, SharedType
<1>1. SharedType'
  BY ProducerType DEF Producer, EnqStep
<1>2. /\ UNCHANGED <<ranks, gaps, datas, head, book, consumer>>
      /\ ppc \in {"idle", "read"} /\ ppc' # "publish" /\ tail' = tail
  BY DEF EnqueueBatch, EnqReadRank, Round, EnqGo, windows
<1>3. over \subseteq over'
  <2>1. over = 0 .. tail - 1
    BY <1>0, <1>2, NoneInRound
  <2>2. SharedType' => (0 .. tail - 1 \subseteq over)'
    BY DoneBelow, PTL
  <2> QED
    BY <1>1, <1>2, <2>1, <2>2
<1>4. ProducerInv'
  <2>1. CASE EnqueueBatch
    BY <2>1 DEF EnqueueBatch, Round, ProducerInv
  <2>2. ASSUME NEW j \in ptodo, EnqReadRank(j) PROVE ProducerInv'
    <3>1. /\ ppc = "read" /\ \A k \in free' : ~Busy(Slot(tail + k))
      BY <2>2 DEF EnqReadRank, IInv, ProducerInv
    <3> QED
      BY <1>2, <3>1 DEF ProducerInv, Busy, Slot
  <2> QED
    BY <2>1, <2>2
<1>5. \A s \in Slots : gaps'[s] > 0 => Slot(gaps'[s]) = s /\ gaps'[s] \in over'
  BY <1>2, <1>3 DEF IInv, CellsInv
<1> QED
  BY <1>0, <1>2, <1>3, <1>4, <1>5, ProducerFrame

\* The mark of a gap is that of a ticket the producer will not publish.
LEMMA MarkKeepsInv ==
  ASSUME TypeInv, IInv, NEW j \in ptodo, EnqMarkGap(j)
  PROVE  IInv'
<1>0. /\ SharedType /\ RoundInv /\ tail \in Nat /\ left \in Nat
      /\ free \subseteq 0 .. left - 1 /\ ptodo \subseteq 0 .. left - 1
      /\ gaps \in [Slots -> Nat]
  BY TypeParts, Sizes DEF TypeInv, SharedType
<1>1. SharedType'
  BY ProducerType DEF Producer, EnqStep
<1>2. /\ UNCHANGED <<ranks, datas, head, book, consumer>> /\ ppc = "mark"
      /\ gaps' = [gaps EXCEPT ![Slot(tail + j)] = tail + j]
      /\ \/ UNCHANGED <<tail, left, free>> /\ ppc' \in {"mark", "put"}
         \/ Advance
  BY DEF EnqMarkGap, EnqGo
<1>3. /\ tail =< tail' /\ tail' \in Nat /\ ppc' # "publish"
      /\ Advance => tail' = tail + left /\ free' = {} /\ ppc' \in {"idle", "read", "overrun"}
  BY <1>0, <1>2, AdvanceFacts
<1>4. Unwritten = free
  BY <1>2 DEF Unwritten
<1>5. over \subseteq over'
  <2>1. CASE UNCHANGED <<tail, left, free>> /\ ppc' \in {"mark", "put"}
    <3>1. Unwritten' = free
      BY <2>1 DEF Unwritten
    <3> QED
      BY <1>4, <2>1, <3>1 DEF over
  <2>2. CASE Advance
    <3>1. over \subseteq 0 .. tail' - 1
      BY <1>0, <1>3, <2>2 DEF over
    <3>2. SharedType' => (0 .. tail - 1 \subseteq over)'
      BY DoneBelow, PTL
    <3> QED
      BY <1>1, <3>1, <3>2
  <2> QED
    BY <1>2, <2>1, <2>2
<1>6. ProducerInv'
  <2>1. CASE UNCHANGED <<tail, left, free>> /\ ppc' \in {"mark", "put"}
    BY <1>2, <2>1 DEF IInv, ProducerInv, Busy, Slot
  <2>2. CASE Advance
    BY <1>3, <2>2 DEF ProducerInv
  <2> QED
    BY <1>2, <2>1, <2>2
<1>7. tail + j \in over /\ tail + j \in Nat /\ Slot(tail + j) \in Slots
  <2>1. /\ j \in 0 .. left - 1 /\ j \notin free /\ j \in Nat /\ j < left
    BY <1>0, <1>2 DEF RoundInv, busy
  <2>2. \A k \in free : tail + j # tail + k
    BY <1>0, <2>1
  <2> QED
    BY <1>0, <1>4, <2>1, <2>2, SlotType DEF over
<1>8. \A s \in Slots : gaps'[s] > 0 => Slot(gaps'[s]) = s /\ gaps'[s] \in over'
  <2> SUFFICES ASSUME NEW s \in Slots, gaps'[s] > 0
               PROVE  Slot(gaps'[s]) = s /\ gaps'[s] \in over
    BY <1>5
  <2>1. CASE s = Slot(tail + j)
    BY <1>0, <1>2, <1>7, <2>1
  <2>2. CASE s # Slot(tail + j)
    <3>1. gaps'[s] = gaps[s]
      BY <1>0, <1>2, <1>7, <2>2
    <3> QED
      BY <3>1 DEF IInv, CellsInv
  <2> QED
    BY <2>1, <2>2
<1> QED
  BY <1>2, <1>3, <1>5, <1>6, <1>8, ProducerFrame

\* The data go into empty cells.
LEMMA PutKeepsInv ==
  ASSUME TypeInv, IInv, EnqPutData
  PROVE  IInv'
<1>0. /\ SharedType /\ RoundInv /\ tail \in Nat /\ left \in Nat
      /\ free \subseteq 0 .. left - 1 /\ book \subseteq Nat \X Nat
  BY TypeParts, Sizes DEF TypeInv, SharedType
<1>1. /\ UNCHANGED <<ranks, gaps, head, free, sent, tail, left, consumer>>
      /\ ppc = "put" /\ ppc' = "publish" /\ ptodo' = free
      /\ book' = book \cup {Datum(j) : j \in free}
  BY DEF EnqPutData, EnqGo
<1>2. \A j \in free : /\ tail + j \in Nat /\ Slot(tail + j) \in Slots /\ j \in 0 .. N - 1
                      /\ j \in Nat /\ j < left /\ ~Busy(Slot(tail + j))
                      /\ Datum(j)[1] = tail + j
  BY <1>0, <1>1, RoundType DEF IInv, ProducerInv, Datum
<1>3. ASSUME NEW j \in free PROVE datas'[Slot(tail + j)] = Datum(j)
  <2> DEFINE k == CHOOSE k \in free : Slot(tail + j) = Slot(tail + k)
  <2>1. k \in free /\ Slot(tail + j) = Slot(tail + k)
    OBVIOUS
  <2>2. k = j
    BY <1>0, <1>2, <2>1, NearSlots
  <2>3. datas'[Slot(tail + j)] = Datum(k)
    BY <1>2, <2>1 DEF EnqPutData
  <2> HIDE DEF k
  <2> QED
    BY <2>2, <2>3
<1>4. ASSUME NEW s \in Slots, Busy(s) PROVE datas'[s] = datas[s]
  <2>1. ~\E j \in free : s = Slot(tail + j)
    BY <1>2, <1>4
  <2> QED
    BY <2>1 DEF EnqPutData
<1>5. over' = over
  <2>1. Unwritten' = Unwritten
    BY <1>1 DEF Unwritten
  <2> QED
    BY <1>1, <2>1 DEF over
<1>6. CellsInv'
  BY <1>1, <1>4, <1>5 DEF IInv, CellsInv, Busy, Slot
<1>7. ProducerInv'
  <2> SUFFICES ASSUME NEW j \in free
               PROVE  /\ ~Busy(Slot(tail + j))
                      /\ datas'[Slot(tail + j)] = Datum(j)
                      /\ Datum(j) \in book'
    BY <1>1 DEF ProducerInv, Busy, Slot, Datum
  <2> QED
    BY <1>1, <1>2, <1>3
<1>8. putTickets = tail /\ putTickets' = tail + left
  BY <1>1 DEF putTickets
<1>9. \A d \in book : d[1] \in Nat /\ d[1] < tail
  BY <1>0, <1>8 DEF IInv, BookInv
<1>10. BookInv'
  <2>1. \A d \in book' : d[1] < putTickets'
    <3> SUFFICES ASSUME NEW d \in book' PROVE d[1] < tail + left
      BY <1>8
    <3>1. CASE d \in book
      BY <1>0, <1>9, <3>1
    <3>2. CASE \E j \in free : d = Datum(j)
      BY <1>0, <1>2, <3>2
    <3> QED
      BY <1>1, <3>1, <3>2
  <2>2. ASSUME NEW d \in book', NEW e \in book', d[1] = e[1] PROVE d = e
    <3>1. CASE d \in book /\ e \in book
      BY <2>2, <3>1 DEF IInv, BookInv
    <3>2. ASSUME NEW j \in free, NEW k \in free, d = Datum(j), e = Datum(k) PROVE d = e
      <4>1. j = k
        BY <1>0, <1>2, <2>2, <3>2
      <4> QED
        BY <3>2, <4>1
    <3>3. ASSUME NEW j \in free, NEW b \in book PROVE Datum(j)[1] # b[1]
      BY <1>0, <1>2, <1>9
    <3> QED
      BY <1>1, <2>2, <3>1, <3>2, <3>3
  <2> QED
    BY <2>1, <2>2 DEF BookInv
<1>11. StoredInv'
  <2>1. /\ \A c \in Consumers : InHand(c)' = InHand(c)
        /\ Returned' = Returned
    BY <1>1 DEF InHand, Returned, consumer, history
  <2> SUFFICES ASSUME NEW d \in book'
               PROVE  \/ ranks[Slot(d[1])] = d[1] /\ datas'[Slot(d[1])] = d
                      \/ \E j \in free : d[1] = tail + j
                      \/ \E c \in Consumers : d \in InHand(c)
                      \/ d \in Returned
    BY <1>1, <2>1 DEF StoredInv, Published, Slot
  <2>2. CASE d \in book
    <3>1. \/ Published(d)
          \/ \E c \in Consumers : d \in InHand(c)
          \/ d \in Returned
      BY <1>1, <2>2 DEF IInv, StoredInv
    <3>2. Slot(d[1]) \in Slots /\ d[1] \in Nat
      BY <1>9, <2>2, SlotType
    <3>3. ASSUME Published(d) PROVE ranks[Slot(d[1])] = d[1] /\ datas'[Slot(d[1])] = d
      BY <1>4, <3>2, <3>3 DEF Published, Busy
    <3> QED
      BY <3>1, <3>3
  <2>3. CASE \E j \in free : d = Datum(j)
    BY <1>2, <2>3
  <2> QED
    BY <1>1, <2>2, <2>3
<1>12. RangesInv' /\ MasksInv' /\ FoundInv' /\ OutInv' /\ GotInv' /\ DrawnInv' /\ PassedInv'
  BY <1>1, <1>5, ConsumersUndisturbed
<1> QED
  BY <1>6, <1>7, <1>10, <1>11, <1>12 DEF IInv

\* The rank makes the datum of an empty cell the consumers'.
LEMMA PublishKeepsInv ==
  ASSUME TypeInv, IInv, NEW j \in ptodo, EnqPublish(j)
  PROVE  IInv'
<1> DEFINE w == Slot(tail + j)
<1>0. /\ SharedType /\ RoundInv /\ tail \in Nat /\ left \in Nat
      /\ free \subseteq 0 .. left - 1 /\ book \subseteq Nat \X Nat
      /\ ranks \in [Slots -> Nat \cup {EMPTY_CELL}]
  BY TypeParts, Sizes DEF TypeInv, SharedType
<1>1. /\ UNCHANGED <<gaps, datas, head, sent, book, consumer>>
      /\ ppc = "publish" /\ ranks' = [ranks EXCEPT ![w] = tail + j]
      /\ \/ UNCHANGED <<tail, left, free>> /\ ppc' = "publish" /\ ptodo' = ptodo \ {j}
         \/ ptodo = {j} /\ Advance
  BY DEF EnqPublish, EnqGo
<1>2. Advance => /\ tail' = tail + left /\ free' = {} /\ left' \in 0 .. left
                 /\ ppc' \in {"idle", "read", "overrun"}
  BY <1>0, AdvanceFacts
<1>3. \A k \in ptodo : /\ tail + k \in Nat /\ Slot(tail + k) \in Slots /\ k \in 0 .. N - 1
                       /\ k \in Nat /\ k < left /\ ~Busy(Slot(tail + k))
                       /\ datas[Slot(tail + k)] = Datum(k) /\ Datum(k) \in book
                       /\ Datum(k)[1] = tail + k
  <2>1. ptodo \subseteq 0 .. left - 1
    BY <1>0 DEF SharedType
  <2>2. ASSUME NEW k \in ptodo
        PROVE  /\ ~Busy(Slot(tail + k)) /\ datas[Slot(tail + k)] = Datum(k) /\ Datum(k) \in book
               /\ Datum(k)[1] = tail + k
    BY <1>1 DEF IInv, ProducerInv, Datum
  <2> QED
    BY <2>1, <2>2, RoundType
<1>4. /\ w \in Slots /\ tail + j \in Nat /\ ranks'[w] = tail + j /\ ~Busy(w)
      /\ \A s \in Slots \ {w} : ranks'[s] = ranks[s]
  BY <1>0, <1>1, <1>3
<1>5. Unwritten = ptodo
  BY <1>1 DEF Unwritten
<1>6. tail + j \notin over
  BY <1>5 DEF over
<1>7. over \subseteq over' /\ tail + j \in over'
  <2>1. CASE UNCHANGED <<tail, left, free>> /\ ppc' = "publish" /\ ptodo' = ptodo \ {j}
    <3>1. Unwritten' = ptodo \ {j}
      BY <2>1 DEF Unwritten
    <3>2. over \subseteq over'
      BY <1>5, <2>1, <3>1 DEF over
    <3>3. \A k \in ptodo \ {j} : tail + j # tail + k
      BY <1>0, <1>3
    <3>4. tail + j \in 0 .. tail + left - 1
      BY <1>0, <1>3
    <3> QED
      BY <2>1, <3>1, <3>2, <3>3, <3>4 DEF over
  <2>2. CASE Advance
    <3>1. over \subseteq 0 .. tail' - 1 /\ tail + j \in 0 .. tail' - 1
      BY <1>0, <1>2, <1>3, <2>2 DEF over
    <3>2. SharedType' => (0 .. tail - 1 \subseteq over)'
      BY DoneBelow, PTL
    <3>3. SharedType'
      BY ProducerType DEF Producer, EnqStep
    <3> QED
      BY <3>1, <3>2, <3>3
  <2> QED
    BY <1>1, <2>1, <2>2
<1>8. CellsInv'
  <2>1. ASSUME NEW s \in Slots, Busy(s)'
        PROVE  /\ Slot(ranks'[s]) = s /\ ranks'[s] \in over'
               /\ datas'[s] \in book' /\ datas'[s][1] = ranks'[s]
    <3>1. CASE s = w
      BY <1>1, <1>3, <1>4, <1>7, <3>1
    <3>2. CASE s # w
      <4>1. ranks'[s] = ranks[s] /\ Busy(s)
        BY <1>4, <2>1, <3>2 DEF Busy
      <4> QED
        BY <1>1, <1>7, <4>1 DEF IInv, CellsInv
    <3> QED
      BY <3>1, <3>2
  <2>2. \A s \in Slots : gaps'[s] > 0 => Slot(gaps'[s]) = s /\ gaps'[s] \in over'
    BY <1>1, <1>7 DEF IInv, CellsInv
  <2> QED
    BY <2>1, <2>2 DEF CellsInv, Slot
<1>9. ProducerInv'
  <2>1. CASE UNCHANGED <<tail, left, free>> /\ ppc' = "publish" /\ ptodo' = ptodo \ {j}
    <3> SUFFICES ASSUME NEW k \in ptodo \ {j}
                 PROVE  /\ ~(ranks'[Slot(tail + k)] >= 0)
                        /\ datas[Slot(tail + k)] = Datum(k)
                        /\ Datum(k) \in book
      BY <1>1, <2>1 DEF ProducerInv, Busy, Slot, Datum
    <3>1. Slot(tail + k) # w
      BY <1>0, <1>3, NearSlots
    <3> QED
      BY <1>3, <1>4, <3>1 DEF Busy
  <2>2. CASE Advance
    BY <1>2, <2>2 DEF ProducerInv
  <2> QED
    BY <1>1, <2>1, <2>2
<1>10. BookInv'
  <2>1. putTickets = tail + left
    BY <1>1 DEF putTickets
  <2>2. putTickets' = tail + left
    BY <1>1, <1>2 DEF putTickets
  <2> QED
    BY <1>1, <2>1, <2>2 DEF IInv, BookInv
<1>11. StoredInv'
  <2>1. /\ \A c \in Consumers : InHand(c)' = InHand(c)
        /\ Returned' = Returned
    BY <1>1 DEF InHand, Returned, consumer, history
  <2> SUFFICES ASSUME NEW d \in book
               PROVE  \/ ranks'[Slot(d[1])] = d[1] /\ datas[Slot(d[1])] = d
                      \/ ppc' = "publish" /\ \E k \in ptodo' : d[1] = tail' + k
                      \/ \E c \in Consumers : d \in InHand(c)
                      \/ d \in Returned
    BY <1>1, <2>1 DEF StoredInv, Published, Slot
  <2>2. \/ Published(d)
        \/ \E k \in ptodo : d[1] = tail + k
        \/ \E c \in Consumers : d \in InHand(c)
        \/ d \in Returned
    BY DEF IInv, StoredInv
  <2>3. ASSUME Published(d) PROVE ranks'[Slot(d[1])] = d[1] /\ datas[Slot(d[1])] = d
    <3>1. d[1] \in Nat /\ Slot(d[1]) \in Slots
      BY <1>0, SlotType
    <3>2. Busy(Slot(d[1]))
      BY <2>3, <3>1 DEF Published, Busy
    <3> QED
      BY <1>4, <2>3, <3>1, <3>2 DEF Published
  <2>4. ASSUME d[1] = tail + j PROVE ranks'[Slot(d[1])] = d[1] /\ datas[Slot(d[1])] = d
    <3>1. d = Datum(j)
      BY <1>3, <2>4 DEF IInv, BookInv
    <3> QED
      BY <1>3, <1>4, <2>4, <3>1
  <2>5. ASSUME NEW k \in ptodo, k # j, d[1] = tail + k
        PROVE  ppc' = "publish" /\ \E i \in ptodo' : d[1] = tail' + i
    BY <1>1, <2>5
  <2> QED
    BY <2>2, <2>3, <2>4, <2>5
<1>12. /\ \A s \in Slots : Busy(s) => ranks'[s] = ranks[s]
       /\ \A s \in Slots : ranks'[s] = ranks[s] \/ ranks'[s] \notin over
  BY <1>4, <1>6
<1>13. RangesInv' /\ MasksInv' /\ FoundInv' /\ OutInv' /\ GotInv' /\ DrawnInv' /\ PassedInv'
  BY <1>1, <1>7, <1>12, ConsumersUndisturbed
<1> QED
  BY <1>8, <1>9, <1>10, <1>11, <1>13 DEF IInv

\* Every step of an enqueue call keeps the invariant.
LEMMA ProducerKeepsInv ==
  ASSUME TypeInv, IInv, Producer
  PROVE  IInv'
  BY ReadKeepsInv, MarkKeepsInv, PutKeepsInv, PublishKeepsInv DEF Producer, EnqStep

-----------------------------------------------------------------------------
\* Only the producer, and the calls that empty cells, change what is past.
LEMMA PastUnchanged ==
  ASSUME UNCHANGED <<windows, producer>>
  PROVE  over' = over /\ past' = past /\ final' = final
<1>1. Unwritten' = Unwritten
  BY DEF Unwritten, producer
<1>2. over' = over
  BY <1>1 DEF over, producer
<1>3. past' = past
  BY <1>2 DEF past, windows, Slot
<1> QED
  BY <1>2, <1>3 DEF final

\* A step of the call of consumer c that neither draws nor empties a cell
\* leaves the cells and the other calls alone, and may add to what was skipped,
\* left undecided or given up.
LEMMA ConsumerFrame ==
  ASSUME TypeInv, IInv, NEW c \in Consumers, cpc[c] # "idle", cpc[c] # "clear",
         UNCHANGED <<windows, head, producer, base, got>>,
         \A d \in Consumers \ {c} :
           /\ cpc'[d] = cpc[d] /\ out'[d] = out[d]
           /\ ready'[d] = ready[d] /\ pending'[d] = pending[d]
           /\ candidates'[d] = candidates[d] /\ extra'[d] = extra[d] /\ todo'[d] = todo[d],
         passed' \subseteq final, undecided \subseteq undecided', timedOut \subseteq timedOut',
         cpc'[c] = "idle" => Tickets(c) \subseteq timedOut',
         MasksOf(c)', \A i \in Found(c)' : Matches(c, i), cpc'[c] = "clear" => Copied(c)'
  PROVE  IInv'
<1>0. /\ UNCHANGED <<ranks, gaps, datas, head, tail, ppc, left, free, ptodo, sent, book, base, got>>
      /\ over' = over /\ past' = past /\ final' = final
  BY PastUnchanged DEF windows, producer
<1>1. CellsInv' /\ ProducerInv' /\ BookInv'
  <2>1. CellsInv'
    BY <1>0 DEF IInv, CellsInv, Busy, Slot
  <2>2. ProducerInv'
    BY <1>0 DEF IInv, ProducerInv, Busy, Slot, Datum
  <2>3. BookInv'
    BY <1>0 DEF IInv, BookInv, putTickets
  <2> QED
    BY <2>1, <2>2, <2>3
<1>2. ASSUME NEW d \in Consumers, cpc'[d] # "idle" PROVE cpc[d] # "idle"
  BY <1>2
<1>3. RangesInv'
  <2>1. RangesInv
    BY DEF IInv
  <2> QED
    BY <1>0, <1>2, <2>1 DEF RangesInv
<1>4. MasksInv'
  <2> SUFFICES ASSUME NEW d \in Consumers, d # c PROVE MasksOf(d)'
    BY DEF MasksInv
  <2>1. MasksOf(d)
    BY DEF IInv, MasksInv
  <2> QED
    BY <1>0, <2>1, MasksStay
<1>5. FoundInv'
  <2> SUFFICES ASSUME NEW d \in Consumers, d # c, NEW i \in Found(d)' PROVE Matches(d, i)
    BY <1>0 DEF FoundInv, Matches, RankAt, Slot
  <2>1. Found(d)' = Found(d)
    BY FoundStay
  <2> QED
    BY <2>1 DEF IInv, FoundInv
<1>6. OutInv'
  <2> SUFFICES ASSUME NEW d \in Consumers, d # c, cpc[d] = "clear" PROVE Copied(d)'
    BY DEF OutInv
  <2>1. Copied(d)
    BY DEF IInv, OutInv
  <2> QED
    BY <1>0, <2>1, CopiedStay
<1>7. StoredInv'
  <2>1. \A d \in Consumers : InHand(d) \subseteq InHand(d)'
    <3>1. InHand(c) = {}
      BY DEF InHand
    <3>2. ASSUME NEW d \in Consumers, d # c PROVE InHand(d)' = InHand(d)
      BY <3>2 DEF InHand
    <3> QED
      BY <3>1, <3>2
  <2>2. Returned' = Returned
    BY <1>0 DEF Returned
  <2>3. \A d \in book : Published(d)' <=> Published(d)
    BY <1>0 DEF Published, Slot
  <2> QED
    BY <1>0, <2>1, <2>2, <2>3 DEF IInv, StoredInv
<1>8. \A d \in Consumers : \A t : Holds(d, t)' => Holds(d, t)
  BY <1>0, <1>2 DEF Holds, Tickets
<1>9. GotInv'
  <2> SUFFICES ASSUME NEW d \in Consumers, NEW n \in DOMAIN got[d]
               PROVE  /\ got[d][n] \in book
                      /\ got[d][n][1] \in past
                      /\ got[d][n][1] < head
                      /\ \A e \in Consumers : ~(cpc'[e] # "idle" /\ got[d][n][1] \in Tickets(e))
                      /\ cpc'[d] # "idle" => got[d][n][1] < base[d]
    BY <1>0 DEF GotInv, Holds, Tickets
  <2>1. /\ got[d][n] \in book
        /\ got[d][n][1] \in past
        /\ got[d][n][1] < head
        /\ \A e \in Consumers : ~Holds(e, got[d][n][1])
        /\ cpc[d] # "idle" => got[d][n][1] < base[d]
    BY DEF IInv, GotInv
  <2> QED
    BY <1>2, <2>1 DEF Holds
<1>10. DrawnInv'
  <2> SUFFICES ASSUME NEW t \in 0 .. head - 1
               PROVE  \/ \E d \in Consumers : cpc'[d] # "idle" /\ t \in Tickets(d)
                      \/ t \in timedOut' \cup undecided'
                      \/ t \in final
    BY <1>0 DEF DrawnInv, Holds, Tickets
  <2>1. CASE \E d \in Consumers : Holds(d, t)
    <3>1. PICK d \in Consumers : cpc[d] # "idle" /\ t \in Tickets(d)
      BY <2>1 DEF Holds
    <3>2. CASE d = c
      BY <3>1, <3>2
    <3>3. CASE d # c
      BY <3>1, <3>3
    <3> QED
      BY <3>2, <3>3
  <2>2. CASE t \in timedOut \cup undecided \/ t \in final
    BY <2>2
  <2> QED
    BY <2>1, <2>2 DEF IInv, DrawnInv
<1>11. PassedInv'
  BY <1>0 DEF PassedInv
<1> QED
  BY <1>1, <1>3, <1>4, <1>5, <1>6, <1>7, <1>9, <1>10, <1>11 DEF IInv

\* The steps of a call before it empties cells leave the others alone.
LEMMA OthersStay ==
  ASSUME TypeInv, NEW c \in Consumers, NEW d \in Consumers, d # c,
         \/ \E i \in todo[c] : DeqScan(c, i) \/ DeqReadGap(c, i) \/ DeqRecheck(c, i)
         \/ DeqGetData(c) \/ DeqWait(c)
  PROVE  /\ cpc'[d] = cpc[d] /\ out'[d] = out[d]
         /\ ready'[d] = ready[d] /\ pending'[d] = pending[d]
         /\ candidates'[d] = candidates[d] /\ extra'[d] = extra[d] /\ todo'[d] = todo[d]
<1> USE DEF Go
<1>0. /\ cpc \in [Consumers -> Steps] /\ out \in [Consumers -> Seq(Nat \X Nat)]
      /\ ConsumersType
  BY TypeParts DEF TypeInv, ConsumersType
<1>1. ASSUME NEW combined, NEW undec, Decide(c, combined, undec)
      PROVE  cpc'[d] = cpc[d] /\ todo'[d] = todo[d]
  <2>1. todo' = [todo EXCEPT ![c] = {}] /\ \E step \in Steps : cpc' = [cpc EXCEPT ![c] = step]
    BY <1>1, DecideFacts DEF Steps
  <2> QED
    BY <1>0, <2>1 DEF ConsumersType
<1>2. ASSUME NEW i \in todo[c], DeqScan(c, i)
      PROVE  /\ cpc'[d] = cpc[d] /\ out'[d] = out[d]
             /\ ready'[d] = ready[d] /\ pending'[d] = pending[d]
             /\ candidates'[d] = candidates[d] /\ extra'[d] = extra[d] /\ todo'[d] = todo[d]
  <2>1. cpc'[d] = cpc[d] /\ todo'[d] = todo[d]
    <3>1. \/ \E s : Go(c, "scan", s) \/ Go(c, "gaps", s)
          \/ \E combined, undec : Decide(c, combined, undec)
      BY <1>2 DEF DeqScan
    <3> QED
      BY <1>0, <1>1, <3>1 DEF ConsumersType
  <2> QED
    BY <1>0, <1>2, <2>1 DEF DeqScan, ConsumersType
<1>3. ASSUME NEW i \in todo[c], DeqReadGap(c, i)
      PROVE  /\ cpc'[d] = cpc[d] /\ out'[d] = out[d]
             /\ ready'[d] = ready[d] /\ pending'[d] = pending[d]
             /\ candidates'[d] = candidates[d] /\ extra'[d] = extra[d] /\ todo'[d] = todo[d]
  <2>1. cpc'[d] = cpc[d] /\ todo'[d] = todo[d]
    <3>1. \/ \E s : Go(c, "gaps", s) \/ Go(c, "recheck", s)
          \/ \E combined, undec : Decide(c, combined, undec)
      BY <1>3 DEF DeqReadGap
    <3> QED
      BY <1>0, <1>1, <3>1 DEF ConsumersType
  <2> QED
    BY <1>0, <1>3, <2>1 DEF DeqReadGap, ConsumersType
<1>4. ASSUME NEW i \in todo[c], DeqRecheck(c, i)
      PROVE  /\ cpc'[d] = cpc[d] /\ out'[d] = out[d]
             /\ ready'[d] = ready[d] /\ pending'[d] = pending[d]
             /\ candidates'[d] = candidates[d] /\ extra'[d] = extra[d] /\ todo'[d] = todo[d]
  <2>1. cpc'[d] = cpc[d] /\ todo'[d] = todo[d]
    <3>1. \/ \E s : Go(c, "recheck", s)
          \/ \E combined, undec : Decide(c, combined, undec)
      BY <1>4 DEF DeqRecheck
    <3> QED
      BY <1>0, <1>1, <3>1 DEF ConsumersType
  <2> QED
    BY <1>0, <1>4, <2>1 DEF DeqRecheck, ConsumersType
<1>5. CASE DeqGetData(c)
  BY <1>0, <1>5 DEF DeqGetData, masks, ConsumersType
<1>6. CASE DeqWait(c)
  BY <1>0, <1>6 DEF DeqWait, ClearMasks, ConsumersType
<1> QED
  BY <1>2, <1>3, <1>4, <1>5, <1>6

\* When each ticket of a call is found, undecided or settled, the decision
\* keeps the invariant.
LEMMA DecideKeepsInv ==
  ASSUME TypeInv, IInv, NEW c \in Consumers, cpc[c] # "idle", cpc[c] # "clear",
         NEW combined, NEW undec, Decide(c, combined, undec),
         UNCHANGED <<windows, head, producer, base, got>>,
         \A d \in Consumers \ {c} :
           /\ cpc'[d] = cpc[d] /\ out'[d] = out[d]
           /\ ready'[d] = ready[d] /\ pending'[d] = pending[d]
           /\ candidates'[d] = candidates[d] /\ extra'[d] = extra[d] /\ todo'[d] = todo[d],
         passed' \subseteq final, ready'[c] \cup extra'[c] = combined,
         \A i \in combined : Matches(c, i),
         \A i \in Offsets : i \in combined \/ i \in undec \/ base[c] + i \in final
  PROVE  IInv'
<1>0. /\ cpc \in [Consumers -> Steps] /\ base' = base /\ final' = final
  BY PastUnchanged DEF TypeInv, TypeOK, Steps
<1>1. \/ cpc'[c] = "wait" /\ undecided' = undecided /\ timedOut' = timedOut
      \/ cpc'[c] = "idle" /\ undecided' = undecided /\ timedOut' = timedOut \cup Tickets(c)
      \/ /\ cpc'[c] = "redraw" \/ cpc'[c] = "get"
         /\ cpc'[c] = "redraw" => combined = {}
         /\ undecided' = undecided \cup {base[c] + i : i \in undec} /\ timedOut' = timedOut
  BY <1>0, DecideFacts
<1>2. Combined(c)' = combined
  BY DEF Combined
<1>3. MasksOf(c)'
  <2>1. cpc'[c] \in {"redraw", "get"} =>
          \A i \in Offsets : \/ i \in combined
                             \/ base[c] + i \in undecided'
                             \/ base[c] + i \in final
    BY <1>1
  <2>2. cpc'[c] \in {"wait", "idle", "redraw", "get"} /\ (cpc'[c] = "redraw" => combined = {})
    BY <1>1
  <2> QED
    BY <1>0, <1>2, <2>1, <2>2 DEF MasksOf
<1>4. \A i \in Found(c)' : Matches(c, i)
  BY <1>1, <1>2 DEF Found
<1>5. /\ undecided \subseteq undecided' /\ timedOut \subseteq timedOut'
      /\ cpc'[c] = "idle" => Tickets(c) \subseteq timedOut'
      /\ cpc'[c] # "clear"
  BY <1>1
<1> QED
  BY <1>3, <1>4, <1>5, ConsumerFrame

\* The producer is done with every ticket whose cell has had a later one.
LEMMA EarlierIsOver ==
  ASSUME TypeInv, NEW g \in over, NEW t \in Nat, t < g, Slot(t) = Slot(g)
  PROVE  t \in over
<1>0. /\ SharedType /\ tail \in Nat /\ left \in Nat /\ left =< N /\ N \in Nat \ {0}
      /\ g \in Nat /\ g < tail + left
  BY TypeParts, Sizes DEF TypeInv, SharedType, over
<1>1. t + N =< g
  <2> SUFFICES ASSUME g < t + N PROVE FALSE
    BY <1>0
  <2>1. t \in Int /\ g \in Int
    BY <1>0
  <2> QED
    BY <1>0, <2>1, ModInjective DEF Slot
<1>2. t \in 0 .. tail - 1
  BY <1>0, <1>1
<1> QED
  BY <1>0, <1>2, DoneBelow

\* SCAN: a cell that holds the ticket is found, one that holds a later one
\* says that the ticket is past.
LEMMA ScanKeepsInv ==
  ASSUME TypeInv, IInv, NEW c \in Consumers, NEW i \in todo[c], DeqScan(c, i)
  PROVE  IInv'
<1> DEFINE t == base[c] + i
           rdy == IF Matches(c, i) THEN ready[c] \cup {i} ELSE ready[c]
           pend == IF RankAt(c, i) < base[c] + i THEN pending[c] \cup {i} ELSE pending[c]
<1>0. /\ ConsumersType /\ i \in Offsets /\ ranks \in [Slots -> Nat \cup {EMPTY_CELL}]
      /\ passed \subseteq final
  BY TypeParts DEF TypeInv, TypeOK, ConsumersType, IInv, PassedInv
<1>1. /\ t \in Nat /\ Slot(t) \in Slots
  BY <1>0, TicketType
<1>2. /\ cpc[c] = "scan" /\ extra[c] = {} /\ candidates[c] = {}
      /\ \A k \in Offsets : k \in ready[c] \cup pending[c] \/ k \in todo[c] \/ base[c] + k \in past
      /\ \A k \in ready[c] : Matches(c, k)
  <2>1. cpc[c] = "scan" /\ MasksOf(c) /\ \A k \in Found(c) : Matches(c, k)
    BY DEF DeqScan, IInv, MasksInv, FoundInv
  <2>2. \A k \in ready[c] : k \in Found(c)
    BY <2>1 DEF Found, Combined
  <2> QED
    BY <2>1, <2>2 DEF MasksOf
<1>3. i \in rdy \/ i \in pend \/ t \in past
  <2> SUFFICES ASSUME ranks[Slot(t)] # t, ~(ranks[Slot(t)] < t) PROVE t \in past
    BY DEF Matches, RankAt
  <2>1. ranks[Slot(t)] \in Nat /\ t < ranks[Slot(t)]
    BY <1>0, <1>1 DEF EMPTY_CELL
  <2>2. Busy(Slot(t))
    BY <2>1 DEF Busy
  <2>3. ranks[Slot(t)] \in over /\ Slot(ranks[Slot(t)]) = Slot(t)
    BY <1>1, <2>2 DEF IInv, CellsInv
  <2>4. t \in over
    BY <1>1, <2>1, <2>3, EarlierIsOver
  <2> QED
    BY <2>4 DEF past
<1>4. \A k \in rdy : Matches(c, k)
  BY <1>2
<1>5. /\ ready'[c] = rdy /\ pending'[c] = pend /\ extra'[c] = {} /\ candidates'[c] = {}
      /\ UNCHANGED <<windows, head, producer, base, retry, candidates, extra, out, got, passed>>
  BY <1>0, <1>2 DEF DeqScan, ConsumersType
<1>6. \/ todo[c] = {i} /\ pend = {} /\ Decide(c, rdy, {})
      \/ /\ Go(c, "scan", todo[c] \ {i}) /\ UNCHANGED <<undecided, timedOut>>
      \/ /\ todo[c] = {i} /\ Go(c, "gaps", pend) /\ UNCHANGED <<undecided, timedOut>>
  BY DEF DeqScan
<1>7. \A k \in Offsets : k \in rdy \cup pend \/ k \in todo[c] \ {i} \/ base[c] + k \in past
  BY <1>2, <1>3
<1>8. /\ base' = base /\ past' = past /\ over' = over
  BY <1>5, PastUnchanged
<1> HIDE DEF rdy, pend, t
<1>9. CASE todo[c] = {i} /\ pend = {} /\ Decide(c, rdy, {})
  <2>1. \A k \in Offsets : k \in rdy \/ k \in {} \/ base[c] + k \in final
    BY <1>7, <1>9 DEF final
  <2>2. ready'[c] \cup extra'[c] = rdy /\ cpc[c] # "idle" /\ cpc[c] # "clear"
    BY <1>2, <1>5
  <2>3. passed' \subseteq final
    BY <1>0, <1>5
  <2>4. UNCHANGED <<windows, head, producer, base, got>>
    BY <1>5
  <2> QED
    BY <1>4, <1>9, <2>1, <2>2, <2>3, <2>4, OthersStay, DecideKeepsInv
<1>10. CASE \/ /\ Go(c, "scan", todo[c] \ {i}) /\ UNCHANGED <<undecided, timedOut>>
            \/ /\ todo[c] = {i} /\ Go(c, "gaps", pend) /\ UNCHANGED <<undecided, timedOut>>
  <2>1. \/ cpc'[c] = "scan" /\ todo'[c] = todo[c] \ {i}
        \/ cpc'[c] = "gaps" /\ todo[c] = {i}
    BY <1>0, <1>10 DEF Go, ConsumersType
  <2>2. MasksOf(c)'
    <3>1. \A k \in Offsets : \/ k \in ready'[c] \cup pending'[c]
                             \/ cpc'[c] = "scan" /\ k \in todo'[c]
                             \/ base'[c] + k \in past'
      BY <1>5, <1>7, <1>8, <2>1
    <3> QED
      BY <1>5, <2>1, <3>1 DEF MasksOf
  <2>3. \A k \in Found(c)' : Matches(c, k)
    BY <1>4, <1>5, <2>1 DEF Found, Combined
  <2>4. cpc'[c] # "idle" /\ cpc'[c] # "clear" /\ cpc[c] # "idle" /\ cpc[c] # "clear"
    BY <1>2, <2>1
  <2>5. /\ UNCHANGED <<windows, head, producer, base, got>>
        /\ passed' \subseteq final /\ undecided \subseteq undecided' /\ timedOut \subseteq timedOut'
    BY <1>0, <1>5, <1>10
  <2> QED
    BY <2>2, <2>3, <2>4, <2>5, OthersStay, ConsumerFrame
<1> QED
  BY <1>6, <1>9, <1>10

\* RESOLVE: a gap mark that is not older than the ticket says that the producer
\* is done with it, or that it is the first.
LEMMA ReadGapKeepsInv ==
  ASSUME TypeInv, IInv, NEW c \in Consumers, NEW i \in todo[c], DeqReadGap(c, i)
  PROVE  IInv'
<1> DEFINE t == base[c] + i
           cand == IF gaps[Slot(base[c] + i)] >= base[c] + i
                   THEN candidates[c] \cup {i} ELSE candidates[c]
<1>0. /\ ConsumersType /\ i \in Offsets /\ gaps \in [Slots -> Nat]
      /\ passed \subseteq final
  BY TypeParts DEF TypeInv, TypeOK, ConsumersType, IInv, PassedInv
<1>1. /\ t \in Nat /\ Slot(t) \in Slots
  BY <1>0, TicketType
<1>2. /\ cpc[c] = "gaps" /\ extra[c] = {}
      /\ \A k \in Offsets : k \in ready[c] \cup pending[c] \/ base[c] + k \in past
      /\ \A k \in candidates[c] : base[c] + k \in over \cup {0}
      /\ \A k \in ready[c] : Matches(c, k)
  <2>1. cpc[c] = "gaps" /\ MasksOf(c) /\ \A k \in Found(c) : Matches(c, k)
    BY DEF DeqReadGap, IInv, MasksInv, FoundInv
  <2>2. \A k \in ready[c] : k \in Found(c)
    BY <2>1 DEF Found, Combined
  <2> QED
    BY <2>1, <2>2 DEF MasksOf
<1>3. gaps[Slot(t)] >= t => t \in over \cup {0}
  <2> SUFFICES ASSUME gaps[Slot(t)] >= t, t # 0 PROVE t \in over
    OBVIOUS
  <2>1. gaps[Slot(t)] \in Nat /\ gaps[Slot(t)] > 0
    BY <1>0, <1>1
  <2>2. gaps[Slot(t)] \in over /\ Slot(gaps[Slot(t)]) = Slot(t)
    BY <1>1, <2>1 DEF IInv, CellsInv
  <2> QED
    BY <1>1, <2>1, <2>2, EarlierIsOver
<1>4. \A k \in cand : base[c] + k \in over \cup {0}
  BY <1>2, <1>3
<1>5. /\ ready'[c] = ready[c] /\ pending'[c] = pending[c] /\ extra'[c] = {}
      /\ candidates'[c] = cand
      /\ UNCHANGED <<windows, head, producer, base, ready, pending, extra, out, got, passed>>
  BY <1>0, <1>2 DEF DeqReadGap, ConsumersType
<1>6. \/ todo[c] = {i} /\ cand = {} /\ Decide(c, ready[c], pending[c])
      \/ /\ Go(c, "gaps", todo[c] \ {i}) /\ UNCHANGED <<undecided, timedOut>>
      \/ /\ Go(c, "recheck", cand) /\ UNCHANGED <<undecided, timedOut>>
  BY DEF DeqReadGap
<1>8. /\ base' = base /\ past' = past /\ over' = over
  BY <1>5, PastUnchanged
<1> HIDE DEF cand, t
<1>9. CASE Decide(c, ready[c], pending[c])
  <2>1. \A k \in Offsets : k \in ready[c] \/ k \in pending[c] \/ base[c] + k \in final
    BY <1>2 DEF final
  <2>2. ready'[c] \cup extra'[c] = ready[c] /\ cpc[c] # "idle" /\ cpc[c] # "clear"
    BY <1>2, <1>5
  <2>3. passed' \subseteq final
    BY <1>0, <1>5
  <2>4. UNCHANGED <<windows, head, producer, base, got>>
    BY <1>5
  <2> QED
    BY <1>2, <1>9, <2>1, <2>2, <2>3, <2>4, OthersStay, DecideKeepsInv
<1>10. CASE \/ /\ Go(c, "gaps", todo[c] \ {i}) /\ UNCHANGED <<undecided, timedOut>>
            \/ /\ Go(c, "recheck", cand) /\ UNCHANGED <<undecided, timedOut>>
  <2>1. \/ cpc'[c] = "gaps"
        \/ cpc'[c] = "recheck" /\ todo'[c] = cand
    BY <1>0, <1>10 DEF Go, ConsumersType
  <2>2. MasksOf(c)'
    <3>1. \A k \in Offsets : \/ k \in ready'[c] \cup pending'[c]
                             \/ base'[c] + k \in past'
      BY <1>2, <1>5, <1>8
    <3>2. \A k \in candidates'[c] : base'[c] + k \in over' \cup {0}
      BY <1>4, <1>5, <1>8
    <3> QED
      BY <1>5, <2>1, <3>1, <3>2 DEF MasksOf
  <2>3. \A k \in Found(c)' : Matches(c, k)
    BY <1>2, <1>5, <2>1 DEF Found, Combined
  <2>4. cpc'[c] # "idle" /\ cpc'[c] # "clear" /\ cpc[c] # "idle" /\ cpc[c] # "clear"
    BY <1>2, <2>1
  <2>5. /\ UNCHANGED <<windows, head, producer, base, got>>
        /\ passed' \subseteq final /\ undecided \subseteq undecided' /\ timedOut \subseteq timedOut'
    BY <1>0, <1>5, <1>10
  <2> QED
    BY <2>2, <2>3, <2>4, <2>5, OthersStay, ConsumerFrame
<1> QED
  BY <1>6, <1>9, <1>10

\* The double check: the datum of a candidate is still there, or its ticket is
\* settled.
LEMMA RecheckKeepsInv ==
  ASSUME TypeInv, IInv, NEW c \in Consumers, NEW i \in todo[c], DeqRecheck(c, i)
  PROVE  IInv'
<1> DEFINE t == base[c] + i
           ext == IF Gone(c, i) THEN extra[c] ELSE extra[c] \cup {i}
<1>0. ConsumersType /\ i \in Offsets /\ passed \subseteq final
  BY TypeParts DEF TypeInv, TypeOK, ConsumersType, IInv, PassedInv
<1>2. /\ cpc[c] = "recheck" /\ todo[c] \subseteq candidates[c]
      /\ \A k \in Offsets : k \in ready[c] \cup pending[c] \/ base[c] + k \in past
      /\ \A k \in candidates[c] : base[c] + k \in over \cup {0}
      /\ \A k \in candidates[c] \ todo[c] : k \in extra[c] \/ base[c] + k \in final
      /\ \A k \in ready[c] \cup extra[c] : Matches(c, k)
  <2>1. cpc[c] = "recheck" /\ MasksOf(c) /\ \A k \in Found(c) : Matches(c, k)
    BY DEF DeqRecheck, IInv, MasksInv, FoundInv
  <2>2. \A k \in ready[c] \cup extra[c] : k \in Found(c)
    BY <2>1 DEF Found, Combined
  <2> QED
    BY <2>1, <2>2 DEF MasksOf
<1>3. Gone(c, i) => t \in final
  <2>1. t \in over \cup {0}
    BY <1>2
  <2> QED
    BY <2>1 DEF Gone, Matches, RankAt, past, final
<1>4. /\ \A k \in ready[c] \cup ext : Matches(c, k)
      /\ \A k \in candidates[c] \ (todo[c] \ {i}) : k \in ext \/ base[c] + k \in final
  BY <1>2, <1>3 DEF Gone
<1>5. /\ ready'[c] = ready[c] /\ pending'[c] = pending[c] /\ extra'[c] = ext
      /\ candidates'[c] = candidates[c]
      /\ UNCHANGED <<windows, head, producer, base, ready, pending, candidates, out, got>>
      /\ passed' \subseteq final
  BY <1>0, <1>3 DEF DeqRecheck, ConsumersType
<1>6. \/ todo[c] = {i} /\ Decide(c, ready[c] \cup ext, pending[c] \ candidates[c])
      \/ /\ Go(c, "recheck", todo[c] \ {i}) /\ UNCHANGED <<undecided, timedOut>>
  BY DEF DeqRecheck
<1>8. /\ base' = base /\ past' = past /\ over' = over /\ final' = final
  BY <1>5, PastUnchanged
<1> HIDE DEF ext, t
<1>9. CASE todo[c] = {i} /\ Decide(c, ready[c] \cup ext, pending[c] \ candidates[c])
  <2>1. \A k \in Offsets : \/ k \in ready[c] \cup ext
                           \/ k \in pending[c] \ candidates[c]
                           \/ base[c] + k \in final
    BY <1>2, <1>4, <1>9 DEF final
  <2>2. ready'[c] \cup extra'[c] = ready[c] \cup ext /\ cpc[c] # "idle" /\ cpc[c] # "clear"
    BY <1>2, <1>5
  <2>4. UNCHANGED <<windows, head, producer, base, got>> /\ passed' \subseteq final
    BY <1>5
  <2> QED
    BY <1>4, <1>9, <2>1, <2>2, <2>4, OthersStay, DecideKeepsInv
<1>10. CASE Go(c, "recheck", todo[c] \ {i}) /\ UNCHANGED <<undecided, timedOut>>
  <2>1. cpc'[c] = "recheck" /\ todo'[c] = todo[c] \ {i}
    BY <1>0, <1>10 DEF Go, ConsumersType
  <2>2. MasksOf(c)'
    <3>1. \A k \in Offsets : \/ k \in ready'[c] \cup pending'[c]
                             \/ base'[c] + k \in past'
      BY <1>2, <1>5, <1>8
    <3>2. \A k \in candidates'[c] : base'[c] + k \in over' \cup {0}
      BY <1>2, <1>5, <1>8
    <3>3. /\ todo'[c] \subseteq candidates'[c]
          /\ \A k \in candidates'[c] \ todo'[c] : k \in extra'[c] \/ base'[c] + k \in final'
      BY <1>2, <1>4, <1>5, <1>8, <2>1
    <3> QED
      BY <2>1, <3>1, <3>2, <3>3 DEF MasksOf
  <2>3. \A k \in Found(c)' : Matches(c, k)
    BY <1>4, <1>5, <2>1 DEF Found, Combined
  <2>4. cpc'[c] # "idle" /\ cpc'[c] # "clear" /\ cpc[c] # "idle" /\ cpc[c] # "clear"
    BY <1>2, <2>1
  <2>5. /\ UNCHANGED <<windows, head, producer, base, got>>
        /\ passed' \subseteq final /\ undecided \subseteq undecided' /\ timedOut \subseteq timedOut'
    BY <1>0, <1>5, <1>10
  <2> QED
    BY <2>2, <2>3, <2>4, <2>5, OthersStay, ConsumerFrame
<1> QED
  BY <1>6, <1>9, <1>10

\* The next iteration, with empty masks.
LEMMA WaitKeepsInv ==
  ASSUME TypeInv, IInv, NEW c \in Consumers, DeqWait(c)
  PROVE  IInv'
<1>0. ConsumersType /\ passed \subseteq final
  BY TypeParts DEF TypeInv, TypeOK, IInv, PassedInv
<1>1. /\ cpc[c] = "wait" /\ UNCHANGED <<windows, head, producer, base, got>>
      /\ passed' \subseteq final /\ undecided \subseteq undecided' /\ timedOut \subseteq timedOut'
  BY <1>0 DEF DeqWait, history
<1>2. /\ cpc'[c] = "scan" /\ todo'[c] = Offsets
      /\ ready'[c] = {} /\ pending'[c] = {} /\ candidates'[c] = {} /\ extra'[c] = {}
  BY <1>0 DEF DeqWait, Go, ClearMasks, ConsumersType
<1>3. MasksOf(c)'
  BY <1>2 DEF MasksOf
<1>4. \A k \in Found(c)' : Matches(c, k)
  BY <1>2 DEF Found, Combined
<1>5. cpc[c] # "idle" /\ cpc[c] # "clear" /\ cpc'[c] # "idle" /\ cpc'[c] # "clear"
  BY <1>1, <1>2
<1> QED
  BY <1>1, <1>3, <1>4, <1>5, OthersStay, ConsumerFrame

\* The copy: what was found is the datum of its ticket.
LEMMA GetDataKeepsInv ==
  ASSUME TypeInv, IInv, NEW c \in Consumers, DeqGetData(c)
  PROVE  IInv'
<1> DEFINE kept == Combined(c)
<1>0. /\ SharedType /\ ConsumersType /\ kept \in SUBSET Offsets /\ passed \subseteq final
      /\ out \in [Consumers -> Seq(Nat \X Nat)]
  BY TypeParts DEF TypeInv, ConsumersType, Combined, IInv, PassedInv
<1>1. cpc[c] = "get" /\ MasksOf(c) /\ \A j \in kept : Matches(c, j)
  BY DEF DeqGetData, IInv, MasksInv, FoundInv, Found
<1>2. /\ cpc'[c] = "clear" /\ todo'[c] = kept
      /\ UNCHANGED <<windows, head, producer, base, ready, pending, candidates, extra, got,
                     passed, undecided, timedOut>>
  BY <1>0 DEF DeqGetData, Go, masks, history, ConsumersType
<1>3. PICK taken \in SeqOf(kept, DeqK) :
        /\ Lists(taken, kept)
        /\ out' = [out EXCEPT ![c] = [n \in DOMAIN taken |-> datas[Slot(base[c] + taken[n])]]]
  BY DEF DeqGetData
<1> HIDE DEF kept
<1>4. PICK k \in 0 .. DeqK : DOMAIN taken = 1 .. k /\ taken \in [1 .. k -> kept]
  BY <1>0, <1>3, TakenType
<1>5. k \in Nat /\ k =< DeqK
  BY Sizes
<1>6. out'[c] = [n \in 1 .. k |-> datas[Slot(base[c] + taken[n])]]
  BY <1>0, <1>3, <1>4
<1>7. out'[c] \in Seq(Nat \X Nat) /\ DOMAIN out'[c] = 1 .. k /\ Len(out'[c]) = k
  <2>1. out'[c] \in Seq(Nat \X Nat)
    <3>1. ASSUME NEW n \in 1 .. k PROVE datas[Slot(base[c] + taken[n])] \in Nat \X Nat
      <4>1. taken[n] \in Offsets
        BY <1>0, <1>4
      <4>2. Slot(base[c] + taken[n]) \in Slots
        BY <4>1, TicketType
      <4> QED
        BY <1>0, <4>2 DEF SharedType
    <3>2. out'[c] \in [1 .. k -> Nat \X Nat]
      BY <1>6, <3>1
    <3> QED
      BY <1>5, <3>2
  <2> QED
    BY <1>5, <1>6, <2>1
<1>8. \A n \in 1 .. k : /\ taken[n] \in kept /\ taken[n] \in Nat
                        /\ out'[c][n] \in book /\ out'[c][n][1] = base[c] + taken[n]
  <2> SUFFICES ASSUME NEW n \in 1 .. k
               PROVE  /\ taken[n] \in kept /\ taken[n] \in Nat
                      /\ out'[c][n] \in book /\ out'[c][n][1] = base[c] + taken[n]
    OBVIOUS
  <2>1. taken[n] \in kept /\ taken[n] \in Offsets
    BY <1>0, <1>4
  <2>2. /\ base[c] + taken[n] \in Nat /\ Slot(base[c] + taken[n]) \in Slots /\ taken[n] \in Nat
        /\ ranks[Slot(base[c] + taken[n])] = base[c] + taken[n]
    BY <1>1, <2>1, TicketType DEF Matches, RankAt
  <2>3. Busy(Slot(base[c] + taken[n]))
    BY <2>2 DEF Busy
  <2>4. /\ datas[Slot(base[c] + taken[n])] \in book
        /\ datas[Slot(base[c] + taken[n])][1] = base[c] + taken[n]
    BY <2>2, <2>3 DEF IInv, CellsInv
  <2> QED
    BY <1>6, <2>1, <2>2, <2>4
<1>9. Combined(c)' = kept /\ base' = base /\ book' = book
  BY <1>2 DEF Combined, kept, producer
<1>10. Copied(c)'
  <2>1. \A m, n \in 1 .. k : m < n => taken[m] < taken[n]
    BY <1>3, <1>4 DEF Lists
  <2>2. \A m, n \in DOMAIN out'[c] : m < n => out'[c][m][1] < out'[c][n][1]
    <3> SUFFICES ASSUME NEW m \in 1 .. k, NEW n \in 1 .. k, m < n
                 PROVE  out'[c][m][1] < out'[c][n][1]
      BY <1>7
    <3>1. taken[m] \in Nat /\ taken[n] \in Nat /\ base[c] \in Nat /\ taken[m] < taken[n]
      BY <1>0, <1>8, <2>1 DEF ConsumersType
    <3> QED
      BY <1>8, <3>1
  <2>3. \A n \in DOMAIN out'[c] : /\ out'[c][n] \in book
                                  /\ \E i \in kept : out'[c][n][1] = base[c] + i
    BY <1>7, <1>8
  <2>4. \A i \in kept : \E n \in DOMAIN out'[c] : out'[c][n][1] = base[c] + i
    <3>1. kept = {taken[n] : n \in 1 .. k}
      BY <1>3, <1>4 DEF Lists
    <3> QED
      BY <1>7, <1>8, <3>1
  <2> QED
    BY <1>5, <1>7, <1>9, <2>2, <2>3, <2>4 DEF Copied
<1>11. MasksOf(c)'
  <2>1. \A i \in Offsets : \/ i \in kept
                           \/ base[c] + i \in undecided
                           \/ base[c] + i \in final
    BY <1>1 DEF MasksOf, kept
  <2>2. final' = final /\ undecided' = undecided
    BY <1>2, PastUnchanged
  <2> QED
    BY <1>2, <1>9, <2>1, <2>2 DEF MasksOf
<1>12. \A j \in Found(c)' : Matches(c, j)
  BY <1>1, <1>2 DEF Found
<1>13. cpc[c] # "idle" /\ cpc[c] # "clear" /\ cpc'[c] # "idle" /\ passed' \subseteq final
  BY <1>0, <1>1, <1>2
<1> QED
  BY <1>2, <1>10, <1>11, <1>12, <1>13, OthersStay, ConsumerFrame

\* A call starts on tickets that nobody held before; each of its old ones is
\* undecided or settled.
LEMMA StartKeepsInv ==
  ASSUME TypeInv, IInv, NEW c \in Consumers, Draw(c), ClearMasks(c),
         cpc[c] = "idle" \/ cpc[c] = "redraw",
         UNCHANGED <<windows, producer, out, got, passed, undecided>>,
         \/ Go(c, "scan", Offsets) /\ timedOut' = timedOut
         \/ Go(c, "idle", {}) /\ timedOut' = timedOut \cup {head + i : i \in Offsets}
  PROVE  IInv'
<1>0. /\ UNCHANGED <<ranks, gaps, datas, tail, ppc, left, free, ptodo, sent, book, out, got,
                     passed, undecided>>
      /\ base \in [Consumers -> Nat] /\ head \in Nat /\ DeqK \in Nat \ {0}
      /\ got \in [Consumers -> Seq(Nat \X Nat)] /\ ConsumersType
      /\ over' = over /\ past' = past /\ final' = final
  BY TypeParts, Sizes, PastUnchanged DEF windows, producer, TypeInv, TypeOK
<1>1. /\ base'[c] = head /\ head' = head + DeqK /\ pending'[c] = {} /\ ready'[c] = {}
      /\ candidates'[c] = {} /\ extra'[c] = {}
      /\ \/ cpc'[c] = "scan" /\ todo'[c] = Offsets /\ timedOut' = timedOut
         \/ cpc'[c] = "idle" /\ timedOut' = timedOut \cup {head + i : i \in Offsets}
  BY <1>0 DEF Draw, ClearMasks, Go, ConsumersType
<1>2. ASSUME NEW d \in Consumers, d # c
      PROVE  /\ base'[d] = base[d] /\ pending'[d] = pending[d] /\ ready'[d] = ready[d]
             /\ candidates'[d] = candidates[d] /\ extra'[d] = extra[d]
             /\ todo'[d] = todo[d] /\ cpc'[d] = cpc[d] /\ out'[d] = out[d]
  BY <1>0, <1>2 DEF Draw, ClearMasks, Go, ConsumersType
<1>3. CellsInv' /\ ProducerInv' /\ BookInv'
  <2>1. CellsInv'
    BY <1>0 DEF IInv, CellsInv, Busy, Slot
  <2>2. ProducerInv'
    BY <1>0 DEF IInv, ProducerInv, Busy, Slot, Datum
  <2>3. BookInv'
    BY <1>0 DEF IInv, BookInv, putTickets
  <2> QED
    BY <2>1, <2>2, <2>3
<1>4. RangesInv'
  <2>1. ASSUME NEW d \in Consumers, cpc'[d] # "idle"
        PROVE  /\ base'[d] + DeqK =< head'
               /\ d # c => base[d] + DeqK =< head /\ cpc[d] # "idle" /\ base'[d] = base[d]
    <3>1. CASE d = c
      BY <1>0, <1>1, <3>1
    <3>2. CASE d # c
      <4>1. cpc[d] # "idle" /\ base'[d] = base[d]
        BY <1>2, <2>1, <3>2
      <4>2. base[d] + DeqK =< head
        BY <4>1 DEF IInv, RangesInv
      <4> QED
        BY <1>0, <1>1, <4>1, <4>2
    <3> QED
      BY <3>1, <3>2
  <2>2. ASSUME NEW d \in Consumers, NEW e \in Consumers, d # e,
               cpc'[d] # "idle", cpc'[e] # "idle"
        PROVE  base'[d] + DeqK =< base'[e] \/ base'[e] + DeqK =< base'[d]
    <3>1. CASE d = c
      BY <1>1, <2>1, <2>2, <3>1
    <3>2. CASE e = c
      BY <1>1, <2>1, <2>2, <3>2
    <3>3. CASE d # c /\ e # c
      BY <2>1, <2>2, <3>3 DEF IInv, RangesInv
    <3> QED
      BY <3>1, <3>2, <3>3
  <2> QED
    BY <2>1, <2>2 DEF RangesInv
<1>5. MasksInv'
  <2> SUFFICES ASSUME NEW d \in Consumers PROVE MasksOf(d)'
    BY DEF MasksInv
  <2>1. CASE d = c
    BY <1>1, <2>1 DEF MasksOf
  <2>2. CASE d # c
    <3>1. MasksOf(d)
      BY DEF IInv, MasksInv
    <3> QED
      BY <1>0, <1>2, <2>2, <3>1, MasksStay
  <2> QED
    BY <2>1, <2>2
<1>6. FoundInv'
  <2> SUFFICES ASSUME NEW d \in Consumers, NEW i \in Found(d)' PROVE Matches(d, i)'
    BY DEF FoundInv
  <2>1. CASE d = c
    BY <1>1, <2>1 DEF Found, Combined
  <2>2. CASE d # c
    <3>1. Found(d)' = Found(d)
      BY <1>2, <2>2, FoundStay
    <3> QED
      BY <1>0, <1>2, <2>2, <3>1 DEF IInv, FoundInv, Matches, RankAt, Slot
  <2> QED
    BY <2>1, <2>2
<1>7. \A d \in Consumers : InHand(d)' = InHand(d)
  <2>1. InHand(c) = {} /\ InHand(c)' = {}
    BY <1>1 DEF InHand
  <2>2. ASSUME NEW d \in Consumers, d # c PROVE InHand(d)' = InHand(d)
    BY <1>2, <2>2 DEF InHand
  <2> QED
    BY <2>1, <2>2
<1>8. StoredInv' /\ PassedInv'
  <2>1. StoredInv'
    BY <1>0, <1>7 DEF IInv, StoredInv, Returned, Published, Slot
  <2>2. PassedInv'
    BY <1>0 DEF IInv, PassedInv
  <2> QED
    BY <2>1, <2>2
<1>9. OutInv'
  <2> SUFFICES ASSUME NEW d \in Consumers, cpc'[d] = "clear" PROVE Copied(d)'
    BY DEF OutInv
  <2>1. d # c
    BY <1>1
  <2>2. Copied(d)
    BY <1>2, <2>1 DEF IInv, OutInv
  <2> QED
    BY <1>0, <1>2, <2>1, <2>2, CopiedStay
<1>10. GotInv'
  <2> SUFFICES ASSUME NEW d \in Consumers, NEW n \in DOMAIN got[d]
               PROVE  /\ got[d][n] \in book
                      /\ got[d][n][1] \in past
                      /\ got[d][n][1] < head'
                      /\ \A e \in Consumers : ~Holds(e, got[d][n][1])'
                      /\ cpc'[d] # "idle" => got[d][n][1] < base'[d]
    BY <1>0 DEF GotInv, Holds, Tickets
  <2>1. /\ got[d][n] \in book
        /\ got[d][n][1] \in past
        /\ got[d][n][1] < head
        /\ \A e \in Consumers : ~Holds(e, got[d][n][1])
        /\ cpc[d] # "idle" => got[d][n][1] < base[d]
    BY DEF IInv, GotInv
  <2>2. got[d][n][1] \in Nat
    BY <2>1, OverType
  <2>3. got[d][n][1] < head'
    BY <1>0, <1>1, <2>1, <2>2
  <2>4. ASSUME NEW e \in Consumers PROVE ~Holds(e, got[d][n][1])'
    <3>1. got'[d][n][1] = got[d][n][1]
      BY <1>0
    <3>2. CASE e = c
      <4>1. ASSUME NEW i \in Offsets PROVE head + i # got[d][n][1]
        BY <1>0, <2>1, <2>2, SMTT(30) DEF Offsets
      <4> QED
        BY <1>1, <3>1, <3>2, <4>1 DEF Holds, Tickets
    <3>3. CASE e # c
      BY <1>2, <2>1, <3>1, <3>3 DEF Holds, Tickets
    <3> QED
      BY <3>2, <3>3
  <2>5. cpc'[d] # "idle" => got[d][n][1] < base'[d]
    BY <1>1, <1>2, <2>1
  <2> QED
    BY <2>1, <2>3, <2>4, <2>5
<1>11. DrawnInv'
  <2> SUFFICES ASSUME NEW t \in 0 .. head' - 1
               PROVE  \/ \E d \in Consumers : cpc'[d] # "idle" /\ \E i \in Offsets : t = base'[d] + i
                      \/ t \in timedOut' \cup undecided
                      \/ t \in final
    BY <1>0 DEF DrawnInv, Holds, Tickets
  <2>1. CASE t < head
    <3>1. t \in 0 .. head - 1
      BY <1>0, <1>1, <2>1
    <3>2. CASE \E d \in Consumers : Holds(d, t)
      <4>1. PICK d \in Consumers : cpc[d] # "idle" /\ \E i \in Offsets : t = base[d] + i
        BY <3>2 DEF Holds, Tickets
      <4>2. CASE d # c
        BY <1>2, <4>1, <4>2
      <4>3. CASE d = c
        <5>1. cpc[c] = "redraw" /\ MasksOf(c)
          BY <4>1, <4>3 DEF IInv, MasksInv
        <5>2. t \in undecided \/ t \in final
          BY <4>1, <4>3, <5>1 DEF MasksOf
        <5> QED
          BY <5>2
      <4> QED
        BY <4>2, <4>3
    <3>3. CASE t \in timedOut \cup undecided \/ t \in final
      BY <1>1, <3>3
    <3> QED
      BY <3>1, <3>2, <3>3 DEF IInv, DrawnInv
  <2>2. CASE ~(t < head)
    <3>1. t - head \in Offsets /\ t = head + (t - head)
      BY <1>0, <1>1, <2>2 DEF Offsets
    <3>2. t \in {head + i : i \in Offsets}
      BY <3>1
    <3>3. CASE cpc'[c] = "scan"
      BY <1>1, <3>1, <3>3
    <3>4. CASE timedOut' = timedOut \cup {head + i : i \in Offsets}
      BY <3>2, <3>4
    <3> QED
      BY <1>1, <3>3, <3>4
  <2> QED
    BY <2>1, <2>2
<1> QED
  BY <1>3, <1>4, <1>5, <1>6, <1>8, <1>9, <1>10, <1>11 DEF IInv

-----------------------------------------------------------------------------
\* What a step that empties a cell does: the cell holds the datum of the ticket
\* until then, which the call has copied out, and the ticket is past after it.
LEMMA ClearFacts ==
  ASSUME TypeInv, IInv, NEW c \in Consumers, NEW i \in todo[c], DeqClearRank(c, i)
  PROVE  /\ cpc[c] = "clear" /\ i \in Offsets /\ i \in Combined(c)
         /\ todo[c] \subseteq Combined(c) /\ Combined(c) \subseteq Offsets
         /\ \A j \in Combined(c) \ todo[c] : base[c] + j \in past
         /\ \A j \in Offsets : \/ j \in Combined(c)
                               \/ base[c] + j \in undecided
                               \/ base[c] + j \in final
         /\ Copied(c)
         /\ base[c] + i \in Nat /\ Slot(base[c] + i) \in Slots
         /\ ranks[Slot(base[c] + i)] = base[c] + i /\ ranks'[Slot(base[c] + i)] = EMPTY_CELL
         /\ \A s \in Slots \ {Slot(base[c] + i)} : ranks'[s] = ranks[s]
         /\ UNCHANGED <<gaps, datas, head, tail, ppc, left, free, ptodo, sent, book, base, ready,
                        pending, candidates, extra, out, passed, undecided, timedOut>>
         /\ over' = over /\ past \subseteq past' /\ base[c] + i \in past'
         /\ \A d \in Consumers \ {c} : cpc'[d] = cpc[d] /\ todo'[d] = todo[d] /\ got'[d] = got[d]
         /\ todo'[c] = todo[c] \ {i}
         /\ \/ todo[c] # {i} /\ cpc'[c] = "clear" /\ got' = got
            \/ todo[c] = {i} /\ cpc'[c] = "idle" /\ got' = [got EXCEPT ![c] = @ \o out[c]]
<1> DEFINE t == base[c] + i
           w == Slot(t)
<1>0. ConsumersType /\ ranks \in [Slots -> Nat \cup {EMPTY_CELL}]
  BY TypeParts DEF TypeInv, TypeOK
<1>1. /\ cpc[c] = "clear"
      /\ ranks' = [ranks EXCEPT ![w] = EMPTY_CELL]
      /\ UNCHANGED <<gaps, datas, head, tail, ppc, left, free, ptodo, sent, book, base, ready,
                     pending, candidates, extra, out, passed, undecided, timedOut>>
  BY DEF DeqClearRank, producer, masks
<1>2. /\ todo[c] \subseteq Combined(c) /\ Combined(c) \subseteq Offsets
      /\ \A j \in Combined(c) \ todo[c] : base[c] + j \in past
      /\ \A j \in Offsets : \/ j \in Combined(c)
                            \/ base[c] + j \in undecided
                            \/ base[c] + j \in final
      /\ Copied(c) /\ ranks[w] = t
  <2>1. MasksOf(c) /\ (\A j \in Found(c) : Matches(c, j)) /\ Copied(c)
    BY <1>1 DEF IInv, MasksInv, FoundInv, OutInv
  <2>2. Combined(c) \subseteq Offsets
    BY <1>0 DEF Combined, ConsumersType
  <2> QED
    BY <1>1, <2>1, <2>2 DEF MasksOf, Found, Matches, RankAt
<1>3. i \in Offsets /\ i \in Combined(c) /\ t \in Nat /\ w \in Slots
  BY <1>2, TicketType
<1>4. ranks'[w] = EMPTY_CELL /\ \A s \in Slots \ {w} : ranks'[s] = ranks[s]
  BY <1>0, <1>1, <1>3
<1>5. over' = over
  <2>1. Unwritten' = Unwritten
    BY <1>1 DEF Unwritten
  <2> QED
    BY <1>1, <2>1 DEF over
<1>6. t \in over
  <2>1. Busy(w)
    BY <1>2, <1>3 DEF Busy
  <2> QED
    BY <1>2, <1>3, <2>1 DEF IInv, CellsInv
<1>7. t \in past'
  BY <1>3, <1>4, <1>5, <1>6 DEF past, Slot, EMPTY_CELL
<1>8. past \subseteq past'
  <2>1. \A s \in Slots : ranks'[s] = ranks[s] \/ ranks'[s] \notin over
    BY <1>4, OverType DEF EMPTY_CELL
  <2> QED
    BY <1>5, <2>1, PastStays
<1>9. /\ \A d \in Consumers \ {c} : cpc'[d] = cpc[d] /\ todo'[d] = todo[d] /\ got'[d] = got[d]
      /\ todo'[c] = todo[c] \ {i}
      /\ \/ todo[c] # {i} /\ cpc'[c] = "clear" /\ got' = got
         \/ todo[c] = {i} /\ cpc'[c] = "idle" /\ got' = [got EXCEPT ![c] = @ \o out[c]]
  BY <1>0 DEF DeqClearRank, Go, ConsumersType
<1> QED
  BY <1>1, <1>2, <1>3, <1>4, <1>5, <1>7, <1>8, <1>9

\* The datum of a cell whose ticket a call has found is what it copied out.
LEMMA CopiedIsCell ==
  ASSUME TypeInv, IInv, NEW c \in Consumers, cpc[c] = "clear", NEW i \in Combined(c),
         NEW d \in book, d[1] = base[c] + i
  PROVE  d \in InHand(c)
<1>1. Copied(c)
  BY DEF IInv, OutInv
<1>2. PICK n \in DOMAIN out[c] : out[c][n][1] = base[c] + i
  BY <1>1 DEF Copied
<1>3. out[c][n] \in book
  BY <1>1 DEF Copied
<1>4. d = out[c][n]
  BY <1>2, <1>3 DEF IInv, BookInv
<1> QED
  BY <1>4 DEF InHand, ToSet

\* The cells and what the calls know of them, after the step.
LEMMA ClearKeepsCells ==
  ASSUME TypeInv, IInv, NEW c \in Consumers, NEW i \in todo[c], DeqClearRank(c, i)
  PROVE  /\ CellsInv' /\ ProducerInv' /\ BookInv' /\ RangesInv' /\ MasksInv' /\ FoundInv'
         /\ OutInv' /\ PassedInv'
<1> DEFINE t == base[c] + i
           w == Slot(t)
<1>0. ranks \in [Slots -> Nat \cup {EMPTY_CELL}]
  BY DEF TypeInv, TypeOK
<1>1. /\ cpc[c] = "clear" /\ i \in Offsets /\ i \in Combined(c) /\ todo[c] \subseteq Combined(c)
      /\ \A j \in Combined(c) \ todo[c] : base[c] + j \in past
      /\ \A j \in Offsets : \/ j \in Combined(c)
                            \/ base[c] + j \in undecided
                            \/ base[c] + j \in final
      /\ t \in Nat /\ w \in Slots /\ ranks[w] = t /\ ranks'[w] = EMPTY_CELL
      /\ \A s \in Slots \ {w} : ranks'[s] = ranks[s]
      /\ UNCHANGED <<gaps, datas, head, tail, ppc, left, free, ptodo, sent, book, base, ready,
                     pending, candidates, extra, out, passed, undecided, timedOut>>
      /\ over' = over /\ past \subseteq past' /\ t \in past'
      /\ todo'[c] = todo[c] \ {i}
      /\ cpc'[c] \in {"clear", "idle"}
  BY ClearFacts
<1>2. ASSUME NEW d \in Consumers \ {c} PROVE cpc'[d] = cpc[d] /\ todo'[d] = todo[d]
  BY ClearFacts
<1>3. \A d \in Consumers : cpc'[d] # "idle" => cpc[d] # "idle"
  BY <1>1, <1>2
<1>4. CellsInv'
  <2>1. ASSUME NEW s \in Slots, ranks'[s] >= 0 PROVE Busy(s) /\ ranks'[s] = ranks[s]
    BY <1>1, <2>1 DEF Busy, EMPTY_CELL
  <2>2. CellsInv
    BY DEF IInv
  <2> QED
    BY <1>1, <2>1, <2>2 DEF CellsInv, Busy, Slot
<1>5. ProducerInv'
  <2>1. ASSUME NEW s \in Slots, ~Busy(s) PROVE ~(ranks'[s] >= 0)
    BY <1>1, <2>1 DEF Busy, EMPTY_CELL
  <2>2. \A j \in free \cup ptodo : Slot(tail + j) \in Slots
    <3>1. free \cup ptodo \subseteq 0 .. left - 1
      BY DEF TypeInv, TypeOK
    <3> QED
      BY <3>1, RoundType
  <2>3. ProducerInv
    BY DEF IInv
  <2> QED
    BY <1>1, <2>1, <2>2, <2>3 DEF ProducerInv, Busy, Slot, Datum
<1>6. BookInv' /\ RangesInv'
  <2>1. BookInv'
    BY <1>1 DEF IInv, BookInv, putTickets
  <2>2. RangesInv
    BY DEF IInv
  <2> QED
    BY <1>1, <1>3, <2>1, <2>2 DEF RangesInv
<1>7. final \subseteq final'
  BY <1>1 DEF final
<1>8. MasksInv'
  <2> SUFFICES ASSUME NEW d \in Consumers PROVE MasksOf(d)'
    BY DEF MasksInv
  <2>1. CASE d = c
    <3>1. Combined(c)' = Combined(c)
      BY <1>1 DEF Combined
    <3>2. \A j \in Offsets : \/ j \in Combined(c)
                             \/ base[c] + j \in undecided
                             \/ base[c] + j \in final'
      BY <1>1, <1>7
    <3>3. todo'[c] \subseteq Combined(c) /\ \A j \in Combined(c) \ todo'[c] : base[c] + j \in past'
      BY <1>1
    <3> QED
      BY <1>1, <2>1, <3>1, <3>2, <3>3 DEF MasksOf
  <2>2. CASE d # c
    <3>1. MasksOf(d)
      BY DEF IInv, MasksInv
    <3> QED
      BY <1>1, <1>2, <2>2, <3>1, MasksStay
  <2> QED
    BY <2>1, <2>2
<1>9. FoundInv'
  <2> SUFFICES ASSUME NEW d \in Consumers, NEW j \in Found(d)'
               PROVE  ranks'[Slot(base[d] + j)] = base[d] + j
    BY <1>1 DEF FoundInv, Matches, RankAt, Slot
  <2>1. CASE d = c
    <3>1. j \in todo[c] \ {i}
      BY <1>1, <2>1 DEF Found
    <3>2. j \in Offsets /\ j \in Found(c)
      BY <1>1, <3>1, ClearFacts DEF Found
    <3>3. ranks[Slot(base[c] + j)] = base[c] + j
      BY <3>2 DEF IInv, FoundInv, Matches, RankAt
    <3>4. Slot(base[c] + j) # w /\ Slot(base[c] + j) \in Slots
      BY <1>1, <3>1, <3>2, TicketType, NearSlots
    <3> QED
      BY <1>1, <2>1, <3>3, <3>4
  <2>2. CASE d # c
    <3>1. Found(d)' = Found(d)
      BY <1>1, <1>2, <2>2, FoundStay
    <3>2. j \in Offsets /\ cpc[d] # "idle"
      <4>1. j \in Found(d)
        BY <3>1
      <4>2. todo[d] \subseteq Offsets /\ Combined(d) \subseteq Offsets
        BY DEF TypeInv, TypeOK, Combined
      <4> QED
        BY <4>1, <4>2 DEF Found
    <3>3. ranks[Slot(base[d] + j)] = base[d] + j
      BY <3>1 DEF IInv, FoundInv, Matches, RankAt
    <3>4. base[d] + j # t
      BY <1>1, <2>2, <3>2, Apart DEF IInv
    <3>5. Slot(base[d] + j) \in Slots
      BY <3>2, TicketType
    <3> QED
      BY <1>1, <3>3, <3>4, <3>5
  <2> QED
    BY <2>1, <2>2
<1>10. OutInv'
  <2> SUFFICES ASSUME NEW d \in Consumers, cpc'[d] = "clear" PROVE Copied(d)'
    BY DEF OutInv
  <2>1. Copied(d)
    BY <1>1, <1>2 DEF IInv, OutInv
  <2> QED
    BY <1>1, <2>1, CopiedStay
<1>11. PassedInv'
  BY <1>1, <1>7 DEF IInv, PassedInv
<1> QED
  BY <1>4, <1>5, <1>6, <1>8, <1>9, <1>10, <1>11

\* Emptying a cell that is not the last one: its datum is in hand.
LEMMA ClearOneKeepsInv ==
  ASSUME TypeInv, IInv, NEW c \in Consumers, NEW i \in todo[c], DeqClearRank(c, i),
         todo[c] # {i}
  PROVE  GotInv' /\ StoredInv' /\ DrawnInv'
<1> DEFINE t == base[c] + i
           w == Slot(t)
<1>1. /\ cpc[c] = "clear" /\ cpc'[c] = "clear" /\ i \in Combined(c)
      /\ t \in Nat /\ w \in Slots /\ ranks[w] = t
      /\ \A s \in Slots \ {w} : ranks'[s] = ranks[s]
      /\ past \subseteq past'
      /\ UNCHANGED <<head, datas, book, tail, ppc, ptodo, base, out, undecided, timedOut, got>>
  BY ClearFacts
<1>2. \A d \in Consumers : cpc'[d] = cpc[d]
  BY <1>1, ClearFacts
<1>3. \A d \in Consumers : InHand(d)' = InHand(d)
  BY <1>1, <1>2 DEF InHand
<1>4. \A d \in Consumers : \A u : Holds(d, u)' <=> Holds(d, u)
  BY <1>1, <1>2 DEF Holds, Tickets
<1>5. GotInv'
  <2> SUFFICES ASSUME NEW d \in Consumers, NEW n \in DOMAIN got[d]
               PROVE  /\ got[d][n] \in book
                      /\ got[d][n][1] \in past'
                      /\ got[d][n][1] < head
                      /\ \A e \in Consumers : ~Holds(e, got[d][n][1])
                      /\ cpc[d] # "idle" => got[d][n][1] < base[d]
    BY <1>1, <1>2 DEF GotInv, Holds, Tickets
  <2> QED
    BY <1>1 DEF IInv, GotInv
<1>6. StoredInv'
  <2> SUFFICES ASSUME NEW d \in book
               PROVE  \/ ranks'[Slot(d[1])] = d[1] /\ datas[Slot(d[1])] = d
                      \/ ppc = "publish" /\ \E j \in ptodo : d[1] = tail + j
                      \/ \E e \in Consumers : d \in InHand(e)
                      \/ d \in Returned
    BY <1>1, <1>3 DEF StoredInv, Published, Returned, Slot
  <2>1. ASSUME Published(d)
        PROVE  \/ ranks'[Slot(d[1])] = d[1] /\ datas[Slot(d[1])] = d
               \/ d \in InHand(c)
    <3>1. d[1] \in Nat /\ Slot(d[1]) \in Slots
      <4>1. book \subseteq Nat \X Nat
        BY DEF TypeInv, TypeOK
      <4> QED
        BY <4>1, SlotType
    <3>2. CASE Slot(d[1]) = w
      BY <1>1, <2>1, <3>2, CopiedIsCell DEF Published
    <3>3. CASE Slot(d[1]) # w
      BY <1>1, <2>1, <3>1, <3>3 DEF Published
    <3> QED
      BY <3>2, <3>3
  <2> QED
    BY <2>1 DEF IInv, StoredInv
<1>7. DrawnInv'
  <2> SUFFICES ASSUME NEW u \in 0 .. head - 1
               PROVE  \/ \E d \in Consumers : Holds(d, u)
                      \/ u \in timedOut \cup undecided
                      \/ u \in final'
    BY <1>1, <1>2 DEF DrawnInv, Holds, Tickets
  <2> QED
    BY <1>1 DEF IInv, DrawnInv, final
<1> QED
  BY <1>5, <1>6, <1>7

\* The last cell emptied, the call returns what it copied out.
LEMMA ClearLastKeepsInv ==
  ASSUME TypeInv, IInv, NEW c \in Consumers, NEW i \in todo[c], DeqClearRank(c, i),
         todo[c] = {i}
  PROVE  GotInv' /\ StoredInv' /\ DrawnInv'
<1> DEFINE t == base[c] + i
           w == Slot(t)
<1>0. /\ got \in [Consumers -> Seq(Nat \X Nat)] /\ out[c] \in Seq(Nat \X Nat) /\ head \in Nat
      /\ got[c] \in Seq(Nat \X Nat) /\ book \subseteq Nat \X Nat
  BY DEF TypeInv, TypeOK
<1>1. /\ cpc[c] = "clear" /\ cpc'[c] = "idle" /\ i \in Combined(c) /\ Combined(c) \subseteq Offsets
      /\ \A j \in Offsets : \/ j \in Combined(c)
                            \/ base[c] + j \in undecided
                            \/ base[c] + j \in final
      /\ t \in Nat /\ w \in Slots /\ ranks[w] = t
      /\ \A s \in Slots \ {w} : ranks'[s] = ranks[s]
      /\ past \subseteq past' /\ Copied(c)
      /\ UNCHANGED <<head, datas, book, tail, ppc, ptodo, base, out, undecided, timedOut>>
      /\ got' = [got EXCEPT ![c] = @ \o out[c]]
  BY ClearFacts
<1>2. ASSUME NEW d \in Consumers, d # c
      PROVE  cpc'[d] = cpc[d] /\ got'[d] = got[d] /\ InHand(d)' = InHand(d)
  <2>1. cpc'[d] = cpc[d] /\ got'[d] = got[d]
    BY <1>2, ClearFacts
  <2> QED
    BY <1>1, <2>1 DEF InHand
<1>3. InHand(c) = ToSet(out[c])
  BY <1>1 DEF InHand
<1>4. \A j \in Combined(c) : base[c] + j \in past'
  <2>1. /\ \A j \in Combined(c) \ todo[c] : base[c] + j \in past
        /\ t \in past'
    BY ClearFacts
  <2> QED
    BY <1>1, <2>1
\* What is in nobody's cell any more: a datum returned before or now.
<1>5. /\ \A n \in DOMAIN got[c] : n \in DOMAIN got'[c] /\ got'[c][n] = got[c][n]
      /\ \A n \in DOMAIN out[c] : \E m \in DOMAIN got'[c] : got'[c][m] = out[c][n]
      /\ \A m \in DOMAIN got'[c] : \/ m \in DOMAIN got[c] /\ got'[c][m] = got[c][m]
                                   \/ \E n \in DOMAIN out[c] : got'[c][m] = out[c][n]
  <2>1. got'[c] = got[c] \o out[c]
    BY <1>0, <1>1
  <2>2. PICK a \in Nat, b \in Nat : /\ DOMAIN got[c] = 1 .. a /\ DOMAIN out[c] = 1 .. b
                                    /\ a = Len(got[c]) /\ b = Len(out[c])
    BY <1>0
  <2>3. DOMAIN got'[c] = 1 .. a + b
    BY <1>0, <2>1, <2>2
  <2>4. ASSUME NEW n \in 1 .. a PROVE n \in 1 .. a + b /\ got'[c][n] = got[c][n]
    BY <1>0, <2>1, <2>2
  <2>5. ASSUME NEW n \in 1 .. b PROVE a + n \in 1 .. a + b /\ got'[c][a + n] = out[c][n]
    BY <1>0, <2>1, <2>2
  <2>6. ASSUME NEW m \in 1 .. a + b
        PROVE  \/ m \in 1 .. a /\ got'[c][m] = got[c][m]
               \/ \E n \in 1 .. b : got'[c][m] = out[c][n]
    <3>1. CASE m =< a
      BY <2>4, <3>1
    <3>2. CASE ~(m =< a)
      <4>1. PICK n \in 1 .. b : m = a + n
        <5>1. m - a \in 1 .. b /\ m = a + (m - a)
          BY <3>2
        <5> QED
          BY <5>1
      <4> QED
        BY <2>5, <4>1
    <3> QED
      BY <3>1, <3>2
  <2>7. \A n \in DOMAIN got[c] : n \in DOMAIN got'[c] /\ got'[c][n] = got[c][n]
    BY <2>2, <2>3, <2>4
  <2>8. \A n \in DOMAIN out[c] : \E m \in DOMAIN got'[c] : got'[c][m] = out[c][n]
    BY <2>2, <2>3, <2>5
  <2>9. \A m \in DOMAIN got'[c] : \/ m \in DOMAIN got[c] /\ got'[c][m] = got[c][m]
                                  \/ \E n \in DOMAIN out[c] : got'[c][m] = out[c][n]
    BY <2>2, <2>3, <2>6
  <2> QED
    BY <2>7, <2>8, <2>9
<1>6. Returned \subseteq Returned' /\ InHand(c) \subseteq Returned'
  <2>1. \A d \in Consumers : ToSet(got[d]) \subseteq ToSet(got'[d])
    BY <1>2, <1>5 DEF ToSet
  <2>2. ToSet(out[c]) \subseteq ToSet(got'[c])
    BY <1>5 DEF ToSet
  <2> QED
    BY <1>3, <2>1, <2>2, Zenon DEF Returned
\* The data that the call returns.
<1>7. ASSUME NEW n \in DOMAIN out[c]
      PROVE  /\ out[c][n] \in book /\ out[c][n][1] \in past' /\ out[c][n][1] < head
             /\ \A d \in Consumers : ~(cpc'[d] # "idle" /\ out[c][n][1] \in Tickets(d))
  <2>1. PICK j \in Combined(c) : out[c][n][1] = base[c] + j
    BY <1>1 DEF Copied
  <2>2. j \in Offsets /\ j \in Nat /\ j < DeqK /\ base[c] \in Nat /\ DeqK \in Nat
    BY <1>1, TicketType, Sizes
  <2>3. base[c] + j < head
    <3>1. base[c] + DeqK =< head
      BY <1>1 DEF IInv, RangesInv
    <3> QED
      BY <1>0, <2>2, <3>1
  <2>4. ASSUME NEW d \in Consumers, cpc'[d] # "idle", NEW k \in Offsets
        PROVE  base[c] + j # base[d] + k
    <3>1. d # c /\ cpc[d] # "idle"
      BY <1>1, <1>2, <2>4
    <3> QED
      BY <1>1, <2>2, <3>1, Apart DEF IInv
  <2>5. \A d \in Consumers : ~(cpc'[d] # "idle" /\ base[c] + j \in Tickets(d))
    BY <2>4 DEF Tickets
  <2>6. out[c][n] \in book
    BY <1>1 DEF Copied
  <2> QED
    BY <1>4, <2>1, <2>3, <2>5, <2>6
<1>8. \A d \in Consumers : cpc'[d] # "idle" => cpc[d] # "idle" /\ d # c
  BY <1>1, <1>2
<1>9. ASSUME NEW d \in Consumers, NEW n \in DOMAIN got[d]
      PROVE  /\ got[d][n] \in book /\ got[d][n][1] \in past' /\ got[d][n][1] < head
             /\ \A e \in Consumers : ~(cpc'[e] # "idle" /\ got[d][n][1] \in Tickets(e))
             /\ cpc'[d] # "idle" => got[d][n][1] < base[d]
  <2>1. /\ got[d][n] \in book
        /\ got[d][n][1] \in past
        /\ got[d][n][1] < head
        /\ \A e \in Consumers : ~Holds(e, got[d][n][1])
        /\ cpc[d] # "idle" => got[d][n][1] < base[d]
    BY DEF IInv, GotInv
  <2>2. \A e \in Consumers : ~(cpc'[e] # "idle" /\ got[d][n][1] \in Tickets(e))
    BY <1>8, <2>1 DEF Holds
  <2> QED
    BY <1>1, <1>8, <2>1, <2>2
<1>10. GotInv'
  <2> SUFFICES ASSUME NEW d \in Consumers, NEW m \in DOMAIN got'[d]
               PROVE  /\ got'[d][m] \in book
                      /\ got'[d][m][1] \in past'
                      /\ got'[d][m][1] < head
                      /\ \A e \in Consumers : ~(cpc'[e] # "idle" /\ got'[d][m][1] \in Tickets(e))
                      /\ cpc'[d] # "idle" => got'[d][m][1] < base[d]
    <3>1. /\ \A e \in Consumers : Tickets(e)' = Tickets(e)
          /\ head' = head /\ book' = book /\ base' = base
      BY <1>1 DEF Tickets
    <3> QED
      BY <3>1 DEF GotInv, Holds
  <2>1. CASE m \in DOMAIN got[d] /\ got'[d][m] = got[d][m]
    BY <1>9, <2>1
  <2>2. CASE d = c /\ \E n \in DOMAIN out[c] : got'[c][m] = out[c][n]
    BY <1>1, <1>7, <2>2
  <2>3. CASE d # c
    BY <1>2, <2>1, <2>3
  <2> QED
    BY <1>5, <2>1, <2>2, <2>3
<1>11. StoredInv'
  <2> SUFFICES ASSUME NEW d \in book
               PROVE  \/ ranks'[Slot(d[1])] = d[1] /\ datas[Slot(d[1])] = d
                      \/ ppc = "publish" /\ \E j \in ptodo : d[1] = tail + j
                      \/ \E e \in Consumers : d \in InHand(e)'
                      \/ d \in Returned'
    BY <1>1 DEF StoredInv, Published, Slot
  <2>1. ASSUME Published(d)
        PROVE  \/ ranks'[Slot(d[1])] = d[1] /\ datas[Slot(d[1])] = d
               \/ d \in InHand(c)
    <3>1. d[1] \in Nat /\ Slot(d[1]) \in Slots
      BY <1>0, SlotType
    <3>2. CASE Slot(d[1]) = w
      BY <1>1, <2>1, <3>2, CopiedIsCell DEF Published
    <3>3. CASE Slot(d[1]) # w
      BY <1>1, <2>1, <3>1, <3>3 DEF Published
    <3> QED
      BY <3>2, <3>3
  <2>2. ASSUME NEW e \in Consumers, d \in InHand(e) PROVE d \in InHand(e)' \/ d \in Returned'
    <3>1. CASE e = c
      BY <1>6, <2>2, <3>1
    <3>2. CASE e # c
      BY <1>2, <2>2, <3>2
    <3> QED
      BY <3>1, <3>2
  <2> QED
    BY <1>6, <2>1, <2>2 DEF IInv, StoredInv
<1>12. DrawnInv'
  <2> SUFFICES ASSUME NEW u \in 0 .. head - 1
               PROVE  \/ \E d \in Consumers : cpc'[d] # "idle" /\ u \in Tickets(d)
                      \/ u \in timedOut \cup undecided
                      \/ u \in final'
    BY <1>1 DEF DrawnInv, Holds, Tickets
  <2>1. ASSUME NEW d \in Consumers, Holds(d, u)
        PROVE  \/ cpc'[d] # "idle" /\ u \in Tickets(d)
               \/ u \in undecided
               \/ u \in final'
    <3>1. CASE d = c
      <4>1. PICK j \in Offsets : u = base[c] + j
        BY <2>1, <3>1 DEF Holds, Tickets
      <4> QED
        BY <1>1, <1>4, <4>1 DEF final
    <3>2. CASE d # c
      BY <1>2, <2>1, <3>2 DEF Holds
    <3> QED
      BY <3>1, <3>2
  <2>2. final \subseteq final'
    BY <1>1 DEF final
  <2> QED
    BY <2>1, <2>2 DEF IInv, DrawnInv
<1> QED
  BY <1>10, <1>11, <1>12

\* Every step of a dequeue call keeps the invariant.
LEMMA ConsumerKeepsInv ==
  ASSUME TypeInv, IInv, NEW c \in Consumers, Consumer(c)
  PROVE  IInv'
<1>1. CASE DeqDraw(c)
  <2>1. /\ cpc[c] = "idle" /\ Draw(c) /\ ClearMasks(c) /\ Go(c, "scan", Offsets)
        /\ UNCHANGED <<windows, producer, out, got, passed, undecided, timedOut>>
    BY <1>1 DEF DeqDraw, history
  <2> QED
    BY <2>1, StartKeepsInv
<1>2. CASE DeqRedraw(c)
  <2>1. /\ cpc[c] = "redraw" /\ Draw(c) /\ ClearMasks(c)
        /\ \/ Go(c, "scan", Offsets) /\ timedOut' = timedOut
           \/ Go(c, "idle", {}) /\ timedOut' = timedOut \cup {head + i : i \in Offsets}
        /\ UNCHANGED <<windows, producer, out, got, passed, undecided>>
    BY <1>2 DEF DeqRedraw
  <2> QED
    BY <2>1, StartKeepsInv
<1>3. ASSUME NEW i \in todo[c], DeqClearRank(c, i) PROVE IInv'
  <2>1. GotInv' /\ StoredInv' /\ DrawnInv'
    BY <1>3, ClearOneKeepsInv, ClearLastKeepsInv
  <2> QED
    BY <1>3, <2>1, ClearKeepsCells DEF IInv
<1> QED
  BY <1>1, <1>2, <1>3, WaitKeepsInv, GetDataKeepsInv, ScanKeepsInv, ReadGapKeepsInv,
     RecheckKeepsInv DEF Consumer

\* The inductive invariant holds in every reachable state.
THEOREM Invariant == Spec => [](TypeInv /\ IInv)
<1>1. Init => IInv
  <2> SUFFICES ASSUME Init PROVE IInv
    OBVIOUS
  <2>0. \A c \in Consumers : cpc[c] = "idle" /\ got[c] = <<>>
    BY DEF Init
  <2>1. CellsInv /\ ProducerInv /\ BookInv /\ PassedInv
    BY DEF Init, CellsInv, ProducerInv, BookInv, PassedInv, Busy, EMPTY_CELL
  <2>2. RangesInv /\ MasksInv /\ OutInv
    BY <2>0 DEF RangesInv, MasksInv, MasksOf, OutInv
  <2>3. FoundInv
    BY <2>0 DEF FoundInv, Found
  <2>4. GotInv
    BY <2>0 DEF GotInv
  <2>5. StoredInv /\ DrawnInv
    BY DEF Init, StoredInv, DrawnInv
  <2> QED
    BY <2>1, <2>2, <2>3, <2>4, <2>5 DEF IInv
<1>2. TypeInv /\ IInv /\ [Next]_vars => IInv'
  <2> SUFFICES ASSUME TypeInv, IInv, [Next]_vars PROVE IInv'
    OBVIOUS
  <2>1. CASE UNCHANGED vars
    <3>1. /\ UNCHANGED <<ranks, gaps, datas, head, book, consumer>>
          /\ UNCHANGED <<tail, ppc, left, free, ptodo, sent>> /\ over' = over
      BY <2>1, PastUnchanged DEF vars, windows, producer
    <3>2. ProducerInv'
      BY <3>1 DEF IInv, ProducerInv, Busy, Slot, Datum
    <3>3. \A s \in Slots : gaps'[s] > 0 => Slot(gaps'[s]) = s /\ gaps'[s] \in over'
      BY <3>1 DEF IInv, CellsInv
    <3> QED
      BY <3>1, <3>2, <3>3, ProducerFrame
  <2> QED
    BY <2>1, ProducerKeepsInv, ConsumerKeepsInv DEF Next
<1> QED
  BY <1>1, <1>2, TypeCorrect, PTL DEF Spec

-----------------------------------------------------------------------------
\* The MPI_Get of a range does not meet an MPI_Put of the producer in a cell
\* whose value counts: what counts was found in its cell, and the producer
\* writes into cells that are empty.
THEOREM NoRaceHolds == Spec => []NoRace
<1>1. TypeInv /\ IInv => NoRace
  <2> SUFFICES ASSUME TypeInv, IInv, NEW c \in Consumers, ppc = "put", cpc[c] = "get",
                      NEW i \in Combined(c), NEW j \in free,
                      Slot(base[c] + i) = Slot(tail + j)
               PROVE  FALSE
    BY DEF NoRace
  <2>1. ranks[Slot(base[c] + i)] = base[c] + i
    BY DEF IInv, FoundInv, Found, Matches, RankAt
  <2>2. ~Busy(Slot(tail + j))
    BY DEF IInv, ProducerInv
  <2>3. base[c] + i \in Nat
    <3>1. Combined(c) \subseteq Offsets
      BY DEF Combined, TypeInv, TypeOK
    <3> QED
      BY <3>1, TicketType
  <2> QED
    BY <2>1, <2>2, <2>3 DEF Busy
<1> QED
  BY <1>1, Invariant, PTL

\* A datum that was returned is one of those in GotInv.
LEMMA ReturnedFacts ==
  ASSUME TypeInv, IInv, NEW d \in Returned
  PROVE  /\ d[1] \in past /\ \A c \in Consumers : ~Holds(c, d[1])
         /\ ranks[Slot(d[1])] # d[1]
<1>1. PICK c \in Consumers : d \in ToSet(got[c])
  BY DEF Returned
<1>2. PICK n \in DOMAIN got[c] : d = got[c][n]
  BY <1>1 DEF ToSet
<1>3. d[1] \in past /\ \A e \in Consumers : ~Holds(e, d[1])
  BY <1>2 DEF IInv, GotInv
<1> QED
  BY <1>3 DEF past

\* A datum that was put is in one place, also while a call empties the cells of
\* its range one after the other.
LEMMA ConservedHolds ==
  ASSUME TypeInv, IInv
  PROVE  Conserved
<1> SUFFICES ASSUME NEW d \in book
             PROVE  LET holders == {c \in Consumers : d \in InHand(c)}
                        due == ppc = "publish" /\ \E j \in ptodo : d[1] = tail + j
                    IN /\ Cardinality(holders) + (IF d \in Returned THEN 1 ELSE 0) =< 1
                       /\ \/ Published(d) \/ due \/ holders # {} \/ d \in Returned
                       /\ Published(d) => d \notin Returned
  BY DEF Conserved
<1> DEFINE holders == {c \in Consumers : d \in InHand(c)}
           due == ppc = "publish" /\ \E j \in ptodo : d[1] = tail + j
<1>1. ASSUME NEW c \in Consumers, d \in InHand(c) PROVE holders = {c} /\ d \notin Returned
  <2>1. cpc[c] = "clear" /\ Holds(c, d[1]) /\ \E i \in Combined(c) : d[1] = base[c] + i
    BY <1>1, HandHolds
  <2>2. ASSUME NEW e \in Consumers, e # c PROVE d \notin InHand(e)
    <3>1. ASSUME d \in InHand(e)
          PROVE  cpc[e] = "clear" /\ \E i \in Combined(e) : d[1] = base[e] + i
      BY <3>1, HandHolds
    <3>2. RangesInv /\ \A x \in Consumers : Combined(x) \subseteq Offsets
      BY DEF IInv, Combined, TypeInv, TypeOK
    <3> QED
      BY <2>1, <2>2, <3>1, <3>2, Apart
  <2>3. d \notin Returned
    BY <2>1, ReturnedFacts
  <2> QED
    BY <1>1, <2>2, <2>3
<1>2. Published(d) => d \notin Returned
  BY ReturnedFacts DEF Published
<1>3. Published(d) \/ due \/ holders # {} \/ d \in Returned
  BY DEF IInv, StoredInv
<1>4. Cardinality(holders) + (IF d \in Returned THEN 1 ELSE 0) =< 1
  <2>1. CASE holders = {}
    <3>1. Cardinality(holders) = 0
      BY <2>1, FS_EmptySet
    <3> HIDE DEF holders
    <3> QED
      BY <3>1
  <2>2. CASE holders # {}
    <3>1. PICK c \in Consumers : d \in InHand(c)
      BY <2>2
    <3>2. Cardinality(holders) = 1 /\ d \notin Returned
      BY <1>1, <3>1, FS_Singleton
    <3> HIDE DEF holders
    <3> QED
      BY <3>2
  <2> QED
    BY <2>1, <2>2
<1> HIDE DEF holders, due
<1> QED
  BY <1>2, <1>3, <1>4, Zenon DEF holders, due

\* The cell of a ticket that is past does not hold it.
LEMMA NoCellIsPast ==
  ASSUME TypeInv, IInv, NEW s \in Slots, Busy(s)
  PROVE  ranks[s] \in Nat /\ ranks[s] \notin past
<1>1. Slot(ranks[s]) = s
  BY DEF IInv, CellsInv
<1>2. ranks[s] \in Nat
  BY DEF Busy, TypeInv, TypeOK, EMPTY_CELL
<1> QED
  BY <1>1, <1>2 DEF past

\* Where everything is: each datum in one place; a ticket that was skipped
\* after the double check is never published, but for the first; and a datum
\* whose ticket was drawn is lost by a limit, a partial commit or as the first.
THEOREM AccountedHolds == Spec => []Accounted
<1>1. TypeInv /\ IInv => Accounted
  <2> SUFFICES ASSUME TypeInv, IInv PROVE Accounted
    OBVIOUS
  <2>1. Conserved
    BY ConservedHolds
  <2>2. SkipIsFinalAfterFirst
    <3> SUFFICES ASSUME NEW s \in Slots, ranks[s] > 0, ranks[s] \in passed PROVE FALSE
      BY DEF SkipIsFinalAfterFirst
    <3>1. ranks[s] \in Nat \cup {EMPTY_CELL}
      BY DEF TypeInv, TypeOK
    <3>2. Busy(s) /\ ranks[s] # 0
      BY <3>1 DEF Busy, EMPTY_CELL
    <3>3. ranks[s] \in past
      BY <3>2 DEF IInv, PassedInv, final
    <3> QED
      BY <3>2, <3>3, NoCellIsPast
  <2>3. OnlyAbandonedAreLost
    <3> SUFFICES ASSUME NEW s \in Slots, Busy(s), ranks[s] < head
                 PROVE  \/ \E c \in Consumers : Holds(c, ranks[s])
                        \/ ranks[s] \in timedOut \cup undecided \cup {0}
      BY DEF OnlyAbandonedAreLost
    <3>1. ranks[s] \in Nat /\ ranks[s] \notin past
      BY NoCellIsPast
    <3>2. ranks[s] \in 0 .. head - 1
      BY <3>1 DEF TypeInv, TypeOK
    <3> QED
      BY <3>1, <3>2 DEF IInv, DrawnInv, final
  <2> QED
    BY <2>1, <2>2, <2>3 DEF Accounted
<1> QED
  BY <1>1, Invariant, PTL

-----------------------------------------------------------------------------
\* The tickets of two lists of data, one after the other.
LEMMA TicketsOfBoth ==
  ASSUME NEW a \in Seq(Nat \X Nat), NEW b \in Seq(Nat \X Nat)
  PROVE  [n \in DOMAIN (a \o b) |-> (a \o b)[n][1]]
           = [n \in DOMAIN a |-> a[n][1]] \o [n \in DOMAIN b |-> b[n][1]]
<1> DEFINE x == [n \in DOMAIN a |-> a[n][1]]
           y == [n \in DOMAIN b |-> b[n][1]]
           z == [n \in DOMAIN (a \o b) |-> (a \o b)[n][1]]
<1>1. /\ Len(a) \in Nat /\ Len(b) \in Nat /\ DOMAIN a = 1 .. Len(a) /\ DOMAIN b = 1 .. Len(b)
      /\ DOMAIN (a \o b) = 1 .. Len(a) + Len(b)
  OBVIOUS
<1>2. x \in Seq(Nat) /\ y \in Seq(Nat) /\ Len(x) = Len(a) /\ Len(y) = Len(b)
  <2>1. (\A n \in 1 .. Len(a) : a[n][1] \in Nat) /\ (\A n \in 1 .. Len(b) : b[n][1] \in Nat)
    BY <1>1
  <2> QED
    BY <1>1, <2>1
<1>3. DOMAIN (x \o y) = 1 .. Len(a) + Len(b)
  BY <1>1, <1>2
<1>4. ASSUME NEW n \in 1 .. Len(a) + Len(b) PROVE (a \o b)[n][1] = (x \o y)[n]
  <2>1. CASE n =< Len(a)
    <3>1. (a \o b)[n] = a[n] /\ (x \o y)[n] = x[n] /\ n \in DOMAIN a
      BY <1>1, <1>2, <2>1
    <3> QED
      BY <3>1
  <2>2. CASE ~(n =< Len(a))
    <3>1. n - Len(a) \in 1 .. Len(b)
      BY <1>1, <2>2
    <3>2. (a \o b)[n] = b[n - Len(a)] /\ (x \o y)[n] = y[n - Len(a)] /\ n - Len(a) \in DOMAIN b
      BY <1>1, <1>2, <2>2, <3>1
    <3> QED
      BY <3>2
  <2> QED
    BY <2>1, <2>2
<1>5. x \o y \in Seq(Nat)
  BY <1>2
<1> HIDE DEF x, y
<1>6. x \o y = [n \in 1 .. Len(a) + Len(b) |-> (x \o y)[n]]
  <2> DEFINE w == x \o y
  <2>1. w \in Seq(Nat) /\ DOMAIN w = 1 .. Len(a) + Len(b)
    BY <1>3, <1>5
  <2> HIDE DEF w
  <2>2. w \in [1 .. Len(w) -> Nat] /\ DOMAIN w = 1 .. Len(w)
    BY <2>1
  <2>3. w = [n \in DOMAIN w |-> w[n]]
    BY <2>2
  <2>4. w = [n \in 1 .. Len(a) + Len(b) |-> w[n]]
    BY <2>1, <2>3
  <2> QED
    BY <2>4 DEF w
<1>7. z = [n \in 1 .. Len(a) + Len(b) |-> (x \o y)[n]]
  BY <1>1, <1>4
<1> QED
  BY <1>6, <1>7 DEF x, y

\* What an enqueue step shows: the data of a round count as put when they lie
\* in their cells, or when the round found no cell for them.
LEMMA ProducerPuts ==
  ASSUME TypeInv, IInv, Producer
  PROVE  /\ UNCHANGED gotTickets
         /\ putTickets' = putTickets \/ putTickets' \in putTickets + 1 .. putTickets + EnqK
<1>0. /\ SharedType /\ tail \in Nat /\ left \in Nat /\ left =< EnqK /\ EnqK \in Nat
      /\ ppc # "idle" => left > 0
  BY TypeParts, Sizes DEF TypeInv, SharedType, RoundInv
<1>1. UNCHANGED gotTickets
  <2>1. got' = got
    BY DEF Producer, EnqueueBatch, EnqStep, EnqReadRank, EnqMarkGap, EnqPutData, EnqPublish,
           consumer, history
  <2> QED
    BY <2>1 DEF gotTickets
<1>2. CASE EnqueueBatch \/ \E j \in ptodo : EnqReadRank(j)
  <2>1. tail' = tail /\ ppc # "publish" /\ ppc' # "publish"
    BY <1>2 DEF EnqueueBatch, EnqReadRank, Round, EnqGo
  <2> QED
    BY <1>1, <2>1 DEF putTickets
<1>3. ASSUME NEW j \in ptodo, EnqMarkGap(j)
      PROVE  putTickets' = putTickets \/ putTickets' \in putTickets + 1 .. putTickets + EnqK
  <2>1. /\ ppc = "mark"
        /\ \/ tail' = tail /\ ppc' # "publish"
           \/ Advance
    BY <1>3 DEF EnqMarkGap, EnqGo
  <2>2. Advance => tail' = tail + left /\ ppc' # "publish"
    BY <1>0, AdvanceFacts
  <2>3. putTickets = tail /\ (putTickets' = tail \/ putTickets' = tail + left)
    BY <2>1, <2>2 DEF putTickets
  <2> QED
    BY <1>0, <2>1, <2>3
<1>4. CASE EnqPutData
  <2>1. ppc = "put" /\ ppc' = "publish" /\ tail' = tail /\ left' = left
    BY <1>4 DEF EnqPutData, EnqGo
  <2>2. putTickets = tail /\ putTickets' = tail + left
    BY <2>1 DEF putTickets
  <2> QED
    BY <1>0, <1>1, <2>1, <2>2
<1>5. ASSUME NEW j \in ptodo, EnqPublish(j) PROVE putTickets' = putTickets
  <2>1. /\ ppc = "publish"
        /\ \/ tail' = tail /\ left' = left /\ ppc' = "publish"
           \/ Advance
    BY <1>5 DEF EnqPublish, EnqGo
  <2>2. Advance => tail' = tail + left /\ ppc' # "publish"
    BY <1>0, AdvanceFacts
  <2> QED
    BY <2>1, <2>2 DEF putTickets
<1> QED
  BY <1>1, <1>2, <1>3, <1>4, <1>5 DEF Producer, EnqStep

\* What the last step of a dequeue call shows: it takes the tickets of the data
\* it copied out.
LEMMA LastTakes ==
  ASSUME TypeInv, IInv, NEW c \in Consumers, NEW i \in todo[c], DeqClearRank(c, i),
         todo[c] = {i}
  PROVE  base[c] \in 0 .. putTickets - 1 /\ Batch!Take(c, base[c])
<1> DEFINE most == IF EnqK > DeqK THEN EnqK ELSE DeqK
           open == (base[c] .. base[c] + most - 1) \cap (0 .. putTickets - 1)
           items == [n \in DOMAIN out[c] |-> out[c][n][1]]
<1>0. /\ got \in [Consumers -> Seq(Nat \X Nat)] /\ out[c] \in Seq(Nat \X Nat)
      /\ book \subseteq Nat \X Nat /\ putTickets \in Nat
      /\ most \in Nat /\ DeqK =< most /\ DeqK \in Nat
  BY Sizes DEF TypeInv, TypeOK, putTickets
<1>1. /\ cpc[c] = "clear" /\ i \in Combined(c) /\ Combined(c) \subseteq Offsets /\ Copied(c)
      /\ got' = [got EXCEPT ![c] = @ \o out[c]]
      /\ UNCHANGED <<tail, left, ppc>>
  BY ClearFacts
<1>2. DOMAIN out[c] = 1 .. Len(out[c]) /\ Len(out[c]) \in Nat /\ Len(out[c]) =< DeqK
  <2>1. Len(out[c]) =< DeqK
    BY <1>1, Zenon DEF Copied
  <2>2. DOMAIN out[c] = 1 .. Len(out[c]) /\ Len(out[c]) \in Nat
    BY <1>0
  <2> QED
    BY <2>1, <2>2
<1>3. ASSUME NEW n \in DOMAIN out[c]
      PROVE  /\ items[n] = out[c][n][1] /\ items[n] \in open /\ Holds(c, items[n])
             /\ items[n] \in 0 .. putTickets - 1 /\ base[c] =< items[n] /\ base[c] \in Nat
  <2>1. PICK j \in Combined(c) : out[c][n][1] = base[c] + j
    BY <1>1 DEF Copied
  <2>2. j \in Offsets /\ j \in Nat /\ base[c] \in Nat /\ j < DeqK
    BY <1>1, TicketType
  <2>3. out[c][n] \in book
    BY <1>1 DEF Copied
  <2>4. base[c] + j < putTickets
    BY <2>1, <2>3 DEF IInv, BookInv
  <2>5. items[n] = base[c] + j
    BY <2>1
  <2> HIDE DEF items, most
  <2>6. items[n] \in open
    <3>1. base[c] + j \in base[c] .. base[c] + most - 1
      BY <1>0, <2>2, SMTT(30)
    <3>2. base[c] + j \in 0 .. putTickets - 1
      BY <1>0, <2>2, <2>4, SMTT(30)
    <3> QED
      BY <2>5, <3>1, <3>2
  <2>7. Holds(c, items[n])
    BY <1>1, <2>2, <2>5 DEF Holds, Tickets
  <2> QED
    BY <1>0, <2>1, <2>2, <2>4, <2>5, <2>6, <2>7
<1>4. PICK n1 \in DOMAIN out[c] : out[c][n1][1] = base[c] + i
  BY <1>1 DEF Copied
<1>5. base[c] \in 0 .. putTickets - 1
  <2>1. /\ items[n1] \in 0 .. putTickets - 1 /\ base[c] =< items[n1] /\ base[c] \in Nat
    BY <1>3, <1>4
  <2> HIDE DEF items
  <2> QED
    BY <1>0, <2>1
<1>6. items \in Batch!SeqOf(open, most)
  <2>1. items \in [1 .. Len(out[c]) -> open]
    BY <1>2, <1>3
  <2>2. Len(out[c]) \in 0 .. most
    BY <1>0, <1>2
  <2> HIDE DEF items, open, most
  <2> QED
    BY <2>1, <2>2 DEF Batch!SeqOf
<1>7. items # <<>>
  <2>1. DOMAIN items = DOMAIN out[c]
    OBVIOUS
  <2> QED
    BY <1>4, <2>1
<1>8. Batch!Ascending(items)
  BY <1>1 DEF Batch!Ascending, Copied
<1>9. \A n \in DOMAIN items : ~Batch!Handed(items[n])
  <2> SUFFICES ASSUME NEW n \in DOMAIN out[c], NEW d \in Consumers, NEW m \in DOMAIN got[d],
                      got[d][m][1] = items[n]
               PROVE  FALSE
    BY DEF Batch!Handed, gotTickets
  <2>1. ~Holds(c, got[d][m][1])
    BY DEF IInv, GotInv
  <2> QED
    BY <1>3, <2>1
<1>10. \A n \in DOMAIN gotTickets[c] : gotTickets[c][n] < base[c]
  <2>1. \A n \in DOMAIN got[c] : got[c][n][1] < base[c]
    BY <1>1 DEF IInv, GotInv
  <2> QED
    BY <2>1 DEF gotTickets
<1>11. gotTickets' = [gotTickets EXCEPT ![c] = @ \o items]
  <2>1. [n \in DOMAIN (got[c] \o out[c]) |-> (got[c] \o out[c])[n][1]]
          = [n \in DOMAIN got[c] |-> got[c][n][1]] \o items
    <3>1. got[c] \in Seq(Nat \X Nat)
      BY <1>0
    <3> QED
      BY <1>0, <3>1, TicketsOfBoth
  <2>2. gotTickets'[c] = gotTickets[c] \o items
    <3>1. got'[c] = got[c] \o out[c]
      BY <1>0, <1>1
    <3>2. gotTickets[c] = [n \in DOMAIN got[c] |-> got[c][n][1]]
      BY DEF gotTickets
    <3>3. gotTickets'[c] = [n \in DOMAIN (got[c] \o out[c]) |-> (got[c] \o out[c])[n][1]]
      BY <3>1 DEF gotTickets
    <3> HIDE DEF items
    <3> QED
      BY <2>1, <3>2, <3>3
  <2> HIDE DEF items
  <2>3. \A d \in Consumers \ {c} : gotTickets'[d] = gotTickets[d]
    <3>1. \A d \in Consumers \ {c} : got'[d] = got[d]
      BY <1>0, <1>1
    <3> QED
      BY <3>1 DEF gotTickets
  <2>4. /\ gotTickets = [d \in Consumers |-> gotTickets[d]]
        /\ gotTickets' = [d \in Consumers |-> gotTickets'[d]]
    BY DEF gotTickets
  <2> QED
    BY <2>2, <2>3, <2>4
<1>12. putTickets' = putTickets
  BY <1>1 DEF putTickets
<1> HIDE DEF items
<1> QED
  BY <1>5, <1>6, <1>7, <1>8, <1>9, <1>10, <1>11, <1>12, Zenon DEF Batch!Take

\* A caller sees two steps of the batch bag: laying down a round of data, or
\* passing it, puts tickets in, and emptying the last cell of a call hands over.
LEMMA StepImplementsBatch ==
  ASSUME TypeInv, IInv, [Next]_vars
  PROVE  [Batch!Next]_(Batch!batchVars)
<1>1. CASE Producer
  <2>1. putTickets' \in putTickets + 1 .. putTickets + EnqK
          => putTickets' \in putTickets + 1 ..
               putTickets + (IF EnqK > DeqK THEN EnqK ELSE DeqK)
    <3>1. putTickets \in Nat
      BY Sizes DEF TypeInv, TypeOK, putTickets
    <3> QED
      BY <3>1, Sizes
  <2> QED
    BY <1>1, <2>1, ProducerPuts DEF Batch!Next, Batch!Put, Batch!batchVars
<1>2. ASSUME NEW c \in Consumers, NEW i \in todo[c], DeqClearRank(c, i), todo[c] = {i}
      PROVE  Batch!Next
  <2>1. base[c] \in 0 .. putTickets - 1 /\ Batch!Take(c, base[c])
    BY <1>2, LastTakes
  <2> QED
    BY <2>1 DEF Batch!Next
<1>3. ASSUME NEW c \in Consumers,
             \/ DeqDraw(c) \/ DeqWait(c) \/ DeqGetData(c) \/ DeqRedraw(c)
             \/ \E i \in todo[c] : \/ DeqScan(c, i) \/ DeqReadGap(c, i) \/ DeqRecheck(c, i)
                                   \/ DeqClearRank(c, i) /\ todo[c] # {i}
      PROVE  UNCHANGED Batch!batchVars
  <2>1. UNCHANGED producer /\ got' = got
    BY <1>3 DEF DeqDraw, DeqWait, DeqScan, DeqGetData, DeqReadGap, DeqRecheck, DeqRedraw,
                DeqClearRank, history
  <2> QED
    BY <2>1 DEF producer, Batch!batchVars, putTickets, gotTickets
<1>4. CASE UNCHANGED vars
  BY <1>4 DEF vars, producer, consumer, history, Batch!batchVars, putTickets, gotTickets
<1> QED
  BY <1>1, <1>2, <1>3, <1>4 DEF Next, Consumer

\* Whatever tickets either side passes, what lies under a ticket is returned at
\* most once, after it was put, and in order to each consumer.
THEOREM Refinement == Spec => ImplementsBatch
<1>1. Init => Batch!Init
  BY DEF Init, Batch!Init, putTickets, gotTickets
<1>2. TypeInv /\ IInv /\ [Next]_vars => [Batch!Next]_(Batch!batchVars)
  BY StepImplementsBatch
<1> QED
  BY <1>1, <1>2, Invariant, PTL DEF Spec, ImplementsBatch, Batch!Spec
=============================================================================
