----------------------------- MODULE CFFQ_proofs -----------------------------
(***************************************************************************)
(* The safety of CFFQ for every number of consumers, cells, retries and    *)
(* waits, and every K that divides N.  A call decides its K tickets from   *)
(* reads that are no snapshot; what makes it right is that a match stays   *)
(* true until the call itself empties the cell.                            *)
(***************************************************************************)
EXTENDS CFFQ, FiniteSetTheorems, TLAPS

\* The enqueue call in progress sends the item that belongs at tail.
SentInv == /\ ppc = "idle" => sent = tail
           /\ ppc # "idle" => sent = tail + 1

\* An occupied cell is one of the last N tickets' and holds its item whole.
CellsInv == /\ \A s \in Slots : Busy(s) =>
                 /\ Slot(ranks[s]) = s
                 /\ ranks[s] < tail
                 /\ tail =< ranks[s] + N
                 /\ datas[s] = ranks[s]
            /\ \A s \in Slots : gaps[s] =< tail

\* The producer writes into a cell that is empty, and publishes what it wrote.
ProducerInv == /\ ppc \in {"put", "publish"} => ranks[Slot(tail)] = EMPTY_CELL
               /\ ppc = "publish" => datas[Slot(tail)] = tail

\* A call has retries left while it runs.
RetryInv == \A c \in Consumers : cpc[c] # "idle" => retry[c] =< MaxRetries

\* The ranges of the calls in progress were drawn from head and do not overlap.
RangesInv ==
  /\ \A c \in Consumers : cpc[c] # "idle" => base[c] + K =< head
  /\ \A c, d \in Consumers : c # d /\ cpc[c] # "idle" /\ cpc[d] # "idle" =>
       base[c] + K =< base[d] \/ base[d] + K =< base[c]

\* How the masks and the offsets still to read are related.
MasksOf(c) ==
  /\ cpc[c] \in {"ranks", "gaps"} => todo[c] \subseteq pending[c]
  /\ cpc[c] = "gaps" => ready[c] \subseteq pending[c] \ todo[c]
  /\ cpc[c] = "recheck" => todo[c] \subseteq ready[c] /\ ready[c] \subseteq pending[c]
  /\ cpc[c] \in {"gaps", "recheck"} => \A i \in ready[c] : base[c] + i =< tail
  /\ cpc[c] = "redraw" => skipped[c] = Offsets
  /\ cpc[c] = "clear" => todo[c] \subseteq Offsets \ skipped[c]
  /\ cpc[c] # "idle" => skipped[c] = {i \in Offsets : base[c] + i \in passed}

MasksInv == \A c \in Consumers : MasksOf(c)

\* The offsets whose items consumer c found in their cells and has not taken
\* from there yet.
Found(c) ==
  CASE cpc[c] \in {"ranks", "gaps"} -> Offsets \ (pending[c] \cup skipped[c])
    [] cpc[c] = "recheck" ->
         Offsets \ ((pending[c] \ (ready[c] \ todo[c])) \cup skipped[c])
    [] cpc[c] = "get" -> Offsets \ skipped[c]
    [] cpc[c] = "clear" -> todo[c]
    [] OTHER -> {}

\* What was found is still there, ...
FoundInv == \A c \in Consumers : \A i \in Found(c) : Matches(c, i)

\* ... and what was taken is not.
HandInv == \A c \in Consumers : \A t \in InHand(c) :
             t < tail /\ \A s \in Slots : ranks[s] # t

\* The list of the items that a call copied out.
Copied(c) == /\ \A m, n \in DOMAIN out[c] : m < n => out[c][m] < out[c][n]
             /\ {out[c][n] : n \in DOMAIN out[c]} = {base[c] + i : i \in Offsets \ skipped[c]}
             /\ Len(out[c]) =< K

OutInv == \A c \in Consumers : cpc[c] = "clear" => Copied(c)

\* An item that was returned is in no cell, nobody's ticket, and older than
\* what its consumer now works on.
GotInv == \A c \in Consumers : \A n \in DOMAIN got[c] :
            /\ got[c][n] < head
            /\ got[c][n] < tail
            /\ \A s \in Slots : ranks[s] # got[c][n]
            /\ \A d \in Consumers : ~Holds(d, got[c][n])
            /\ cpc[c] # "idle" => got[c][n] < base[c]

\* Every item published is in its cell, in somebody's hands or was returned.
StoredInv == \A t \in 0 .. tail - 1 :
               \/ ranks[Slot(t)] = t
               \/ \E c \in Consumers : t \in InHand(c)
               \/ t \in Returned

\* Every ticket drawn is held, was given up, or brought an item.
DrawnInv == \A t \in 0 .. head - 1 :
              \/ \E c \in Consumers : Holds(c, t)
              \/ t \in timedOut \cup passed
              \/ t \in Returned

\* A ticket that was skipped had been drawn.
PassedInv == \A t \in passed : t < head

IInv == /\ CellsInv /\ ProducerInv /\ RangesInv /\ MasksInv /\ FoundInv /\ HandInv
        /\ OutInv /\ GotInv /\ StoredInv /\ DrawnInv /\ PassedInv /\ SkippedAreLost
-----------------------------------------------------------------------------
\* Division with remainder.
LEMMA ModDiv ==
  ASSUME NEW n \in Nat \ {0}, NEW i \in Int
  PROVE  /\ (i % n) \in 0 .. n - 1
         /\ (i \div n) \in Int
         /\ i = n * (i \div n) + (i % n)
  BY Z3

\* The remainder is the only one.
LEMMA ModUnique ==
  ASSUME NEW n \in Nat \ {0}, NEW q \in Int, NEW r \in 0 .. n - 1
  PROVE  (n * q + r) % n = r
  BY Z3

\* Positions less than a ring's length apart have different slots.
LEMMA ModInjective ==
  ASSUME NEW n \in Nat \ {0}, NEW i \in Int, NEW j \in Int, i < j, j < i + n
  PROVE  i % n # j % n
<1>1. PICK p \in Int, q \in Int : i = n * p + (i % n) /\ j = n * q + (j % n)
  BY ModDiv
<1>2. i % n = j % n => j - i = n * (q - p)
  BY <1>1, ModDiv, Z3
<1>3. \A d \in Int : n * d < n => n * d =< 0
  <2>1. \A d \in Int : d >= 1 => n * d >= n
    BY Z3
  <2> QED
    BY <2>1, Z3
<1> QED
  BY <1>2, <1>3

\* A lap further on is the same slot.
LEMMA ModLap ==
  ASSUME NEW n \in Nat \ {0}, NEW i \in Int
  PROVE  (i + n) % n = i % n
<1>1. PICK q \in Int, r \in 0 .. n - 1 : i = n * q + r /\ i % n = r
  BY ModDiv
<1>2. n * (q + 1) = n * q + n
  BY Z3
<1>3. i + n = n * (q + 1) + r
  <2> DEFINE a == n * q
  <2>1. a \in Int /\ i = a + r /\ n * (q + 1) = a + n
    BY <1>1, <1>2
  <2> HIDE DEF a
  <2> QED
    BY <2>1
<1>4. (n * (q + 1) + r) % n = r
  BY ModUnique
<1> QED
  BY <1>1, <1>3, <1>4

\* Every ticket has a cell.
LEMMA SlotType == ASSUME NEW t \in Int PROVE Slot(t) \in Slots
  BY ModDiv, SizeAssumption DEF Slot, Slots

\* TypeOK in two parts, the second one the consumers' own.
SharedType == /\ ranks \in [Slots -> Nat \cup {EMPTY_CELL}]
              /\ gaps \in [Slots -> Nat] /\ datas \in [Slots -> Nat]
              /\ head \in Nat /\ tail \in Nat /\ sent \in Nat
              /\ ppc \in {"idle", "read", "mark", "put", "publish"}

Steps == {"idle", "ranks", "gaps", "recheck", "get", "clear", "redraw"}

ConsumersType == /\ cpc \in [Consumers -> Steps]
                 /\ base \in [Consumers -> Nat]
                 /\ retry \in [Consumers -> 0 .. MaxRetries + 1]
                 /\ wait \in [Consumers -> 0 .. MaxWait]
                 /\ pending \in [Consumers -> SUBSET Offsets]
                 /\ ready \in [Consumers -> SUBSET Offsets]
                 /\ skipped \in [Consumers -> SUBSET Offsets]
                 /\ todo \in [Consumers -> SUBSET Offsets]
                 /\ out \in [Consumers -> Seq(Nat)]
                 /\ got \in [Consumers -> Seq(Nat)]
                 /\ passed \subseteq Nat /\ timedOut \subseteq Nat

\* The two parts are all of it.
LEMMA TypeParts == TypeOK <=> SharedType /\ ConsumersType
  BY DEF TypeOK, SharedType, ConsumersType, Steps

\* What the helpers of the dequeue steps do to the types.
LEMMA GoType ==
  ASSUME ConsumersType, NEW c \in Consumers, NEW step \in Steps, NEW s \in SUBSET Offsets,
         Go(c, step, s)
  PROVE  cpc' \in [Consumers -> Steps] /\ todo' \in [Consumers -> SUBSET Offsets]
<1>1. cpc' \in [Consumers -> Steps]
  BY DEF ConsumersType, Go
<1>2. todo' \in [Consumers -> SUBSET Offsets]
  BY DEF ConsumersType, Go
<1> QED
  BY <1>1, <1>2

\* What a wait, or the time-out that replaces it, does to the types.
LEMMA WaitType ==
  ASSUME ConsumersType, NEW c \in Consumers, NEW w \in 0 .. MaxWait,
         NEW left \in SUBSET Offsets, WaitOrTimeOut(c, w, left)
  PROVE  /\ cpc' \in [Consumers -> Steps] /\ todo' \in [Consumers -> SUBSET Offsets]
         /\ wait' \in [Consumers -> 0 .. MaxWait]
         /\ timedOut' \subseteq Nat
<1>1. cpc' \in [Consumers -> Steps] /\ todo' \in [Consumers -> SUBSET Offsets]
  <2>1. Go(c, "idle", {}) \/ Go(c, "ranks", left)
    BY DEF WaitOrTimeOut
  <2>2. "idle" \in Steps /\ "ranks" \in Steps /\ {} \in SUBSET Offsets
    BY DEF Steps
  <2>3. CASE Go(c, "idle", {})
    BY <2>2, <2>3, GoType
  <2>4. CASE Go(c, "ranks", left)
    BY <2>2, <2>4, GoType
  <2> QED
    BY <2>1, <2>3, <2>4
<1>2. wait' \in [Consumers -> 0 .. MaxWait]
  <2>1. \/ wait' = wait
        \/ w < MaxWait /\ wait' = [wait EXCEPT ![c] = w + 1]
    BY LimitsAssumption DEF WaitOrTimeOut
  <2>2. w < MaxWait => w + 1 \in 0 .. MaxWait
    BY LimitsAssumption
  <2> QED
    BY <2>1, <2>2 DEF ConsumersType
<1>3. timedOut' \subseteq Nat
  <2>1. Tickets(c) \subseteq Nat
    BY SizeAssumption DEF ConsumersType, Offsets, Tickets
  <2>2. timedOut' = timedOut \/ timedOut' = timedOut \cup Tickets(c)
    BY DEF WaitOrTimeOut
  <2> QED
    BY <2>1, <2>2, Zenon DEF ConsumersType
<1> QED
  BY <1>1, <1>2, <1>3

\* What the draw of a new range does to the types.
LEMMA StartType ==
  ASSUME SharedType, ConsumersType, NEW c \in Consumers, NEW r \in 0 .. MaxRetries + 1,
         StartRange(c, r)
  PROVE  /\ head' \in Nat
         /\ base' \in [Consumers -> Nat]
         /\ retry' \in [Consumers -> 0 .. MaxRetries + 1]
         /\ wait' \in [Consumers -> 0 .. MaxWait]
         /\ pending' \in [Consumers -> SUBSET Offsets]
         /\ ready' \in [Consumers -> SUBSET Offsets]
         /\ skipped' \in [Consumers -> SUBSET Offsets]
         /\ todo' \in [Consumers -> SUBSET Offsets]
<1> USE SizeAssumption, LimitsAssumption DEF StartRange, Draw, SharedType, ConsumersType
<1>1. head' \in Nat
  OBVIOUS
<1>2. base' \in [Consumers -> Nat] /\ retry' \in [Consumers -> 0 .. MaxRetries + 1]
  OBVIOUS
<1>3. wait' \in [Consumers -> 0 .. MaxWait]
  OBVIOUS
<1>4. pending' \in [Consumers -> SUBSET Offsets] /\ ready' \in [Consumers -> SUBSET Offsets]
  OBVIOUS
<1>5. skipped' \in [Consumers -> SUBSET Offsets] /\ todo' \in [Consumers -> SUBSET Offsets]
  OBVIOUS
<1> QED
  BY <1>1, <1>2, <1>3, <1>4, <1>5

\* A list of offsets read from datas is a sequence of items.
LEMMA TakenType ==
  ASSUME SharedType, ConsumersType, NEW c \in Consumers, NEW kept \in SUBSET Offsets,
         NEW taken \in SeqOf(kept, K)
  PROVE  /\ \E k \in 0 .. K : DOMAIN taken = 1 .. k /\ taken \in [1 .. k -> kept]
         /\ [n \in DOMAIN taken |-> datas[Slot(base[c] + taken[n])]] \in Seq(Nat)
<1>1. PICK k \in 0 .. K : taken \in [1 .. k -> kept]
  BY DEF SeqOf
<1>2. ASSUME NEW n \in 1 .. k PROVE datas[Slot(base[c] + taken[n])] \in Nat
  <2>1. taken[n] \in Int /\ base[c] \in Nat
    <3>1. taken[n] \in Offsets
      BY <1>1
    <3> QED
      BY <3>1, SizeAssumption DEF ConsumersType, Offsets
  <2>2. Slot(base[c] + taken[n]) \in Slots
    BY <2>1, SlotType
  <2> QED
    BY <2>2 DEF SharedType
<1>3. k \in Nat
  BY SizeAssumption
<1>4. [n \in 1 .. k |-> datas[Slot(base[c] + taken[n])]] \in Seq(Nat)
  BY <1>2, <1>3
<1> QED
  BY <1>1, <1>4
\* The types the variables keep, with what they rest on.
TypeInv == TypeOK /\ SentInv /\ RetryInv

\* The producer's steps keep the types.
LEMMA ProducerType ==
  ASSUME TypeInv, Producer
  PROVE  SharedType' /\ ConsumersType'
<1> USE DEF SharedType, windows, producer
<1>0. SharedType /\ ConsumersType /\ SentInv
  BY TypeParts DEF TypeInv
<1>1. ConsumersType'
  <2>1. UNCHANGED consumer
    BY DEF Producer, Enqueue, EnqReadRank, EnqMarkGap, EnqPutData, EnqPublish
  <2> QED
    BY <1>0, <2>1 DEF ConsumersType, consumer, masks, history
<1>2. CASE Enqueue
  BY <1>0, <1>1, <1>2 DEF Enqueue
<1>3. CASE EnqReadRank
  BY <1>0, <1>1, <1>3 DEF EnqReadRank
<1>4. CASE EnqMarkGap
  <2>1. gaps' \in [Slots -> Nat]
    BY <1>0, <1>4, SlotType DEF EnqMarkGap
  <2> QED
    BY <1>0, <1>1, <1>4, <2>1 DEF EnqMarkGap, PastBusy
<1>5. CASE EnqPutData
  <2>1. sent - 1 = tail
    BY <1>0, <1>5 DEF EnqPutData, SentInv
  <2>2. datas' \in [Slots -> Nat]
    BY <1>0, <1>5, <2>1, SlotType DEF EnqPutData
  <2> QED
    BY <1>0, <1>1, <1>5, <2>2 DEF EnqPutData
<1>6. CASE EnqPublish
  <2>1. ranks' \in [Slots -> Nat \cup {EMPTY_CELL}]
    BY <1>0, <1>6, SlotType DEF EnqPublish
  <2> QED
    BY <1>0, <1>1, <1>6, <2>1 DEF EnqPublish
<1> QED
  BY <1>1, <1>2, <1>3, <1>4, <1>5, <1>6 DEF Producer

\* So do the dequeue steps.
LEMMA ConsumerType ==
  ASSUME TypeInv, NEW c \in Consumers, Consumer(c)
  PROVE  SharedType' /\ ConsumersType'
<1>0. /\ SharedType /\ ConsumersType /\ RetryInv
      /\ wait[c] \in 0 .. MaxWait /\ retry[c] \in 0 .. MaxRetries + 1
      /\ MaxRetries \in Nat \ {0} /\ MaxWait \in Nat /\ 0 \in 0 .. MaxWait
  BY TypeParts, LimitsAssumption DEF TypeInv, ConsumersType
<1>1. /\ pending[c] \in SUBSET Offsets /\ ready[c] \in SUBSET Offsets
      /\ skipped[c] \in SUBSET Offsets /\ todo[c] \in SUBSET Offsets
      /\ {} \in SUBSET Offsets
  BY <1>0 DEF ConsumersType
<1>2. "ranks" \in Steps /\ "gaps" \in Steps /\ "recheck" \in Steps /\ "get" \in Steps
      /\ "clear" \in Steps /\ "redraw" \in Steps /\ "idle" \in Steps
  BY DEF Steps
<1>3. ASSUME NEW skip, Decided(c, skip)
      PROVE  cpc' \in [Consumers -> Steps] /\ todo' \in [Consumers -> SUBSET Offsets]
  <2>1. Go(c, "redraw", {}) \/ Go(c, "get", {})
    BY <1>3 DEF Decided
  <2>2. CASE Go(c, "redraw", {})
    BY <1>0, <1>1, <1>2, <2>2, GoType
  <2>3. CASE Go(c, "get", {})
    BY <1>0, <1>1, <1>2, <2>3, GoType
  <2> QED
    BY <2>1, <2>2, <2>3
<1>4. \A i \in Offsets : base[c] + i \in Nat
  BY <1>0, SizeAssumption DEF ConsumersType, Offsets
<1>5. CASE DeqDraw(c)
  <2>1. /\ 1 \in 0 .. MaxRetries + 1 /\ StartRange(c, 1)
        /\ cpc' = [cpc EXCEPT ![c] = "ranks"]
        /\ UNCHANGED <<windows, producer, out, history>>
    BY <1>0, <1>5 DEF DeqDraw
  <2>2. cpc' \in [Consumers -> Steps]
    BY <1>0, <1>2, <2>1 DEF ConsumersType
  <2> QED
    BY <1>0, <2>1, <2>2, StartType DEF SharedType, ConsumersType, windows, producer, history
<1>6. CASE DeqRedraw(c)
  <2>1. /\ StartRange(c, retry[c] + 1) /\ cpc[c] # "idle"
        /\ \/ cpc' = [cpc EXCEPT ![c] = "ranks"] \/ cpc' = [cpc EXCEPT ![c] = "idle"]
        /\ timedOut' = timedOut \/ timedOut' = timedOut \cup {head + i : i \in Offsets}
        /\ UNCHANGED <<windows, producer, out, got, passed>>
    BY <1>6 DEF DeqRedraw
  <2>2. retry[c] + 1 \in 0 .. MaxRetries + 1
    BY <1>0, <2>1 DEF RetryInv
  <2>3. cpc' \in [Consumers -> Steps]
    BY <1>0, <1>2, <2>1 DEF ConsumersType
  <2>4. {head + i : i \in Offsets} \subseteq Nat
    BY <1>0, SizeAssumption DEF SharedType, Offsets
  <2>5. timedOut' \subseteq Nat
    BY <1>0, <2>1, <2>4, Zenon DEF ConsumersType
  <2> QED
    BY <1>0, <2>1, <2>2, <2>3, <2>5, StartType DEF SharedType, ConsumersType, windows, producer
<1>7. CASE DeqGetData(c)
  <2>1. PICK taken \in SeqOf(Offsets \ skipped[c], K) :
          out' = [out EXCEPT ![c] =
                    [n \in DOMAIN taken |-> datas[Slot(base[c] + taken[n])]]]
    BY <1>7 DEF DeqGetData
  <2>2. Offsets \ skipped[c] \in SUBSET Offsets
    OBVIOUS
  <2>3. out' \in [Consumers -> Seq(Nat)]
    <3>1. [n \in DOMAIN taken |-> datas[Slot(base[c] + taken[n])]] \in Seq(Nat)
      BY <1>0, <2>2, TakenType
    <3> QED
      BY <1>0, <2>1, <3>1 DEF ConsumersType
  <2>4. cpc' \in [Consumers -> Steps] /\ todo' \in [Consumers -> SUBSET Offsets]
    BY <1>0, <1>2, <1>7, <2>2, GoType DEF DeqGetData
  <2> QED
    BY <1>0, <1>7, <2>3, <2>4 DEF DeqGetData, SharedType, ConsumersType, windows, producer, history
<1>8. ASSUME NEW i \in Offsets, DeqReadRank(c, i) PROVE SharedType' /\ ConsumersType'
  <2> DEFINE left == IF Matches(c, i) THEN pending[c] \ {i} ELSE pending[c]
  <2>1. left \in SUBSET Offsets /\ todo[c] \ {i} \in SUBSET Offsets
    BY <1>1
  <2>2. /\ pending' = [pending EXCEPT ![c] = left]
        /\ wait' = [wait EXCEPT ![c] = IF Matches(c, i) THEN 0 ELSE @]
        /\ Go(c, "ranks", todo[c] \ {i}) \/ Go(c, "gaps", left) \/ Decided(c, skipped[c])
        /\ ready' = [ready EXCEPT ![c] = {}]
        /\ UNCHANGED <<windows, head, producer, base, retry, skipped, out, history>>
    BY <1>8 DEF DeqReadRank
  <2>3. pending' \in [Consumers -> SUBSET Offsets] /\ ready' \in [Consumers -> SUBSET Offsets]
    BY <1>0, <1>1, <2>1, <2>2 DEF ConsumersType
  <2>4. wait' \in [Consumers -> 0 .. MaxWait]
    BY <1>0, <2>2 DEF ConsumersType
  <2> HIDE DEF left
  <2>5. cpc' \in [Consumers -> Steps] /\ todo' \in [Consumers -> SUBSET Offsets]
    <3>1. CASE Go(c, "ranks", todo[c] \ {i})
      BY <1>0, <1>2, <2>1, <3>1, GoType
    <3>2. CASE Go(c, "gaps", left)
      BY <1>0, <1>2, <2>1, <3>2, GoType
    <3> QED
      BY <1>3, <2>2, <3>1, <3>2
  <2> QED
    BY <1>0, <2>2, <2>3, <2>4, <2>5 DEF SharedType, ConsumersType, windows, producer, history
<1>9. ASSUME NEW i \in Offsets, DeqReadGap(c, i) PROVE SharedType' /\ ConsumersType'
  <2> DEFINE marked == IF gaps[Slot(base[c] + i)] >= base[c] + i
                       THEN ready[c] \cup {i} ELSE ready[c]
  <2>1. marked \in SUBSET Offsets /\ todo[c] \ {i} \in SUBSET Offsets
    BY <1>1
  <2>2. /\ ready' = [ready EXCEPT ![c] = marked]
        /\ \/ WaitOrTimeOut(c, wait[c], pending[c])
           \/ /\ Go(c, "gaps", todo[c] \ {i}) \/ Go(c, "recheck", marked)
              /\ UNCHANGED <<wait, timedOut>>
        /\ UNCHANGED <<windows, head, producer, base, retry, pending, skipped, out, got, passed>>
    BY <1>9 DEF DeqReadGap
  <2>3. ready' \in [Consumers -> SUBSET Offsets]
    BY <1>0, <2>1, <2>2 DEF ConsumersType
  <2> HIDE DEF marked
  <2>4. /\ cpc' \in [Consumers -> Steps] /\ todo' \in [Consumers -> SUBSET Offsets]
        /\ wait' \in [Consumers -> 0 .. MaxWait] /\ timedOut' \subseteq Nat
    <3>1. CASE WaitOrTimeOut(c, wait[c], pending[c])
      BY <1>0, <1>1, <3>1, WaitType
    <3>2. CASE Go(c, "gaps", todo[c] \ {i}) /\ UNCHANGED <<wait, timedOut>>
      <4>1. cpc' \in [Consumers -> Steps] /\ todo' \in [Consumers -> SUBSET Offsets]
        BY <1>0, <1>2, <2>1, <3>2, GoType
      <4> QED
        BY <1>0, <3>2, <4>1 DEF ConsumersType
    <3>3. CASE Go(c, "recheck", marked) /\ UNCHANGED <<wait, timedOut>>
      <4>1. cpc' \in [Consumers -> Steps] /\ todo' \in [Consumers -> SUBSET Offsets]
        BY <1>0, <1>2, <2>1, <3>3, GoType
      <4> QED
        BY <1>0, <3>3, <4>1 DEF ConsumersType
    <3> QED
      BY <2>2, <3>1, <3>2, <3>3
  <2> QED
    BY <1>0, <2>2, <2>3, <2>4 DEF SharedType, ConsumersType, windows, producer
<1>10. ASSUME NEW i \in Offsets, DeqRecheck(c, i) PROVE SharedType' /\ ConsumersType'
  <2> DEFINE skip == IF Gone(c, i) THEN skipped[c] \cup {i} ELSE skipped[c]
             left == pending[c] \ ready[c]
             w == IF Gone(c, i) THEN 0 ELSE wait[c]
  <2>1. /\ skip \in SUBSET Offsets /\ left \in SUBSET Offsets /\ w \in 0 .. MaxWait
        /\ todo[c] \ {i} \in SUBSET Offsets
    BY <1>0, <1>1
  <2>2. /\ skipped' = [skipped EXCEPT ![c] = skip]
        /\ passed' = passed \/ passed' = passed \cup {base[c] + i}
        /\ \/ /\ Go(c, "recheck", todo[c] \ {i})
              /\ wait' = [wait EXCEPT ![c] = w]
              /\ UNCHANGED <<pending, timedOut>>
           \/ /\ pending' = [pending EXCEPT ![c] = left]
              /\ \/ WaitOrTimeOut(c, w, left)
                 \/ Decided(c, skip) /\ UNCHANGED <<wait, timedOut>>
        /\ UNCHANGED <<windows, head, producer, base, retry, ready, out, got>>
    BY <1>10 DEF DeqRecheck
  <2> HIDE DEF skip, left, w
  <2>3. skipped' \in [Consumers -> SUBSET Offsets]
    BY <1>0, <2>1, <2>2 DEF ConsumersType
  <2>4. passed' \subseteq Nat
    <3>1. base[c] + i \in Nat
      BY <1>4
    <3> QED
      BY <1>0, <2>2, <3>1, Zenon DEF ConsumersType
  <2>5. pending' \in [Consumers -> SUBSET Offsets]
    BY <1>0, <2>1, <2>2 DEF ConsumersType
  <2>6. /\ cpc' \in [Consumers -> Steps] /\ todo' \in [Consumers -> SUBSET Offsets]
        /\ wait' \in [Consumers -> 0 .. MaxWait] /\ timedOut' \subseteq Nat
    <3>1. CASE WaitOrTimeOut(c, w, left)
      BY <1>0, <2>1, <3>1, WaitType
    <3>2. CASE Decided(c, skip) /\ UNCHANGED <<wait, timedOut>>
      BY <1>0, <1>3, <3>2 DEF ConsumersType
    <3>3. CASE /\ Go(c, "recheck", todo[c] \ {i})
               /\ wait' = [wait EXCEPT ![c] = w]
               /\ UNCHANGED timedOut
      <4>1. cpc' \in [Consumers -> Steps] /\ todo' \in [Consumers -> SUBSET Offsets]
        BY <1>0, <1>2, <2>1, <3>3, GoType
      <4> QED
        BY <1>0, <2>1, <3>3, <4>1 DEF ConsumersType
    <3> QED
      BY <2>2, <3>1, <3>2, <3>3
  <2> QED
    BY <1>0, <2>2, <2>3, <2>4, <2>5, <2>6 DEF SharedType, ConsumersType, windows, producer
<1>11. ASSUME NEW i \in Offsets, DeqClearRank(c, i) PROVE SharedType' /\ ConsumersType'
  <2>1. /\ ranks' = [ranks EXCEPT ![Slot(base[c] + i)] = EMPTY_CELL]
        /\ \/ Go(c, "clear", todo[c] \ {i}) /\ UNCHANGED got
           \/ Go(c, "idle", {}) /\ got' = [got EXCEPT ![c] = @ \o out[c]]
        /\ UNCHANGED <<gaps, datas, head, producer, base, retry, wait, pending, ready,
                       skipped, out, passed, timedOut>>
    BY <1>11 DEF DeqClearRank
  <2>2. ranks' \in [Slots -> Nat \cup {EMPTY_CELL}]
    BY <1>0, <2>1 DEF SharedType
  <2>3. todo[c] \ {i} \in SUBSET Offsets
    BY <1>1
  <2>4. cpc' \in [Consumers -> Steps] /\ todo' \in [Consumers -> SUBSET Offsets]
    <3>1. CASE Go(c, "clear", todo[c] \ {i})
      BY <1>0, <1>2, <2>3, <3>1, GoType
    <3>2. CASE Go(c, "idle", {})
      BY <1>0, <1>1, <1>2, <3>2, GoType
    <3> QED
      BY <2>1, <3>1, <3>2
  <2>5. got' \in [Consumers -> Seq(Nat)]
    <3>1. got[c] \o out[c] \in Seq(Nat)
      BY <1>0 DEF ConsumersType
    <3> QED
      BY <1>0, <2>1, <3>1 DEF ConsumersType
  <2> QED
    BY <1>0, <2>1, <2>2, <2>4, <2>5 DEF SharedType, ConsumersType, producer
<1> QED
  BY <1>5, <1>6, <1>7, <1>8, <1>9, <1>10, <1>11 DEF Consumer

\* The variables keep their types: the value put is never negative because
\* the call in progress has counted itself, and no call retries too often.
THEOREM TypeCorrect == Spec => []TypeInv
<1>1. Init => TypeInv
  BY LimitsAssumption DEF Init, TypeInv, TypeOK, SentInv, RetryInv, EMPTY_CELL
<1>2. TypeInv /\ [Next]_vars => TypeInv'
  <2> SUFFICES ASSUME TypeInv, [Next]_vars PROVE TypeInv'
    OBVIOUS
  <2>1. TypeOK'
    <3>1. CASE UNCHANGED vars
      BY <3>1 DEF TypeInv, TypeOK, vars, windows, producer, consumer, masks, history
    <3>2. CASE Next
      <4>1. SharedType' /\ ConsumersType'
        BY <3>2, ProducerType, ConsumerType DEF Next
      <4> QED
        BY <4>1 DEF TypeOK, SharedType, ConsumersType, Steps
    <3> QED
      BY <3>1, <3>2
  <2>2. SentInv'
    <3>0. SentInv /\ tail \in Nat /\ sent \in Nat
      BY DEF TypeInv, TypeOK
    <3>1. CASE Producer
      BY <3>0, <3>1 DEF SentInv, Producer, Enqueue, EnqReadRank, EnqMarkGap, PastBusy,
                        EnqPutData, EnqPublish
    <3>2. ASSUME NEW c \in Consumers, Consumer(c) PROVE SentInv'
      <4>1. UNCHANGED producer
        BY <3>2 DEF Consumer, DeqDraw, DeqReadRank, DeqGetData, DeqClearRank, DeqReadGap,
                    DeqRecheck, DeqRedraw
      <4> QED
        BY <3>0, <4>1 DEF SentInv, producer
    <3>3. CASE UNCHANGED vars
      BY <3>0, <3>3 DEF SentInv, producer, vars
    <3> QED
      BY <3>1, <3>2, <3>3 DEF Next
  <2>3. RetryInv'
    <3>0. /\ cpc \in [Consumers -> Steps] /\ retry \in [Consumers -> 0 .. MaxRetries + 1]
          /\ MaxRetries \in Nat \ {0} /\ RetryInv
      BY LimitsAssumption DEF TypeInv, TypeOK, Steps
    <3>1. CASE Producer \/ UNCHANGED vars
      <4>1. cpc' = cpc /\ retry' = retry
        BY <3>1 DEF Producer, Enqueue, EnqReadRank, EnqMarkGap, EnqPutData, EnqPublish,
                    vars, consumer
      <4> QED
        BY <3>0, <4>1 DEF RetryInv
    <3>2. ASSUME NEW c \in Consumers, DeqDraw(c) PROVE RetryInv'
      BY <3>0, <3>2 DEF RetryInv, DeqDraw, StartRange
    <3>3. ASSUME NEW c \in Consumers, DeqRedraw(c) PROVE RetryInv'
      <4>1. /\ retry' = [retry EXCEPT ![c] = retry[c] + 1]
            /\ retry[c] < MaxRetries \/ cpc' = [cpc EXCEPT ![c] = "idle"]
            /\ \A d \in Consumers \ {c} : cpc'[d] = cpc[d]
        BY <3>0, <3>3 DEF DeqRedraw, StartRange
      <4>2. ASSUME NEW d \in Consumers, cpc'[d] # "idle" PROVE retry'[d] =< MaxRetries
        BY <3>0, <4>1, <4>2 DEF RetryInv
      <4> QED
        BY <4>2 DEF RetryInv
    <3>4. ASSUME NEW c \in Consumers, Consumer(c), ~DeqDraw(c), ~DeqRedraw(c) PROVE RetryInv'
      <4>1. retry' = retry /\ cpc[c] # "idle"
        BY <3>4 DEF Consumer, DeqReadRank, DeqReadGap, DeqRecheck, DeqGetData, DeqClearRank
      <4>2. \A d \in Consumers \ {c} : cpc'[d] = cpc[d]
        BY <3>0, <3>4 DEF Consumer, DeqReadRank, DeqReadGap, DeqRecheck, DeqGetData, DeqClearRank,
                          Go, Decided, WaitOrTimeOut
      <4> QED
        BY <3>0, <4>1, <4>2 DEF RetryInv
    <3> QED
      BY <3>1, <3>2, <3>3, <3>4 DEF Next
  <2> QED
    BY <2>1, <2>2, <2>3 DEF TypeInv
<1> QED
  BY <1>1, <1>2, PTL DEF Spec

\* Every variable of the code and of the history keeps its type.
THEOREM TypeOKHolds == Spec => []TypeOK
<1>1. TypeInv => TypeOK
  BY DEF TypeInv
<1> QED
  BY <1>1, TypeCorrect, PTL
-----------------------------------------------------------------------------
\* A range of tickets fits into the ring, ...
LEMMA KFits == K =< N
<1> SUFFICES ASSUME N < K PROVE FALSE
  BY SizeAssumption
<1>1. N \in 0 .. K - 1
  BY SizeAssumption
<1>2. (K * 0 + N) % K = N
  BY <1>1, SizeAssumption, ModUnique
<1> QED
  BY <1>2, SizeAssumption

\* ... so its tickets have different cells.
LEMMA OffsetSlots ==
  ASSUME NEW b \in Nat, NEW i \in Offsets, NEW j \in Offsets, i # j
  PROVE  Slot(b + i) # Slot(b + j)
<1>0. i \in 0 .. K - 1 /\ j \in 0 .. K - 1 /\ K \in Nat /\ N \in Nat \ {0} /\ K =< N
  BY SizeAssumption, KFits DEF Offsets
<1>1. CASE i < j
  <2>1. b + i \in Int /\ b + j \in Int /\ b + i < b + j /\ b + j < (b + i) + N
    BY <1>0, <1>1
  <2> QED
    BY <1>0, <2>1, ModInjective DEF Slot
<1>2. CASE j < i
  <2>1. b + i \in Int /\ b + j \in Int /\ b + j < b + i /\ b + i < (b + j) + N
    BY <1>0, <1>2
  <2> QED
    BY <1>0, <2>1, ModInjective DEF Slot
<1> QED
  BY <1>0, <1>1, <1>2

\* The cell of a ticket of consumer c.
LEMMA TicketType ==
  ASSUME TypeInv, NEW c \in Consumers, NEW i \in Offsets
  PROVE  /\ i \in Nat /\ base[c] \in Nat /\ base[c] + i \in Nat /\ i < K
         /\ Slot(base[c] + i) \in Slots
<1>1. i \in Nat /\ i < K /\ base[c] \in Nat
  BY SizeAssumption DEF Offsets, TypeInv, TypeOK
<1> QED
  BY <1>1, SlotType

\* No two calls hold the same ticket.
LEMMA Apart ==
  ASSUME TypeInv, RangesInv, NEW c \in Consumers, NEW d \in Consumers, c # d,
         cpc[c] # "idle", cpc[d] # "idle", NEW i \in Offsets, NEW j \in Offsets
  PROVE  base[c] + i # base[d] + j
<1>1. /\ i \in Nat /\ j \in Nat /\ i < K /\ j < K /\ base[c] \in Nat /\ base[d] \in Nat
      /\ K \in Nat
  BY TicketType, SizeAssumption
<1>2. base[c] + K =< base[d] \/ base[d] + K =< base[c]
  BY DEF RangesInv
<1> QED
  BY <1>1, <1>2

\* Only a call that empties cells has taken something.
LEMMA HandHolds ==
  ASSUME NEW c \in Consumers, NEW t \in InHand(c)
  PROVE  cpc[c] = "clear" /\ Holds(c, t) /\ \E i \in Offsets : t = base[c] + i
  BY DEF InHand, Holds, Tickets
-----------------------------------------------------------------------------
\* What the consumers know survives every step of the producer: it touches no
\* occupied cell, and tail only grows.
LEMMA ConsumersUndisturbed ==
  ASSUME TypeInv, IInv, UNCHANGED <<head, consumer>>, tail' \in {tail, tail + 1},
         \A s \in Slots : Busy(s) => ranks'[s] = ranks[s],
         \A s \in Slots : ranks'[s] = ranks[s] \/ ranks'[s] = tail
  PROVE  RangesInv' /\ MasksInv' /\ FoundInv' /\ HandInv' /\ OutInv' /\ GotInv'
         /\ DrawnInv' /\ PassedInv'
<1>0. /\ ranks \in [Slots -> Nat \cup {-1}] /\ tail \in Nat /\ tail' \in Nat /\ tail =< tail'
      /\ got \in [Consumers -> Seq(Nat)]
      /\ UNCHANGED <<head, cpc, base, retry, wait, pending, ready, skipped, todo, out, got,
                    passed, timedOut>>
  BY DEF TypeInv, TypeOK, EMPTY_CELL, consumer, masks, history
<1>1. RangesInv' /\ OutInv' /\ PassedInv'
  <2>1. RangesInv'
    BY <1>0 DEF IInv, RangesInv
  <2>2. OutInv'
    <3> SUFFICES ASSUME NEW c \in Consumers, cpc[c] = "clear" PROVE Copied(c)'
      BY <1>0 DEF OutInv
    <3>1. Copied(c)
      BY DEF IInv, OutInv
    <3> QED
      BY <1>0, <3>1, ZenonT(30) DEF Copied
  <2>3. PassedInv'
    BY <1>0 DEF IInv, PassedInv
  <2> QED
    BY <2>1, <2>2, <2>3
<1>2. \A c \in Consumers : /\ Found(c)' = Found(c) /\ InHand(c)' = InHand(c)
                           /\ \A t : Holds(c, t)' <=> Holds(c, t)
  <2> SUFFICES ASSUME NEW c \in Consumers
               PROVE  /\ Found(c)' = Found(c) /\ InHand(c)' = InHand(c)
                      /\ \A t : Holds(c, t)' <=> Holds(c, t)
    OBVIOUS
  <2>1. Found(c)' = Found(c)
    BY <1>0, Zenon DEF Found
  <2>2. InHand(c)' = InHand(c)
    BY <1>0 DEF InHand
  <2>3. \A t : Holds(c, t)' <=> Holds(c, t)
    BY <1>0 DEF Holds, Tickets
  <2> QED
    BY <2>1, <2>2, <2>3
<1>3. MasksInv'
  <2> SUFFICES ASSUME NEW c \in Consumers, cpc[c] \in {"gaps", "recheck"}, NEW i \in ready[c]
               PROVE  base[c] + i =< tail'
    BY <1>0 DEF IInv, MasksInv, MasksOf
  <2>1. base[c] + i =< tail
    BY DEF IInv, MasksInv, MasksOf
  <2>2. i \in Offsets
    BY DEF TypeInv, TypeOK
  <2>3. base[c] + i \in Nat
    BY <2>2, TicketType
  <2> QED
    BY <1>0, <2>1, <2>3
<1>4. FoundInv'
  <2> SUFFICES ASSUME NEW c \in Consumers, NEW i \in Found(c)
               PROVE  ranks'[Slot(base[c] + i)] = base[c] + i
    BY <1>0, <1>2 DEF FoundInv, Matches, Slot
  <2>1. i \in Offsets
    BY DEF Found, TypeInv, TypeOK
  <2>2. ranks[Slot(base[c] + i)] = base[c] + i
    BY DEF IInv, FoundInv, Matches
  <2>3. base[c] + i \in Nat /\ Slot(base[c] + i) \in Slots
    BY <2>1, TicketType
  <2> QED
    BY <2>2, <2>3 DEF Busy
<1>5. HandInv'
  <2> SUFFICES ASSUME NEW c \in Consumers, NEW t \in InHand(c)
               PROVE  t < tail' /\ \A s \in Slots : ranks'[s] # t
    BY <1>2 DEF HandInv
  <2>1. t < tail /\ \A s \in Slots : ranks[s] # t
    BY DEF IInv, HandInv
  <2>2. t \in Nat
    BY TicketType, HandHolds
  <2> QED
    BY <1>0, <2>1, <2>2
<1>6. GotInv'
  <2> SUFFICES ASSUME NEW c \in Consumers, NEW n \in DOMAIN got[c]
               PROVE  /\ got[c][n] < head
                      /\ got[c][n] < tail'
                      /\ \A s \in Slots : ranks'[s] # got[c][n]
                      /\ \A d \in Consumers : ~Holds(d, got[c][n])
                      /\ cpc[c] # "idle" => got[c][n] < base[c]
    BY <1>0, <1>2 DEF GotInv, Holds, Tickets
  <2>1. /\ got[c][n] < head
        /\ got[c][n] < tail
        /\ \A s \in Slots : ranks[s] # got[c][n]
        /\ \A d \in Consumers : ~Holds(d, got[c][n])
        /\ cpc[c] # "idle" => got[c][n] < base[c]
    BY DEF IInv, GotInv
  <2>2. got[c][n] \in Nat
    BY <1>0
  <2> QED
    BY <1>0, <2>1, <2>2
<1>7. DrawnInv'
  BY <1>0, <1>2 DEF IInv, DrawnInv, Returned
<1> QED
  BY <1>1, <1>3, <1>4, <1>5, <1>6, <1>7

\* The steps of an enqueue call before the last one.
LEMMA ProducerFrame ==
  ASSUME TypeInv, IInv, UNCHANGED <<ranks, head, tail, consumer>>,
         \A s \in Slots : Busy(s) => datas'[s] = datas[s],
         \A s \in Slots : gaps'[s] =< tail,
         ProducerInv'
  PROVE  IInv'
<1>0. got' = got /\ passed' = passed
  BY DEF consumer, history
<1>1. CellsInv'
  BY DEF IInv, CellsInv, Busy, Slot
<1>2. StoredInv' /\ SkippedAreLost'
  <2>1. \A c \in Consumers : InHand(c)' = InHand(c)
    BY DEF InHand, consumer, masks
  <2> QED
    BY <1>0, <2>1 DEF IInv, StoredInv, SkippedAreLost, Returned, Slot
<1> QED
  BY <1>1, <1>2, ConsumersUndisturbed DEF IInv

\* The step that publishes an item fills an empty cell.
LEMMA PublishKeepsInv ==
  ASSUME TypeInv, IInv, EnqPublish
  PROVE  IInv'
<1> DEFINE w == Slot(tail)
<1>1. tail \in Nat /\ w \in Slots /\ N \in Nat \ {0}
  BY SlotType, SizeAssumption DEF TypeInv, TypeOK
<1>2. ranks \in [Slots -> Nat \cup {-1}] /\ gaps \in [Slots -> Nat] /\ passed \subseteq Nat
  BY DEF TypeInv, TypeOK, EMPTY_CELL
<1>3. /\ ranks[w] = -1 /\ datas[w] = tail
      /\ ranks' = [ranks EXCEPT ![w] = tail] /\ tail' = tail + 1 /\ ppc' = "idle"
      /\ UNCHANGED <<gaps, datas, head, sent, consumer>>
  BY DEF EnqPublish, IInv, ProducerInv, EMPTY_CELL
<1>4. ranks'[w] = tail /\ \A s \in Slots \ {w} : ranks'[s] = ranks[s]
  BY <1>1, <1>2, <1>3
<1>5. ProducerInv'
  BY <1>3 DEF ProducerInv
<1>6. CellsInv'
  <2>1. ASSUME NEW s \in Slots, Busy(s)'
        PROVE  /\ Slot(ranks'[s]) = s /\ ranks'[s] < tail'
               /\ tail' =< ranks'[s] + N /\ datas'[s] = ranks'[s]
    <3>1. CASE s = w
      BY <1>1, <1>3, <1>4, <3>1
    <3>2. CASE s # w
      <4>1. ranks'[s] = ranks[s] /\ ranks[s] \in Nat /\ Busy(s)
        BY <1>2, <1>4, <2>1, <3>2 DEF Busy
      <4>2. /\ Slot(ranks[s]) = s /\ ranks[s] < tail /\ tail =< ranks[s] + N
            /\ datas[s] = ranks[s]
        BY <4>1 DEF IInv, CellsInv
      <4>3. tail # ranks[s] + N
        <5>1. (ranks[s] + N) % N = ranks[s] % N
          <6>1. \A i \in Int : (i + N) % N = i % N
            BY <1>1, ModLap
          <6>2. ranks[s] \in Int
            BY <4>1
          <6> QED
            BY <6>1, <6>2, Zenon
        <5> QED
          BY <3>2, <4>2, <5>1 DEF Slot
      <4> QED
        BY <1>1, <1>3, <4>1, <4>2, <4>3
    <3> QED
      BY <3>1, <3>2
  <2>2. \A s \in Slots : gaps'[s] =< tail'
    BY <1>1, <1>2, <1>3 DEF IInv, CellsInv
  <2> QED
    BY <2>1, <2>2 DEF CellsInv, Slot
<1>7. StoredInv' /\ SkippedAreLost'
  <2>0. /\ \A c \in Consumers : InHand(c)' = InHand(c)
        /\ got' = got /\ passed' = passed
    BY <1>3 DEF InHand, consumer, masks, history
  <2>1. ASSUME NEW t \in Nat, t < tail, ranks[Slot(t)] = t PROVE ranks'[Slot(t)] = t
    <3>1. Slot(t) \in Slots
      BY SlotType
    <3> QED
      BY <1>1, <1>3, <1>4, <2>1, <3>1
  <2>2. StoredInv'
    <3> SUFFICES ASSUME NEW t \in 0 .. tail
                 PROVE  \/ ranks'[Slot(t)] = t
                        \/ \E c \in Consumers : t \in InHand(c)
                        \/ t \in Returned
      BY <1>1, <1>3, <2>0 DEF StoredInv, Returned, Slot
    <3>1. CASE t = tail
      BY <1>4, <3>1
    <3>2. CASE t # tail
      <4>1. t \in 0 .. tail - 1 /\ t \in Nat /\ t < tail
        BY <1>1, <3>2
      <4> QED
        BY <2>1, <4>1 DEF IInv, StoredInv
    <3> QED
      BY <3>1, <3>2
  <2>3. SkippedAreLost'
    <3> SUFFICES ASSUME NEW t \in passed PROVE t = tail + 1 \/ ranks'[Slot(t)] = t
      BY <1>3, <2>0 DEF SkippedAreLost, Slot
    <3>1. t = tail \/ ranks[Slot(t)] = t
      BY DEF IInv, SkippedAreLost
    <3>2. CASE t = tail
      BY <1>4, <3>2
    <3>3. CASE ranks[Slot(t)] = t
      <4>1. t \in Nat /\ Slot(t) \in Slots
        BY <1>2, SlotType
      <4>2. Slot(t) # w
        BY <1>3, <3>3, <4>1
      <4> QED
        BY <1>4, <3>3, <4>1, <4>2
    <3> QED
      BY <3>1, <3>2, <3>3
  <2> QED
    BY <2>2, <2>3
<1>8. /\ UNCHANGED <<head, consumer>> /\ tail' \in {tail, tail + 1}
      /\ \A s \in Slots : Busy(s) => ranks'[s] = ranks[s]
      /\ \A s \in Slots : ranks'[s] = ranks[s] \/ ranks'[s] = tail
  BY <1>3, <1>4 DEF Busy
<1> QED
  BY <1>5, <1>6, <1>7, <1>8, ConsumersUndisturbed DEF IInv

\* Every step of an enqueue call keeps the invariant.
LEMMA ProducerKeepsInv ==
  ASSUME TypeInv, IInv, Producer
  PROVE  IInv'
<1>1. /\ tail \in Nat /\ Slot(tail) \in Slots /\ \A s \in Slots : gaps[s] =< tail
  BY SlotType DEF TypeInv, TypeOK, IInv, CellsInv
<1>2. /\ gaps \in [Slots -> Nat] /\ ranks \in [Slots -> Nat \cup {EMPTY_CELL}]
      /\ datas \in [Slots -> Nat]
  BY DEF TypeInv, TypeOK
<1>3. CASE Enqueue
  <2>1. ProducerInv' /\ UNCHANGED <<windows, head, tail, consumer>>
    BY <1>3 DEF Enqueue, ProducerInv
  <2> QED
    BY <1>1, <2>1, ProducerFrame DEF windows
<1>4. CASE EnqReadRank
  <2>1. ProducerInv' /\ UNCHANGED <<windows, head, tail, consumer>>
    BY <1>1, <1>2, <1>4 DEF EnqReadRank, ProducerInv, Busy, EMPTY_CELL, windows, Slot
  <2> QED
    BY <1>1, <2>1, ProducerFrame DEF windows
<1>5. CASE EnqMarkGap
  <2>1. ProducerInv' /\ UNCHANGED <<ranks, datas, head, tail, consumer>>
    BY <1>5 DEF EnqMarkGap, PastBusy, ProducerInv
  <2>2. \A s \in Slots : gaps'[s] =< tail
    BY <1>1, <1>2, <1>5 DEF EnqMarkGap
  <2> QED
    BY <2>1, <2>2, ProducerFrame
<1>6. CASE EnqPutData
  <2>1. /\ ranks[Slot(tail)] = EMPTY_CELL /\ ppc' = "publish" /\ sent = tail + 1
        /\ datas' = [datas EXCEPT ![Slot(tail)] = sent - 1]
        /\ UNCHANGED <<ranks, gaps, head, tail, sent, consumer>>
    BY <1>6 DEF EnqPutData, IInv, ProducerInv, TypeInv, SentInv
  <2>2. ProducerInv'
    BY <1>1, <1>2, <2>1 DEF ProducerInv, Slot
  <2>3. \A s \in Slots : Busy(s) => datas'[s] = datas[s]
    BY <1>1, <1>2, <2>1 DEF Busy, EMPTY_CELL
  <2> QED
    BY <1>1, <2>1, <2>2, <2>3, ProducerFrame
<1> QED
  BY <1>3, <1>4, <1>5, <1>6, PublishKeepsInv DEF Producer
-----------------------------------------------------------------------------
\* A step of the call of consumer c that neither draws nor empties a cell
\* leaves the cells and the other calls alone, and may add to what was skipped
\* or given up.
LEMMA ConsumerFrame ==
  ASSUME TypeInv, IInv, NEW c \in Consumers, cpc[c] # "idle", cpc[c] # "clear",
         UNCHANGED <<windows, head, producer, base, got>>,
         \A d \in Consumers \ {c} :
           /\ cpc'[d] = cpc[d] /\ out'[d] = out[d]
           /\ pending'[d] = pending[d] /\ ready'[d] = ready[d]
           /\ skipped'[d] = skipped[d] /\ todo'[d] = todo[d],
         passed \subseteq passed', passed' \subseteq passed \cup Tickets(c),
         \A t \in passed' \ passed : t = tail \/ ranks[Slot(t)] = t,
         timedOut \subseteq timedOut', cpc'[c] = "idle" => Tickets(c) \subseteq timedOut',
         MasksOf(c)', \A i \in Found(c)' : Matches(c, i),
         InHand(c)' = {}, cpc'[c] = "clear" => Copied(c)'
  PROVE  IInv'
<1>0. UNCHANGED <<ranks, gaps, datas, head, tail, ppc, sent, base, got>>
  BY DEF windows, producer
<1>1. CellsInv' /\ ProducerInv'
  BY <1>0 DEF IInv, CellsInv, ProducerInv, Busy, Slot
<1>2. ASSUME NEW d \in Consumers, cpc'[d] # "idle" PROVE cpc[d] # "idle"
  BY <1>2
<1>3. RangesInv'
  <2>1. RangesInv
    BY DEF IInv
  <2> QED
    BY <1>0, <1>2, <2>1 DEF RangesInv
<1>4. MasksInv'
  <2> SUFFICES ASSUME NEW d \in Consumers, d # c PROVE MasksOf(d)'
    BY DEF MasksInv
  <2>1. MasksOf(d)
    BY DEF IInv, MasksInv
  <2>2. ASSUME cpc[d] # "idle", NEW i \in Offsets
        PROVE  base[d] + i \in passed' <=> base[d] + i \in passed
    <3>1. RangesInv
      BY DEF IInv
    <3>2. base[d] + i \notin Tickets(c)
      BY <2>2, <3>1, Apart DEF Tickets
    <3> QED
      BY <3>2
  <2>3. cpc[d] # "idle" => skipped[d] = {i \in Offsets : base[d] + i \in passed'}
    BY <2>1, <2>2 DEF MasksOf
  <2> QED
    BY <1>0, <2>1, <2>3 DEF MasksOf
<1>5. FoundInv'
  <2> SUFFICES ASSUME NEW d \in Consumers, d # c, NEW i \in Found(d)' PROVE Matches(d, i)
    BY <1>0 DEF FoundInv, Matches, Slot
  <2>1. Found(d)' = Found(d)
    BY Zenon DEF Found
  <2> QED
    BY <2>1 DEF IInv, FoundInv
<1>6. \A d \in Consumers : InHand(d)' = InHand(d)
  <2>1. InHand(c) = {}
    BY DEF InHand
  <2>2. ASSUME NEW d \in Consumers, d # c PROVE InHand(d)' = InHand(d)
    BY <1>0, <2>2 DEF InHand
  <2> QED
    BY <2>1, <2>2
<1>7. HandInv' /\ StoredInv'
  BY <1>0, <1>6 DEF IInv, HandInv, StoredInv, Returned, Slot
<1>8. OutInv'
  <2> SUFFICES ASSUME NEW d \in Consumers, d # c, cpc[d] = "clear" PROVE Copied(d)'
    BY DEF OutInv
  <2>1. Copied(d)
    BY DEF IInv, OutInv
  <2>2. out'[d] = out[d] /\ skipped'[d] = skipped[d] /\ base'[d] = base[d]
    BY <1>0
  <2>3. {out'[d][n] : n \in DOMAIN out'[d]} = {out[d][n] : n \in DOMAIN out[d]}
    BY <2>2
  <2>4. {base'[d] + i : i \in Offsets \ skipped'[d]} = {base[d] + i : i \in Offsets \ skipped[d]}
    BY <2>2
  <2> QED
    BY <2>1, <2>2, <2>3, <2>4 DEF Copied
<1>9. \A d \in Consumers : \A t : Holds(d, t)' => Holds(d, t)
  BY <1>0, <1>2 DEF Holds, Tickets
<1>10. GotInv'
  <2> SUFFICES ASSUME NEW d \in Consumers, NEW n \in DOMAIN got[d]
               PROVE  /\ got[d][n] < head
                      /\ got[d][n] < tail
                      /\ \A s \in Slots : ranks[s] # got[d][n]
                      /\ \A e \in Consumers : ~Holds(e, got[d][n])'
                      /\ cpc'[d] # "idle" => got[d][n] < base[d]
    BY <1>0 DEF GotInv, Holds, Tickets
  <2>1. /\ got[d][n] < head
        /\ got[d][n] < tail
        /\ \A s \in Slots : ranks[s] # got[d][n]
        /\ \A e \in Consumers : ~Holds(e, got[d][n])
        /\ cpc[d] # "idle" => got[d][n] < base[d]
    BY DEF IInv, GotInv
  <2>2. got[d][n]' = got[d][n]
    BY <1>0
  <2>3. \A e \in Consumers : ~Holds(e, got[d][n])'
    BY <1>9, <2>1, <2>2
  <2> QED
    BY <1>2, <2>1, <2>3
<1>11. DrawnInv'
  <2> SUFFICES ASSUME NEW t \in 0 .. head - 1
               PROVE  \/ \E d \in Consumers : Holds(d, t)'
                      \/ t \in timedOut' \cup passed'
                      \/ t \in Returned
    BY <1>0 DEF DrawnInv, Returned, Holds, Tickets
  <2>1. CASE \E d \in Consumers : Holds(d, t)
    <3>1. PICK d \in Consumers : Holds(d, t)
      BY <2>1
    <3>2. CASE cpc'[d] # "idle"
      BY <1>0, <3>1, <3>2 DEF Holds, Tickets
    <3>3. CASE cpc'[d] = "idle"
      BY <3>1, <3>3 DEF Holds
    <3> QED
      BY <3>2, <3>3
  <2>2. CASE t \in timedOut \cup passed
    BY <2>2
  <2>3. CASE t \in Returned
    BY <2>3
  <2> QED
    BY <2>1, <2>2, <2>3 DEF IInv, DrawnInv
<1>12. PassedInv'
  <2> SUFFICES ASSUME NEW t \in passed' PROVE t < head
    BY <1>0 DEF PassedInv
  <2>1. CASE t \in passed
    BY <2>1 DEF IInv, PassedInv
  <2>2. CASE t \in Tickets(c)
    <3>1. PICK i \in Offsets : t = base[c] + i
      BY <2>2 DEF Tickets
    <3>2. i \in Nat /\ i < K /\ K \in Nat /\ base[c] \in Nat /\ head \in Nat
      BY TicketType, SizeAssumption DEF TypeInv, TypeOK
    <3>3. base[c] + K =< head
      BY DEF IInv, RangesInv
    <3> QED
      BY <3>1, <3>2, <3>3
  <2> QED
    BY <2>1, <2>2
<1>13. SkippedAreLost'
  <2> SUFFICES ASSUME NEW t \in passed' PROVE t = tail \/ ranks[Slot(t)] = t
    BY <1>0 DEF SkippedAreLost, Slot
  <2> QED
    BY DEF IInv, SkippedAreLost
<1> QED
  BY <1>1, <1>3, <1>4, <1>5, <1>7, <1>8, <1>10, <1>11, <1>12, <1>13 DEF IInv

\* What the steps of a call that has not yet decided all its tickets share.
LEMMA OthersStay ==
  ASSUME TypeInv, NEW c \in Consumers, NEW d \in Consumers, d # c,
         \/ \E i \in Offsets : DeqReadRank(c, i) \/ DeqReadGap(c, i) \/ DeqRecheck(c, i)
         \/ DeqGetData(c)
  PROVE  /\ cpc'[d] = cpc[d] /\ out'[d] = out[d]
         /\ pending'[d] = pending[d] /\ ready'[d] = ready[d]
         /\ skipped'[d] = skipped[d] /\ todo'[d] = todo[d]
<1> USE DEF Go, Decided, WaitOrTimeOut
<1>0. /\ cpc \in [Consumers -> Steps] /\ out \in [Consumers -> Seq(Nat)]
      /\ pending \in [Consumers -> SUBSET Offsets] /\ ready \in [Consumers -> SUBSET Offsets]
      /\ skipped \in [Consumers -> SUBSET Offsets] /\ todo \in [Consumers -> SUBSET Offsets]
  BY DEF TypeInv, TypeOK, Steps
<1>1. ASSUME NEW i \in Offsets, DeqReadRank(c, i)
      PROVE  /\ cpc'[d] = cpc[d] /\ out'[d] = out[d]
             /\ pending'[d] = pending[d] /\ ready'[d] = ready[d]
             /\ skipped'[d] = skipped[d] /\ todo'[d] = todo[d]
  BY <1>0, <1>1 DEF DeqReadRank
<1>2. ASSUME NEW i \in Offsets, DeqReadGap(c, i)
      PROVE  /\ cpc'[d] = cpc[d] /\ out'[d] = out[d]
             /\ pending'[d] = pending[d] /\ ready'[d] = ready[d]
             /\ skipped'[d] = skipped[d] /\ todo'[d] = todo[d]
  BY <1>0, <1>2 DEF DeqReadGap
<1>3. ASSUME NEW i \in Offsets, DeqRecheck(c, i)
      PROVE  /\ cpc'[d] = cpc[d] /\ out'[d] = out[d]
             /\ pending'[d] = pending[d] /\ ready'[d] = ready[d]
             /\ skipped'[d] = skipped[d] /\ todo'[d] = todo[d]
  BY <1>0, <1>3 DEF DeqRecheck
<1>4. CASE DeqGetData(c)
  BY <1>0, <1>4 DEF DeqGetData
<1> QED
  BY <1>1, <1>2, <1>3, <1>4

\* A rank that matches is found, and stays found.
LEMMA ReadRankKeepsInv ==
  ASSUME TypeInv, IInv, NEW c \in Consumers, NEW i \in Offsets, DeqReadRank(c, i)
  PROVE  IInv'
<1> DEFINE left == IF Matches(c, i) THEN pending[c] \ {i} ELSE pending[c]
<1>0. /\ pending \in [Consumers -> SUBSET Offsets] /\ ready \in [Consumers -> SUBSET Offsets]
      /\ skipped \in [Consumers -> SUBSET Offsets] /\ todo \in [Consumers -> SUBSET Offsets]
      /\ cpc \in [Consumers -> Steps]
  BY DEF TypeInv, TypeOK, Steps
<1>1. /\ cpc[c] = "ranks" /\ i \in todo[c] /\ todo[c] \subseteq pending[c]
      /\ skipped[c] = {j \in Offsets : base[c] + j \in passed}
      /\ \A j \in Offsets \ (pending[c] \cup skipped[c]) : Matches(c, j)
  BY DEF DeqReadRank, IInv, MasksInv, MasksOf, FoundInv, Found
<1>2. /\ pending'[c] = left /\ ready'[c] = {} /\ skipped' = skipped /\ base' = base
      /\ UNCHANGED <<windows, head, producer, base, got, out, passed, timedOut>>
  BY <1>0 DEF DeqReadRank, history
<1>3. \/ /\ cpc'[c] = "ranks" /\ todo'[c] = todo[c] \ {i} /\ todo[c] # {i}
      \/ /\ cpc'[c] = "gaps" /\ todo'[c] = left
      \/ /\ cpc'[c] = "redraw" /\ left = {} /\ skipped[c] = Offsets /\ todo'[c] = {}
      \/ /\ cpc'[c] = "get" /\ left = {} /\ todo'[c] = {}
  BY <1>0 DEF DeqReadRank, Go, Decided
<1>4. \A j \in Offsets \ (left \cup skipped[c]) : Matches(c, j)
  BY <1>1
<1>5. todo[c] \ {i} \subseteq left
  BY <1>1
<1> HIDE DEF left
<1>6. MasksOf(c)'
  BY <1>1, <1>2, <1>3, <1>5 DEF MasksOf
<1>7. \A j \in Found(c)' : Matches(c, j)
  <2>1. Found(c)' \subseteq Offsets \ (left \cup skipped[c])
    BY <1>2, <1>3 DEF Found
  <2> QED
    BY <1>4, <2>1
<1>8. InHand(c)' = {}
  BY <1>3 DEF InHand
<1> QED
  BY <1>1, <1>2, <1>3, <1>6, <1>7, <1>8, OthersStay, ConsumerFrame

\* A gap mark at or past a ticket says that the producer got that far.
LEMMA ReadGapKeepsInv ==
  ASSUME TypeInv, IInv, NEW c \in Consumers, NEW i \in Offsets, DeqReadGap(c, i)
  PROVE  IInv'
<1> DEFINE marked == IF gaps[Slot(base[c] + i)] >= base[c] + i
                     THEN ready[c] \cup {i} ELSE ready[c]
<1>0. /\ pending \in [Consumers -> SUBSET Offsets] /\ ready \in [Consumers -> SUBSET Offsets]
      /\ skipped \in [Consumers -> SUBSET Offsets] /\ todo \in [Consumers -> SUBSET Offsets]
      /\ cpc \in [Consumers -> Steps] /\ gaps \in [Slots -> Nat] /\ tail \in Nat
      /\ timedOut \subseteq timedOut
  BY DEF TypeInv, TypeOK, Steps
<1>1. /\ cpc[c] = "gaps" /\ i \in todo[c] /\ todo[c] \subseteq pending[c]
      /\ ready[c] \subseteq pending[c] \ todo[c]
      /\ \A j \in ready[c] : base[c] + j =< tail
      /\ skipped[c] = {j \in Offsets : base[c] + j \in passed}
      /\ \A j \in Offsets \ (pending[c] \cup skipped[c]) : Matches(c, j)
  BY DEF DeqReadGap, IInv, MasksInv, MasksOf, FoundInv, Found
<1>2. /\ ready'[c] = marked /\ pending' = pending /\ skipped' = skipped /\ base' = base
      /\ UNCHANGED <<windows, head, producer, base, got, out, passed, tail>>
  BY <1>0 DEF DeqReadGap, producer
<1>3. \/ /\ cpc'[c] = "gaps" /\ todo'[c] = todo[c] \ {i} /\ timedOut' = timedOut
      \/ /\ cpc'[c] = "recheck" /\ todo'[c] = marked /\ timedOut' = timedOut
      \/ /\ cpc'[c] = "ranks" /\ todo'[c] = pending[c] /\ timedOut' = timedOut
      \/ /\ cpc'[c] = "idle" /\ todo'[c] = {} /\ timedOut' = timedOut \cup Tickets(c)
  BY <1>0 DEF DeqReadGap, Go, WaitOrTimeOut
<1>4. \A j \in marked : base[c] + j =< tail
  <2>1. \A s \in Slots : gaps[s] =< tail
    BY DEF IInv, CellsInv
  <2>2. gaps[Slot(base[c] + i)] =< tail /\ gaps[Slot(base[c] + i)] \in Nat /\ base[c] + i \in Nat
    BY <1>0, <2>1, TicketType
  <2> QED
    BY <1>0, <1>1, <2>2
<1>5. marked \subseteq pending[c] \ (todo[c] \ {i})
  BY <1>1
<1> HIDE DEF marked
<1>6. MasksOf(c)'
  BY <1>1, <1>2, <1>3, <1>4, <1>5 DEF MasksOf
<1>7. \A j \in Found(c)' : Matches(c, j)
  <2>1. Found(c)' \subseteq Offsets \ (pending[c] \cup skipped[c])
    BY <1>2, <1>3, <1>5 DEF Found
  <2> QED
    BY <1>1, <2>1
<1>8. InHand(c)' = {}
  BY <1>3 DEF InHand
<1> QED
  BY <1>1, <1>2, <1>3, <1>6, <1>7, <1>8, OthersStay, ConsumerFrame

\* The item of a ticket that the producer is past is in its cell as long as
\* the call that holds the ticket has not emptied it.
LEMMA UntakenStays ==
  ASSUME TypeInv, IInv, NEW c \in Consumers, NEW i \in Offsets,
         cpc[c] # "idle", cpc[c] # "clear", base[c] + i < tail
  PROVE  Matches(c, i)
<1> DEFINE t == base[c] + i
<1>1. t \in Nat /\ t \in 0 .. tail - 1
  <2>1. t \in Nat
    BY TicketType
  <2>2. tail \in Nat
    BY DEF TypeInv, TypeOK
  <2> QED
    BY <2>1, <2>2
<1>2. \A d \in Consumers : t \notin InHand(d)
  <2> SUFFICES ASSUME NEW d \in Consumers, t \in InHand(d) PROVE FALSE
    OBVIOUS
  <2>1. cpc[d] = "clear" /\ \E j \in Offsets : t = base[d] + j
    BY HandHolds
  <2>2. RangesInv
    BY DEF IInv
  <2> QED
    BY <2>1, <2>2, Apart
<1>3. t \notin Returned
  <2>0. got \in [Consumers -> Seq(Nat)]
    BY DEF TypeInv, TypeOK
  <2> SUFFICES ASSUME NEW d \in Consumers, NEW n \in DOMAIN got[d], got[d][n] = t PROVE FALSE
    BY <2>0 DEF Returned, ToSet
  <2>1. ~Holds(c, t)
    BY DEF IInv, GotInv
  <2> QED
    BY <2>1 DEF Holds, Tickets
<1>4. \/ ranks[Slot(t)] = t
      \/ \E d \in Consumers : t \in InHand(d)
      \/ t \in Returned
  BY <1>1 DEF IInv, StoredInv
<1> QED
  BY <1>2, <1>3, <1>4 DEF Matches

\* A cell that has gone after its gap mark is the producer's next one.
LEMMA RecheckKeepsInv ==
  ASSUME TypeInv, IInv, NEW c \in Consumers, NEW i \in Offsets, DeqRecheck(c, i)
  PROVE  IInv'
<1> DEFINE skip == IF Gone(c, i) THEN skipped[c] \cup {i} ELSE skipped[c]
           left == pending[c] \ ready[c]
<1>0. /\ pending \in [Consumers -> SUBSET Offsets] /\ ready \in [Consumers -> SUBSET Offsets]
      /\ skipped \in [Consumers -> SUBSET Offsets] /\ todo \in [Consumers -> SUBSET Offsets]
      /\ cpc \in [Consumers -> Steps] /\ tail \in Nat /\ passed \subseteq Nat
  BY DEF TypeInv, TypeOK, Steps
<1>1. /\ cpc[c] = "recheck" /\ i \in todo[c] /\ todo[c] \subseteq ready[c]
      /\ ready[c] \subseteq pending[c]
      /\ \A j \in ready[c] : base[c] + j =< tail
      /\ skipped[c] = {j \in Offsets : base[c] + j \in passed}
      /\ \A j \in Offsets \ ((pending[c] \ (ready[c] \ todo[c])) \cup skipped[c]) : Matches(c, j)
  BY DEF DeqRecheck, IInv, MasksInv, MasksOf, FoundInv, Found
<1>2. /\ skipped'[c] = skip /\ ready' = ready /\ base' = base
      /\ passed' = IF Gone(c, i) THEN passed \cup {base[c] + i} ELSE passed
      /\ UNCHANGED <<windows, head, producer, base, got, out, tail>>
  BY <1>0 DEF DeqRecheck, producer
<1>3. \/ /\ cpc'[c] = "recheck" /\ todo'[c] = todo[c] \ {i} /\ todo[c] # {i}
         /\ pending' = pending /\ timedOut' = timedOut
      \/ /\ cpc'[c] = "ranks" /\ todo'[c] = left
         /\ todo[c] = {i} /\ pending'[c] = left /\ timedOut' = timedOut
      \/ /\ cpc'[c] = "idle" /\ todo'[c] = {}
         /\ todo[c] = {i} /\ pending'[c] = left /\ timedOut' = timedOut \cup Tickets(c)
      \/ /\ cpc'[c] = "redraw" /\ left = {} /\ skip = Offsets /\ todo'[c] = {}
         /\ todo[c] = {i} /\ pending'[c] = left /\ timedOut' = timedOut
      \/ /\ cpc'[c] = "get" /\ left = {} /\ todo'[c] = {}
         /\ todo[c] = {i} /\ pending'[c] = left /\ timedOut' = timedOut
  BY <1>0 DEF DeqRecheck, Go, Decided, WaitOrTimeOut
<1>4. skip = {j \in Offsets : base[c] + j \in passed'}
  <2>1. \A j \in Offsets : base[c] + j = base[c] + i => j = i
    BY TicketType
  <2> QED
    BY <1>1, <1>2, <2>1
<1>5. Gone(c, i) => base[c] + i = tail
  <2>1. base[c] + i =< tail /\ base[c] + i \in Nat
    BY <1>1, TicketType
  <2>2. base[c] + i < tail => ~Gone(c, i)
    BY <1>1, UntakenStays DEF Gone
  <2> QED
    BY <1>0, <2>1, <2>2
<1>6. \A t \in passed' \ passed : t = tail \/ ranks[Slot(t)] = t
  BY <1>2, <1>5
<1>7. base[c] + i \in Tickets(c) /\ i \in Offsets
  BY DEF Tickets
<1>8. \A j \in Offsets \ ((pending[c] \ (ready[c] \ (todo[c] \ {i}))) \cup skip) : Matches(c, j)
  BY <1>1 DEF Gone
<1> HIDE DEF skip
<1>9. MasksOf(c)'
  BY <1>1, <1>2, <1>3, <1>4 DEF MasksOf
<1>10. \A j \in Found(c)' : Matches(c, j)
  <2>1. Found(c)' \subseteq Offsets \ ((pending[c] \ (ready[c] \ (todo[c] \ {i}))) \cup skip)
    BY <1>2, <1>3 DEF Found
  <2> QED
    BY <1>8, <2>1
<1>11. InHand(c)' = {}
  BY <1>3 DEF InHand
<1>12. /\ passed \subseteq passed' /\ passed' \subseteq passed \cup Tickets(c)
       /\ timedOut \subseteq timedOut'
       /\ cpc'[c] = "idle" => Tickets(c) \subseteq timedOut'
       /\ cpc'[c] # "clear"
  BY <1>2, <1>3, <1>7
<1>13. \A d \in Consumers \ {c} :
         /\ cpc'[d] = cpc[d] /\ out'[d] = out[d]
         /\ pending'[d] = pending[d] /\ ready'[d] = ready[d]
         /\ skipped'[d] = skipped[d] /\ todo'[d] = todo[d]
  BY OthersStay
<1>14. /\ cpc[c] # "idle" /\ cpc[c] # "clear"
       /\ UNCHANGED <<windows, head, producer, base, got>>
  BY <1>1, <1>2
<1> QED
  BY <1>6, <1>9, <1>10, <1>11, <1>12, <1>13, <1>14, ConsumerFrame

\* Whatever is not skipped was found, so what is copied out are the items of
\* those tickets.
LEMMA GetDataKeepsInv ==
  ASSUME TypeInv, IInv, NEW c \in Consumers, DeqGetData(c)
  PROVE  IInv'
<1> DEFINE kept == Offsets \ skipped[c]
<1>0. /\ todo \in [Consumers -> SUBSET Offsets] /\ cpc \in [Consumers -> Steps]
      /\ out \in [Consumers -> Seq(Nat)] /\ ranks \in [Slots -> Nat \cup {-1}]
  BY DEF TypeInv, TypeOK, Steps, EMPTY_CELL
<1>1. /\ cpc[c] = "get" /\ \A j \in kept : Matches(c, j)
      /\ skipped[c] = {j \in Offsets : base[c] + j \in passed}
  BY DEF DeqGetData, IInv, MasksInv, MasksOf, FoundInv, Found
<1>2. /\ cpc'[c] = "clear" /\ todo'[c] = kept
      /\ UNCHANGED <<windows, head, producer, base, got, skipped, passed, timedOut, tail>>
  BY <1>0 DEF DeqGetData, Go, history, producer
<1>3. PICK taken \in SeqOf(kept, K) :
        /\ Lists(taken, kept)
        /\ out' = [out EXCEPT ![c] = [n \in DOMAIN taken |-> datas[Slot(base[c] + taken[n])]]]
  BY DEF DeqGetData
<1>4. PICK k \in 0 .. K : taken \in [1 .. k -> kept]
  BY <1>3 DEF SeqOf
<1>5. k \in Nat /\ k =< K
  BY SizeAssumption
<1>6. \A n \in 1 .. k : /\ taken[n] \in kept
                        /\ datas[Slot(base[c] + taken[n])] = base[c] + taken[n]
                        /\ base[c] + taken[n] \in Nat
  <2> SUFFICES ASSUME NEW n \in 1 .. k
               PROVE  /\ taken[n] \in kept
                      /\ datas[Slot(base[c] + taken[n])] = base[c] + taken[n]
                      /\ base[c] + taken[n] \in Nat
    OBVIOUS
  <2>1. taken[n] \in kept
    BY <1>4
  <2>2. /\ base[c] + taken[n] \in Nat /\ Slot(base[c] + taken[n]) \in Slots
        /\ ranks[Slot(base[c] + taken[n])] = base[c] + taken[n]
    BY <1>1, <2>1, TicketType DEF Matches
  <2>3. Busy(Slot(base[c] + taken[n]))
    BY <2>2 DEF Busy
  <2> QED
    BY <2>1, <2>2, <2>3 DEF IInv, CellsInv
<1>7. out'[c] = [n \in 1 .. k |-> base[c] + taken[n]]
  BY <1>0, <1>3, <1>4, <1>6
<1>8. Copied(c)'
  <2>1. /\ \A m, n \in 1 .. k : m < n => taken[m] < taken[n]
        /\ kept = {taken[n] : n \in 1 .. k}
    BY <1>3, <1>4 DEF Lists
  <2>2. out'[c] \in Seq(Nat) /\ Len(out'[c]) = k /\ DOMAIN out'[c] = 1 .. k
    BY <1>5, <1>6, <1>7
  <2>3. \A m, n \in DOMAIN out'[c] : m < n => out'[c][m] < out'[c][n]
    <3> SUFFICES ASSUME NEW m \in 1 .. k, NEW n \in 1 .. k, m < n
                 PROVE  base[c] + taken[m] < base[c] + taken[n]
      BY <1>7, <2>2
    <3>1. taken[m] \in Offsets /\ taken[n] \in Offsets /\ taken[m] < taken[n]
      BY <1>6, <2>1
    <3>2. taken[m] \in Nat /\ taken[n] \in Nat /\ base[c] \in Nat
      BY <3>1, TicketType
    <3> QED
      BY <3>1, <3>2
  <2>4. {out'[c][n] : n \in DOMAIN out'[c]} = {base[c] + i : i \in kept}
    BY <1>7, <2>1, <2>2
  <2>5. skipped' = skipped /\ base' = base
    BY <1>2
  <2> QED
    BY <1>5, <2>2, <2>3, <2>4, <2>5 DEF Copied
<1>9. MasksOf(c)'
  BY <1>1, <1>2 DEF MasksOf
<1>10. \A j \in Found(c)' : Matches(c, j)
  BY <1>1, <1>2 DEF Found
<1>11. InHand(c)' = {}
  BY <1>2 DEF InHand
<1> QED
  BY <1>1, <1>2, <1>8, <1>9, <1>10, <1>11, OthersStay, ConsumerFrame

\* A call starts on tickets that nobody held before, having skipped all of its
\* old ones.
LEMMA StartKeepsInv ==
  ASSUME TypeInv, IInv, NEW c \in Consumers, NEW r, StartRange(c, r),
         UNCHANGED <<windows, producer, out, got, passed>>,
         \A d \in Consumers \ {c} : cpc'[d] = cpc[d],
         cpc[c] = "idle" \/ cpc[c] = "redraw",
         \/ cpc'[c] = "ranks" /\ timedOut' = timedOut
         \/ cpc'[c] = "idle" /\ timedOut' = timedOut \cup {head + i : i \in Offsets}
  PROVE  IInv'
<1>0. /\ UNCHANGED <<ranks, gaps, datas, tail, ppc, sent, out, got, passed>>
      /\ base \in [Consumers -> Nat] /\ head \in Nat /\ K \in Nat \ {0} /\ passed \subseteq Nat
      /\ got \in [Consumers -> Seq(Nat)] /\ tail \in Nat
      /\ pending \in [Consumers -> SUBSET Offsets] /\ ready \in [Consumers -> SUBSET Offsets]
      /\ skipped \in [Consumers -> SUBSET Offsets] /\ todo \in [Consumers -> SUBSET Offsets]
  BY SizeAssumption DEF windows, producer, TypeInv, TypeOK
<1>1. /\ base'[c] = head /\ head' = head + K /\ pending'[c] = Offsets /\ ready'[c] = {}
      /\ skipped'[c] = {} /\ todo'[c] = Offsets
  BY <1>0 DEF StartRange, Draw
<1>2. ASSUME NEW d \in Consumers, d # c
      PROVE  /\ base'[d] = base[d] /\ pending'[d] = pending[d] /\ ready'[d] = ready[d]
             /\ skipped'[d] = skipped[d] /\ todo'[d] = todo[d] /\ cpc'[d] = cpc[d]
  BY <1>0, <1>2 DEF StartRange, Draw
<1>3. CellsInv' /\ ProducerInv'
  BY <1>0 DEF IInv, CellsInv, ProducerInv, Busy, Slot
<1>4. RangesInv'
  <2>1. ASSUME NEW d \in Consumers, cpc'[d] # "idle"
        PROVE  /\ base'[d] + K =< head'
               /\ d # c => base[d] + K =< head /\ cpc[d] # "idle" /\ base'[d] = base[d]
    <3>1. CASE d = c
      BY <1>0, <1>1, <3>1
    <3>2. CASE d # c
      <4>1. cpc[d] # "idle" /\ base'[d] = base[d]
        BY <1>2, <2>1, <3>2
      <4>2. base[d] + K =< head
        BY <4>1 DEF IInv, RangesInv
      <4> QED
        BY <1>0, <1>1, <4>1, <4>2
    <3> QED
      BY <3>1, <3>2
  <2>2. ASSUME NEW d \in Consumers, NEW e \in Consumers, d # e,
               cpc'[d] # "idle", cpc'[e] # "idle"
        PROVE  base'[d] + K =< base'[e] \/ base'[e] + K =< base'[d]
    <3>1. CASE d = c
      BY <1>1, <2>1, <2>2, <3>1
    <3>2. CASE e = c
      BY <1>1, <2>1, <2>2, <3>2
    <3>3. CASE d # c /\ e # c
      BY <2>1, <2>2, <3>3 DEF IInv, RangesInv
    <3> QED
      BY <3>1, <3>2, <3>3
  <2> QED
    BY <2>1, <2>2 DEF RangesInv
<1>5. MasksInv'
  <2> SUFFICES ASSUME NEW d \in Consumers PROVE MasksOf(d)'
    BY DEF MasksInv
  <2>1. CASE d = c
    <3>1. ASSUME NEW i \in Offsets PROVE head + i \notin passed'
      <4>1. head =< head + i
        BY <1>0 DEF Offsets
      <4>2. ASSUME head + i \in passed PROVE FALSE
        <5>1. head + i < head
          BY <4>2 DEF IInv, PassedInv
        <5> QED
          BY <1>0, <4>1, <5>1 DEF Offsets
      <4> QED
        BY <1>0, <4>2
    <3>2. {i \in Offsets : base'[c] + i \in passed'} = {}
      BY <1>1, <3>1
    <3> QED
      BY <1>1, <2>1, <3>2 DEF MasksOf
  <2>2. CASE d # c
    <3>1. MasksOf(d)
      BY DEF IInv, MasksInv
    <3>2. {i \in Offsets : base'[d] + i \in passed'} = {i \in Offsets : base[d] + i \in passed}
      BY <1>0, <1>2, <2>2
    <3> QED
      BY <1>0, <1>2, <2>2, <3>1, <3>2 DEF MasksOf
  <2> QED
    BY <2>1, <2>2
<1>6. FoundInv'
  <2> SUFFICES ASSUME NEW d \in Consumers, NEW i \in Found(d)' PROVE Matches(d, i)'
    BY DEF FoundInv
  <2>1. CASE d = c
    BY <1>1, <2>1 DEF Found
  <2>2. CASE d # c
    <3>1. Found(d)' = Found(d)
      BY <1>2, <2>2, Zenon DEF Found
    <3> QED
      BY <1>0, <1>2, <2>2, <3>1 DEF IInv, FoundInv, Matches, Slot
  <2> QED
    BY <2>1, <2>2
<1>7. \A d \in Consumers : InHand(d)' = InHand(d)
  <2>1. InHand(c) = {} /\ InHand(c)' = {}
    BY DEF InHand
  <2>2. ASSUME NEW d \in Consumers, d # c PROVE InHand(d)' = InHand(d)
    BY <1>2, <2>2 DEF InHand
  <2> QED
    BY <2>1, <2>2
<1>8. HandInv' /\ StoredInv' /\ SkippedAreLost'
  <2>1. HandInv'
    BY <1>0, <1>7 DEF IInv, HandInv, Slot
  <2>2. StoredInv'
    BY <1>0, <1>7 DEF IInv, StoredInv, Returned, Slot
  <2>3. SkippedAreLost'
    BY <1>0 DEF IInv, SkippedAreLost, Returned, Slot
  <2> QED
    BY <2>1, <2>2, <2>3
<1>9. OutInv'
  <2> SUFFICES ASSUME NEW d \in Consumers, cpc'[d] = "clear" PROVE Copied(d)'
    BY DEF OutInv
  <2>1. d # c
    OBVIOUS
  <2>2. Copied(d)
    BY <1>2, <2>1 DEF IInv, OutInv
  <2>3. out'[d] = out[d] /\ skipped'[d] = skipped[d] /\ base'[d] = base[d]
    BY <1>0, <1>2, <2>1
  <2>4. {out'[d][n] : n \in DOMAIN out'[d]} = {out[d][n] : n \in DOMAIN out[d]}
    BY <2>3
  <2>5. {base'[d] + i : i \in Offsets \ skipped'[d]} = {base[d] + i : i \in Offsets \ skipped[d]}
    BY <2>3
  <2> QED
    BY <2>2, <2>3, <2>4, <2>5 DEF Copied
<1>10. GotInv'
  <2> SUFFICES ASSUME NEW d \in Consumers, NEW n \in DOMAIN got[d]
               PROVE  /\ got[d][n] < head'
                      /\ got[d][n] < tail
                      /\ \A s \in Slots : ranks[s] # got[d][n]
                      /\ \A e \in Consumers : ~Holds(e, got[d][n])'
                      /\ cpc'[d] # "idle" => got[d][n] < base'[d]
    BY <1>0 DEF GotInv, Holds, Tickets
  <2>1. /\ got[d][n] < head
        /\ got[d][n] < tail
        /\ \A s \in Slots : ranks[s] # got[d][n]
        /\ \A e \in Consumers : ~Holds(e, got[d][n])
        /\ cpc[d] # "idle" => got[d][n] < base[d]
    BY DEF IInv, GotInv
  <2>2. got[d][n] \in Nat
    BY <1>0
  <2>3. got[d][n] < head'
    BY <1>0, <1>1, <2>1, <2>2
  <2>4. ASSUME NEW e \in Consumers PROVE ~Holds(e, got[d][n])'
    <3>1. got'[d][n] = got[d][n]
      BY <1>0
    <3>2. CASE e = c
      <4>1. ASSUME NEW i \in Offsets PROVE head + i # got[d][n]
        BY <1>0, <2>1, <2>2 DEF Offsets
      <4> QED
        BY <1>1, <3>1, <3>2, <4>1 DEF Holds, Tickets
    <3>3. CASE e # c
      BY <1>2, <2>1, <3>1, <3>3 DEF Holds, Tickets
    <3> QED
      BY <3>2, <3>3
  <2>5. cpc'[d] # "idle" => got[d][n] < base'[d]
    BY <1>1, <1>2, <2>1
  <2> QED
    BY <2>1, <2>3, <2>4, <2>5
<1>11. DrawnInv'
  <2> SUFFICES ASSUME NEW t \in 0 .. head' - 1
               PROVE  \/ \E d \in Consumers : Holds(d, t)'
                      \/ t \in timedOut' \cup passed'
                      \/ t \in Returned
    BY <1>0 DEF DrawnInv, Returned, Holds, Tickets
  <2>1. CASE t < head
    <3>1. t \in 0 .. head - 1
      BY <1>0, <1>1, <2>1
    <3>2. CASE \E d \in Consumers : Holds(d, t)
      <4>1. PICK d \in Consumers : Holds(d, t)
        BY <3>2
      <4>2. CASE d # c
        BY <1>2, <4>1, <4>2 DEF Holds, Tickets
      <4>3. CASE d = c
        <5>1. cpc[c] = "redraw" /\ skipped[c] = Offsets
              /\ skipped[c] = {i \in Offsets : base[c] + i \in passed}
          BY <4>1, <4>3 DEF Holds, IInv, MasksInv, MasksOf
        <5>2. PICK i \in Offsets : t = base[c] + i
          BY <4>1, <4>3 DEF Holds, Tickets
        <5>3. t \in passed
          BY <5>1, <5>2
        <5> QED
          BY <1>0, <5>3
      <4> QED
        BY <4>2, <4>3
    <3>3. CASE t \in timedOut \cup passed
      BY <1>0, <3>3
    <3> QED
      BY <3>1, <3>2, <3>3 DEF IInv, DrawnInv
  <2>2. CASE ~(t < head)
    <3>1. t - head \in Offsets /\ t = head + (t - head)
      BY <1>0, <1>1, <2>2 DEF Offsets
    <3>2. t \in {head + i : i \in Offsets}
      BY <3>1
    <3> QED
      BY <1>1, <3>2 DEF Holds, Tickets
  <2> QED
    BY <2>1, <2>2
<1>12. PassedInv'
  <2> SUFFICES ASSUME NEW t \in passed PROVE t < head'
    BY <1>0 DEF PassedInv
  <2>1. t < head /\ t \in Nat
    BY <1>0 DEF IInv, PassedInv
  <2> QED
    BY <1>0, <1>1, <2>1
<1> QED
  BY <1>3, <1>4, <1>5, <1>6, <1>8, <1>9, <1>10, <1>11, <1>12 DEF IInv

\* What a step that empties a cell does: the cell holds the item of the ticket
\* until then, and no cell holds it afterwards.
LEMMA ClearFacts ==
  ASSUME TypeInv, IInv, NEW c \in Consumers, NEW i \in Offsets, DeqClearRank(c, i)
  PROVE  /\ cpc[c] = "clear" /\ i \in todo[c] /\ i \notin skipped[c]
         /\ skipped[c] = {j \in Offsets : base[c] + j \in passed}
         /\ todo[c] \subseteq Offsets \ skipped[c] /\ Copied(c)
         /\ base[c] + i \in Nat /\ base[c] + i < tail /\ Slot(base[c] + i) \in Slots
         /\ ranks[Slot(base[c] + i)] = base[c] + i /\ ranks'[Slot(base[c] + i)] = EMPTY_CELL
         /\ \A s \in Slots \ {Slot(base[c] + i)} : ranks'[s] = ranks[s]
         /\ \A s \in Slots : ranks'[s] # base[c] + i
         /\ UNCHANGED <<gaps, datas, head, tail, ppc, sent, base, skipped, out, passed, timedOut>>
         /\ \A d \in Consumers \ {c} :
              cpc'[d] = cpc[d] /\ pending'[d] = pending[d] /\ ready'[d] = ready[d]
              /\ todo'[d] = todo[d]
         /\ todo'[c] = todo[c] \ {i}
         /\ \/ todo[c] # {i} /\ cpc'[c] = "clear" /\ got' = got
            \/ todo[c] = {i} /\ cpc'[c] = "idle" /\ got' = [got EXCEPT ![c] = @ \o out[c]]
<1> DEFINE t == base[c] + i
           w == Slot(t)
<1>0. /\ todo \in [Consumers -> SUBSET Offsets] /\ cpc \in [Consumers -> Steps]
      /\ ranks \in [Slots -> Nat \cup {EMPTY_CELL}]
  BY DEF TypeInv, TypeOK, Steps
<1>1. /\ cpc[c] = "clear" /\ i \in todo[c]
      /\ ranks' = [ranks EXCEPT ![w] = EMPTY_CELL]
      /\ UNCHANGED <<gaps, datas, head, tail, ppc, sent, base, skipped, out, passed, timedOut>>
      /\ UNCHANGED <<pending, ready>>
  BY DEF DeqClearRank, producer
<1>2. /\ skipped[c] = {j \in Offsets : base[c] + j \in passed}
      /\ todo[c] \subseteq Offsets \ skipped[c] /\ Copied(c) /\ ranks[w] = t
  <2>1. MasksOf(c) /\ (\A j \in Found(c) : Matches(c, j)) /\ Copied(c)
    BY <1>1 DEF IInv, MasksInv, FoundInv, OutInv
  <2> QED
    BY <1>1, <2>1 DEF MasksOf, Found, Matches
<1>3. t \in Nat /\ w \in Slots
  BY TicketType
<1>4. t < tail /\ \A s \in Slots : ranks[s] = t => s = w
  BY <1>2, <1>3 DEF IInv, CellsInv, Busy
<1>5. ranks'[w] = EMPTY_CELL /\ \A s \in Slots \ {w} : ranks'[s] = ranks[s]
  BY <1>0, <1>1, <1>3
<1>6. \A s \in Slots : ranks'[s] # t
  BY <1>3, <1>4, <1>5 DEF EMPTY_CELL
<1>7. /\ \A d \in Consumers \ {c} : cpc'[d] = cpc[d] /\ todo'[d] = todo[d]
      /\ todo'[c] = todo[c] \ {i}
      /\ \/ todo[c] # {i} /\ cpc'[c] = "clear" /\ got' = got
         \/ todo[c] = {i} /\ cpc'[c] = "idle" /\ got' = [got EXCEPT ![c] = @ \o out[c]]
  BY <1>0 DEF DeqClearRank, Go
<1> QED
  BY <1>1, <1>2, <1>3, <1>4, <1>5, <1>6, <1>7

\* The cells and what the calls know of them, after the step.
LEMMA ClearKeepsCells ==
  ASSUME TypeInv, IInv, NEW c \in Consumers, NEW i \in Offsets, DeqClearRank(c, i)
  PROVE  /\ CellsInv' /\ ProducerInv' /\ RangesInv' /\ MasksInv' /\ FoundInv'
         /\ OutInv' /\ PassedInv' /\ SkippedAreLost'
<1> DEFINE t == base[c] + i
           w == Slot(t)
<1>0. /\ ranks \in [Slots -> Nat \cup {EMPTY_CELL}] /\ tail \in Nat /\ passed \subseteq Nat
  BY DEF TypeInv, TypeOK
<1>1. /\ cpc[c] = "clear" /\ i \in todo[c] /\ i \notin skipped[c]
      /\ skipped[c] = {j \in Offsets : base[c] + j \in passed}
      /\ t \in Nat /\ w \in Slots /\ ranks[w] = t /\ ranks'[w] = EMPTY_CELL
      /\ \A s \in Slots \ {w} : ranks'[s] = ranks[s]
      /\ UNCHANGED <<gaps, datas, head, tail, ppc, sent, base, skipped, out, passed>>
      /\ todo'[c] = todo[c] \ {i} /\ todo[c] \subseteq Offsets \ skipped[c]
      /\ cpc'[c] \in {"clear", "idle"}
  BY ClearFacts
<1>2. ASSUME NEW d \in Consumers \ {c}
      PROVE  /\ cpc'[d] = cpc[d] /\ pending'[d] = pending[d] /\ ready'[d] = ready[d]
             /\ todo'[d] = todo[d]
  BY ClearFacts, ZenonT(30)
<1>3. \A d \in Consumers : cpc'[d] # "idle" => cpc[d] # "idle"
  BY <1>1, <1>2
<1>4. CellsInv'
  BY <1>1 DEF IInv, CellsInv, Busy, Slot, EMPTY_CELL
<1>5. ProducerInv'
  <2>1. Slot(tail) \in Slots
    BY <1>0, SlotType
  <2> QED
    BY <1>1, <2>1 DEF IInv, ProducerInv, Slot
<1>6. RangesInv'
  <2>1. RangesInv
    BY DEF IInv
  <2> QED
    BY <1>1, <1>3, <2>1 DEF RangesInv
<1>7. MasksInv'
  <2> SUFFICES ASSUME NEW d \in Consumers PROVE MasksOf(d)'
    BY DEF MasksInv
  <2>1. MasksOf(d)
    BY DEF IInv, MasksInv
  <2>2. {j \in Offsets : base'[d] + j \in passed'} = {j \in Offsets : base[d] + j \in passed}
    BY <1>1
  <2>3. CASE d = c
    BY <1>1, <2>2, <2>3 DEF MasksOf
  <2>4. CASE d # c
    BY <1>1, <1>2, <2>1, <2>2, <2>4 DEF MasksOf
  <2> QED
    BY <2>3, <2>4
<1>8. FoundInv'
  <2> SUFFICES ASSUME NEW d \in Consumers, NEW j \in Found(d)'
               PROVE  ranks'[Slot(base[d] + j)] = base[d] + j
    BY <1>1 DEF FoundInv, Matches, Slot
  <2>1. CASE d = c
    <3>1. j \in todo[c] \ {i}
      BY <1>1, <2>1 DEF Found
    <3>2. j \in Offsets /\ j \in Found(c)
      BY <1>1, <3>1 DEF Found
    <3>3. ranks[Slot(base[c] + j)] = base[c] + j
      BY <3>2 DEF IInv, FoundInv, Matches
    <3>4. Slot(base[c] + j) # w /\ Slot(base[c] + j) \in Slots
      BY <3>1, <3>2, TicketType, OffsetSlots
    <3> QED
      BY <1>1, <2>1, <3>3, <3>4
  <2>2. CASE d # c
    <3>1. Found(d)' = Found(d)
      BY <1>1, <1>2, <2>2, Zenon DEF Found
    <3>2. j \in Offsets /\ cpc[d] # "idle"
      <4>1. /\ pending \in [Consumers -> SUBSET Offsets]
            /\ skipped \in [Consumers -> SUBSET Offsets]
            /\ todo \in [Consumers -> SUBSET Offsets]
        BY DEF TypeInv, TypeOK
      <4> QED
        BY <3>1, <4>1 DEF Found
    <3>3. ranks[Slot(base[d] + j)] = base[d] + j
      BY <3>1 DEF IInv, FoundInv, Matches
    <3>4. base[d] + j # t
      BY <1>1, <2>2, <3>2, Apart DEF IInv
    <3>5. Slot(base[d] + j) \in Slots
      BY <3>2, TicketType
    <3> QED
      BY <1>1, <3>3, <3>4, <3>5
  <2> QED
    BY <2>1, <2>2
<1>9. OutInv'
  <2> SUFFICES ASSUME NEW d \in Consumers, cpc'[d] = "clear" PROVE Copied(d)'
    BY DEF OutInv
  <2>1. Copied(d)
    BY <1>1, <1>2 DEF IInv, OutInv
  <2>2. out' = out /\ skipped' = skipped /\ base' = base
    BY <1>1
  <2> QED
    BY <2>1, <2>2 DEF Copied
<1>10. PassedInv'
  BY <1>1 DEF IInv, PassedInv
<1>11. SkippedAreLost'
  <2> SUFFICES ASSUME NEW u \in passed PROVE u = tail \/ ranks'[Slot(u)] = u
    BY <1>1 DEF SkippedAreLost, Slot
  <2>1. u = tail \/ ranks[Slot(u)] = u
    BY DEF IInv, SkippedAreLost
  <2>2. u # t
    BY <1>1
  <2>3. Slot(u) \in Slots
    BY <1>0, SlotType
  <2> QED
    BY <1>1, <2>1, <2>2, <2>3
<1> QED
  BY <1>4, <1>5, <1>6, <1>7, <1>8, <1>9, <1>10, <1>11

\* Emptying a cell that is not the last one takes its item in hand.
LEMMA ClearOneKeepsInv ==
  ASSUME TypeInv, IInv, NEW c \in Consumers, NEW i \in Offsets, DeqClearRank(c, i),
         todo[c] # {i}
  PROVE  HandInv' /\ GotInv' /\ StoredInv' /\ DrawnInv'
<1> DEFINE t == base[c] + i
           w == Slot(t)
<1>1. /\ cpc[c] = "clear" /\ cpc'[c] = "clear" /\ i \in todo[c] /\ i \notin skipped[c]
      /\ t \in Nat /\ t < tail /\ w \in Slots /\ ranks[w] = t /\ ranks'[w] = EMPTY_CELL
      /\ \A s \in Slots \ {w} : ranks'[s] = ranks[s]
      /\ \A s \in Slots : ranks'[s] # t
      /\ UNCHANGED <<head, tail, base, skipped, passed, timedOut, got>>
      /\ todo'[c] = todo[c] \ {i}
  BY ClearFacts
<1>2. \A d \in Consumers : cpc'[d] = cpc[d]
  BY <1>1, ClearFacts
<1>3. InHand(c)' = InHand(c) \cup {t}
  BY <1>1 DEF InHand
<1>4. ASSUME NEW d \in Consumers, d # c PROVE InHand(d)' = InHand(d)
  <2>1. cpc'[d] = cpc[d] /\ todo'[d] = todo[d]
    BY <1>4, ClearFacts
  <2> QED
    BY <1>1, <2>1 DEF InHand
<1>5. HandInv'
  <2> SUFFICES ASSUME NEW d \in Consumers, NEW u \in InHand(d)'
               PROVE  u < tail /\ \A s \in Slots : ranks'[s] # u
    BY <1>1 DEF HandInv
  <2>1. CASE u = t
    BY <1>1, <2>1
  <2>2. CASE u # t
    <3>1. u \in InHand(d)
      BY <1>3, <1>4, <2>2
    <3>2. u < tail /\ u \in Nat /\ \A s \in Slots : ranks[s] # u
      BY <3>1, HandHolds, TicketType DEF IInv, HandInv
    <3> QED
      BY <1>1, <3>2 DEF EMPTY_CELL
  <2> QED
    BY <2>1, <2>2
<1>6. \A d \in Consumers : \A u : Holds(d, u)' <=> Holds(d, u)
  BY <1>1, <1>2 DEF Holds, Tickets
<1>7. GotInv'
  <2> SUFFICES ASSUME NEW d \in Consumers, NEW n \in DOMAIN got[d]
               PROVE  /\ got[d][n] < head
                      /\ got[d][n] < tail
                      /\ \A s \in Slots : ranks'[s] # got[d][n]
                      /\ \A e \in Consumers : ~Holds(e, got[d][n])
                      /\ cpc[d] # "idle" => got[d][n] < base[d]
    BY <1>1, <1>2 DEF GotInv, Holds, Tickets
  <2>1. /\ got[d][n] < head
        /\ got[d][n] < tail
        /\ \A s \in Slots : ranks[s] # got[d][n]
        /\ \A e \in Consumers : ~Holds(e, got[d][n])
        /\ cpc[d] # "idle" => got[d][n] < base[d]
    BY DEF IInv, GotInv
  <2>2. got[d][n] \in Nat
    BY DEF TypeInv, TypeOK
  <2> QED
    BY <1>1, <2>1, <2>2 DEF EMPTY_CELL
<1>8. StoredInv'
  <2> SUFFICES ASSUME NEW u \in 0 .. tail - 1
               PROVE  \/ ranks'[Slot(u)] = u
                      \/ \E d \in Consumers : u \in InHand(d)'
                      \/ u \in Returned
    BY <1>1 DEF StoredInv, Returned, Slot
  <2>1. CASE ranks[Slot(u)] = u
    <3>1. Slot(u) \in Slots
      BY SlotType DEF TypeInv, TypeOK
    <3>2. CASE Slot(u) = w
      BY <1>1, <1>3, <2>1, <3>2
    <3>3. CASE Slot(u) # w
      BY <1>1, <2>1, <3>1, <3>3
    <3> QED
      BY <3>2, <3>3
  <2>2. ASSUME NEW d \in Consumers, u \in InHand(d) PROVE u \in InHand(d)'
    BY <1>3, <1>4, <2>2
  <2> QED
    BY <2>1, <2>2 DEF IInv, StoredInv
<1>9. DrawnInv'
  BY <1>1, <1>6 DEF IInv, DrawnInv, Returned
<1> QED
  BY <1>5, <1>7, <1>8, <1>9

\* The last cell emptied, the call returns what it copied out: the items of
\* its tickets that it did not skip.
LEMMA ClearLastKeepsInv ==
  ASSUME TypeInv, IInv, NEW c \in Consumers, NEW i \in Offsets, DeqClearRank(c, i),
         todo[c] = {i}
  PROVE  HandInv' /\ GotInv' /\ StoredInv' /\ DrawnInv'
<1> DEFINE t == base[c] + i
           w == Slot(t)
           kept == Offsets \ skipped[c]
<1>0. /\ got \in [Consumers -> Seq(Nat)] /\ out[c] \in Seq(Nat) /\ tail \in Nat /\ head \in Nat
      /\ got[c] \in Seq(Nat)
  BY DEF TypeInv, TypeOK
<1>1. /\ cpc[c] = "clear" /\ cpc'[c] = "idle" /\ i \in kept
      /\ skipped[c] = {j \in Offsets : base[c] + j \in passed}
      /\ t \in Nat /\ t < tail /\ w \in Slots /\ ranks[w] = t /\ ranks'[w] = EMPTY_CELL
      /\ \A s \in Slots \ {w} : ranks'[s] = ranks[s]
      /\ \A s \in Slots : ranks'[s] # t
      /\ UNCHANGED <<head, tail, base, skipped, passed, timedOut>>
      /\ got' = [got EXCEPT ![c] = @ \o out[c]]
  <2>1. /\ cpc[c] = "clear" /\ cpc'[c] = "idle" /\ i \in kept
        /\ got' = [got EXCEPT ![c] = @ \o out[c]]
    BY ClearFacts
  <2>2. /\ skipped[c] = {j \in Offsets : base[c] + j \in passed}
        /\ UNCHANGED <<head, tail, base, skipped, passed, timedOut>>
    BY ClearFacts
  <2>3. /\ t \in Nat /\ t < tail /\ w \in Slots /\ ranks[w] = t /\ ranks'[w] = EMPTY_CELL
        /\ \A s \in Slots \ {w} : ranks'[s] = ranks[s]
        /\ \A s \in Slots : ranks'[s] # t
    <3>1. t \in Nat /\ t < tail /\ w \in Slots
      BY ClearFacts, Zenon
    <3>2. ranks[w] = t /\ ranks'[w] = EMPTY_CELL
      BY ClearFacts, Zenon
    <3>3. ASSUME NEW s \in Slots \ {w} PROVE ranks'[s] = ranks[s]
      BY ClearFacts, Zenon
    <3>4. ASSUME NEW s \in Slots PROVE ranks'[s] # t
      <4>1. \A r \in Slots : ranks'[r] # base[c] + i
        BY ONLY TypeInv, IInv, i \in Offsets, DeqClearRank(c, i), ClearFacts, Zenon
      <4> QED
        BY <4>1
    <3> QED
      BY <3>1, <3>2, <3>3, <3>4
  <2> HIDE DEF t, w, kept
  <2> QED
    BY <2>1, <2>2, <2>3
<1>2. ASSUME NEW d \in Consumers, d # c
      PROVE  cpc'[d] = cpc[d] /\ todo'[d] = todo[d] /\ InHand(d)' = InHand(d) /\ got'[d] = got[d]
  <2>1. cpc'[d] = cpc[d] /\ todo'[d] = todo[d]
    BY <1>2, ClearFacts, ZenonT(30)
  <2>2. got'[d] = got[d]
    BY <1>0, <1>1, <1>2
  <2> QED
    BY <1>1, <2>1, <2>2 DEF InHand
<1>3. /\ InHand(c) = {base[c] + j : j \in kept \ {i}} /\ InHand(c)' = {}
  BY <1>1 DEF InHand
<1>4. {out[c][n] : n \in DOMAIN out[c]} = {base[c] + j : j \in kept}
  BY ClearFacts DEF Copied
\* What is in nobody's cell any more: an item returned before or now.
<1>5. /\ \A n \in DOMAIN got[c] : n \in DOMAIN got'[c] /\ got'[c][n] = got[c][n]
      /\ \A n \in DOMAIN out[c] : \E m \in DOMAIN got'[c] : got'[c][m] = out[c][n]
      /\ \A m \in DOMAIN got'[c] : \/ m \in DOMAIN got[c] /\ got'[c][m] = got[c][m]
                                   \/ \E n \in DOMAIN out[c] : got'[c][m] = out[c][n]
  <2>1. got'[c] = got[c] \o out[c]
    BY <1>0, <1>1
  <2>2. PICK a \in Nat, b \in Nat : /\ DOMAIN got[c] = 1 .. a /\ DOMAIN out[c] = 1 .. b
                                 /\ a = Len(got[c]) /\ b = Len(out[c])
    BY <1>0
  <2>3. DOMAIN got'[c] = 1 .. a + b
    BY <1>0, <2>1, <2>2
  <2>4. ASSUME NEW n \in 1 .. a PROVE n \in 1 .. a + b /\ got'[c][n] = got[c][n]
    BY <1>0, <2>1, <2>2
  <2>5. ASSUME NEW n \in 1 .. b PROVE a + n \in 1 .. a + b /\ got'[c][a + n] = out[c][n]
    BY <1>0, <2>1, <2>2
  <2>6. ASSUME NEW m \in 1 .. a + b
        PROVE  \/ m \in 1 .. a /\ got'[c][m] = got[c][m]
               \/ \E n \in 1 .. b : got'[c][m] = out[c][n]
    <3>1. CASE m =< a
      BY <2>4, <3>1
    <3>2. CASE ~(m =< a)
      <4>1. PICK n \in 1 .. b : m = a + n
        <5>1. m - a \in 1 .. b /\ m = a + (m - a)
          BY <3>2
        <5> QED
          BY <5>1
      <4> QED
        BY <2>5, <4>1
    <3> QED
      BY <3>1, <3>2
  <2>7. \A n \in DOMAIN got[c] : n \in DOMAIN got'[c] /\ got'[c][n] = got[c][n]
    BY <2>2, <2>3, <2>4
  <2>8. \A n \in DOMAIN out[c] : \E m \in DOMAIN got'[c] : got'[c][m] = out[c][n]
    BY <2>2, <2>3, <2>5
  <2>9. \A m \in DOMAIN got'[c] : \/ m \in DOMAIN got[c] /\ got'[c][m] = got[c][m]
                                 \/ \E n \in DOMAIN out[c] : got'[c][m] = out[c][n]
    BY <2>2, <2>3, <2>6
  <2> QED
    BY <2>7, <2>8, <2>9
<1>6. got' \in [Consumers -> Seq(Nat)]
  BY <1>0, <1>1
<1>7. \A u : u \in Returned' <=> u \in Returned \/ \E j \in kept : u = base[c] + j
  <2>1. \A u : u \in Returned <=> \E d \in Consumers : \E n \in DOMAIN got[d] : got[d][n] = u
    BY <1>0 DEF Returned, ToSet
  <2>2. \A u : u \in Returned' <=> \E d \in Consumers : \E n \in DOMAIN got'[d] : got'[d][n] = u
    BY <1>6 DEF Returned, ToSet
  <2>3. ASSUME NEW u PROVE (\E j \in kept : u = base[c] + j) <=> \E n \in DOMAIN out[c] : out[c][n] = u
    BY <1>4
  <2>4. ASSUME NEW u, NEW d \in Consumers, NEW n \in DOMAIN got[d], got[d][n] = u
        PROVE  \E m \in DOMAIN got'[d] : got'[d][m] = u
    BY <1>2, <1>5, <2>4
  <2>5. ASSUME NEW u, NEW d \in Consumers, NEW m \in DOMAIN got'[d], got'[d][m] = u
        PROVE  \/ \E n \in DOMAIN got[d] : got[d][n] = u
               \/ \E n \in DOMAIN out[c] : out[c][n] = u
    <3>1. CASE d = c
      BY <1>5, <2>5, <3>1
    <3>2. CASE d # c
      BY <1>2, <2>5, <3>2
    <3> QED
      BY <3>1, <3>2
  <2>6. ASSUME NEW u, NEW n \in DOMAIN out[c], out[c][n] = u PROVE u \in Returned'
    BY <1>5, <2>2, <2>6
  <2>7. ASSUME NEW u, u \in Returned PROVE u \in Returned'
    BY <2>1, <2>2, <2>4, <2>7
  <2>8. ASSUME NEW u, u \in Returned' PROVE u \in Returned \/ \E j \in kept : u = base[c] + j
    <3>1. PICK d \in Consumers : \E m \in DOMAIN got'[d] : got'[d][m] = u
      BY <2>2, <2>8
    <3>2. \/ \E n \in DOMAIN got[d] : got[d][n] = u
          \/ \E n \in DOMAIN out[c] : out[c][n] = u
      BY <2>5, <3>1
    <3> QED
      BY <2>1, <2>3, <3>2
  <2>9. ASSUME NEW u, \E j \in kept : u = base[c] + j PROVE u \in Returned'
    BY <2>3, <2>6, <2>9
  <2> QED
    BY <2>7, <2>8, <2>9
\* The items that the call returns.
<1>8. ASSUME NEW j \in kept
      PROVE  /\ base[c] + j \in Nat /\ base[c] + j < head /\ base[c] + j < tail
             /\ \A s \in Slots : ranks'[s] # base[c] + j
             /\ \A d \in Consumers : ~Holds(d, base[c] + j)'
  <2>1. j \in Offsets /\ base[c] + j \in Nat /\ j \in Nat /\ j < K /\ base[c] \in Nat /\ K \in Nat
    BY TicketType, SizeAssumption
  <2>2. base[c] + j < head
    <3>1. base[c] + K =< head
      BY <1>1 DEF IInv, RangesInv
    <3> QED
      BY <1>0, <2>1, <3>1
  <2>3. base[c] + j < tail /\ \A s \in Slots : ranks'[s] # base[c] + j
    <3>1. CASE j = i
      BY <1>1, <3>1
    <3>2. CASE j # i
      <4>1. base[c] + j \in InHand(c)
        BY <1>3, <3>2
      <4>2. base[c] + j < tail /\ \A s \in Slots : ranks[s] # base[c] + j
        BY <4>1 DEF IInv, HandInv
      <4> QED
        BY <1>1, <2>1, <4>2 DEF EMPTY_CELL
    <3> QED
      BY <3>1, <3>2
  <2>4. ASSUME NEW d \in Consumers, cpc'[d] # "idle", NEW k \in Offsets PROVE base[c] + j # base[d] + k
    <3>1. d # c /\ cpc[d] # "idle"
      BY <1>1, <1>2, <2>4
    <3> QED
      BY <1>1, <2>1, <3>1, Apart DEF IInv
  <2>5. \A d \in Consumers : ~Holds(d, base[c] + j)'
    <3>1. base' = base
      BY <1>1
    <3> QED
      BY <2>4, <3>1 DEF Holds, Tickets
  <2> QED
    BY <2>1, <2>2, <2>3, <2>5
<1>9. HandInv'
  <2> SUFFICES ASSUME NEW d \in Consumers, NEW u \in InHand(d)'
               PROVE  u < tail /\ \A s \in Slots : ranks'[s] # u
    BY <1>1 DEF HandInv
  <2>1. u \in InHand(d)
    BY <1>2, <1>3
  <2>2. u < tail /\ u \in Nat /\ \A s \in Slots : ranks[s] # u
    BY <2>1, HandHolds, TicketType DEF IInv, HandInv
  <2> QED
    BY <1>1, <2>2 DEF EMPTY_CELL
<1>10. \A d \in Consumers : cpc'[d] # "idle" => cpc[d] # "idle" /\ d # c
  BY <1>1, <1>2
<1>11. ASSUME NEW d \in Consumers, NEW n \in DOMAIN got[d]
       PROVE  /\ got[d][n] \in Nat /\ got[d][n] < head /\ got[d][n] < tail
              /\ \A s \in Slots : ranks'[s] # got[d][n]
              /\ \A e \in Consumers : ~(cpc'[e] # "idle" /\ got[d][n] \in Tickets(e))
              /\ cpc'[d] # "idle" => got[d][n] < base[d]
  <2>1. /\ got[d][n] < head
        /\ got[d][n] < tail
        /\ \A s \in Slots : ranks[s] # got[d][n]
        /\ \A e \in Consumers : ~Holds(e, got[d][n])
        /\ cpc[d] # "idle" => got[d][n] < base[d]
    BY DEF IInv, GotInv
  <2>2. got[d][n] \in Nat
    BY <1>0
  <2>3. \A s \in Slots : ranks'[s] # got[d][n]
    BY <1>1, <2>1, <2>2 DEF EMPTY_CELL
  <2>4. \A e \in Consumers : ~(cpc'[e] # "idle" /\ got[d][n] \in Tickets(e))
    BY <1>10, <2>1 DEF Holds
  <2> QED
    BY <1>10, <2>1, <2>2, <2>3, <2>4
<1>12. GotInv'
  <2> SUFFICES ASSUME NEW d \in Consumers, NEW m \in DOMAIN got'[d]
               PROVE  /\ got'[d][m] < head
                      /\ got'[d][m] < tail
                      /\ \A s \in Slots : ranks'[s] # got'[d][m]
                      /\ \A e \in Consumers : ~(cpc'[e] # "idle" /\ got'[d][m] \in Tickets(e))
                      /\ cpc'[d] # "idle" => got'[d][m] < base[d]
    <3>1. /\ \A e \in Consumers : Tickets(e)' = Tickets(e)
          /\ head' = head /\ tail' = tail /\ base' = base
      BY <1>1 DEF Tickets
    <3> QED
      BY <3>1 DEF GotInv, Holds
  <2>1. CASE m \in DOMAIN got[d] /\ got'[d][m] = got[d][m]
    BY <1>11, <2>1
  <2>2. CASE d = c /\ \E n \in DOMAIN out[c] : got'[c][m] = out[c][n]
    <3>1. PICK j \in kept : got'[c][m] = base[c] + j
      BY <1>4, <2>2
    <3>2. \A e \in Consumers : ~(cpc'[e] # "idle" /\ base[c] + j \in Tickets(e))
      <4>1. base' = base
        BY <1>1
      <4> QED
        BY <1>8, <4>1 DEF Holds, Tickets
    <3> QED
      BY <1>1, <1>8, <2>2, <3>1, <3>2
  <2>3. CASE d # c
    BY <1>2, <2>1, <2>3
  <2> QED
    BY <1>5, <2>1, <2>2, <2>3
<1>13. StoredInv'
  <2> SUFFICES ASSUME NEW u \in 0 .. tail - 1
               PROVE  \/ ranks'[Slot(u)] = u
                      \/ \E d \in Consumers : u \in InHand(d)'
                      \/ u \in Returned'
    BY <1>1 DEF StoredInv, Slot
  <2>1. CASE ranks[Slot(u)] = u
    <3>1. Slot(u) \in Slots
      BY SlotType, <1>0
    <3>2. CASE Slot(u) = w
      BY <1>1, <1>7, <2>1, <3>2
    <3>3. CASE Slot(u) # w
      BY <1>1, <2>1, <3>1, <3>3
    <3> QED
      BY <3>2, <3>3
  <2>2. ASSUME NEW d \in Consumers, u \in InHand(d) PROVE u \in InHand(d)' \/ u \in Returned'
    <3>1. CASE d = c
      BY <1>3, <1>7, <2>2, <3>1
    <3>2. CASE d # c
      BY <1>2, <2>2, <3>2
    <3> QED
      BY <3>1, <3>2
  <2>3. CASE u \in Returned
    BY <1>7, <2>3
  <2> QED
    BY <2>1, <2>2, <2>3 DEF IInv, StoredInv
<1>14. DrawnInv'
  <2> SUFFICES ASSUME NEW u \in 0 .. head - 1
               PROVE  \/ \E d \in Consumers : cpc'[d] # "idle" /\ u \in Tickets(d)
                      \/ u \in timedOut \cup passed
                      \/ u \in Returned'
    BY <1>1 DEF DrawnInv, Holds, Tickets
  <2>1. ASSUME NEW d \in Consumers, Holds(d, u)
        PROVE  (cpc'[d] # "idle" /\ u \in Tickets(d)) \/ u \in passed \/ u \in Returned'
    <3>1. CASE d = c
      <4>1. PICK j \in Offsets : u = base[c] + j
        BY <2>1, <3>1 DEF Holds, Tickets
      <4> QED
        BY <1>1, <1>7, <4>1
    <3>2. CASE d # c
      BY <1>2, <2>1, <3>2 DEF Holds
    <3> QED
      BY <3>1, <3>2
  <2>2. CASE u \in Returned
    BY <1>7, <2>2
  <2> QED
    BY <2>1, <2>2 DEF IInv, DrawnInv
<1> QED
  BY <1>9, <1>12, <1>13, <1>14

\* Every step of a dequeue call keeps the invariant.
LEMMA ConsumerKeepsInv ==
  ASSUME TypeInv, IInv, NEW c \in Consumers, Consumer(c)
  PROVE  IInv'
<1>0. cpc \in [Consumers -> Steps]
  BY DEF TypeInv, TypeOK, Steps
<1>1. CASE DeqDraw(c)
  <2>1. /\ cpc[c] = "idle" /\ StartRange(c, 1) /\ cpc'[c] = "ranks"
        /\ \A d \in Consumers \ {c} : cpc'[d] = cpc[d]
        /\ UNCHANGED <<windows, producer, out, got, passed, timedOut>>
    BY <1>0, <1>1 DEF DeqDraw, history
  <2> QED
    BY <2>1, StartKeepsInv
<1>2. CASE DeqRedraw(c)
  <2>1. /\ cpc[c] = "redraw" /\ StartRange(c, retry[c] + 1)
        /\ \A d \in Consumers \ {c} : cpc'[d] = cpc[d]
        /\ \/ cpc'[c] = "ranks" /\ timedOut' = timedOut
           \/ cpc'[c] = "idle" /\ timedOut' = timedOut \cup {head + i : i \in Offsets}
        /\ UNCHANGED <<windows, producer, out, got, passed>>
    BY <1>0, <1>2 DEF DeqRedraw
  <2> QED
    BY <2>1, StartKeepsInv
<1>3. ASSUME NEW i \in Offsets, DeqClearRank(c, i) PROVE IInv'
  <2>1. HandInv' /\ GotInv' /\ StoredInv' /\ DrawnInv'
    BY <1>3, ClearOneKeepsInv, ClearLastKeepsInv
  <2> QED
    BY <1>3, <2>1, ClearKeepsCells DEF IInv
<1> QED
  BY <1>1, <1>2, <1>3, ReadRankKeepsInv, ReadGapKeepsInv, RecheckKeepsInv, GetDataKeepsInv
     DEF Consumer

\* The inductive invariant holds in every reachable state.
THEOREM Invariant == Spec => [](TypeInv /\ IInv)
<1>1. Init => IInv
  <2> SUFFICES ASSUME Init PROVE IInv
    OBVIOUS
  <2>0. \A c \in Consumers : cpc[c] = "idle" /\ skipped[c] = {} /\ got[c] = <<>>
    BY DEF Init
  <2>1. CellsInv /\ ProducerInv /\ PassedInv /\ SkippedAreLost
    BY DEF Init, CellsInv, ProducerInv, PassedInv, SkippedAreLost, Busy, EMPTY_CELL
  <2>2. RangesInv /\ MasksInv /\ OutInv
    BY <2>0 DEF RangesInv, MasksInv, MasksOf, OutInv
  <2>3. FoundInv /\ HandInv
    BY <2>0 DEF FoundInv, HandInv, Found, InHand
  <2>4. GotInv
    BY <2>0 DEF GotInv
  <2>5. StoredInv /\ DrawnInv
    BY DEF Init, StoredInv, DrawnInv
  <2> QED
    BY <2>1, <2>2, <2>3, <2>4, <2>5 DEF IInv
<1>2. TypeInv /\ IInv /\ [Next]_vars => IInv'
  <2> SUFFICES ASSUME TypeInv, IInv, [Next]_vars PROVE IInv'
    OBVIOUS
  <2>1. CASE UNCHANGED vars
    <3>0. UNCHANGED <<head, tail, ranks, gaps, datas, ppc, consumer>>
      BY <2>1 DEF vars, windows, producer
    <3>1. /\ \A s \in Slots : Busy(s) => datas'[s] = datas[s]
          /\ \A s \in Slots : gaps'[s] =< tail
          /\ ProducerInv'
      BY <3>0 DEF IInv, CellsInv, ProducerInv, Slot
    <3> QED
      BY <3>0, <3>1, ProducerFrame
  <2> QED
    BY <2>1, ProducerKeepsInv, ConsumerKeepsInv DEF Next
<1> QED
  BY <1>1, <1>2, TypeCorrect, PTL DEF Spec

\* The MPI_Get of a whole range never reads a cell that the producer is
\* writing and whose value it then returns: what it returns was found, and
\* the producer writes into cells that are empty.
THEOREM NoRaceHolds == Spec => []NoRace
<1>1. TypeInv /\ IInv => NoRace
  <2> SUFFICES ASSUME TypeInv, IInv, NEW c \in Consumers, ppc = "put", cpc[c] = "get",
                      NEW i \in Offsets \ skipped[c], Slot(base[c] + i) = Slot(tail)
               PROVE  FALSE
    BY DEF NoRace
  <2>1. ranks[Slot(base[c] + i)] = base[c] + i
    BY DEF IInv, FoundInv, Found, Matches
  <2>2. ranks[Slot(tail)] = EMPTY_CELL
    BY DEF IInv, ProducerInv
  <2>3. base[c] + i \in Nat
    BY TicketType
  <2> QED
    BY <2>1, <2>2, <2>3 DEF EMPTY_CELL
<1> QED
  BY <1>1, Invariant, PTL

\* Every item published is in exactly one place, also while a call empties the
\* cells of its range one after the other.
THEOREM ConservedHolds == Spec => []Conserved
<1>1. TypeInv /\ IInv => Conserved
  <2> SUFFICES ASSUME TypeInv, IInv, NEW t \in 0 .. tail - 1
               PROVE  Cardinality({c \in Consumers : t \in InHand(c)})
                        + (IF ranks[Slot(t)] = t THEN 1 ELSE 0)
                        + (IF t \in Returned THEN 1 ELSE 0) = 1
    BY DEF Conserved
  <2> DEFINE holders == {c \in Consumers : t \in InHand(c)}
  <2>1. t \in Nat /\ Slot(t) \in Slots /\ got \in [Consumers -> Seq(Nat)]
    BY SlotType DEF TypeInv, TypeOK
  <2>2. ASSUME NEW c \in Consumers, t \in InHand(c)
        PROVE  holders = {c} /\ ranks[Slot(t)] # t /\ t \notin Returned
    <3>1. cpc[c] = "clear" /\ Holds(c, t) /\ \E i \in Offsets : t = base[c] + i
      BY <2>2, HandHolds
    <3>2. ASSUME NEW d \in Consumers, d # c PROVE t \notin InHand(d)
      <4>1. ASSUME t \in InHand(d) PROVE cpc[d] = "clear" /\ \E i \in Offsets : t = base[d] + i
        BY <4>1, HandHolds
      <4>2. RangesInv
        BY DEF IInv
      <4> QED
        BY <3>1, <3>2, <4>1, <4>2, Apart
    <3>3. ranks[Slot(t)] # t
      BY <2>1, <2>2 DEF IInv, HandInv
    <3>4. t \notin Returned
      BY <2>1, <3>1 DEF IInv, GotInv, Returned, ToSet
    <3> QED
      BY <2>2, <3>2, <3>3, <3>4
  <2>3. t \in Returned => ranks[Slot(t)] # t
    BY <2>1 DEF IInv, GotInv, Returned, ToSet
  <2>4. \/ ranks[Slot(t)] = t
        \/ \E c \in Consumers : t \in InHand(c)
        \/ t \in Returned
    BY DEF IInv, StoredInv
  <2>5. CASE \A c \in Consumers : t \notin InHand(c)
    <3>1. Cardinality(holders) = 0
      <4>1. holders = {}
        BY <2>5
      <4> QED
        BY <4>1, FS_EmptySet
    <3>2. ranks[Slot(t)] = t \/ t \in Returned
      BY <2>4, <2>5
    <3> HIDE DEF holders
    <3>3. Cardinality(holders) + (IF ranks[Slot(t)] = t THEN 1 ELSE 0)
            + (IF t \in Returned THEN 1 ELSE 0) = 1
      BY <2>3, <3>1, <3>2
    <3> QED
      BY <3>3, Zenon DEF holders
  <2>6. CASE \E c \in Consumers : t \in InHand(c)
    <3>1. PICK c \in Consumers : t \in InHand(c)
      BY <2>6
    <3>2. Cardinality(holders) = 1
      BY <2>2, <3>1, FS_Singleton
    <3>3. ranks[Slot(t)] # t /\ t \notin Returned
      BY <2>2, <3>1
    <3> HIDE DEF holders
    <3>4. Cardinality(holders) + (IF ranks[Slot(t)] = t THEN 1 ELSE 0)
            + (IF t \in Returned THEN 1 ELSE 0) = 1
      BY <3>2, <3>3
    <3> QED
      BY <3>4, Zenon DEF holders
  <2> QED
    BY <2>5, <2>6
<1> QED
  BY <1>1, Invariant, PTL

\* An item whose ticket was drawn is lost only to a limit of the call that
\* drew it, or to the double check.
THEOREM OnlyGivenUpAreLostHolds == Spec => []OnlyGivenUpAreLost
<1>1. TypeInv /\ IInv => OnlyGivenUpAreLost
  <2> SUFFICES ASSUME TypeInv, IInv, NEW s \in Slots, Busy(s), ranks[s] < head
               PROVE  \/ \E c \in Consumers : Holds(c, ranks[s])
                      \/ ranks[s] \in timedOut \cup passed
    BY DEF OnlyGivenUpAreLost
  <2>1. /\ ranks[s] \in 0 .. head - 1 /\ got \in [Consumers -> Seq(Nat)]
    BY DEF TypeInv, TypeOK, Busy, EMPTY_CELL
  <2>2. ranks[s] \notin Returned
    BY <2>1 DEF IInv, GotInv, Returned, ToSet
  <2> QED
    BY <2>1, <2>2 DEF IInv, DrawnInv
<1> QED
  BY <1>1, Invariant, PTL

\* Where everything is: each item in one place, and lost by a known rule only.
THEOREM AccountedHolds == Spec => []Accounted
<1>1. Conserved /\ OnlyGivenUpAreLost => Accounted
  BY DEF Accounted
<1> QED
  BY <1>1, ConservedHolds, OnlyGivenUpAreLostHolds, PTL

\* A ticket that the double check gave up is the producer's next one, or its
\* item is in its cell: the skip loses whatever the producer puts there.
THEOREM SkippedAreLostHolds == Spec => []SkippedAreLost
<1>1. IInv => SkippedAreLost
  BY DEF IInv
<1> QED
  BY <1>1, Invariant, PTL

\* A caller sees two steps of the batch bag: publishing a rank puts an item
\* in, and emptying the last cell of a range hands its items over.
LEMMA StepImplementsBatch ==
  ASSUME TypeInv, IInv, [Next]_vars
  PROVE  [Batch!Next]_(Batch!batchVars)
<1>0. tail \in Nat /\ K \in Nat \ {0}
  BY SizeAssumption DEF TypeInv, TypeOK
<1>1. CASE EnqPublish
  <2>1. tail' = tail + 1 /\ got' = got
    BY <1>1 DEF EnqPublish, consumer, history
  <2>2. tail' \in tail + 1 .. tail + K
    BY <1>0, <2>1
  <2> QED
    BY <2>1, <2>2 DEF Batch!Next, Batch!Put
<1>2. ASSUME NEW c \in Consumers, NEW i \in Offsets, DeqClearRank(c, i), todo[c] = {i}
      PROVE  [Batch!Next]_(Batch!batchVars)
  <2> DEFINE kept == Offsets \ skipped[c]
             open == (base[c] .. base[c] + K - 1) \cap (0 .. tail - 1)
  <2>1. /\ cpc[c] = "clear" /\ i \in kept /\ Copied(c) /\ tail' = tail
        /\ got' = [got EXCEPT ![c] = @ \o out[c]] /\ base[c] + i < tail
    BY <1>2, ClearFacts
  <2>2. InHand(c) = {base[c] + j : j \in kept \ {i}}
    BY <1>2, <2>1 DEF InHand
  <2>3. ASSUME NEW j \in kept PROVE base[c] + j \in open /\ Holds(c, base[c] + j)
    <3>1. base[c] + j < tail
      <4>1. CASE j = i
        BY <2>1, <4>1
      <4>2. CASE j # i
        BY <2>2, <4>2 DEF IInv, HandInv
      <4> QED
        BY <4>1, <4>2
    <3>2. /\ j \in Offsets /\ j \in Nat /\ base[c] \in Nat /\ j < K
      BY TicketType
    <3>3. base[c] + j \in open
      BY <1>0, <3>1, <3>2
    <3> QED
      BY <2>1, <3>2, <3>3 DEF Holds, Tickets
  <2>4. {out[c][n] : n \in DOMAIN out[c]} = {base[c] + j : j \in kept}
    BY <2>1 DEF Copied
  <2>5. /\ out[c] \in Seq(Nat) /\ Len(out[c]) \in 0 .. K
        /\ DOMAIN out[c] = 1 .. Len(out[c])
    BY <1>0, <2>1 DEF Copied, TypeInv, TypeOK
  <2>6. ASSUME NEW n \in DOMAIN out[c] PROVE out[c][n] \in open /\ Holds(c, out[c][n])
    <3>1. PICK j \in kept : out[c][n] = base[c] + j
      BY <2>4
    <3> HIDE DEF open
    <3> QED
      BY <2>3, <3>1
  <2>7. out[c] \in Batch!SeqOf(open, K)
    <3>1. out[c] \in [1 .. Len(out[c]) -> open]
      BY <2>5, <2>6
    <3> QED
      BY <2>5, <3>1 DEF Batch!SeqOf
  <2>8. out[c] # <<>>
    BY <2>1, <2>4, SMTT(30)
  <2>9. Batch!Ascending(out[c])
    BY <2>1 DEF Batch!Ascending, Copied
  <2>10. \A n \in DOMAIN out[c] : ~Batch!Handed(out[c][n])
    BY <2>6 DEF Batch!Handed, IInv, GotInv
  <2>11. \A n \in DOMAIN got[c] : got[c][n] < base[c]
    BY <2>1 DEF IInv, GotInv
  <2>12. Batch!Take(c, base[c])
    BY <2>1, <2>7, <2>8, <2>9, <2>10, <2>11 DEF Batch!Take
  <2>13. base[c] \in 0 .. tail - 1
    BY <1>0, <2>1, TicketType
  <2> QED
    BY <2>12, <2>13 DEF Batch!Next
<1>3. CASE Enqueue \/ EnqReadRank \/ EnqMarkGap \/ EnqPutData
  BY <1>3 DEF Enqueue, EnqReadRank, EnqMarkGap, EnqPutData, PastBusy, consumer, history,
              Batch!batchVars
<1>4. ASSUME NEW c \in Consumers,
             \/ DeqDraw(c) \/ DeqGetData(c) \/ DeqRedraw(c)
             \/ \E i \in Offsets : \/ DeqReadRank(c, i) \/ DeqReadGap(c, i) \/ DeqRecheck(c, i)
                                   \/ DeqClearRank(c, i) /\ todo[c] # {i}
      PROVE  [Batch!Next]_(Batch!batchVars)
  <2>1. UNCHANGED producer /\ got' = got
    BY <1>4 DEF DeqDraw, DeqReadRank, DeqGetData, DeqReadGap, DeqRecheck, DeqRedraw,
                DeqClearRank, history
  <2> QED
    BY <2>1 DEF producer, Batch!batchVars
<1>5. CASE UNCHANGED vars
  BY <1>5 DEF vars, producer, consumer, history, Batch!batchVars
<1> QED
  BY <1>1, <1>2, <1>3, <1>4, <1>5 DEF Next, Producer, Consumer

\* Although a call decides its K tickets from reads that are no snapshot and
\* copies out all K cells, each item is returned at most once, only after it
\* was put, and in order to each consumer.
THEOREM Refinement == Spec => ImplementsBatch
<1>1. Init => Batch!Init
  BY DEF Init, Batch!Init
<1>2. TypeInv /\ IInv /\ [Next]_vars => [Batch!Next]_(Batch!batchVars)
  BY StepImplementsBatch
<1> QED
  BY <1>1, <1>2, Invariant, PTL DEF Spec, ImplementsBatch, Batch!Spec
=============================================================================
