------------------------ MODULE CircularQueue_proofs ------------------------
(***************************************************************************)
(* CircularQueue implements a FIFO queue of capacity Size, for every set   *)
(* of consumers, every size and every choice of batch lengths.             *)
(***************************************************************************)
EXTENDS CircularQueue, FiniteSetTheorems, TLAPS

\* TypeOK without the claim that head and tail and the positions drawn from
\* them are never negative: rollbacks subtract what their call added before.
TypeInv == /\ data \in [Slots -> Nat]
           /\ tail \in Int /\ head \in Int
           /\ reserved_tail \in Nat /\ reserved_head \in Nat
           /\ head_buf \in Nat
           /\ tail_buf \in [Consumers -> Nat]
           /\ ppc \in {"idle", "refresh", "rollback", "put", "commit"}
           /\ pold \in Int
           /\ cpc \in [Consumers -> Steps]
           /\ old \in [Consumers -> Int]
           /\ count \in [Consumers -> 0 .. Size]
           /\ out \in [Consumers -> Seq(Nat)]
           /\ accepted \in Nat
           /\ got \in [Consumers -> Seq(Nat)]

\* The producer's position is the next one; it is given back only if taken.
ProducerInv == /\ accepted = reserved_tail
               /\ ppc = "idle" => tail = reserved_tail
               /\ ppc # "idle" => pold = reserved_tail /\ tail = pold + 1

\* The cached counters are behind, and the ring holds at most Size items, the
\* one being written included.
CountersInv == /\ head_buf =< reserved_head
               /\ reserved_head =< reserved_tail
               /\ reserved_tail - reserved_head =< Size
               /\ ppc \in {"put", "commit"} => pold + 1 - reserved_head =< Size

\* Every committed item that was not taken is in its slot.
ContentsInv == /\ \A i \in reserved_head .. reserved_tail - 1 : data[Slot(i)] = i
               /\ ppc = "commit" => data[Slot(pold)] = pold

\* A call that was granted positions holds committed ones; and what it has
\* read of them is right unless reserved_head has passed them, in which case
\* it never commits.
ConsumerInvAt(c) ==
  /\ tail_buf[c] =< reserved_tail
  /\ cpc[c] # "idle" => count[c] >= 1
  /\ Granted(c) => old[c] + count[c] =< reserved_tail
  /\ cpc[c] = "getwrap" => /\ Len(out[c]) = Size - Slot(old[c])
                           /\ Len(out[c]) < count[c]
  /\ cpc[c] = "commit" => Len(out[c]) = count[c]
  /\ cpc[c] \in {"getwrap", "commit"} /\ old[c] >= reserved_head
       => \A j \in 1 .. Len(out[c]) : out[c][j] = old[c] + j - 1

ConsumerInv == \A c \in Consumers : ConsumerInvAt(c)

IInv == ProducerInv /\ CountersInv /\ ContentsInv /\ ConsumerInv
-----------------------------------------------------------------------------
\* Division with remainder.
LEMMA ModDiv ==
  ASSUME NEW n \in Nat \ {0}, NEW i \in Int
  PROVE  /\ (i % n) \in 0 .. n - 1
         /\ (i \div n) \in Int
         /\ i = n * (i \div n) + (i % n)
  BY Z3

\* The remainder is the only one.
LEMMA ModUnique ==
  ASSUME NEW n \in Nat \ {0}, NEW q \in Int, NEW r \in 0 .. n - 1
  PROVE  (n * q + r) % n = r
  BY Z3

\* Positions less than a ring's length apart have different slots.
LEMMA ModInjective ==
  ASSUME NEW n \in Nat \ {0}, NEW i \in Int, NEW j \in Int, i < j, j < i + n
  PROVE  i % n # j % n
<1>1. PICK p \in Int, q \in Int : i = n * p + (i % n) /\ j = n * q + (j % n)
  BY ModDiv
<1>2. i % n = j % n => j - i = n * (q - p)
  BY <1>1, ModDiv, Z3
<1>3. \A d \in Int : n * d < n => n * d =< 0
  <2>1. \A d \in Int : d >= 1 => n * d >= n
    BY Z3
  <2> QED
    BY <2>1, Z3
<1> QED
  BY <1>2, <1>3

\* The slots of a run of positions are consecutive up to the end of the ring ...
LEMMA ModPlus ==
  ASSUME NEW n \in Nat \ {0}, NEW i \in Int, NEW k \in Nat, (i % n) + k < n
  PROVE  (i + k) % n = (i % n) + k
  BY Z3

\* ... and go on from slot 0.
LEMMA ModWrap ==
  ASSUME NEW n \in Nat \ {0}, NEW i \in Int, NEW k \in Nat,
         n =< (i % n) + k, (i % n) + k < 2 * n
  PROVE  (i + k) % n = (i % n) + k - n
<1>1. PICK p \in Int : i = n * p + (i % n)
  BY ModDiv
<1>2. (i % n) \in Int
  BY ModDiv
<1>3. PICK r \in 0 .. n - 1 : r = (i % n) + k - n
  BY <1>2
<1>4. i + k = n * (p + 1) + r
  BY <1>1, <1>2, <1>3, Z3
<1>5. (n * (p + 1) + r) % n = r
  <2>1. p + 1 \in Int
    OBVIOUS
  <2> QED
    BY <2>1, ModUnique, Zenon
<1> QED
  BY <1>3, <1>4, <1>5

\* The variables keep their types: spmc_queue_init sets them, and the calls
\* store positions, counts and values only.
LEMMA SlotType == ASSUME NEW i \in Int PROVE Slot(i) \in Slots
  BY ModDiv, SizeAssumption DEF Slot, Slots

\* The first MPI_Get reads at least one slot and none past the end.
LEMMA BeforeWrapType ==
  ASSUME TypeInv, NEW c \in Consumers
  PROVE  /\ BeforeWrap(c) \in 0 .. count[c]
         /\ Slot(old[c]) + BeforeWrap(c) =< Size
         /\ BeforeWrap(c) # count[c] => BeforeWrap(c) = Size - Slot(old[c])
<1>1. Slot(old[c]) \in 0 .. Size - 1 /\ count[c] \in 0 .. Size
  BY SlotType DEF TypeInv, Slots
<1> QED
  BY <1>1, SizeAssumption DEF BeforeWrap

\* Every variable keeps its type; head, which calls give back, may be any integer.
THEOREM TypeCorrect == Spec => []TypeInv
<1> USE SizeAssumption, CountsAssumption
<1>1. Init => TypeInv
  BY DEF Init, TypeInv, Steps
<1>2. TypeInv /\ [Next]_vars => TypeInv'
  <2> SUFFICES ASSUME TypeInv, [Next]_vars PROVE TypeInv'
    OBVIOUS
  <2> USE DEF TypeInv, shared, producer, consumer
  <2>1. CASE EnqReserve
    BY <2>1 DEF EnqReserve
  <2>2. CASE EnqRefresh
    BY <2>2 DEF EnqRefresh
  <2>3. CASE EnqRollback
    BY <2>3 DEF EnqRollback
  <2>4. CASE EnqPut
    BY <2>4, SlotType DEF EnqPut
  <2>5. CASE EnqCommit
    BY <2>5 DEF EnqCommit
  <2>6. ASSUME NEW c \in Consumers, DeqReserve(c) PROVE TypeInv'
    BY <2>6 DEF DeqReserve, Steps
  <2>7. ASSUME NEW c \in Consumers, DeqRefresh(c) PROVE TypeInv'
    BY <2>7 DEF DeqRefresh, Steps
  <2>8. ASSUME NEW c \in Consumers, DeqRollback(c) PROVE TypeInv'
    BY <2>8 DEF DeqRollback, GiveBack, Steps
  <2>9. ASSUME NEW c \in Consumers, DeqGet(c) PROVE TypeInv'
    <3> DEFINE b == BeforeWrap(c)
    <3>1. b \in Nat /\ Slot(old[c]) + b =< Size
      BY BeforeWrapType
    <3>2. Slot(old[c]) \in Slots
      BY SlotType
    <3> HIDE DEF b
    <3>3. \A j \in 1 .. b : Slot(old[c]) + j - 1 \in Slots
      BY <3>1, <3>2, SMTT(30) DEF Slots
    <3>4. [j \in 1 .. b |-> data[Slot(old[c]) + j - 1]] \in Seq(Nat)
      BY <3>1, <3>3
    <3> USE DEF b
    <3> QED
      BY <2>9, <3>4 DEF DeqGet, Steps
  <2>10. ASSUME NEW c \in Consumers, DeqGetWrap(c) PROVE TypeInv'
    <3> DEFINE rest == [j \in 1 .. count[c] - Len(out[c]) |-> data[j - 1]]
    <3>1. \A j \in 1 .. count[c] - Len(out[c]) : data[j - 1] \in Nat
      BY DEF Slots
    <3>2. rest \in Seq(Nat)
      <4>1. PICK n \in Nat : 1 .. n = 1 .. count[c] - Len(out[c])
        <5>1. CASE count[c] >= Len(out[c])
          BY <5>1
        <5>2. CASE count[c] < Len(out[c])
          <6>1. 1 .. 0 = 1 .. count[c] - Len(out[c])
            BY <5>2
          <6> QED
            BY <6>1
        <5> QED
          BY <5>1, <5>2
      <4>2. rest = [j \in 1 .. n |-> data[j - 1]] /\ \A j \in 1 .. n : data[j - 1] \in Nat
        BY <3>1, <4>1
      <4>3. [j \in 1 .. n |-> data[j - 1]] \in Seq(Nat)
        BY <4>2
      <4> QED
        BY <4>2, <4>3
    <3>3. out[c] \o rest \in Seq(Nat)
      BY <3>2
    <3> QED
      BY <2>10, <3>3 DEF DeqGetWrap, Steps
  <2>11. ASSUME NEW c \in Consumers, DeqCommit(c) PROVE TypeInv'
    BY <2>11 DEF DeqCommit, Steps
  <2>12. CASE UNCHANGED vars
    BY <2>12 DEF vars
  <2> QED
    BY <2>1, <2>2, <2>3, <2>4, <2>5, <2>6, <2>7, <2>8, <2>9, <2>10, <2>11, <2>12
       DEF Next, Producer, Consumer
<1> QED
  BY <1>1, <1>2, PTL DEF Spec
-----------------------------------------------------------------------------
\* What a consumer's step leaves alone: only the commit moves reserved_head.
LEMMA ProducerPartFrame ==
  ASSUME TypeInv, IInv, UNCHANGED <<data, tail, reserved_tail, producer>>,
         NEW h \in Nat, reserved_head' = h, reserved_head =< h, h =< reserved_tail
  PROVE  ProducerInv' /\ CountersInv' /\ ContentsInv'
<1>1. ProducerInv'
  BY DEF IInv, ProducerInv, producer
<1>2. CountersInv'
  <2>1. /\ head_buf' = head_buf /\ ppc' = ppc /\ pold' = pold
        /\ reserved_tail' = reserved_tail
    BY DEF producer
  <2>2. /\ Size \in Nat /\ pold \in Int /\ head_buf \in Nat
        /\ reserved_head \in Nat /\ reserved_tail \in Nat
    BY SizeAssumption DEF TypeInv
  <2>3. CountersInv
    BY DEF IInv
  <2> QED
    BY <2>1, <2>2, <2>3 DEF CountersInv
<1>3. ContentsInv'
  <2>1. reserved_head \in Nat /\ reserved_tail \in Nat
    BY DEF TypeInv
  <2> QED
    BY <2>1 DEF IInv, ContentsInv, Slot, producer
<1> QED
  BY <1>1, <1>2, <1>3

\* What a producer's step leaves alone: reserved_tail may only grow.
LEMMA ConsumerPartFrame ==
  ASSUME TypeInv, ConsumerInv, UNCHANGED <<reserved_head, consumer>>,
         NEW t \in Nat, reserved_tail' = t, reserved_tail =< t
  PROVE  ConsumerInv'
BY DEF ConsumerInv, ConsumerInvAt, TypeInv, consumer, Granted, Slot

\* The producer writes over no item that was not taken.
LEMMA PutKeepsContents ==
  ASSUME TypeInv, IInv, EnqPut
  PROVE  ContentsInv'
<1> USE SizeAssumption
<1>1. /\ pold \in Int /\ pold = reserved_tail /\ accepted = pold
      /\ reserved_tail \in Nat /\ reserved_head \in Nat
      /\ pold + 1 - reserved_head =< Size
  BY DEF EnqPut, IInv, ProducerInv, CountersInv, TypeInv
<1>2. Slot(pold) \in Slots
  BY <1>1, SlotType
<1>3. ASSUME NEW i \in reserved_head .. reserved_tail - 1 PROVE data'[Slot(i)] = i
  <2>1. i \in Int /\ i < pold /\ pold < i + Size
    BY <1>1
  <2>2. Slot(i) # Slot(pold)
    BY <1>1, <2>1, ModInjective DEF Slot
  <2>3. Slot(i) \in Slots
    BY <2>1, SlotType
  <2>4. data'[Slot(i)] = data[Slot(i)]
    BY <2>2, <2>3, <1>2 DEF EnqPut, TypeInv
  <2> QED
    BY <2>4 DEF IInv, ContentsInv
<1>4. data'[Slot(pold)] = pold
  BY <1>1, <1>2 DEF EnqPut, TypeInv
<1> QED
  BY <1>3, <1>4 DEF EnqPut, ContentsInv, Slot

\* The first MPI_Get reads the committed items at the call's positions.
LEMMA GetReadsItems ==
  ASSUME TypeInv, IInv, NEW c \in Consumers, cpc[c] = "get", old[c] >= reserved_head,
         NEW j \in 1 .. BeforeWrap(c)
  PROVE  data[Slot(old[c]) + j - 1] = old[c] + j - 1
<1> USE SizeAssumption
<1>1. /\ old[c] \in Int /\ count[c] \in Nat
      /\ BeforeWrap(c) \in 0 .. count[c] /\ Slot(old[c]) + BeforeWrap(c) =< Size
      /\ Slot(old[c]) \in Int
  <2>1. old[c] \in Int /\ count[c] \in Nat
    BY DEF TypeInv
  <2>2. BeforeWrap(c) \in 0 .. count[c] /\ Slot(old[c]) + BeforeWrap(c) =< Size
    BY BeforeWrapType
  <2>3. Slot(old[c]) \in Int
    BY <2>1, SlotType DEF Slots
  <2> QED
    BY <2>1, <2>2, <2>3
<1>2. old[c] + count[c] =< reserved_tail /\ reserved_tail \in Nat /\ reserved_head \in Nat
  BY DEF IInv, ConsumerInv, ConsumerInvAt, Granted, TypeInv
<1>3. old[c] + (j - 1) \in reserved_head .. reserved_tail - 1
  BY <1>1, <1>2
<1>4. j - 1 \in Nat /\ (old[c] % Size) + (j - 1) < Size
  BY <1>1 DEF Slot
<1>5. Slot(old[c] + (j - 1)) = Slot(old[c]) + (j - 1)
  BY <1>1, <1>4, ModPlus DEF Slot
<1>6. data[Slot(old[c] + (j - 1))] = old[c] + (j - 1)
  BY <1>3 DEF IInv, ContentsInv
<1> QED
  BY <1>1, <1>5, <1>6

\* A concatenation's length and elements.
LEMMA Concat ==
  ASSUME NEW s \in Seq(Nat), NEW u \in Seq(Nat)
  PROVE  /\ Len(s \o u) = Len(s) + Len(u)
         /\ \A j \in 1 .. Len(s) : (s \o u)[j] = s[j]
         /\ \A j \in Len(s) + 1 .. Len(s) + Len(u) : (s \o u)[j] = u[j - Len(s)]
OBVIOUS

\* Where the second MPI_Get's j-th item is, when the call holds k positions
\* from o on, at slot r, and has read L of them.
LEMMA SecondPart ==
  ASSUME NEW o \in Int, NEW r \in 0 .. Size - 1, NEW k \in 0 .. Size, NEW L \in Nat,
         L = Size - r, NEW j \in 1 .. k - L,
         NEW h \in Nat, h =< o, NEW t \in Nat, o + k =< t
  PROVE  /\ L + j - 1 \in Nat
         /\ Size =< r + (L + j - 1)
         /\ r + (L + j - 1) < 2 * Size
         /\ o + (L + j - 1) \in h .. t - 1
BY SizeAssumption

\* The second MPI_Get reads on from slot 0, where the positions go on.
LEMMA GetWrapReadsItems ==
  ASSUME TypeInv, IInv, NEW c \in Consumers, cpc[c] = "getwrap", old[c] >= reserved_head,
         NEW j \in 1 .. count[c] - Len(out[c])
  PROVE  data[j - 1] = old[c] + (Len(out[c]) + j - 1)
<1> DEFINE L == Len(out[c])
<1> USE SizeAssumption
<1>1. /\ old[c] \in Int /\ count[c] \in 0 .. Size /\ L \in Nat
      /\ reserved_tail \in Nat /\ reserved_head \in Nat
  BY DEF TypeInv
<1>2. L = Size - Slot(old[c]) /\ L < count[c] /\ old[c] + count[c] =< reserved_tail
  BY DEF IInv, ConsumerInv, ConsumerInvAt, Granted
<1>3. (old[c] % Size) \in 0 .. Size - 1
  BY <1>1, ModDiv
<1> HIDE DEF L
<1>4. L = Size - (old[c] % Size)
  BY <1>2 DEF Slot
<1>5. /\ L + j - 1 \in Nat
      /\ Size =< (old[c] % Size) + (L + j - 1)
      /\ (old[c] % Size) + (L + j - 1) < 2 * Size
      /\ old[c] + (L + j - 1) \in reserved_head .. reserved_tail - 1
  <2>1. j \in 1 .. count[c] - L
    BY DEF L
  <2>2. reserved_head =< old[c]
    BY <1>1
  <2> QED
    BY <1>1, <1>2, <1>3, <1>4, <2>1, <2>2, SecondPart
<1>6. Slot(old[c] + (L + j - 1)) = j - 1
  <2>1. (old[c] + (L + j - 1)) % Size = (old[c] % Size) + (L + j - 1) - Size
    BY <1>1, <1>5, ModWrap
  <2>2. j \in Int
    OBVIOUS
  <2> QED
    BY <1>1, <1>3, <1>4, <2>1, <2>2, SMTT(30) DEF Slot
<1>7. data[Slot(old[c] + (L + j - 1))] = old[c] + (L + j - 1)
  BY <1>5 DEF IInv, ContentsInv
<1> QED
  BY <1>6, <1>7 DEF L

\* A consumer's step leaves the other consumers' parts alone.
LEMMA ConsumerStep ==
  ASSUME TypeInv, IInv, NEW c \in Consumers,
         UNCHANGED <<data, tail, reserved_tail, producer>>,
         NEW h \in Nat, reserved_head' = h, reserved_head =< h, h =< reserved_tail,
         \A d \in Consumers \ {c} :
            /\ tail_buf'[d] = tail_buf[d] /\ cpc'[d] = cpc[d] /\ old'[d] = old[d]
            /\ count'[d] = count[d] /\ out'[d] = out[d],
         ConsumerInvAt(c)'
  PROVE  IInv'
<1>1. ProducerInv' /\ CountersInv' /\ ContentsInv'
  BY ProducerPartFrame
<1>2. ASSUME NEW d \in Consumers \ {c} PROVE ConsumerInvAt(d)'
  <2>1. ConsumerInvAt(d) /\ old[d] \in Int /\ reserved_head \in Nat
    BY DEF IInv, ConsumerInv, TypeInv
  <2>2. old[d] >= h => old[d] >= reserved_head
    BY <2>1
  <2> QED
    BY <2>1, <2>2 DEF ConsumerInvAt, Granted, Slot
<1> QED
  BY <1>1, <1>2 DEF IInv, ConsumerInv
-----------------------------------------------------------------------------
\* Every step of an enqueue call keeps the invariant.
LEMMA ProducerKeepsInv ==
  ASSUME TypeInv, IInv, Producer
  PROVE  IInv'
<1> USE SizeAssumption DEF TypeInv
<1>1. CASE EnqReserve
  <2>1. ConsumerInv'
    BY <1>1, ConsumerPartFrame DEF EnqReserve, IInv
  <2>2. ProducerInv' /\ ContentsInv'
    BY <1>1 DEF EnqReserve, IInv, ProducerInv, ContentsInv, Slot
  <2>3. CountersInv'
    BY <1>1 DEF EnqReserve, IInv, ProducerInv, CountersInv, Full
  <2> QED
    BY <2>1, <2>2, <2>3 DEF IInv
<1>2. CASE EnqRefresh
  <2>1. ConsumerInv'
    BY <1>2, ConsumerPartFrame DEF EnqRefresh, IInv, shared
  <2>2. ProducerInv' /\ ContentsInv'
    BY <1>2 DEF EnqRefresh, IInv, ProducerInv, ContentsInv, Slot, shared
  <2>3. CountersInv'
    BY <1>2 DEF EnqRefresh, IInv, CountersInv, Full, shared
  <2> QED
    BY <2>1, <2>2, <2>3 DEF IInv
<1>3. CASE EnqRollback
  <2>1. ConsumerInv'
    BY <1>3, ConsumerPartFrame DEF EnqRollback, IInv
  <2>2. ProducerInv' /\ ContentsInv'
    BY <1>3 DEF EnqRollback, IInv, ProducerInv, ContentsInv, Slot
  <2>3. CountersInv'
    BY <1>3 DEF EnqRollback, IInv, CountersInv
  <2> QED
    BY <2>1, <2>2, <2>3 DEF IInv
<1>4. CASE EnqPut
  <2>1. ConsumerInv'
    BY <1>4, ConsumerPartFrame DEF EnqPut, IInv
  <2>2. ContentsInv'
    BY <1>4, PutKeepsContents
  <2>3. ProducerInv'
    BY <1>4 DEF EnqPut, IInv, ProducerInv
  <2>4. CountersInv'
    BY <1>4 DEF EnqPut, IInv, CountersInv
  <2> QED
    BY <2>1, <2>2, <2>3, <2>4 DEF IInv
<1>5. CASE EnqCommit
  <2>1. ConsumerInv'
    BY <1>5, ConsumerPartFrame DEF EnqCommit, IInv
  <2>2. ProducerInv'
    BY <1>5 DEF EnqCommit, IInv, ProducerInv
  <2>3. CountersInv'
    BY <1>5 DEF EnqCommit, IInv, ProducerInv, CountersInv
  <2>4. ContentsInv'
    <3>1. /\ reserved_tail \in Nat /\ reserved_head \in Nat /\ pold = reserved_tail
          /\ reserved_tail' = reserved_tail + 1 /\ reserved_head' = reserved_head
          /\ data' = data /\ ppc' = "idle"
      BY <1>5 DEF EnqCommit
    <3>2. /\ \A i \in reserved_head .. reserved_tail - 1 : data[Slot(i)] = i
          /\ data[Slot(reserved_tail)] = reserved_tail
      BY <1>5, <3>1 DEF EnqCommit, IInv, ContentsInv
    <3>3. \A i \in reserved_head .. reserved_tail' - 1 :
             i \in reserved_head .. reserved_tail - 1 \/ i = reserved_tail
      BY <3>1
    <3> QED
      BY <3>1, <3>2, <3>3 DEF ContentsInv, Slot
  <2> QED
    BY <2>1, <2>2, <2>3, <2>4 DEF IInv
<1> QED
  BY <1>1, <1>2, <1>3, <1>4, <1>5 DEF Producer

\* Every step of a dequeue call keeps the invariant.
LEMMA ConsumerKeepsInv ==
  ASSUME TypeInv, IInv, NEW c \in Consumers, Consumer(c)
  PROVE  IInv'
<1> USE SizeAssumption
<1>0. /\ ConsumerInvAt(c) /\ old[c] \in Int /\ count[c] \in 0 .. Size
      /\ reserved_head \in Nat /\ reserved_tail \in Nat /\ reserved_head =< reserved_tail
      /\ out[c] \in Seq(Nat) /\ tail_buf[c] \in Nat /\ head \in Int
  BY DEF TypeInv, IInv, ConsumerInv, CountersInv
<1>1. CASE DeqReserve(c)
  <2>1. ConsumerInvAt(c)'
    <3>1. PICK k \in Counts :
             /\ count' = [count EXCEPT ![c] = k]
             /\ cpc' = [cpc EXCEPT ![c] =
                          IF Short(head, k, tail_buf[c]) THEN "refresh" ELSE "get"]
      BY <1>1 DEF DeqReserve
    <3>2. k \in Nat /\ k >= 1
      BY CountsAssumption
    <3> QED
      BY <1>0, <1>1, <3>1, <3>2 DEF DeqReserve, ConsumerInvAt, Granted, Short, TypeInv
  <2> QED
    BY <1>0, <1>1, <2>1, ConsumerStep DEF DeqReserve, TypeInv
<1>2. CASE DeqRefresh(c)
  <2>1. ConsumerInvAt(c)'
    BY <1>0, <1>2 DEF DeqRefresh, ConsumerInvAt, Granted, Short, TypeInv, shared
  <2> QED
    BY <1>0, <1>2, <2>1, ConsumerStep DEF DeqRefresh, TypeInv, shared
<1>3. CASE DeqRollback(c)
  <2>1. ConsumerInvAt(c)'
    BY <1>0, <1>3 DEF DeqRollback, ConsumerInvAt, Granted, TypeInv
  <2> QED
    BY <1>0, <1>3, <2>1, ConsumerStep DEF DeqRollback, TypeInv
<1>4. CASE DeqGet(c)
  <2>1. ConsumerInvAt(c)'
    <3> DEFINE b == BeforeWrap(c)
               read == [j \in 1 .. b |-> data[Slot(old[c]) + j - 1]]
    <3>1. /\ b \in 0 .. count[c] /\ (b # count[c] => b = Size - Slot(old[c]))
          /\ b \in Nat
      BY <1>0, BeforeWrapType
    <3>2. old[c] >= reserved_head => \A j \in 1 .. b : read[j] = old[c] + j - 1
      BY <1>4, GetReadsItems DEF DeqGet
    <3>3. /\ out'[c] = read /\ cpc'[c] = IF b = count[c] THEN "commit" ELSE "getwrap"
          /\ tail_buf' = tail_buf /\ count' = count /\ old' = old
          /\ reserved_head' = reserved_head /\ reserved_tail' = reserved_tail
      BY <1>4 DEF DeqGet, TypeInv, shared
    <3> HIDE DEF b
    <3>4. Len(read) = b
      BY <3>1
    <3>5. cpc[c] = "get"
      BY <1>4 DEF DeqGet
    <3> HIDE DEF read
    <3> QED
      BY <1>0, <3>1, <3>2, <3>3, <3>4, <3>5 DEF ConsumerInvAt, Granted, Slot
  <2> QED
    BY <1>0, <1>4, <2>1, ConsumerStep DEF DeqGet, TypeInv, shared
<1>5. CASE DeqGetWrap(c)
  <2>1. ConsumerInvAt(c)'
    <3> DEFINE n == count[c] - Len(out[c])
               rest == [j \in 1 .. n |-> data[j - 1]]
               all == out[c] \o rest
    <3>1. cpc[c] = "getwrap" /\ Len(out[c]) \in Nat /\ n \in Nat
      BY <1>0, <1>5 DEF DeqGetWrap, ConsumerInvAt
    <3>2. Len(rest) = n /\ rest \in Seq(Nat)
      <4>1. \A j \in 1 .. n : data[j - 1] \in Nat
        BY <1>0, <3>1 DEF TypeInv, Slots
      <4> HIDE DEF n
      <4> QED
        BY <3>1, <4>1
    <3>3. old[c] >= reserved_head => \A j \in 1 .. n : rest[j] = old[c] + (Len(out[c]) + j - 1)
      BY <3>1, GetWrapReadsItems
    <3>4. /\ out'[c] = all /\ cpc'[c] = "commit"
          /\ tail_buf' = tail_buf /\ count' = count /\ old' = old
          /\ reserved_head' = reserved_head /\ reserved_tail' = reserved_tail
      BY <1>5 DEF DeqGetWrap, TypeInv, shared
    <3>5. PICK L \in Nat : L = Len(out[c])
      BY <3>1
    <3>6. L + n = count[c]
      BY <1>0, <3>1, <3>5
    <3> HIDE DEF rest, n
    <3>7. /\ Len(all) = count[c]
          /\ \A j \in 1 .. L : all[j] = out[c][j]
          /\ \A j \in L + 1 .. count[c] : all[j] = rest[j - L]
      <4>1. /\ Len(all) = Len(out[c]) + Len(rest)
            /\ \A j \in 1 .. Len(out[c]) : all[j] = out[c][j]
            /\ \A j \in Len(out[c]) + 1 .. Len(out[c]) + Len(rest) :
                  all[j] = rest[j - Len(out[c])]
        BY <1>0, <3>2, Concat, Zenon
      <4> HIDE DEF all
      <4>2. /\ Len(all) = L + n
            /\ \A j \in 1 .. L : all[j] = out[c][j]
            /\ \A j \in L + 1 .. L + n : all[j] = rest[j - L]
        BY <3>2, <3>5, <4>1, Zenon
      <4> QED
        BY <3>6, <4>2, Zenon
    <3> HIDE DEF all
    <3>8. ASSUME old[c] >= reserved_head, NEW j \in 1 .. count[c]
          PROVE  all[j] = old[c] + j - 1
      <4>1. CASE j =< L
        <5>1. \A i \in 1 .. L : out[c][i] = old[c] + i - 1
          BY <1>0, <3>1, <3>5, <3>8, Zenon DEF ConsumerInvAt
        <5>2. j \in 1 .. L
          BY <3>5, <4>1
        <5> QED
          BY <3>7, <5>1, <5>2, Zenon
      <4>2. CASE j > L
        <5>1. j \in L + 1 .. count[c] /\ j - L \in 1 .. n
          BY <1>0, <3>1, <3>5, <3>6, <4>2
        <5>2. all[j] = old[c] + (L + (j - L) - 1)
          BY <3>3, <3>5, <3>7, <3>8, <5>1
        <5> QED
          BY <1>0, <3>5, <5>1, <5>2
      <4> QED
        BY <3>5, <4>1, <4>2
    <3> QED
      BY <1>0, <3>1, <3>4, <3>7, <3>8 DEF ConsumerInvAt, Granted, Slot
  <2> QED
    BY <1>0, <1>5, <2>1, ConsumerStep DEF DeqGetWrap, TypeInv, shared
<1>6. CASE DeqCommit(c)
  <2>1. ConsumerInvAt(c)'
    BY <1>0, <1>6 DEF DeqCommit, ConsumerInvAt, Granted, TypeInv
  <2>2. PICK h \in Nat : h = old[c] + count[c]
    BY <1>0, <1>6 DEF DeqCommit
  <2>3. reserved_head' = h /\ reserved_head =< h /\ h =< reserved_tail
    BY <1>0, <1>6, <2>2 DEF DeqCommit, ConsumerInvAt, Granted
  <2> QED
    BY <1>6, <2>1, <2>3, ConsumerStep DEF DeqCommit, TypeInv
<1> QED
  BY <1>1, <1>2, <1>3, <1>4, <1>5, <1>6 DEF Consumer

\* In every reachable state the counters bound the ring, the ring holds the
\* committed items, and a granted dequeue call holds committed positions.
THEOREM Invariant == Spec => [](TypeInv /\ IInv)
<1>1. Init => IInv
  BY SizeAssumption
     DEF Init, IInv, ProducerInv, CountersInv, ContentsInv, ConsumerInv, ConsumerInvAt, Granted
<1>2. TypeInv /\ IInv /\ [Next]_vars => IInv'
  <2> SUFFICES ASSUME TypeInv, IInv, [Next]_vars PROVE IInv'
    OBVIOUS
  <2>1. CASE UNCHANGED vars
    BY <2>1 DEF vars, shared, producer, consumer, IInv, ProducerInv, CountersInv,
                ContentsInv, ConsumerInv, ConsumerInvAt, Granted, Slot
  <2> QED
    BY <2>1, ProducerKeepsInv, ConsumerKeepsInv DEF Next
<1> QED
  BY <1>1, <1>2, TypeCorrect, PTL DEF Spec

\* Only two steps are seen by a caller of the FIFO queue: the compare-and-swap
\* that commits an enqueue and the one that commits a dequeue.
LEMMA StepImplementsFifo ==
  ASSUME TypeInv, IInv, [Next]_vars
  PROVE  [Fifo!Next]_(Fifo!fifoVars)
<1> USE SizeAssumption
<1>1. CASE EnqCommit
  <2>1. reserved_tail - reserved_head < Size
    BY <1>1 DEF EnqCommit, IInv, ProducerInv, CountersInv, TypeInv
  <2>2. Fifo!Put
    BY <1>1, <2>1 DEF EnqCommit, Fifo!Put, consumer, IInv, ProducerInv
  <2> QED
    BY <2>2 DEF Fifo!Next
<1>2. ASSUME NEW c \in Consumers, DeqCommit(c) PROVE [Fifo!Next]_(Fifo!fifoVars)
  <2>1. /\ ConsumerInvAt(c) /\ cpc[c] = "commit" /\ old[c] = reserved_head
        /\ reserved_head \in Nat /\ count[c] \in 0 .. Size /\ out[c] \in Seq(Nat)
    BY <1>2 DEF DeqCommit, IInv, ConsumerInv, TypeInv
  <2>2. count[c] \in 1 .. Size /\ reserved_head + count[c] =< reserved_tail
    BY <2>1 DEF ConsumerInvAt, Granted
  <2>3. out[c] = [j \in 1 .. count[c] |-> reserved_head + j - 1]
    <3>1. Len(out[c]) = count[c] /\ \A j \in 1 .. count[c] : out[c][j] = reserved_head + j - 1
      BY <2>1 DEF ConsumerInvAt
    <3>2. out[c] = [j \in 1 .. Len(out[c]) |-> out[c][j]]
      BY <2>1
    <3> QED
      BY <3>1, <3>2
  <2>4. Fifo!Take(c, count[c])
    BY <1>2, <2>1, <2>2, <2>3 DEF DeqCommit, Fifo!Take
  <2> QED
    BY <2>2, <2>4 DEF Fifo!Next
<1>3. CASE EnqReserve \/ EnqRefresh \/ EnqRollback \/ EnqPut
  BY <1>3 DEF EnqReserve, EnqRefresh, EnqRollback, EnqPut, shared, consumer, Fifo!fifoVars
<1>4. ASSUME NEW c \in Consumers,
             \/ DeqReserve(c) \/ DeqRefresh(c) \/ DeqRollback(c)
             \/ DeqGet(c) \/ DeqGetWrap(c)
      PROVE  [Fifo!Next]_(Fifo!fifoVars)
  BY <1>4 DEF DeqReserve, DeqRefresh, DeqRollback, DeqGet, DeqGetWrap, shared, Fifo!fifoVars
<1>5. CASE UNCHANGED vars
  BY <1>5 DEF vars, shared, consumer, Fifo!fifoVars
<1> QED
  BY <1>1, <1>2, <1>3, <1>4, <1>5 DEF Next, Producer, Consumer

\* CircularQueue is a FIFO queue of capacity Size: the items leave it in the
\* order in which they entered, each once, and no call enters one too many.
THEOREM Refinement == Spec => ImplementsFifo
<1>1. Init => Fifo!Init
  BY DEF Init, Fifo!Init
<1>2. TypeInv /\ IInv /\ [Next]_vars => [Fifo!Next]_(Fifo!fifoVars)
  BY StepImplementsFifo
<1> QED
  BY <1>1, <1>2, Invariant, PTL DEF Spec, ImplementsFifo, Fifo!Spec
-----------------------------------------------------------------------------
(***************************************************************************)
(* Where head of CircularQueue is.  Consumers add to it and give back what *)
(* they added in any order, so the positions they hold may overlap and may *)
(* leave holes; head is nevertheless as far from reserved_head as the      *)
(* pending calls have reserved, and among any pending calls one holds      *)
(* positions that reach as far as all of theirs would in a row.            *)
(***************************************************************************)

\* One element for each position that the consumers in S have reserved when
\* consumer c has f[c] of them, and their number.
Units(S, f) == {p \in S \X (1 .. Size) : p[2] =< f[p[1]]}
Weight(S, f) == Cardinality(Units(S, f))

\* The consumers with a call pending.
Active == {c \in Consumers : cpc[c] # "idle"}

HeadInv == head = reserved_head + Weight(Active, count)

ReachInv == \A S \in SUBSET Active : S # {} =>
              \E c \in S : old[c] + count[c] >= reserved_head + Weight(S, count)

HInv == HeadInv /\ ReachInv
-----------------------------------------------------------------------------
\* A finite set of consumers has finitely many positions.
LEMMA WeightType ==
  ASSUME NEW S, IsFiniteSet(S), NEW f
  PROVE  IsFiniteSet(Units(S, f)) /\ Weight(S, f) \in Nat
<1>1. IsFiniteSet(1 .. Size)
  BY FS_Interval, SizeAssumption
<1>2. IsFiniteSet(S \X (1 .. Size))
  BY <1>1, FS_Product
<1>3. Units(S, f) \in SUBSET (S \X (1 .. Size))
  BY DEF Units
<1>4. IsFiniteSet(Units(S, f))
  BY <1>2, <1>3, FS_Subset
<1> QED
  BY <1>4, FS_CardinalityType DEF Weight

\* A further consumer adds its own positions.
LEMMA WeightAdd ==
  ASSUME NEW S, IsFiniteSet(S), NEW c, c \notin S, NEW f, f[c] \in 0 .. Size
  PROVE  Weight(S \cup {c}, f) = Weight(S, f) + f[c]
<1>1. PICK k \in 0 .. Size : k = f[c]
  OBVIOUS
<1> DEFINE own == {c} \X (1 .. k)
<1>2. IsFiniteSet(own) /\ Cardinality(own) = k
  <2>1. IsFiniteSet(1 .. k) /\ Cardinality(1 .. k) = k
    <3>1. k \in Int /\ 1 \in Int /\ k >= 0
      BY SizeAssumption
    <3>2. IsFiniteSet(1 .. k) /\ Cardinality(1 .. k) = IF 1 > k THEN 0 ELSE k - 1 + 1
      BY <3>1, FS_Interval
    <3> QED
      BY <3>1, <3>2
  <2>2. IsFiniteSet({c}) /\ Cardinality({c}) = 1
    BY FS_Singleton
  <2>3. IsFiniteSet(own) /\ Cardinality(own) = 1 * Cardinality(1 .. k)
    BY <2>1, <2>2, FS_Product
  <2> QED
    BY SizeAssumption, <2>1, <2>3
<1>3. Units(S \cup {c}, f) = Units(S, f) \cup own
  BY SizeAssumption, <1>1 DEF Units
<1>4. Units(S, f) \cap own = {}
  BY DEF Units
<1>5. IsFiniteSet(Units(S, f)) /\ Cardinality(Units(S, f)) \in Nat
  BY WeightType DEF Weight
<1> HIDE DEF own
<1>6. Cardinality(Units(S, f) \cup own)
        = Cardinality(Units(S, f)) + Cardinality(own) - Cardinality({})
  BY <1>2, <1>4, <1>5, FS_Union
<1>7. Cardinality(Units(S, f) \cup own) = Cardinality(Units(S, f)) + k
  BY <1>2, <1>5, <1>6, FS_EmptySet, SizeAssumption
<1> QED
  BY <1>1, <1>3, <1>7 DEF Weight

\* Only the counts of the set's own consumers matter.
LEMMA WeightSame ==
  ASSUME NEW S, NEW f, NEW g, \A c \in S : f[c] = g[c]
  PROVE  Weight(S, f) = Weight(S, g)
<1>1. Units(S, f) = Units(S, g)
  BY DEF Units
<1> QED
  BY <1>1 DEF Weight

\* Fewer consumers have no more positions.
LEMMA WeightSubset ==
  ASSUME NEW S, IsFiniteSet(S), NEW T \in SUBSET S, NEW f
  PROVE  Weight(T, f) =< Weight(S, f)
<1>1. Units(T, f) \in SUBSET Units(S, f)
  BY DEF Units
<1> QED
  BY <1>1, WeightType, FS_Subset DEF Weight
-----------------------------------------------------------------------------
\* The consumers with a call pending are finitely many, and so are some of them.
LEMMA ActiveFinite ==
  ASSUME NEW S \in SUBSET Active
  PROVE  IsFiniteSet(S) /\ S \subseteq Consumers
BY ConsumersAssumption, FS_Subset DEF Active

\* A call that starts reserves the positions from head on.
LEMMA ReserveKeepsHead ==
  ASSUME TypeInv, HInv, NEW c \in Consumers, DeqReserve(c)
  PROVE  HInv'
<1>1. PICK k \in Counts : /\ count' = [count EXCEPT ![c] = k]
                           /\ head' = head + k
                           /\ cpc'[c] # "idle"
                           /\ \A d \in Consumers \ {c} : cpc'[d] = cpc[d]
  BY DEF DeqReserve, TypeInv
<1>2. /\ k \in 0 .. Size /\ k \in Nat /\ head \in Int /\ reserved_head \in Nat
      /\ reserved_head' = reserved_head /\ cpc[c] = "idle"
      /\ count'[c] = k /\ old'[c] = head
      /\ \A d \in Consumers \ {c} : count'[d] = count[d] /\ old'[d] = old[d]
  BY <1>1, SizeAssumption, CountsAssumption DEF DeqReserve, TypeInv
<1>3. Active' = Active \cup {c} /\ c \notin Active /\ Active \subseteq Consumers
  BY <1>1, <1>2 DEF Active
<1>4. IsFiniteSet(Active) /\ Weight(Active, count) \in Nat
  BY ActiveFinite, WeightType
<1>5. ASSUME NEW S \in SUBSET Active
      PROVE  Weight(S, count') = Weight(S, count) /\ Weight(S \cup {c}, count') = Weight(S, count) + k
  <2>1. IsFiniteSet(S) /\ c \notin S /\ \A d \in S : count'[d] = count[d]
    BY <1>2, <1>3, ActiveFinite
  <2>2. Weight(S, count') = Weight(S, count)
    BY <2>1, WeightSame
  <2>3. Weight(S \cup {c}, count') = Weight(S, count') + count'[c]
    BY <1>2, <2>1, WeightAdd
  <2> QED
    BY <1>2, <2>2, <2>3
<1>6. HeadInv'
  <2>1. Weight(Active, count)' = Weight(Active, count) + k
    BY <1>3, <1>5
  <2> QED
    BY <1>1, <1>2, <1>4, <2>1 DEF HInv, HeadInv
<1>7. ReachInv'
  <2> SUFFICES ASSUME NEW S \in SUBSET Active', S # {}
               PROVE  \E d \in S : old'[d] + count'[d] >= reserved_head' + Weight(S, count')
    BY DEF ReachInv
  <2>1. CASE c \notin S
    <3>1. S \in SUBSET Active
      BY <1>3, <2>1
    <3>2. PICK d \in S : old[d] + count[d] >= reserved_head + Weight(S, count)
      BY <3>1 DEF HInv, ReachInv
    <3> QED
      BY <1>2, <1>3, <1>5, <2>1, <3>1, <3>2
  <2>2. CASE c \in S
    <3> DEFINE R == S \ {c}
    <3>1. R \in SUBSET Active /\ S = R \cup {c}
      BY <1>3, <2>2
    <3>2. Weight(S, count') = Weight(R, count) + k
      BY <1>5, <3>1
    <3>3. Weight(R, count) \in Nat /\ Weight(R, count) =< Weight(Active, count)
      BY <1>4, <3>1, ActiveFinite, WeightType, WeightSubset
    <3>4. head + k >= reserved_head + (Weight(R, count) + k)
      BY <1>2, <1>4, <3>3 DEF HInv, HeadInv
    <3> QED
      BY <1>2, <2>2, <3>2, <3>4
  <2> QED
    BY <2>1, <2>2
<1> QED
  BY <1>6, <1>7 DEF HInv

\* A call that ends takes its positions out of the account.
LEMMA EndOfCall ==
  ASSUME TypeInv, NEW c \in Consumers, cpc[c] # "idle", cpc' = [cpc EXCEPT ![c] = "idle"]
  PROVE  /\ Active' = Active \ {c} /\ c \in Active
         /\ count[c] \in 0 .. Size /\ count[c] \in Nat
         /\ \A S \in SUBSET Active' :
               /\ Weight(S, count) \in Nat
               /\ Weight(S \cup {c}, count) = Weight(S, count) + count[c]
         /\ Weight(Active, count) = Weight(Active', count) + count[c]
<1>1. Active' = Active \ {c} /\ c \in Active /\ Active = Active' \cup {c}
  BY DEF Active, TypeInv
<1>2. count[c] \in 0 .. Size /\ count[c] \in Nat
  BY SizeAssumption DEF TypeInv
<1>3. ASSUME NEW S \in SUBSET Active'
      PROVE  /\ Weight(S, count) \in Nat
             /\ Weight(S \cup {c}, count) = Weight(S, count) + count[c]
  <2>1. IsFiniteSet(S) /\ c \notin S
    BY <1>1, ActiveFinite
  <2> QED
    BY <1>2, <2>1, WeightType, WeightAdd
<1>4. Weight(Active' \cup {c}, count) = Weight(Active', count) + count[c]
  BY <1>3
<1> QED
  BY <1>1, <1>2, <1>3, <1>4

\* A call that finds too few items gives back as many positions as it took.
LEMMA RollbackKeepsHead ==
  ASSUME TypeInv, HInv, NEW c \in Consumers, DeqRollback(c)
  PROVE  HInv'
<1>1. /\ cpc[c] # "idle" /\ cpc' = [cpc EXCEPT ![c] = "idle"]
      /\ head' = head - count[c] /\ reserved_head' = reserved_head
      /\ old' = old /\ count' = count
  BY DEF DeqRollback, GiveBack
<1>2. /\ Active' = Active \ {c} /\ count[c] \in Nat
      /\ Weight(Active', count) \in Nat
      /\ Weight(Active, count) = Weight(Active', count) + count[c]
  BY <1>1, EndOfCall
<1>3. HeadInv'
  <2>1. head - count[c] = reserved_head + Weight(Active', count)
    BY <1>2 DEF HInv, HeadInv, TypeInv
  <2> QED
    BY <1>1, <2>1 DEF HeadInv
<1>4. ReachInv'
  <2>1. \A S \in SUBSET Active' : S # {} =>
          \E d \in S : old[d] + count[d] >= reserved_head + Weight(S, count)
    BY <1>2 DEF HInv, ReachInv
  <2> QED
    BY <1>1, <2>1 DEF ReachInv
<1> QED
  BY <1>3, <1>4 DEF HInv

\* Pending calls hold at least one position.
LEMMA WeightPositive ==
  ASSUME TypeInv, ConsumerInv, NEW S \in SUBSET Active, NEW d \in S
  PROVE  Weight(S, count) \in Nat /\ Weight(S, count) >= 1
<1> DEFINE R == S \ {d}
<1>1. R \in SUBSET Active /\ IsFiniteSet(R) /\ d \notin R /\ S = R \cup {d}
  BY ActiveFinite
<1>2. count[d] \in 0 .. Size /\ count[d] \in Nat /\ count[d] >= 1
  BY ActiveFinite, SizeAssumption DEF TypeInv, ConsumerInv, ConsumerInvAt, Active
<1>3. Weight(R \cup {d}, count) = Weight(R, count) + count[d]
  BY <1>1, <1>2, WeightAdd
<1>4. Weight(R, count) \in Nat
  BY <1>1, WeightType
<1> HIDE DEF R
<1>5. Weight(R \cup {d}, count) \in Nat /\ Weight(R \cup {d}, count) >= 1
  BY <1>2, <1>3, <1>4
<1> QED
  BY <1>1, <1>5, Zenon

\* The call at the front commits: the others' positions reach beyond its own.
LEMMA CommitKeepsHead ==
  ASSUME TypeInv, ConsumerInv, HInv, NEW c \in Consumers, DeqCommit(c)
  PROVE  HInv'
<1>1. /\ cpc[c] # "idle" /\ cpc' = [cpc EXCEPT ![c] = "idle"]
      /\ head' = head /\ reserved_head' = old[c] + count[c] /\ old[c] = reserved_head
      /\ old' = old /\ count' = count
  BY DEF DeqCommit
<1>2. /\ Active' = Active \ {c} /\ c \in Active /\ count[c] \in Nat
      /\ Weight(Active', count) \in Nat
      /\ Weight(Active, count) = Weight(Active', count) + count[c]
      /\ \A S \in SUBSET Active' : Weight(S \cup {c}, count) = Weight(S, count) + count[c]
  BY <1>1, EndOfCall
<1>3. reserved_head \in Nat /\ \A d \in Consumers : old[d] \in Int /\ count[d] \in Int
  BY SizeAssumption DEF TypeInv
<1>4. HeadInv'
  <2>1. head = (reserved_head + count[c]) + Weight(Active', count)
    BY <1>2, <1>3 DEF HInv, HeadInv
  <2> QED
    BY <1>1, <2>1 DEF HeadInv
<1>5. ASSUME NEW S \in SUBSET Active', S # {}
      PROVE  \E d \in S : old[d] + count[d] >= (reserved_head + count[c]) + Weight(S, count)
  <2> DEFINE T == S \cup {c}
  <2>1. T \in SUBSET Active /\ S \in SUBSET Active /\ T # {}
    BY <1>2
  <2>2. PICK w \in Nat : w = Weight(S, count) /\ w >= 1
    BY <1>5, <2>1, WeightPositive
  <2>3. Weight(T, count) = w + count[c]
    BY <1>2, <2>2
  <2>4. PICK e \in T : old[e] + count[e] >= reserved_head + Weight(T, count)
    BY <2>1 DEF HInv, ReachInv
  <2>5. e # c
    BY <1>1, <1>2, <1>3, <2>2, <2>3, <2>4
  <2>6. e \in S /\ e \in Consumers
    BY <2>1, <2>5, ActiveFinite
  <2> QED
    BY <1>2, <1>3, <2>2, <2>3, <2>4, <2>6
<1>6. ReachInv'
  BY <1>1, <1>5 DEF ReachInv
<1> QED
  BY <1>4, <1>6 DEF HInv

\* The other steps neither start nor end a dequeue call.
LEMMA HeadFrame ==
  ASSUME HInv, UNCHANGED <<head, reserved_head, old, count>>,
         \A c \in Consumers : cpc'[c] # "idle" <=> cpc[c] # "idle"
  PROVE  HInv'
<1>1. Active' = Active
  BY DEF Active
<1> QED
  BY <1>1 DEF HInv, HeadInv, ReachInv

\* In every reachable state head is where the pending calls leave it.
THEOREM HeadInvariant == Spec => [](TypeInv /\ IInv /\ HInv)
<1>1. Init => HInv
  <2> SUFFICES ASSUME Init PROVE HInv
    OBVIOUS
  <2>1. Active = {}
    BY DEF Init, Active
  <2>2. Units({}, count) = {}
    BY DEF Units
  <2>3. Weight({}, count) = 0
    BY <2>2, FS_EmptySet DEF Weight
  <2> QED
    BY <2>1, <2>3 DEF Init, HInv, HeadInv, ReachInv
<1>2. TypeInv /\ IInv /\ HInv /\ [Next]_vars => HInv'
  <2> SUFFICES ASSUME TypeInv, IInv, HInv, [Next]_vars PROVE HInv'
    OBVIOUS
  <2>1. CASE Producer
    BY <2>1, HeadFrame DEF Producer, EnqReserve, EnqRefresh, EnqRollback, EnqPut, EnqCommit,
                           shared, consumer
  <2>2. ASSUME NEW c \in Consumers, Consumer(c) PROVE HInv'
    <3>1. CASE DeqReserve(c)
      BY <3>1, ReserveKeepsHead
    <3>2. CASE DeqRollback(c)
      BY <3>2, RollbackKeepsHead
    <3>3. CASE DeqCommit(c)
      BY <3>3, CommitKeepsHead DEF IInv
    <3>4. CASE DeqRefresh(c)
      BY <3>4, HeadFrame DEF DeqRefresh, TypeInv, shared
    <3>5. CASE DeqGet(c)
      BY <3>5, HeadFrame DEF DeqGet, TypeInv, shared
    <3>6. CASE DeqGetWrap(c)
      BY <3>6, HeadFrame DEF DeqGetWrap, TypeInv, shared
    <3> QED
      BY <2>2, <3>1, <3>2, <3>3, <3>4, <3>5, <3>6 DEF Consumer
  <2>3. CASE UNCHANGED vars
    BY <2>3, HeadFrame DEF vars, shared, consumer
  <2> QED
    BY <2>1, <2>2, <2>3 DEF Next
<1> QED
  BY <1>1, <1>2, Invariant, PTL DEF Spec
-----------------------------------------------------------------------------
\* Two consequences of HeadInv and ReachInv: nothing committed is reserved
\* again, and a new call starts behind the front while another is pending.
LEMMA ActiveAreAhead ==
  ASSUME TypeInv, ConsumerInv, HInv, NEW c \in Consumers, cpc[c] # "idle"
  PROVE  old[c] >= reserved_head /\ head > reserved_head
<1>1. {c} \in SUBSET Active /\ {} \in SUBSET Active /\ IsFiniteSet({}) /\ c \in Active
  BY FS_EmptySet DEF Active
<1>2. /\ old[c] \in Int /\ count[c] \in 0 .. Size /\ count[c] \in Nat
      /\ reserved_head \in Nat /\ head \in Int
  BY SizeAssumption DEF TypeInv
<1>3. Weight({c}, count) = count[c]
  <2>1. Weight({} \cup {c}, count) = Weight({}, count) + count[c]
    BY <1>1, <1>2, WeightAdd
  <2>2. Weight({}, count) = 0
    <3>1. Units({}, count) = {}
      BY DEF Units
    <3> QED
      BY <3>1, FS_EmptySet DEF Weight
  <2>3. {} \cup {c} = {c}
    OBVIOUS
  <2> QED
    BY <1>2, <2>1, <2>2, <2>3
<1>4. old[c] + count[c] >= reserved_head + Weight({c}, count)
  BY <1>1 DEF HInv, ReachInv
<1>5. Weight(Active, count) \in Nat /\ Weight(Active, count) >= 1
  BY <1>1, WeightPositive
<1>6. head = reserved_head + Weight(Active, count)
  BY DEF HInv, HeadInv
<1>7. old[c] >= reserved_head
  BY <1>2, <1>3, <1>4
<1>8. head > reserved_head
  BY <1>2, <1>5, <1>6
<1> QED
  BY <1>7, <1>8

\* Rolling head back never gives out a committed position a second time.
THEOREM NoReissueHolds == Spec => []NoReissue
<1>1. TypeInv /\ IInv /\ HInv => NoReissue
  <2> SUFFICES ASSUME TypeInv, IInv, HInv, NEW c \in Consumers, cpc[c] # "idle"
               PROVE  old[c] >= reserved_head /\ head >= reserved_head
    BY DEF NoReissue, Granted
  <2>1. old[c] >= reserved_head /\ head > reserved_head
    BY ActiveAreAhead DEF IInv
  <2> QED
    BY <2>1 DEF TypeInv
<1> QED
  BY <1>1, HeadInvariant, PTL

\* The producer's position is the one after the committed items.
LEMMA PutPosition ==
  ASSUME TypeInv, IInv, ppc = "put"
  PROVE  /\ pold \in Int /\ pold = reserved_tail
         /\ pold < reserved_head + Size
BY SizeAssumption DEF TypeInv, IInv, ProducerInv, CountersInv

\* mpi_put never writes a slot that a consumer's mpi_get may be reading.
THEOREM NoRaceHolds == Spec => []NoRace
<1>1. TypeInv /\ IInv /\ HInv => NoRace
  <2> SUFFICES ASSUME TypeInv, IInv, HInv, ppc = "put", NEW c \in Consumers
               PROVE  Slot(pold) \notin Reading(c)
    BY DEF NoRace
  <2>1. /\ pold \in Int /\ pold = reserved_tail /\ pold < reserved_head + Size
        /\ old[c] \in Int /\ count[c] \in 0 .. Size /\ count[c] \in Nat
        /\ reserved_head \in Nat /\ Size \in Nat \ {0}
    BY PutPosition, SizeAssumption DEF TypeInv
  <2>2. ASSUME Granted(c)
        PROVE  old[c] >= reserved_head /\ old[c] + count[c] =< reserved_tail
    <3>1. cpc[c] # "idle"
      BY <2>2 DEF Granted
    <3> QED
      BY <2>2, <3>1, ActiveAreAhead DEF IInv, ConsumerInv, ConsumerInvAt
  <2>3. ASSUME NEW i \in Int, Granted(c), old[c] =< i, i < old[c] + count[c]
        PROVE  Slot(i) # Slot(pold)
    <3>1. i < pold /\ pold < i + Size
      BY <2>1, <2>2, <2>3
    <3> QED
      BY <2>1, <3>1, ModInjective DEF Slot
  <2>4. CASE cpc[c] = "get"
    BY <2>1, <2>3, <2>4 DEF Reading, Granted
  <2>5. CASE cpc[c] = "getwrap"
    <3>1. /\ Len(out[c]) = Size - Slot(old[c]) /\ Len(out[c]) < count[c]
      BY <2>5 DEF IInv, ConsumerInv, ConsumerInvAt
    <3>2. PICK L \in Nat : L = Len(out[c])
      BY DEF TypeInv
    <3>3. PICK r \in 0 .. Size - 1 : r = old[c] % Size /\ L = Size - r
      <4>1. (old[c] % Size) \in 0 .. Size - 1
        BY <2>1, ModDiv
      <4>2. L = Size - (old[c] % Size)
        BY <3>1, <3>2 DEF Slot
      <4> QED
        BY <4>1, <4>2
    <3>4. ASSUME NEW s \in 0 .. count[c] - L - 1 PROVE s # Slot(pold)
      <4>1. PICK k \in Nat : k = count[c]
        BY <2>1
      <4>2. s \in Int /\ 0 =< s /\ s < k - L /\ k =< Size
        BY <2>1, <4>1
      <4>3. /\ L + s \in Nat /\ Size =< r + (L + s) /\ r + (L + s) < 2 * Size
            /\ r + (L + s) - Size = s /\ 0 =< L + s /\ L + s < k
        BY <2>1, <3>3, <4>2
      <4>4. Slot(old[c] + (L + s)) = s
        BY <2>1, <3>3, <4>3, ModWrap DEF Slot
      <4>5. /\ old[c] + (L + s) \in Int /\ old[c] =< old[c] + (L + s)
            /\ old[c] + (L + s) < old[c] + count[c]
        BY <2>1, <4>1, <4>3
      <4> QED
        BY <2>3, <2>5, <4>4, <4>5 DEF Granted
    <3> QED
      BY <2>5, <3>2, <3>4 DEF Reading
  <2>6. CASE cpc[c] \notin {"get", "getwrap"}
    BY <2>6 DEF Reading
  <2> QED
    BY <2>4, <2>5, <2>6
<1> QED
  BY <1>1, HeadInvariant, PTL

\* A position given back in front of a granted one is never filled: a later
\* call starts behind it, so no call comes to commit at reserved_head.
THEOREM WedgeIsForeverHolds == Spec => WedgeIsForever
<1>1. TypeInv /\ IInv /\ HInv /\ [Next]_vars => [Wedged => Wedged']_vars
  <2> SUFFICES ASSUME TypeInv, IInv, HInv, [Next]_vars, Wedged
               PROVE  Wedged'
    OBVIOUS
  <2>1. PICK g \in Consumers : Granted(g)
    BY DEF Wedged
  <2>2. \A d \in Consumers : ~FrontHolder(d)
    BY DEF Wedged
  <2>3. head > reserved_head /\ head \in Int /\ reserved_head \in Nat
    BY <2>1, ActiveAreAhead DEF Granted, IInv, TypeInv
  <2>4. CASE UNCHANGED <<reserved_head, consumer>>
    BY <2>1, <2>2, <2>4 DEF Wedged, Granted, FrontHolder, consumer
  <2>5. ASSUME NEW c \in Consumers, Consumer(c) PROVE Wedged'
    <3>1. CASE DeqCommit(c)
      BY <2>2, <3>1 DEF DeqCommit, FrontHolder, Granted
    <3>2. CASE \/ DeqReserve(c) \/ DeqRefresh(c) \/ DeqRollback(c)
               \/ DeqGet(c) \/ DeqGetWrap(c)
      <4>1. /\ reserved_head' = reserved_head
            /\ \A d \in Consumers \ {c} : cpc'[d] = cpc[d] /\ old'[d] = old[d]
        BY <3>2 DEF DeqReserve, DeqRefresh, DeqRollback, DeqGet, DeqGetWrap, shared, TypeInv
      <4>2. /\ old'[c] = old[c] \/ old'[c] = head
            /\ old'[c] = old[c] => \/ cpc'[c] = "idle"
                                   \/ cpc[c] = "refresh" \/ Granted(c) \/ old[c] = head
        BY <3>2 DEF DeqReserve, DeqRefresh, DeqRollback, DeqGet, DeqGetWrap, shared, TypeInv, Granted
      <4>3. Granted(g)'
        BY <2>1, <3>2, <4>1 DEF DeqReserve, DeqRefresh, DeqRollback, DeqGet, DeqGetWrap,
                                TypeInv, Granted
      <4>4. ~FrontHolder(c)'
        BY <2>2, <2>3, <4>1, <4>2 DEF FrontHolder, Granted
      <4>5. \A d \in Consumers \ {c} : ~FrontHolder(d)'
        BY <2>2, <4>1 DEF FrontHolder, Granted
      <4> QED
        BY <4>3, <4>4, <4>5 DEF Wedged
    <3> QED
      BY <2>5, <3>1, <3>2 DEF Consumer
  <2>6. CASE Producer
    BY <2>4, <2>6 DEF Producer, EnqReserve, EnqRefresh, EnqRollback, EnqPut, EnqCommit, shared
  <2>7. CASE UNCHANGED vars
    BY <2>4, <2>7 DEF vars, shared
  <2> QED
    BY <2>5, <2>6, <2>7 DEF Next
<1> QED
  BY <1>1, HeadInvariant, PTL DEF Spec, WedgeIsForever

\* head, tail and every position drawn from them are never negative, whatever
\* is given back and when.
THEOREM TypeOKHolds == Spec => []TypeOK
<1> DEFINE Drawn == pold \in Nat /\ \A c \in Consumers : old[c] \in Nat
           Inv == TypeInv /\ IInv /\ HInv
<1>1. Inv => head \in Nat /\ tail \in Nat
  <2> SUFFICES ASSUME TypeInv, IInv, HInv PROVE head \in Nat /\ tail \in Nat
    OBVIOUS
  <2>1. head \in Nat
    <3>1. Weight(Active, count) \in Nat
      BY ActiveFinite, WeightType
    <3> QED
      BY <3>1 DEF HInv, HeadInv, TypeInv
  <2>2. tail \in Nat
    BY DEF IInv, ProducerInv, TypeInv
  <2> QED
    BY <2>1, <2>2
<1>2. Init => Drawn
  BY DEF Init
<1>3. Inv /\ Drawn /\ [Next]_vars => Drawn'
  <2> SUFFICES ASSUME Inv, Drawn, [Next]_vars PROVE Drawn'
    OBVIOUS
  <2>1. pold' = pold \/ pold' = tail
    BY DEF Next, Producer, EnqReserve, EnqRefresh, EnqRollback, EnqPut, EnqCommit, Consumer,
           DeqReserve, DeqRefresh, DeqRollback, DeqGet, DeqGetWrap, DeqCommit, vars, producer
  <2>2. \A d \in Consumers : old'[d] = old[d] \/ old'[d] = head
    BY DEF Next, Producer, EnqReserve, EnqRefresh, EnqRollback, EnqPut, EnqCommit, Consumer,
           DeqReserve, DeqRefresh, DeqRollback, DeqGet, DeqGetWrap, DeqCommit, vars, consumer,
           TypeInv
  <2> QED
    BY <1>1, <2>1, <2>2
<1>4. Inv /\ Drawn => TypeOK
  <2> SUFFICES ASSUME Inv, Drawn PROVE TypeOK
    OBVIOUS
  <2>1. old \in [Consumers -> Nat]
    BY DEF TypeInv
  <2>2. count \in [Consumers -> Nat]
    BY SizeAssumption DEF TypeInv
  <2> QED
    BY <1>1, <2>1, <2>2 DEF TypeInv, TypeOK
<1> HIDE DEF Drawn
<1> QED
  BY <1>2, <1>3, <1>4, HeadInvariant, PTL DEF Spec
=============================================================================
