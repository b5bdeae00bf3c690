----------------------------- MODULE DFFQ_proofs -----------------------------
(***************************************************************************)
(* The safety of DFFQ for every number of consumers, cells, retries and    *)
(* waits: items stay in their cells until their consumer has read them,    *)
(* each is returned at most once and in order, and none vanishes.          *)
(***************************************************************************)
EXTENDS DFFQ, TLAPS

\* The enqueue call in progress sends the item that belongs at tail.
SentInv == /\ ppc = "idle" => sent = tail
           /\ ppc # "idle" => sent = tail + 1

\* An occupied cell is one of the last N tickets' and holds its item whole.
CellsInv == \A s \in Slots : Busy(s) =>
              /\ Slot(rank[s]) = s
              /\ rank[s] < tail
              /\ tail =< rank[s] + N
              /\ data[s] = rank[s]

\* The producer writes into a cell that is empty, and publishes what it wrote.
ProducerInv == /\ ppc \in {"put", "publish"} => rank[Slot(tail)] = EMPTY_CELL
               /\ ppc = "publish" => data[Slot(tail)] = tail

\* A ticket is drawn once.
TicketsInv == /\ \A c \in Consumers : cpc[c] # "idle" => ticket[c] < head
              /\ TicketsDistinct

\* A consumer that found its item in the cell still finds it there.
ReadersInv == \A c \in Consumers :
                /\ cpc[c] \in {"get", "clear"} => rank[Slot(ticket[c])] = ticket[c]
                /\ cpc[c] = "clear" => out[c] = ticket[c]

\* An item that was returned is in no cell and older than what its consumer
\* now works on.
GotInv == \A c \in Consumers : \A n \in DOMAIN got[c] :
            /\ got[c][n] < head
            /\ got[c][n] < tail
            /\ \A s \in Slots : rank[s] # got[c][n]
            /\ cpc[c] # "idle" => got[c][n] < ticket[c]

\* Every item published is in its cell or was returned.
StoredInv == \A t \in 0 .. tail - 1 : rank[Slot(t)] = t \/ Returned(t)

\* Every ticket drawn is held, was given up, or brought an item.
DrawnInv == \A t \in 0 .. head - 1 :
              \/ \E c \in Consumers : Holds(c, t)
              \/ t \in givenUp
              \/ Returned(t)

IInv == /\ SentInv /\ CellsInv /\ ProducerInv /\ TicketsInv /\ ReadersInv
        /\ GotInv /\ StoredInv /\ DrawnInv
-----------------------------------------------------------------------------
\* Division with remainder.
LEMMA ModDiv ==
  ASSUME NEW n \in Nat \ {0}, NEW i \in Int
  PROVE  /\ (i % n) \in 0 .. n - 1
         /\ (i \div n) \in Int
         /\ i = n * (i \div n) + (i % n)
  BY Z3

\* The remainder is the only one.
LEMMA ModUnique ==
  ASSUME NEW n \in Nat \ {0}, NEW q \in Int, NEW r \in 0 .. n - 1
  PROVE  (n * q + r) % n = r
  BY Z3

\* A lap further on is the same slot.
LEMMA ModLap ==
  ASSUME NEW n \in Nat \ {0}, NEW i \in Int
  PROVE  (i + n) % n = i % n
<1>1. PICK q \in Int, r \in 0 .. n - 1 : i = n * q + r /\ i % n = r
  BY ModDiv
<1>2. n * (q + 1) = n * q + n
  BY Z3
<1>3. i + n = n * (q + 1) + r
  <2> DEFINE a == n * q
  <2>1. a \in Int /\ i = a + r /\ n * (q + 1) = a + n
    BY <1>1, <1>2
  <2> HIDE DEF a
  <2> QED
    BY <2>1
<1>4. (n * (q + 1) + r) % n = r
  BY ModUnique
<1> QED
  BY <1>1, <1>3, <1>4

\* Every ticket has a cell.
LEMMA SlotType == ASSUME NEW r \in Int PROVE Slot(r) \in Slots
  BY ModDiv, NAssumption DEF Slot, Slots

\* TypeOK in two parts, the second one the consumers' own.
SharedType == /\ rank \in [Slots -> Nat \cup {EMPTY_CELL}]
              /\ gap \in [Slots -> Nat]
              /\ data \in [Slots -> Nat]
              /\ head \in Nat /\ tail \in Nat /\ sent \in Nat
              /\ ppc \in {"idle", "read", "mark", "put", "publish"}

ConsumersType == /\ cpc \in [Consumers -> Steps]
                 /\ ticket \in [Consumers -> Nat]
                 /\ retry \in [Consumers -> Nat]
                 /\ wait \in [Consumers -> Nat]
                 /\ out \in [Consumers -> Nat \cup {-1}]
                 /\ got \in [Consumers -> Seq(Nat)]
                 /\ givenUp \subseteq Nat

\* The variables keep their types; the value put is never negative because
\* the call in progress has counted itself.
THEOREM TypeCorrect == Spec => []TypeOK
<1>1. Init => TypeOK /\ SentInv
  BY DEF Init, TypeOK, Steps, SentInv, EMPTY_CELL
<1>2. TypeOK /\ SentInv /\ [Next]_vars => SentInv'
  BY DEF TypeOK, SentInv, Next, Producer, Enqueue, EnqReadRank, EnqMarkGap, PastBusy,
         EnqPutData, EnqPublish, Consumer, DeqDraw, DeqReadRank, DeqGetData,
         DeqClearRank, DeqReadGap, DeqRecheck, DeqSkip, producer, vars
<1>3. TypeOK /\ SentInv /\ [Next]_vars => SharedType'
  <2> SUFFICES ASSUME TypeOK, SentInv, [Next]_vars PROVE SharedType'
    OBVIOUS
  <2> USE DEF TypeOK, SharedType, cells, producer
  <2>1. CASE Enqueue
    BY <2>1 DEF Enqueue
  <2>2. CASE EnqReadRank
    BY <2>2 DEF EnqReadRank
  <2>3. CASE EnqMarkGap
    BY <2>3, SlotType DEF EnqMarkGap, PastBusy
  <2>4. CASE EnqPutData
    <3>1. sent - 1 = tail
      BY <2>4 DEF EnqPutData, SentInv
    <3> QED
      BY <2>4, <3>1, SlotType DEF EnqPutData
  <2>5. CASE EnqPublish
    <3>1. rank' \in [Slots -> Nat \cup {EMPTY_CELL}]
      BY <2>5, SlotType DEF EnqPublish
    <3> QED
      BY <2>5, <3>1 DEF EnqPublish
  <2>6. ASSUME NEW c \in Consumers, DeqDraw(c) PROVE SharedType'
    BY <2>6 DEF DeqDraw, DrawTicket
  <2>7. ASSUME NEW c \in Consumers, DeqClearRank(c) PROVE SharedType'
    BY <2>7, SlotType DEF DeqClearRank, EMPTY_CELL
  <2>8. ASSUME NEW c \in Consumers, DeqSkip(c) PROVE SharedType'
    BY <2>8 DEF DeqSkip, DrawTicket
  <2>9. ASSUME NEW c \in Consumers,
             DeqReadRank(c) \/ DeqGetData(c) \/ DeqReadGap(c) \/ DeqRecheck(c)
      PROVE  SharedType'
    <3>1. UNCHANGED <<cells, head, producer>>
      BY <2>9 DEF DeqReadRank, DeqGetData, DeqReadGap, DeqRecheck
    <3> QED
      BY <3>1
  <2>10. CASE UNCHANGED vars
    BY <2>10 DEF vars
  <2> QED
    BY <2>1, <2>2, <2>3, <2>4, <2>5, <2>6, <2>7, <2>8, <2>9, <2>10 DEF Next, Producer, Consumer
<1>4. TypeOK /\ [Next]_vars => ConsumersType'
  <2> SUFFICES ASSUME TypeOK, [Next]_vars PROVE ConsumersType'
    OBVIOUS
  <2> USE DEF TypeOK, ConsumersType, consumer
  <2>1. CASE Producer
    BY <2>1 DEF Steps, Producer, Enqueue, EnqReadRank, EnqMarkGap, EnqPutData, EnqPublish
  <2>2. ASSUME NEW c \in Consumers, DeqDraw(c) PROVE ConsumersType'
    BY <2>2 DEF DeqDraw, DrawTicket, Steps
  <2>3. ASSUME NEW c \in Consumers, DeqReadRank(c) PROVE ConsumersType'
    <3>1. cpc' \in [Consumers -> Steps]
      BY <2>3 DEF DeqReadRank, Steps
    <3>2. /\ ticket' \in [Consumers -> Nat] /\ retry' \in [Consumers -> Nat]
          /\ out' \in [Consumers -> Nat \cup {-1}]
      BY <2>3 DEF DeqReadRank
    <3>3. got' \in [Consumers -> Seq(Nat)]
      BY <2>3 DEF DeqReadRank
    <3>4. wait' \in [Consumers -> Nat]
      BY <2>3 DEF DeqReadRank
    <3>5. givenUp' \subseteq Nat
      BY <2>3 DEF DeqReadRank
    <3> QED
      BY <3>1, <3>2, <3>3, <3>4, <3>5
  <2>4. ASSUME NEW c \in Consumers, DeqGetData(c) PROVE ConsumersType'
    <3>1. cpc' \in [Consumers -> Steps]
      BY <2>4 DEF DeqGetData, Steps
    <3>2. /\ ticket' \in [Consumers -> Nat] /\ retry' \in [Consumers -> Nat]
          /\ out' \in [Consumers -> Nat \cup {-1}]
      <4>1. ticket' = ticket /\ retry' = retry
            /\ out' = [out EXCEPT ![c] = data[Slot(ticket[c])]]
        BY <2>4 DEF DeqGetData
      <4>2. data[Slot(ticket[c])] \in Nat
        <5>1. Slot(ticket[c]) \in Slots
          BY SlotType
        <5> QED
          BY <5>1
      <4> QED
        BY <4>1, <4>2
    <3>3. got' \in [Consumers -> Seq(Nat)]
      BY <2>4 DEF DeqGetData
    <3>4. wait' \in [Consumers -> Nat]
      BY <2>4 DEF DeqGetData
    <3>5. givenUp' \subseteq Nat
      BY <2>4 DEF DeqGetData
    <3> QED
      BY <3>1, <3>2, <3>3, <3>4, <3>5
  <2>5. ASSUME NEW c \in Consumers, DeqClearRank(c) PROVE ConsumersType'
    <3>1. cpc' \in [Consumers -> Steps]
      BY <2>5 DEF DeqClearRank, Steps
    <3>2. /\ ticket' \in [Consumers -> Nat] /\ retry' \in [Consumers -> Nat]
          /\ out' \in [Consumers -> Nat \cup {-1}]
      BY <2>5 DEF DeqClearRank
    <3>3. got' \in [Consumers -> Seq(Nat)]
      BY <2>5 DEF DeqClearRank
    <3>4. wait' \in [Consumers -> Nat]
      BY <2>5 DEF DeqClearRank
    <3>5. givenUp' \subseteq Nat
      BY <2>5 DEF DeqClearRank
    <3> QED
      BY <3>1, <3>2, <3>3, <3>4, <3>5
  <2>6. ASSUME NEW c \in Consumers, DeqReadGap(c) PROVE ConsumersType'
    <3>1. cpc' \in [Consumers -> Steps]
      BY <2>6 DEF DeqReadGap, WaitOrGiveUp, Steps
    <3>2. /\ ticket' \in [Consumers -> Nat] /\ retry' \in [Consumers -> Nat]
          /\ out' \in [Consumers -> Nat \cup {-1}]
      BY <2>6 DEF DeqReadGap, WaitOrGiveUp
    <3>3. got' \in [Consumers -> Seq(Nat)]
      BY <2>6 DEF DeqReadGap, WaitOrGiveUp
    <3>4. wait' \in [Consumers -> Nat]
      <4>1. wait' = wait \/ wait' = [wait EXCEPT ![c] = @ + 1]
        BY <2>6 DEF DeqReadGap, WaitOrGiveUp
      <4>2. wait \in [Consumers -> Nat] /\ [wait EXCEPT ![c] = @ + 1] \in [Consumers -> Nat]
        OBVIOUS
      <4> QED
        BY <4>1, <4>2, Zenon
    <3>5. givenUp' \subseteq Nat
      <4>1. givenUp' = givenUp \/ givenUp' = givenUp \cup {ticket[c]}
        BY <2>6 DEF DeqReadGap, WaitOrGiveUp
      <4>2. ticket[c] \in Nat
        OBVIOUS
      <4> QED
        BY <4>1, <4>2, Zenon
    <3> QED
      BY <3>1, <3>2, <3>3, <3>4, <3>5
  <2>7. ASSUME NEW c \in Consumers, DeqRecheck(c) PROVE ConsumersType'
    <3>1. cpc' \in [Consumers -> Steps]
      BY <2>7 DEF DeqRecheck, WaitOrGiveUp, Steps
    <3>2. /\ ticket' \in [Consumers -> Nat] /\ retry' \in [Consumers -> Nat]
          /\ out' \in [Consumers -> Nat \cup {-1}]
      BY <2>7 DEF DeqRecheck, WaitOrGiveUp
    <3>3. got' \in [Consumers -> Seq(Nat)]
      BY <2>7 DEF DeqRecheck, WaitOrGiveUp
    <3>4. wait' \in [Consumers -> Nat]
      <4>1. wait' = wait \/ wait' = [wait EXCEPT ![c] = @ + 1]
        BY <2>7 DEF DeqRecheck, WaitOrGiveUp
      <4>2. wait \in [Consumers -> Nat] /\ [wait EXCEPT ![c] = @ + 1] \in [Consumers -> Nat]
        OBVIOUS
      <4> QED
        BY <4>1, <4>2, Zenon
    <3>5. givenUp' \subseteq Nat
      <4>1. givenUp' = givenUp \/ givenUp' = givenUp \cup {ticket[c]}
        BY <2>7 DEF DeqRecheck, WaitOrGiveUp
      <4>2. ticket[c] \in Nat
        OBVIOUS
      <4> QED
        BY <4>1, <4>2, Zenon
    <3> QED
      BY <3>1, <3>2, <3>3, <3>4, <3>5
  <2>8. ASSUME NEW c \in Consumers, DeqSkip(c) PROVE ConsumersType'
    <3>1. cpc' \in [Consumers -> Steps]
      BY <2>8 DEF DeqSkip, DrawTicket, Steps
    <3>2. /\ ticket' \in [Consumers -> Nat] /\ retry' \in [Consumers -> Nat]
          /\ out' \in [Consumers -> Nat \cup {-1}]
      BY <2>8 DEF DeqSkip, DrawTicket
    <3>3. got' \in [Consumers -> Seq(Nat)]
      BY <2>8 DEF DeqSkip, DrawTicket
    <3>4. wait' \in [Consumers -> Nat]
      BY <2>8 DEF DeqSkip, DrawTicket
    <3>5. givenUp' \subseteq Nat
      <4>1. /\ ticket[c] \in Nat /\ head \in Nat
            /\ \/ givenUp' = givenUp \cup {ticket[c]}
               \/ givenUp' = givenUp \cup {ticket[c], head}
        BY <2>8 DEF DeqSkip
      <4> QED
        BY <4>1, Zenon
    <3> QED
      BY <3>1, <3>2, <3>3, <3>4, <3>5
  <2>9. CASE UNCHANGED vars
    BY <2>9 DEF vars
  <2> QED
    BY <2>1, <2>2, <2>3, <2>4, <2>5, <2>6, <2>7, <2>8, <2>9 DEF Next, Consumer
<1>5. SharedType /\ ConsumersType => TypeOK
  BY DEF SharedType, ConsumersType, TypeOK
<1> QED
  BY <1>1, <1>2, <1>3, <1>4, <1>5, PTL DEF Spec
-----------------------------------------------------------------------------
\* Until the producer writes a cell, its steps leave the cells' parts alone.
LEMMA ProducerFrame ==
  ASSUME IInv, UNCHANGED <<rank, data, head, tail, consumer>>
  PROVE  CellsInv' /\ TicketsInv' /\ ReadersInv' /\ GotInv' /\ StoredInv' /\ DrawnInv'
<1>1. CellsInv'
  BY DEF IInv, CellsInv, Busy, Slot
<1>2. TicketsInv' /\ ReadersInv'
  BY DEF IInv, TicketsInv, TicketsDistinct, Holds, ReadersInv, consumer, Slot
<1>3. GotInv'
  BY DEF IInv, GotInv, consumer
<1>4. StoredInv' /\ DrawnInv'
  BY DEF IInv, StoredInv, DrawnInv, Returned, Holds, consumer, Slot
<1> QED
  BY <1>1, <1>2, <1>3, <1>4

\* The step that publishes an item fills an empty cell.
LEMMA PublishKeepsInv ==
  ASSUME TypeOK, IInv, EnqPublish
  PROVE  IInv'
<1> USE NAssumption
<1> DEFINE w == Slot(tail)
<1>1. /\ tail \in Nat /\ head \in Nat /\ w \in Slots
      /\ rank \in [Slots -> Nat \cup {-1}]
  BY SlotType DEF TypeOK, EMPTY_CELL
<1>2. /\ rank[w] = -1 /\ data[w] = tail /\ ppc = "publish"
      /\ rank' = [rank EXCEPT ![w] = tail] /\ tail' = tail + 1 /\ ppc' = "idle"
      /\ UNCHANGED <<gap, data, head, sent, consumer>>
  BY DEF EnqPublish, IInv, ProducerInv, EMPTY_CELL
<1>3. SentInv' /\ ProducerInv'
  BY <1>1, <1>2 DEF IInv, SentInv, ProducerInv
<1>4. CellsInv'
  <2> SUFFICES ASSUME NEW s \in Slots, Busy(s)'
               PROVE  /\ Slot(rank'[s]) = s /\ rank'[s] < tail'
                      /\ tail' =< rank'[s] + N /\ data'[s] = rank'[s]
    BY DEF CellsInv, Slot
  <2>1. CASE s = w
    BY <1>1, <1>2, <2>1
  <2>2. CASE s # w
    <3>1. rank'[s] = rank[s] /\ rank[s] \in Nat /\ Busy(s)
      BY <1>1, <1>2, <2>2 DEF Busy
    <3>2. /\ Slot(rank[s]) = s /\ rank[s] < tail /\ tail =< rank[s] + N
          /\ data[s] = rank[s]
      BY <3>1 DEF IInv, CellsInv
    <3>3. tail # rank[s] + N
      <4>1. (rank[s] + N) % N = rank[s] % N
        <5>1. \A i \in Int : (i + N) % N = i % N
          BY ModLap
        <5>2. rank[s] \in Int
          BY <3>1
        <5> QED
          BY <5>1, <5>2, Zenon
      <4> QED
        BY <2>2, <3>2, <4>1 DEF Slot
    <3> QED
      BY <1>1, <1>2, <3>1, <3>2, <3>3
  <2> QED
    BY <2>1, <2>2
<1>5. TicketsInv'
  BY <1>2 DEF IInv, TicketsInv, TicketsDistinct, Holds, consumer
<1>6. ReadersInv'
  <2> SUFFICES ASSUME NEW c \in Consumers
               PROVE  /\ cpc[c] \in {"get", "clear"} => rank'[Slot(ticket[c])] = ticket[c]
                      /\ cpc[c] = "clear" => out[c] = ticket[c]
    BY <1>2 DEF ReadersInv, consumer, Slot
  <2>1. ticket[c] \in Nat /\ Slot(ticket[c]) \in Slots
    BY SlotType DEF TypeOK
  <2> QED
    BY <1>1, <1>2, <2>1 DEF IInv, ReadersInv
<1>7. GotInv'
  <2> SUFFICES ASSUME NEW c \in Consumers, NEW n \in DOMAIN got[c]
               PROVE  /\ got[c][n] < head
                      /\ got[c][n] < tail'
                      /\ \A s \in Slots : rank'[s] # got[c][n]
                      /\ cpc[c] # "idle" => got[c][n] < ticket[c]
    BY <1>2 DEF GotInv, consumer
  <2>1. got[c][n] \in Nat
    BY DEF TypeOK
  <2>2. /\ got[c][n] < head
        /\ got[c][n] < tail
        /\ \A s \in Slots : rank[s] # got[c][n]
        /\ cpc[c] # "idle" => got[c][n] < ticket[c]
    BY DEF IInv, GotInv
  <2> QED
    BY <1>1, <1>2, <2>1, <2>2
<1>8. StoredInv'
  <2> SUFFICES ASSUME NEW t \in 0 .. tail' - 1 PROVE rank'[Slot(t)] = t \/ Returned(t)
    BY <1>2 DEF StoredInv, Returned, Slot, consumer
  <2>1. CASE t = tail
    BY <1>1, <1>2, <2>1
  <2>2. CASE t # tail
    <3>1. t \in 0 .. tail - 1 /\ t \in Nat /\ Slot(t) \in Slots
      BY <1>1, <1>2, <2>2, SlotType
    <3>2. rank[Slot(t)] = t \/ Returned(t)
      BY <3>1 DEF IInv, StoredInv
    <3> QED
      BY <1>1, <1>2, <3>1, <3>2
  <2> QED
    BY <2>1, <2>2
<1>9. DrawnInv'
  BY <1>2 DEF IInv, DrawnInv, Returned, Holds, consumer
<1> QED
  BY <1>3, <1>4, <1>5, <1>6, <1>7, <1>8, <1>9 DEF IInv

\* Every step of an enqueue call keeps the invariant.
LEMMA ProducerKeepsInv ==
  ASSUME TypeOK, IInv, Producer
  PROVE  IInv'
<1>1. CASE Enqueue \/ EnqMarkGap
  <2>1. SentInv' /\ ProducerInv'
    BY <1>1 DEF Enqueue, EnqMarkGap, PastBusy, IInv, SentInv, ProducerInv, TypeOK, cells
  <2> QED
    BY <1>1, <2>1, ProducerFrame DEF Enqueue, EnqMarkGap, PastBusy, IInv, cells
<1>2. CASE EnqReadRank
  <2>1. rank[Slot(tail)] \in Nat \cup {EMPTY_CELL}
    BY SlotType DEF TypeOK
  <2>2. ProducerInv' /\ SentInv'
    BY <1>2, <2>1 DEF EnqReadRank, IInv, SentInv, ProducerInv, Busy, EMPTY_CELL, cells, Slot
  <2> QED
    BY <1>2, <2>2, ProducerFrame DEF EnqReadRank, IInv, cells
<1>3. CASE EnqPutData
  <2> DEFINE w == Slot(tail)
  <2>1. /\ sent - 1 = tail /\ rank[w] = EMPTY_CELL /\ w \in Slots
        /\ ppc' = "publish" /\ UNCHANGED <<rank, gap, head, tail, sent, consumer>>
    BY <1>3, SlotType DEF EnqPutData, IInv, SentInv, ProducerInv, TypeOK
  <2>2. data' = [data EXCEPT ![w] = tail] /\ data \in [Slots -> Nat]
    BY <1>3, <2>1 DEF EnqPutData, TypeOK
  <2>3. SentInv' /\ ProducerInv'
    BY <1>3, <2>1, <2>2 DEF EnqPutData, IInv, SentInv, ProducerInv, Slot
  <2>4. ~Busy(w)
    BY <2>1 DEF Busy, EMPTY_CELL
  <2>5. CellsInv'
    BY <2>1, <2>2, <2>4 DEF IInv, CellsInv, Busy, Slot
  <2>6. TicketsInv' /\ ReadersInv'
    BY <2>1 DEF IInv, TicketsInv, TicketsDistinct, Holds, ReadersInv, consumer, Slot
  <2>7. GotInv'
    BY <2>1 DEF IInv, GotInv, consumer
  <2>8. StoredInv' /\ DrawnInv'
    BY <2>1 DEF IInv, StoredInv, DrawnInv, Returned, Holds, consumer, Slot
  <2> QED
    BY <2>3, <2>5, <2>6, <2>7, <2>8 DEF IInv
<1> QED
  BY <1>1, <1>2, <1>3, PublishKeepsInv DEF Producer

\* What the steps between drawing a ticket and emptying a cell leave alone.
LEMMA ConsumerFrame ==
  ASSUME TypeOK, IInv, NEW c \in Consumers, cpc[c] # "idle",
         UNCHANGED <<cells, head, producer, ticket, got>>,
         \A d \in Consumers \ {c} : cpc'[d] = cpc[d] /\ out'[d] = out[d],
         cpc'[c] \in {"get", "clear"} => rank[Slot(ticket[c])] = ticket[c],
         cpc'[c] = "clear" => out'[c] = ticket[c],
         cpc'[c] = "idle" => ticket[c] \in givenUp',
         givenUp \subseteq givenUp'
  PROVE  IInv'
<1>1. SentInv' /\ ProducerInv' /\ CellsInv' /\ StoredInv'
  BY DEF IInv, SentInv, ProducerInv, CellsInv, StoredInv, Busy, Slot, Returned, cells, producer
<1>2. TicketsInv'
  BY DEF IInv, TicketsInv, TicketsDistinct, Holds
<1>3. ReadersInv'
  BY DEF IInv, ReadersInv, cells, Slot
<1>4. GotInv'
  BY DEF IInv, GotInv, cells, producer
<1>5. DrawnInv'
  <2> SUFFICES ASSUME NEW t \in 0 .. head - 1
               PROVE  \/ \E d \in Consumers : cpc'[d] # "idle" /\ ticket[d] = t
                      \/ t \in givenUp'
                      \/ Returned(t)
    BY DEF DrawnInv, Holds, Returned
  <2>1. (\E d \in Consumers : cpc[d] # "idle" /\ ticket[d] = t) \/ t \in givenUp \/ Returned(t)
    BY DEF IInv, DrawnInv, Holds
  <2> QED
    BY <2>1
<1> QED
  BY <1>1, <1>2, <1>3, <1>4, <1>5 DEF IInv

\* A step that draws the next ticket, and gives up the one the call had.
LEMMA DrawKeepsInv ==
  ASSUME TypeOK, IInv, NEW c \in Consumers,
         UNCHANGED <<cells, producer, got>>,
         ticket' = [ticket EXCEPT ![c] = head], head' = head + 1,
         \A d \in Consumers \ {c} : cpc'[d] = cpc[d] /\ out'[d] = out[d],
         cpc'[c] \in {"idle", "read"},
         cpc[c] # "idle" => ticket[c] \in givenUp',
         cpc'[c] = "idle" => head \in givenUp',
         givenUp \subseteq givenUp'
  PROVE  IInv'
<1>0. /\ head \in Nat /\ ticket \in [Consumers -> Nat]
      /\ ticket'[c] = head /\ \A d \in Consumers \ {c} : ticket'[d] = ticket[d]
  BY DEF TypeOK
<1>1. SentInv' /\ ProducerInv' /\ CellsInv' /\ StoredInv'
  BY DEF IInv, SentInv, ProducerInv, CellsInv, StoredInv, Busy, Slot, Returned, cells, producer
<1>2. TicketsInv'
  <2>1. ASSUME NEW d \in Consumers, cpc'[d] # "idle" PROVE ticket'[d] < head + 1
    BY <1>0, <2>1 DEF IInv, TicketsInv
  <2>2. ASSUME NEW d \in Consumers, NEW e \in Consumers, d # e, cpc'[d] # "idle", cpc'[e] # "idle"
        PROVE  ticket'[e] # ticket'[d]
    <3>1. \A b \in Consumers \ {c} : cpc'[b] # "idle" => ticket'[b] < head
      BY <1>0 DEF IInv, TicketsInv
    <3>2. CASE d = c
      BY <1>0, <2>2, <3>1, <3>2
    <3>3. CASE e = c
      BY <1>0, <2>2, <3>1, <3>3
    <3>4. CASE d # c /\ e # c
      BY <1>0, <2>2, <3>4 DEF IInv, TicketsInv, TicketsDistinct, Holds
    <3> QED
      BY <3>2, <3>3, <3>4
  <2> QED
    BY <2>1, <2>2 DEF TicketsInv, TicketsDistinct, Holds
<1>3. ReadersInv'
  <2> SUFFICES ASSUME NEW d \in Consumers
               PROVE  /\ cpc'[d] \in {"get", "clear"} => rank[Slot(ticket'[d])] = ticket'[d]
                      /\ cpc'[d] = "clear" => out'[d] = ticket'[d]
    BY DEF ReadersInv, cells, Slot
  <2>1. CASE d = c
    BY <2>1
  <2>2. CASE d # c
    BY <1>0, <2>2 DEF IInv, ReadersInv
  <2> QED
    BY <2>1, <2>2
<1>4. GotInv'
  <2> SUFFICES ASSUME NEW d \in Consumers, NEW n \in DOMAIN got[d]
               PROVE  /\ got[d][n] < head + 1
                      /\ got[d][n] < tail
                      /\ \A s \in Slots : rank[s] # got[d][n]
                      /\ cpc'[d] # "idle" => got[d][n] < ticket'[d]
    BY DEF GotInv, cells, producer
  <2>1. got[d][n] \in Nat
    BY DEF TypeOK
  <2>2. /\ got[d][n] < head
        /\ got[d][n] < tail
        /\ \A s \in Slots : rank[s] # got[d][n]
        /\ cpc[d] # "idle" => got[d][n] < ticket[d]
    BY DEF IInv, GotInv
  <2>3. cpc'[d] # "idle" => got[d][n] < ticket'[d]
    BY <1>0, <2>2
  <2> QED
    BY <1>0, <2>1, <2>2, <2>3
<1>5. DrawnInv'
  <2> SUFFICES ASSUME NEW t \in 0 .. head' - 1
               PROVE  \/ \E d \in Consumers : cpc'[d] # "idle" /\ ticket'[d] = t
                      \/ t \in givenUp'
                      \/ Returned(t)
    BY DEF DrawnInv, Holds, Returned
  <2>1. CASE t = head
    BY <1>0, <2>1
  <2>2. CASE t # head
    <3>1. t \in 0 .. head - 1
      BY <1>0, <2>2
    <3>2. (\E d \in Consumers : cpc[d] # "idle" /\ ticket[d] = t) \/ t \in givenUp \/ Returned(t)
      BY <3>1 DEF IInv, DrawnInv, Holds
    <3> QED
      BY <1>0, <3>2
  <2> QED
    BY <2>1, <2>2
<1> QED
  BY <1>1, <1>2, <1>3, <1>4, <1>5 DEF IInv

\* The step that empties the cell returns the item that was in it.
LEMMA ClearReturns ==
  ASSUME TypeOK, IInv, NEW c \in Consumers, DeqClearRank(c)
  PROVE  /\ ticket[c] \in Nat /\ ticket[c] < tail /\ ticket[c] < head
         /\ Slot(ticket[c]) \in Slots /\ rank[Slot(ticket[c])] = ticket[c]
         /\ rank' = [rank EXCEPT ![Slot(ticket[c])] = -1]
         /\ out[c] = ticket[c]
         /\ got' = [got EXCEPT ![c] = Append(@, ticket[c])]
         /\ cpc[c] = "clear" /\ cpc' = [cpc EXCEPT ![c] = "idle"]
         /\ UNCHANGED <<gap, data, head, producer, ticket, givenUp, out>>
<1>1. ticket[c] \in Nat /\ Slot(ticket[c]) \in Slots /\ tail \in Nat
  BY SlotType DEF TypeOK
<1>2. rank[Slot(ticket[c])] = ticket[c] /\ out[c] = ticket[c] /\ ticket[c] < head
  BY DEF DeqClearRank, IInv, ReadersInv, TicketsInv
<1>3. ticket[c] < tail
  <2>1. Busy(Slot(ticket[c]))
    BY <1>1, <1>2 DEF Busy
  <2> QED
    BY <1>1, <1>2, <2>1 DEF IInv, CellsInv
<1>4. out[c] # -1
  BY <1>1, <1>2
<1> QED
  BY <1>1, <1>2, <1>3, <1>4 DEF DeqClearRank, EMPTY_CELL

\* What every consumer has received after that step.
LEMMA ClearGot ==
  ASSUME TypeOK, IInv, NEW c \in Consumers, DeqClearRank(c)
  PROVE  /\ \A d \in Consumers : \A n \in DOMAIN got'[d] :
               \/ n \in DOMAIN got[d] /\ got'[d][n] = got[d][n]
               \/ d = c /\ got'[d][n] = ticket[c]
         /\ \A t : Returned(t) => Returned(t)'
         /\ Returned(ticket[c])'
<1> DEFINE new == Append(got[c], ticket[c])
           k == Len(got[c]) + 1
<1>1. /\ got \in [Consumers -> Seq(Nat)] /\ ticket[c] \in Nat
      /\ got' = [got EXCEPT ![c] = new]
  BY ClearReturns DEF TypeOK
<1>2. /\ DOMAIN new = 1 .. k /\ DOMAIN got[c] = 1 .. Len(got[c]) /\ Len(got[c]) \in Nat
      /\ new[k] = ticket[c] /\ \A n \in 1 .. Len(got[c]) : new[n] = got[c][n]
  BY <1>1
<1>3. \A n \in 1 .. k : n \in 1 .. Len(got[c]) \/ n = k
  BY <1>2
<1>4. k \in 1 .. k /\ \A n \in 1 .. Len(got[c]) : n \in 1 .. k
  BY <1>2
<1> HIDE DEF new, k
<1>5. got'[c] = new /\ \A d \in Consumers \ {c} : got'[d] = got[d]
  BY <1>1
<1>6. ASSUME NEW d \in Consumers, NEW n \in DOMAIN got'[d]
      PROVE  \/ n \in DOMAIN got[d] /\ got'[d][n] = got[d][n]
             \/ d = c /\ got'[d][n] = ticket[c]
  <2>1. CASE d = c
    BY <1>2, <1>3, <1>5, <2>1, Zenon
  <2>2. CASE d # c
    BY <1>5, <2>2, Zenon
  <2> QED
    BY <2>1, <2>2
<1>7. ASSUME NEW t, NEW d \in Consumers, NEW n \in DOMAIN got[d], got[d][n] = t
      PROVE  n \in DOMAIN got'[d] /\ got'[d][n] = t
  <2>1. CASE d = c
    BY <1>2, <1>4, <1>5, <1>7, <2>1, Zenon
  <2>2. CASE d # c
    BY <1>5, <1>7, <2>2, Zenon
  <2> QED
    BY <2>1, <2>2
<1>8. k \in DOMAIN got'[c] /\ got'[c][k] = ticket[c]
  BY <1>2, <1>4, <1>5, Zenon
<1>9. \A t : Returned(t) => Returned(t)'
  BY <1>7, Zenon DEF Returned
<1>10. Returned(ticket[c])'
  <2>1. ticket' = ticket
    BY ClearReturns
  <2> QED
    BY <1>8, <2>1, Zenon DEF Returned
<1> QED
  BY <1>6, <1>9, <1>10

\* Emptying the cell keeps the invariant: the item is now in got.
LEMMA ClearKeepsInv ==
  ASSUME TypeOK, IInv, NEW c \in Consumers, DeqClearRank(c)
  PROVE  IInv'
<1> DEFINE w == Slot(ticket[c])
<1>1. /\ ticket[c] \in Nat /\ ticket[c] < tail /\ ticket[c] < head
      /\ w \in Slots /\ rank[w] = ticket[c]
      /\ rank' = [rank EXCEPT ![w] = -1]
      /\ cpc[c] = "clear" /\ cpc' = [cpc EXCEPT ![c] = "idle"]
      /\ UNCHANGED <<gap, data, head, producer, ticket, givenUp, out>>
  BY ClearReturns
<1>2. /\ cpc \in [Consumers -> Steps] /\ rank \in [Slots -> Nat \cup {-1}]
      /\ ticket \in [Consumers -> Nat] /\ tail \in Nat /\ head \in Nat
  BY DEF TypeOK, EMPTY_CELL
<1>3. /\ cpc'[c] = "idle" /\ \A d \in Consumers \ {c} : cpc'[d] = cpc[d]
      /\ rank'[w] = -1 /\ \A s \in Slots \ {w} : rank'[s] = rank[s]
  BY <1>1, <1>2
<1>4. SentInv' /\ ProducerInv'
  <2>1. Slot(tail) \in Slots /\ (rank[Slot(tail)] = EMPTY_CELL => rank'[Slot(tail)] = EMPTY_CELL)
    BY <1>2, <1>3, SlotType DEF EMPTY_CELL
  <2> QED
    BY <1>1, <2>1 DEF IInv, SentInv, ProducerInv, producer, Slot
<1>5. CellsInv'
  <2> SUFFICES ASSUME NEW s \in Slots, rank'[s] >= 0
               PROVE  /\ Slot(rank'[s]) = s /\ rank'[s] < tail
                      /\ tail =< rank'[s] + N /\ data[s] = rank'[s]
    BY <1>1 DEF CellsInv, Busy, Slot, producer
  <2>1. s # w
    BY <1>3
  <2> QED
    BY <1>3, <2>1 DEF IInv, CellsInv, Busy
<1>6. TicketsInv'
  BY <1>1, <1>3 DEF IInv, TicketsInv, TicketsDistinct, Holds
<1>7. ReadersInv'
  <2> SUFFICES ASSUME NEW d \in Consumers, cpc'[d] # "idle"
               PROVE  /\ cpc[d] \in {"get", "clear"} => rank'[Slot(ticket[d])] = ticket[d]
                      /\ cpc[d] = "clear" => out[d] = ticket[d]
    BY <1>1, <1>3 DEF ReadersInv, Slot
  <2>1. d # c /\ cpc'[d] = cpc[d]
    BY <1>3
  <2>2. ticket[d] # ticket[c]
    BY <1>1, <2>1 DEF IInv, TicketsInv, TicketsDistinct, Holds
  <2>3. ASSUME cpc[d] \in {"get", "clear"} PROVE rank'[Slot(ticket[d])] = ticket[d]
    <3>1. rank[Slot(ticket[d])] = ticket[d] /\ Slot(ticket[d]) \in Slots
      BY <1>2, <2>3, SlotType DEF IInv, ReadersInv
    <3>2. Slot(ticket[d]) # w
      BY <1>1, <2>2, <3>1
    <3> QED
      BY <1>3, <3>1, <3>2
  <2> QED
    BY <2>3 DEF IInv, ReadersInv
<1>8. GotInv'
  <2> SUFFICES ASSUME NEW d \in Consumers, NEW n \in DOMAIN got'[d]
               PROVE  /\ got'[d][n] < head
                      /\ got'[d][n] < tail
                      /\ \A s \in Slots : rank'[s] # got'[d][n]
                      /\ cpc'[d] # "idle" => got'[d][n] < ticket[d]
    BY <1>1 DEF GotInv, producer
  <2>1. CASE n \in DOMAIN got[d] /\ got'[d][n] = got[d][n]
    <3>1. /\ got[d][n] < head
          /\ got[d][n] < tail
          /\ \A s \in Slots : rank[s] # got[d][n]
          /\ cpc[d] # "idle" => got[d][n] < ticket[d]
      BY <2>1 DEF IInv, GotInv
    <3>2. got[d][n] \in Nat
      BY <2>1 DEF TypeOK
    <3>3. \A s \in Slots : rank'[s] # got[d][n]
      BY <1>3, <3>1, <3>2
    <3> QED
      BY <1>3, <2>1, <3>1, <3>3
  <2>2. CASE d = c /\ got'[d][n] = ticket[c]
    <3>1. \A s \in Slots : rank'[s] # ticket[c]
      <4> SUFFICES ASSUME NEW s \in Slots, rank'[s] = ticket[c] PROVE FALSE
        OBVIOUS
      <4>1. s # w
        BY <1>1, <1>3
      <4>2. Slot(rank[s]) = s
        BY <1>1, <1>3, <4>1 DEF IInv, CellsInv, Busy
      <4> QED
        BY <1>3, <4>1, <4>2
    <3> QED
      BY <1>1, <1>3, <2>2, <3>1
  <2> QED
    BY <2>1, <2>2, ClearGot
<1>9. StoredInv'
  <2> SUFFICES ASSUME NEW t \in 0 .. tail - 1 PROVE rank'[Slot(t)] = t \/ Returned(t)'
    BY <1>1 DEF StoredInv, Slot, Returned, producer
  <2>1. CASE t = ticket[c]
    <3>1. Returned(ticket[c])'
      BY ClearGot
    <3> QED
      BY <1>1, <2>1, <3>1 DEF Returned
  <2>2. CASE t # ticket[c] /\ rank[Slot(t)] = t
    <3>1. Slot(t) \in Slots /\ Slot(t) # w
      BY <1>1, <1>2, <2>2, SlotType
    <3> QED
      BY <1>3, <2>2, <3>1
  <2>3. CASE Returned(t)
    BY <2>3, ClearGot
  <2> QED
    BY <2>1, <2>2, <2>3 DEF IInv, StoredInv
<1>10. DrawnInv'
  <2> SUFFICES ASSUME NEW t \in 0 .. head - 1
               PROVE  \/ \E d \in Consumers : cpc'[d] # "idle" /\ ticket[d] = t
                      \/ t \in givenUp
                      \/ Returned(t)'
    BY <1>1 DEF DrawnInv, Holds, Returned
  <2>1. (\E d \in Consumers : cpc[d] # "idle" /\ ticket[d] = t) \/ t \in givenUp \/ Returned(t)
    BY DEF IInv, DrawnInv, Holds
  <2>2. CASE t = ticket[c]
    <3>1. Returned(ticket[c])'
      BY ClearGot
    <3> QED
      BY <1>1, <2>2, <3>1 DEF Returned
  <2>3. CASE t # ticket[c]
    BY <1>3, <2>1, <2>3, ClearGot
  <2> QED
    BY <2>2, <2>3
<1> QED
  BY <1>4, <1>5, <1>6, <1>7, <1>8, <1>9, <1>10 DEF IInv

\* Every step of a dequeue call keeps the invariant.
LEMMA ConsumerKeepsInv ==
  ASSUME TypeOK, IInv, NEW c \in Consumers, Consumer(c)
  PROVE  IInv'
<1>0. cpc \in [Consumers -> Steps] /\ out \in [Consumers -> Nat \cup {-1}]
      /\ ticket \in [Consumers -> Nat]
  BY DEF TypeOK
<1>1. CASE DeqDraw(c)
  BY <1>0, <1>1, DrawKeepsInv DEF DeqDraw, DrawTicket
<1>2. CASE DeqReadRank(c)
  BY <1>0, <1>2, ConsumerFrame DEF DeqReadRank
<1>3. CASE DeqGetData(c)
  <2>1. data[Slot(ticket[c])] = ticket[c] /\ rank[Slot(ticket[c])] = ticket[c]
    <3>1. rank[Slot(ticket[c])] = ticket[c] /\ Slot(ticket[c]) \in Slots
      BY <1>0, <1>3, SlotType DEF DeqGetData, IInv, ReadersInv
    <3>2. Busy(Slot(ticket[c]))
      BY <1>0, <3>1 DEF Busy
    <3> QED
      BY <3>1, <3>2 DEF IInv, CellsInv
  <2> QED
    BY <1>0, <1>3, <2>1, ConsumerFrame DEF DeqGetData
<1>4. CASE DeqReadGap(c)
  BY <1>0, <1>4, ConsumerFrame DEF DeqReadGap, WaitOrGiveUp
<1>5. CASE DeqRecheck(c)
  BY <1>0, <1>5, ConsumerFrame DEF DeqRecheck, WaitOrGiveUp
<1>6. CASE DeqSkip(c)
  BY <1>0, <1>6, DrawKeepsInv DEF DeqSkip, DrawTicket
<1> QED
  BY <1>1, <1>2, <1>3, <1>4, <1>5, <1>6, ClearKeepsInv DEF Consumer
-----------------------------------------------------------------------------
\* The invariant holds in every reachable state.
THEOREM Invariant == Spec => [](TypeOK /\ IInv)
<1>1. Init => IInv
  BY DEF Init, IInv, SentInv, CellsInv, ProducerInv, TicketsInv, TicketsDistinct, Holds,
         ReadersInv, GotInv, StoredInv, DrawnInv, Busy, EMPTY_CELL
<1>2. TypeOK /\ IInv /\ [Next]_vars => IInv'
  <2> SUFFICES ASSUME TypeOK, IInv, [Next]_vars PROVE IInv'
    OBVIOUS
  <2>1. CASE UNCHANGED vars
    <3>1. SentInv' /\ ProducerInv'
      BY <2>1 DEF vars, producer, cells, IInv, SentInv, ProducerInv, Slot
    <3> QED
      BY <2>1, <3>1, ProducerFrame DEF vars, producer, cells, IInv
  <2> QED
    BY <2>1, ProducerKeepsInv, ConsumerKeepsInv DEF Next
<1> QED
  BY <1>1, <1>2, TypeCorrect, PTL DEF Spec

\* The producer never writes the data of a cell that a consumer is reading: a
\* cell is read only while the item is published in it.
THEOREM NoRaceHolds == Spec => []NoRace
<1>1. TypeOK /\ IInv => NoRace
  <2> SUFFICES ASSUME TypeOK, IInv, NEW c \in Consumers,
                      ppc = "put", cpc[c] = "get", Slot(ticket[c]) = Slot(tail)
               PROVE  FALSE
    BY DEF NoRace
  <2>1. rank[Slot(tail)] = ticket[c] /\ rank[Slot(tail)] = -1 /\ ticket[c] \in Nat
    BY DEF IInv, ReadersInv, ProducerInv, EMPTY_CELL, TypeOK
  <2> QED
    BY <2>1
<1> QED
  BY <1>1, Invariant, PTL

\* Fetch-and-add hands every ticket to one call only.
THEOREM TicketsDistinctHolds == Spec => []TicketsDistinct
<1>1. IInv => TicketsDistinct
  BY DEF IInv, TicketsInv
<1> QED
  BY <1>1, Invariant, PTL

\* The ring is the window of the last N tickets, each in its own cell.
THEOREM WindowHolds == Spec => []Window
<1>1. IInv => Window
  BY DEF IInv, CellsInv, Window
<1> QED
  BY <1>1, Invariant, PTL

\* No published item vanishes: it is in its cell or some call returned it,
\* and not both, so no item is returned while it can be returned again.
THEOREM ConservedHolds == Spec => []Conserved
<1>1. TypeOK /\ IInv => Conserved
  <2> SUFFICES ASSUME TypeOK, IInv, NEW t \in 0 .. tail - 1
               PROVE  (rank[Slot(t)] = t) # Returned(t)
    BY DEF Conserved
  <2>1. rank[Slot(t)] = t \/ Returned(t)
    BY DEF IInv, StoredInv
  <2>2. ASSUME rank[Slot(t)] = t, Returned(t) PROVE FALSE
    <3>1. Slot(t) \in Slots
      BY SlotType DEF TypeOK
    <3>2. PICK c \in Consumers : \E n \in DOMAIN got[c] : got[c][n] = t
      BY <2>2 DEF Returned
    <3>3. PICK n \in DOMAIN got[c] : got[c][n] = t
      BY <3>2
    <3>4. \A s \in Slots : rank[s] # t
      BY <3>3 DEF IInv, GotInv
    <3> QED
      BY <2>2, <3>1, <3>4
  <2>3. (rank[Slot(t)] = t) \in BOOLEAN /\ Returned(t) \in BOOLEAN
    BY DEF Returned
  <2> QED
    BY <2>1, <2>2, <2>3, Zenon
<1> QED
  BY <1>1, Invariant, PTL

\* An item whose ticket was drawn is lost only when its consumer gave the
\* ticket up, by the limits of the call or by a skip.
THEOREM OnlyGivenUpAreLostHolds == Spec => []OnlyGivenUpAreLost
<1>1. TypeOK /\ IInv => OnlyGivenUpAreLost
  <2> SUFFICES ASSUME TypeOK, IInv, NEW s \in Slots, Busy(s), rank[s] < head
               PROVE  (\E c \in Consumers : Holds(c, rank[s])) \/ rank[s] \in givenUp
    BY DEF OnlyGivenUpAreLost
  <2>1. rank[s] \in Nat /\ head \in Nat
    BY DEF TypeOK, Busy, EMPTY_CELL
  <2>2. rank[s] \in 0 .. head - 1
    BY <2>1
  <2>3. ~Returned(rank[s])
    BY DEF Returned, IInv, GotInv
  <2> QED
    BY <2>2, <2>3 DEF IInv, DrawnInv
<1> QED
  BY <1>1, Invariant, PTL

\* What any step does to an occupied cell: nothing, or its own consumer
\* empties it after reading the item.
LEMMA CellStep ==
  ASSUME TypeOK, IInv, [Next]_vars, NEW s \in Slots, Busy(s)
  PROVE  \/ rank'[s] = rank[s] /\ data'[s] = data[s]
         \/ \E c \in Consumers :
              /\ cpc[c] = "clear" /\ ticket[c] = rank[s]
              /\ out[c] = data[s] /\ rank'[s] = EMPTY_CELL
<1>0. /\ rank \in [Slots -> Nat \cup {EMPTY_CELL}] /\ data \in [Slots -> Nat]
      /\ data[s] = rank[s] /\ Slot(rank[s]) = s /\ rank[s] # EMPTY_CELL
  BY DEF TypeOK, IInv, CellsInv, Busy, EMPTY_CELL
<1>1. CASE EnqPutData \/ EnqPublish
  <2>1. s # Slot(tail)
    BY <1>0, <1>1 DEF EnqPutData, EnqPublish, IInv, ProducerInv
  <2> QED
    BY <1>0, <1>1, <2>1 DEF EnqPutData, EnqPublish
<1>2. ASSUME NEW c \in Consumers, DeqClearRank(c)
      PROVE  \/ rank'[s] = rank[s] /\ data'[s] = data[s]
             \/ /\ cpc[c] = "clear" /\ ticket[c] = rank[s]
                /\ out[c] = data[s] /\ rank'[s] = EMPTY_CELL
  <2>1. /\ rank[Slot(ticket[c])] = ticket[c] /\ out[c] = ticket[c] /\ data' = data
        /\ rank' = [rank EXCEPT ![Slot(ticket[c])] = -1] /\ cpc[c] = "clear"
    BY <1>2, ClearReturns
  <2>2. CASE s = Slot(ticket[c])
    BY <1>0, <2>1, <2>2 DEF EMPTY_CELL
  <2>3. CASE s # Slot(ticket[c])
    BY <1>0, <2>1, <2>3
  <2> QED
    BY <2>2, <2>3
<1>3. CASE Enqueue \/ EnqReadRank \/ EnqMarkGap
  BY <1>3 DEF Enqueue, EnqReadRank, EnqMarkGap, cells
<1>4. ASSUME NEW c \in Consumers,
             \/ DeqDraw(c) \/ DeqReadRank(c) \/ DeqGetData(c)
             \/ DeqReadGap(c) \/ DeqRecheck(c) \/ DeqSkip(c)
      PROVE  rank' = rank /\ data' = data
  BY <1>4 DEF DeqDraw, DeqReadRank, DeqGetData, DeqReadGap, DeqRecheck, DeqSkip, cells
<1>5. CASE UNCHANGED vars
  BY <1>5 DEF vars, cells
<1> QED
  BY <1>1, <1>2, <1>3, <1>4, <1>5 DEF Next, Producer, Consumer

\* An item stays in its cell, whole, until its consumer has read it.
THEOREM ItemsStayHolds == Spec => ItemsStay
<1>1. TypeOK /\ IInv /\ [Next]_vars =>
        [\A s \in Slots :
           Busy(s) => \/ rank'[s] = rank[s] /\ data'[s] = data[s]
                      \/ \E c \in Consumers :
                           /\ cpc[c] = "clear" /\ ticket[c] = rank[s]
                           /\ out[c] = data[s] /\ rank'[s] = EMPTY_CELL]_vars
  BY CellStep
<1> QED
  BY <1>1, Invariant, PTL DEF Spec, ItemsStay

\* Nobody comes to hold a ticket that was drawn before, and head only grows.
LEMMA HoldersStep ==
  ASSUME TypeOK, IInv, [Next]_vars
  PROVE  /\ head =< head'
         /\ \A t \in Nat, c \in Consumers : t < head /\ Holds(c, t)' => Holds(c, t)
<1>0. head \in Nat /\ cpc \in [Consumers -> Steps] /\ ticket \in [Consumers -> Nat]
  BY DEF TypeOK
<1>1. CASE Producer \/ UNCHANGED vars
  BY <1>0, <1>1 DEF Producer, Enqueue, EnqReadRank, EnqMarkGap, EnqPutData, EnqPublish,
                    vars, consumer, Holds
<1>2. ASSUME NEW c \in Consumers, DeqDraw(c) \/ DeqSkip(c)
      PROVE  /\ head =< head'
             /\ \A t \in Nat, d \in Consumers : t < head /\ Holds(d, t)' => Holds(d, t)
  <2>1. /\ head' = head + 1 /\ ticket' = [ticket EXCEPT ![c] = head]
        /\ \A d \in Consumers \ {c} : cpc'[d] = cpc[d]
    BY <1>0, <1>2 DEF DeqDraw, DeqSkip, DrawTicket
  <2>2. ticket'[c] = head /\ \A d \in Consumers \ {c} : ticket'[d] = ticket[d]
    BY <1>0, <2>1
  <2> QED
    BY <1>0, <2>1, <2>2 DEF Holds
<1>3. ASSUME NEW c \in Consumers,
             DeqReadRank(c) \/ DeqGetData(c) \/ DeqReadGap(c) \/ DeqRecheck(c) \/ DeqClearRank(c)
      PROVE  /\ head =< head'
             /\ \A t \in Nat, d \in Consumers : t < head /\ Holds(d, t)' => Holds(d, t)
  <2>1. /\ head' = head /\ ticket' = ticket /\ cpc[c] # "idle"
        /\ \A d \in Consumers \ {c} : cpc'[d] = cpc[d]
    BY <1>0, <1>3 DEF DeqReadRank, DeqGetData, DeqReadGap, DeqRecheck, DeqClearRank, WaitOrGiveUp
  <2> QED
    BY <1>0, <2>1 DEF Holds
<1> QED
  BY <1>1, <1>2, <1>3 DEF Next, Consumer

\* A published item that nobody holds a drawn ticket for is never returned,
\* and its cell is never used again: the source of an enqueue that never ends.
THEOREM LostForeverHolds == Spec => LostForever
<1>1. TypeOK /\ IInv /\ [Next]_vars =>
        [\A s \in Slots : Lost(s) => Lost(s)' /\ rank'[s] = rank[s]]_vars
  <2> SUFFICES ASSUME TypeOK, IInv, [Next]_vars, NEW s \in Slots, Lost(s)
               PROVE  Lost(s)' /\ rank'[s] = rank[s]
    OBVIOUS
  <2>1. /\ Busy(s) /\ rank[s] < head /\ rank[s] \in Nat /\ head \in Nat
        /\ \A c \in Consumers : ~Holds(c, rank[s])
    BY DEF Lost, TypeOK, Busy, EMPTY_CELL
  <2>2. rank'[s] = rank[s]
    BY <2>1, CellStep DEF Holds
  <2>3. \A c \in Consumers : ~Holds(c, rank[s])'
    <3> SUFFICES ASSUME NEW c \in Consumers PROVE ~(cpc'[c] # "idle" /\ ticket'[c] = rank'[s])
      BY DEF Holds
    <3>1. rank[s] < head /\ (cpc'[c] # "idle" /\ ticket'[c] = rank[s]) => Holds(c, rank[s])
      BY <2>1, HoldersStep DEF Holds
    <3> QED
      BY <2>1, <2>2, <3>1
  <2>4. rank[s] < head'
    <3>1. head' = head \/ head' = head + 1
      BY DEF Next, Producer, Enqueue, EnqReadRank, EnqMarkGap, EnqPutData, EnqPublish,
             Consumer, DeqDraw, DeqReadRank, DeqGetData, DeqClearRank, DeqReadGap,
             DeqRecheck, DeqSkip, DrawTicket, vars
    <3> QED
      BY <2>1, <3>1
  <2> QED
    BY <2>1, <2>2, <2>3, <2>4 DEF Lost, Busy
<1> QED
  BY <1>1, Invariant, PTL DEF Spec, LostForever

\* Where everything is: each ticket with one call at most, each item in one
\* place, in its own cell until it is returned, and lost by a known rule only.
THEOREM AccountedHolds == Spec => []Accounted
<1>1. Window /\ TicketsDistinct /\ Conserved /\ OnlyGivenUpAreLost => Accounted
  BY DEF Accounted
<1> QED
  BY <1>1, WindowHolds, TicketsDistinctHolds, ConservedHolds, OnlyGivenUpAreLostHolds, PTL

\* A caller sees two steps of the bag: publishing a rank puts an item in, and
\* emptying a cell takes its item out.
LEMMA StepImplementsBag ==
  ASSUME TypeOK, IInv, [Next]_vars
  PROVE  [Bag!Next]_(Bag!bagVars)
<1>1. CASE EnqPublish
  BY <1>1 DEF EnqPublish, consumer, Bag!Next, Bag!Put
<1>2. ASSUME NEW c \in Consumers, DeqClearRank(c) PROVE [Bag!Next]_(Bag!bagVars)
  <2>1. /\ ticket[c] \in Nat /\ ticket[c] < tail
        /\ Slot(ticket[c]) \in Slots /\ rank[Slot(ticket[c])] = ticket[c]
        /\ got' = [got EXCEPT ![c] = Append(@, ticket[c])]
        /\ cpc[c] = "clear" /\ tail' = tail
    BY <1>2, ClearReturns DEF producer
  <2>2. ticket[c] \in 0 .. tail - 1
    BY <2>1 DEF TypeOK
  <2>3. ~Bag!Handed(ticket[c])
    <3>1. \A d \in Consumers : \A n \in DOMAIN got[d] : got[d][n] # ticket[c]
      BY <2>1 DEF IInv, GotInv
    <3> QED
      BY <3>1 DEF Bag!Handed
  <2>4. \A n \in DOMAIN got[c] : got[c][n] < ticket[c]
    BY <2>1 DEF IInv, GotInv
  <2>5. Bag!Take(c, ticket[c])
    BY <2>1, <2>2, <2>3, <2>4 DEF Bag!Take
  <2> QED
    BY <2>2, <2>5 DEF Bag!Next
<1>3. CASE Enqueue \/ EnqReadRank \/ EnqMarkGap \/ EnqPutData
  BY <1>3 DEF Enqueue, EnqReadRank, EnqMarkGap, PastBusy, EnqPutData, consumer, Bag!bagVars
<1>4. ASSUME NEW c \in Consumers,
             \/ DeqDraw(c) \/ DeqReadRank(c) \/ DeqGetData(c)
             \/ DeqReadGap(c) \/ DeqRecheck(c) \/ DeqSkip(c)
      PROVE  [Bag!Next]_(Bag!bagVars)
  BY <1>4 DEF DeqDraw, DeqReadRank, DeqGetData, DeqReadGap, DeqRecheck, DeqSkip,
              producer, Bag!bagVars
<1>5. CASE UNCHANGED vars
  BY <1>5 DEF vars, producer, consumer, Bag!bagVars
<1> QED
  BY <1>1, <1>2, <1>3, <1>4, <1>5 DEF Next, Producer, Consumer

\* However the calls interleave, give up and skip, each item is returned at
\* most once, only after it was enqueued, and in order to each consumer.
THEOREM Refinement == Spec => ImplementsBag
<1>1. Init => Bag!Init
  BY DEF Init, Bag!Init
<1>2. TypeOK /\ IInv /\ [Next]_vars => [Bag!Next]_(Bag!bagVars)
  BY StepImplementsBag
<1> QED
  BY <1>1, <1>2, Invariant, PTL DEF Spec, ImplementsBag, Bag!Spec
=============================================================================
