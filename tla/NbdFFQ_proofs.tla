---------------------------- MODULE NbdFFQ_proofs ----------------------------
(***************************************************************************)
(* The safety of NbdFFQ for every number of consumers, slots, retries and  *)
(* waits.  A batch does not carry the number of its ticket here, because   *)
(* the producer walks past busy slots: what keeps the order is that later  *)
(* tickets hold younger batches.                                           *)
(***************************************************************************)
EXTENDS NbdFFQ, TLAPS

\* The call in progress has counted itself.
SentInv == ppc # "idle" => sent >= 1

\* A busy slot holds a published batch for one of its own tickets.
SlotsInv == \A s \in Slots : Busy(s) =>
              Slot(ranks[s]) = s /\ ranks[s] < tail /\ datas[s] < published

\* Later tickets hold younger batches.
OrderInv == \A s, t \in Slots :
              Busy(s) /\ Busy(t) /\ ranks[s] < ranks[t] => datas[s] < datas[t]

\* The producer writes into a slot that is empty, and publishes what it wrote.
ProducerInv == /\ ppc \in {"put", "publish"} => ranks[Slot(tail)] = EMPTY_CELL
               /\ ppc = "publish" => datas[Slot(tail)] = sent - 1

\* A ticket is drawn once.
TicketsInv == /\ \A c \in Consumers : cpc[c] # "idle" => ticket[c] < head
              /\ \A c, d \in Consumers :
                   c # d /\ cpc[c] # "idle" /\ cpc[d] # "idle" => ticket[c] # ticket[d]

\* A consumer that found its batch in the slot still finds it there.
ReadersInv ==
  \A c \in Consumers :
    /\ cpc[c] \in {"get", "clear"} => ranks[Slot(ticket[c])] = ticket[c]
    /\ cpc[c] = "clear" => out[c] = datas[Slot(ticket[c])]

\* No ticket from here on was tried by consumer c.
Untried(c) == IF cpc[c] = "idle" THEN head ELSE ticket[c]

\* A batch that was returned is in no slot, and older than any its consumer
\* may still come to.
GotInv == \A c \in Consumers : \A n \in DOMAIN got[c] :
            /\ got[c][n] < published
            /\ \A s \in Slots : Busy(s) => datas[s] # got[c][n]
            /\ \A s \in Slots : Busy(s) /\ ranks[s] >= Untried(c) => got[c][n] < datas[s]

\* Every batch published is in a slot or was returned.
StoredInv == \A b \in 0 .. published - 1 :
               (\E s \in Slots : Busy(s) /\ datas[s] = b) \/ Returned(b)

\* A ticket that the producer has left behind and that is not in its slot.
Past(t) == t < tail /\ ranks[Slot(t)] # t

\* A gap mark lies behind the producer, the one from the start excepted, and
\* so does a ticket that a consumer compared with it; the double check makes
\* sure that its batch is not there.
GapsInv == /\ \A s \in Slots : gaps[s] > 0 => gaps[s] < tail
           /\ \A c \in Consumers :
                /\ cpc[c] = "recheck" /\ ticket[c] > 0 => ticket[c] < tail
                /\ cpc[c] = "skip" /\ ticket[c] > 0 => Past(ticket[c])
           /\ \A t \in skipped : t > 0 => Past(t)

\* Every ticket drawn but the first is held, was given up by a limit, or is
\* past.
DrawnInv == \A t \in 1 .. head - 1 :
              (\E c \in Consumers : Holds(c, t)) \/ t \in timedOut \/ Past(t)

IInv == /\ SentInv /\ SlotsInv /\ OrderInv /\ ProducerInv /\ TicketsInv /\ ReadersInv
        /\ GotInv /\ StoredInv /\ GapsInv /\ DrawnInv
-----------------------------------------------------------------------------
\* Division with remainder.
LEMMA ModDiv ==
  ASSUME NEW n \in Nat \ {0}, NEW i \in Int
  PROVE  /\ (i % n) \in 0 .. n - 1
         /\ (i \div n) \in Int
         /\ i = n * (i \div n) + (i % n)
  BY Z3

\* Every ticket has a slot.
LEMMA SlotType == ASSUME NEW r \in Int PROVE Slot(r) \in Slots
  BY ModDiv, NAssumption DEF Slot, Slots

\* TypeOK in two parts, the second one the consumers' own.
SharedType == /\ ranks \in [Slots -> Nat \cup {EMPTY_CELL}]
              /\ gaps \in [Slots -> Nat]
              /\ datas \in [Slots -> Nat]
              /\ head \in Nat /\ tail \in Nat /\ sent \in Nat
              /\ ppc \in {"idle", "read", "mark", "put", "publish"}

ConsumersType == /\ cpc \in [Consumers -> {"idle", "read", "get", "clear", "gap",
                                           "recheck", "skip"}]
                 /\ ticket \in [Consumers -> Nat]
                 /\ retry \in [Consumers -> Nat]
                 /\ wait \in [Consumers -> Nat]
                 /\ out \in [Consumers -> Nat]
                 /\ got \in [Consumers -> Seq(Nat)]
                 /\ skipped \subseteq Nat /\ timedOut \subseteq Nat

\* What WaitOrGiveUp leaves of the types.
LEMMA WaitType ==
  ASSUME ConsumersType, NEW c \in Consumers, WaitOrGiveUp(c)
  PROVE  /\ wait' \in [Consumers -> Nat]
         /\ timedOut' \subseteq Nat
         /\ cpc' = [cpc EXCEPT ![c] = "read"] \/ cpc' = [cpc EXCEPT ![c] = "idle"]
<1>1. /\ wait' = [wait EXCEPT ![c] = @ + 1]
      /\ timedOut' = timedOut \/ timedOut' = timedOut \cup {ticket[c]}
      /\ cpc' = [cpc EXCEPT ![c] = "read"] \/ cpc' = [cpc EXCEPT ![c] = "idle"]
  BY DEF WaitOrGiveUp
<1>2. ticket[c] \in Nat /\ timedOut \subseteq Nat /\ wait \in [Consumers -> Nat]
  BY DEF ConsumersType
<1>3. wait' \in [Consumers -> Nat]
  BY <1>1, <1>2
<1>4. timedOut' \subseteq Nat
  BY <1>1, <1>2, Zenon
<1> QED
  BY <1>1, <1>3, <1>4

\* The variables keep their types; the batch put is never negative because
\* the call in progress has counted itself.
THEOREM TypeCorrect == Spec => []TypeOK
<1>1. Init => TypeOK /\ SentInv
  BY DEF Init, TypeOK, SentInv, EMPTY_CELL
<1>2. TypeOK /\ SentInv /\ [Next]_vars => SentInv'
  BY DEF TypeOK, SentInv, Next, Producer, EnqueueBatch, EnqReadRank, EnqMarkGap,
         EnqPutBatch, EnqPublish, Consumer, DeqDraw, DeqReadRank, DeqGetBatch,
         DeqClearRank, DeqReadGap, DeqRecheck, DeqSkip, producer, vars
<1>3. TypeOK /\ SentInv /\ [Next]_vars => SharedType'
  <2> SUFFICES ASSUME TypeOK, SentInv, [Next]_vars PROVE SharedType'
    OBVIOUS
  <2> USE DEF TypeOK, SharedType, windows, producer
  <2>1. CASE EnqueueBatch
    BY <2>1 DEF EnqueueBatch
  <2>2. CASE EnqReadRank
    BY <2>2 DEF EnqReadRank
  <2>3. CASE EnqMarkGap
    <3>1. gaps' \in [Slots -> Nat]
      BY <2>3, SlotType DEF EnqMarkGap
    <3> QED
      BY <2>3, <3>1 DEF EnqMarkGap, PastBusy
  <2>4. CASE EnqPutBatch
    <3>1. sent - 1 \in Nat
      BY <2>4 DEF EnqPutBatch, SentInv
    <3> QED
      BY <2>4, <3>1, SlotType DEF EnqPutBatch
  <2>5. CASE EnqPublish
    <3>1. ranks' \in [Slots -> Nat \cup {EMPTY_CELL}]
      BY <2>5, SlotType DEF EnqPublish
    <3> QED
      BY <2>5, <3>1 DEF EnqPublish
  <2>6. ASSUME NEW c \in Consumers, DeqDraw(c) PROVE SharedType'
    BY <2>6 DEF DeqDraw, DrawTicket
  <2>7. ASSUME NEW c \in Consumers, DeqClearRank(c) PROVE SharedType'
    BY <2>7, SlotType DEF DeqClearRank, EMPTY_CELL
  <2>8. ASSUME NEW c \in Consumers, DeqSkip(c) PROVE SharedType'
    BY <2>8 DEF DeqSkip, DrawTicket
  <2>9. ASSUME NEW c \in Consumers,
             DeqReadRank(c) \/ DeqGetBatch(c) \/ DeqReadGap(c) \/ DeqRecheck(c)
      PROVE  SharedType'
    <3>1. UNCHANGED <<windows, head, producer>>
      BY <2>9 DEF DeqReadRank, DeqGetBatch, DeqReadGap, DeqRecheck
    <3> QED
      BY <3>1
  <2>10. CASE UNCHANGED vars
    BY <2>10 DEF vars
  <2> QED
    BY <2>1, <2>2, <2>3, <2>4, <2>5, <2>6, <2>7, <2>8, <2>9, <2>10 DEF Next, Producer, Consumer
<1>4. TypeOK /\ [Next]_vars => ConsumersType'
  <2> SUFFICES ASSUME TypeOK, ConsumersType, [Next]_vars PROVE ConsumersType'
    BY DEF TypeOK, ConsumersType
  <2>1. CASE Producer \/ UNCHANGED vars
    BY <2>1 DEF ConsumersType, Producer, EnqueueBatch, EnqReadRank, EnqMarkGap, EnqPutBatch,
                EnqPublish, consumer, vars
  <2>2. ASSUME NEW c \in Consumers, DeqReadRank(c) PROVE ConsumersType'
    BY <2>2 DEF ConsumersType, DeqReadRank
  <2>3. ASSUME NEW c \in Consumers, DeqGetBatch(c) PROVE ConsumersType'
    <3>1. datas[Slot(ticket[c])] \in Nat
      BY SlotType DEF TypeOK
    <3> QED
      BY <2>3, <3>1 DEF ConsumersType, DeqGetBatch
  <2>4. ASSUME NEW c \in Consumers, DeqClearRank(c) PROVE ConsumersType'
    BY <2>4 DEF ConsumersType, DeqClearRank
  <2>5. ASSUME NEW c \in Consumers, DeqReadGap(c) \/ DeqRecheck(c) PROVE ConsumersType'
    <3>1. /\ UNCHANGED <<ticket, retry, out, got, skipped>>
          /\ \/ WaitOrGiveUp(c)
             \/ /\ \/ cpc' = [cpc EXCEPT ![c] = "recheck"]
                   \/ cpc' = [cpc EXCEPT ![c] = "skip"]
                /\ UNCHANGED <<wait, timedOut>>
      BY <2>5 DEF DeqReadGap, DeqRecheck
    <3>2. CASE WaitOrGiveUp(c)
      BY <3>1, <3>2, WaitType DEF ConsumersType
    <3>3. CASE ~WaitOrGiveUp(c)
      BY <3>1, <3>3 DEF ConsumersType
    <3> QED
      BY <3>2, <3>3
  <2>6. ASSUME NEW c \in Consumers, DeqDraw(c) \/ DeqSkip(c) PROVE ConsumersType'
    <3> USE DEF TypeOK
    <3>1. /\ \/ cpc' = cpc \/ cpc' = [cpc EXCEPT ![c] = "read"]
             \/ cpc' = [cpc EXCEPT ![c] = "idle"]
          /\ ticket' = [ticket EXCEPT ![c] = head]
          /\ retry' = [retry EXCEPT ![c] = 1] \/ retry' = [retry EXCEPT ![c] = @ + 1]
          /\ wait' = [wait EXCEPT ![c] = 0]
          /\ UNCHANGED <<out, got>>
      BY <2>6 DEF DeqDraw, DeqSkip, DrawTicket
    <3>2. /\ skipped' = skipped \/ skipped' = skipped \cup {ticket[c]}
          /\ timedOut' = timedOut \/ timedOut' = timedOut \cup {head}
      BY <2>6 DEF DeqDraw, DeqSkip
    <3>3. ticket[c] \in Nat /\ head \in Nat
      OBVIOUS
    <3>4. skipped' \subseteq Nat /\ timedOut' \subseteq Nat
      BY <3>2, <3>3, Zenon DEF ConsumersType
    <3>5. cpc' \in [Consumers -> {"idle", "read", "get", "clear", "gap", "recheck", "skip"}]
      BY <3>1
    <3>6. retry' \in [Consumers -> Nat]
      <4>1. /\ [retry EXCEPT ![c] = 1] \in [Consumers -> Nat]
            /\ [retry EXCEPT ![c] = @ + 1] \in [Consumers -> Nat]
        OBVIOUS
      <4> QED
        BY <3>1, <4>1, Zenon
    <3>7. ticket' \in [Consumers -> Nat] /\ wait' \in [Consumers -> Nat]
      BY <3>1
    <3> QED
      BY <3>1, <3>4, <3>5, <3>6, <3>7 DEF ConsumersType
  <2> QED
    BY <2>1, <2>2, <2>3, <2>4, <2>5, <2>6 DEF Next, Consumer
<1>5. SharedType /\ ConsumersType => TypeOK
  BY DEF SharedType, ConsumersType, TypeOK
<1> QED
  BY <1>1, <1>2, <1>3, <1>4, <1>5, PTL DEF Spec
-----------------------------------------------------------------------------
\* The parts of the invariant that the producer's steps before the last one
\* keep, because they touch no busy slot.
LEMMA ProducerFrame ==
  ASSUME TypeOK, IInv, UNCHANGED <<ranks, head, consumer>>,
         published' = published, tail' \in {tail, tail + 1},
         \A s \in Slots : Busy(s) => datas'[s] = datas[s],
         \A s \in Slots : gaps'[s] > 0 => gaps'[s] < tail'
  PROVE  /\ SlotsInv' /\ OrderInv' /\ TicketsInv' /\ ReadersInv'
         /\ GotInv' /\ StoredInv' /\ GapsInv' /\ DrawnInv'
<1>0. /\ ranks \in [Slots -> Nat \cup {-1}] /\ tail \in Nat
      /\ ticket \in [Consumers -> Nat] /\ skipped \subseteq Nat /\ tail' \in Nat /\ tail =< tail'
  BY DEF TypeOK, EMPTY_CELL
<1>1. \A s \in Slots : Busy(s)' = Busy(s)
  BY DEF Busy
<1>2. SlotsInv'
  <2> SUFFICES ASSUME NEW s \in Slots, Busy(s)
               PROVE  Slot(ranks[s]) = s /\ ranks[s] < tail' /\ datas'[s] < published
    BY <1>1 DEF SlotsInv, Slot
  <2>1. Slot(ranks[s]) = s /\ ranks[s] < tail /\ datas[s] < published /\ ranks[s] \in Nat
    BY <1>0 DEF IInv, SlotsInv, Busy
  <2> QED
    BY <1>0, <2>1
<1>3. OrderInv'
  BY <1>1 DEF IInv, OrderInv
<1>4. TicketsInv'
  BY DEF IInv, TicketsInv, consumer
<1>5. ReadersInv'
  <2> SUFFICES ASSUME NEW c \in Consumers
               PROVE  /\ cpc[c] \in {"get", "clear"} => ranks[Slot(ticket[c])] = ticket[c]
                      /\ cpc[c] = "clear" => out[c] = datas'[Slot(ticket[c])]
    BY DEF ReadersInv, consumer, Slot
  <2>1. cpc[c] \in {"get", "clear"} => ranks[Slot(ticket[c])] = ticket[c]
    BY DEF IInv, ReadersInv
  <2>2. ASSUME cpc[c] = "clear" PROVE out[c] = datas'[Slot(ticket[c])]
    <3>1. Slot(ticket[c]) \in Slots /\ ticket[c] \in Nat
      BY <1>0, SlotType
    <3>2. Busy(Slot(ticket[c])) /\ out[c] = datas[Slot(ticket[c])]
      BY <2>1, <2>2, <3>1 DEF Busy, IInv, ReadersInv
    <3> QED
      BY <3>1, <3>2
  <2> QED
    BY <2>1, <2>2
<1>6. GotInv'
  <2>1. \A c \in Consumers : Untried(c)' = Untried(c)
    BY DEF Untried, consumer
  <2> QED
    BY <1>1, <2>1 DEF IInv, GotInv, consumer
<1>7. StoredInv'
  <2> SUFFICES ASSUME NEW b \in 0 .. published - 1
               PROVE  (\E s \in Slots : Busy(s) /\ datas'[s] = b) \/ Returned(b)
    BY <1>1 DEF StoredInv, Returned, consumer
  <2> QED
    BY DEF IInv, StoredInv
<1>8. \A t \in Nat : Past(t) => Past(t)'
  BY <1>0 DEF Past, Slot
<1>9. GapsInv'
  <2>1. \A c \in Consumers :
          /\ cpc'[c] = "recheck" /\ ticket'[c] > 0 => ticket'[c] < tail'
          /\ cpc'[c] = "skip" /\ ticket'[c] > 0 => Past(ticket[c])'
    <3> SUFFICES ASSUME NEW c \in Consumers
                 PROVE  /\ cpc[c] = "recheck" /\ ticket[c] > 0 => ticket[c] < tail'
                        /\ cpc[c] = "skip" /\ ticket[c] > 0 => Past(ticket[c])'
      BY DEF consumer
    <3>1. ticket[c] \in Nat /\ ticket' = ticket
      BY <1>0 DEF consumer
    <3>2. /\ cpc[c] = "recheck" /\ ticket[c] > 0 => ticket[c] < tail
          /\ cpc[c] = "skip" /\ ticket[c] > 0 => Past(ticket[c])
      BY DEF IInv, GapsInv
    <3>3. Past(ticket[c]) => Past(ticket[c])'
      BY <1>8, <3>1 DEF Past
    <3> QED
      BY <1>0, <3>1, <3>2, <3>3
  <2>2. \A t \in skipped' : t > 0 => Past(t)'
    BY <1>0, <1>8 DEF IInv, GapsInv, consumer
  <2>3. ticket' = ticket
    BY DEF consumer
  <2> QED
    BY <2>1, <2>2, <2>3 DEF GapsInv, Past
<1>10. DrawnInv'
  <2> SUFFICES ASSUME NEW t \in 1 .. head - 1
               PROVE  (\E c \in Consumers : Holds(c, t)) \/ t \in timedOut \/ Past(t)'
    BY DEF DrawnInv, Holds, consumer
  <2>1. t \in Nat
    BY DEF TypeOK
  <2> QED
    BY <1>8, <2>1 DEF IInv, DrawnInv
<1> QED
  BY <1>2, <1>3, <1>4, <1>5, <1>6, <1>7, <1>9, <1>10

\* The step that publishes a batch fills an empty slot with the youngest one.
LEMMA PublishKeepsInv ==
  ASSUME TypeOK, IInv, EnqPublish
  PROVE  IInv'
<1> DEFINE w == Slot(tail)
<1>1. /\ tail \in Nat /\ head \in Nat /\ sent \in Nat /\ w \in Slots
      /\ ranks \in [Slots -> Nat \cup {-1}] /\ datas \in [Slots -> Nat]
      /\ ticket \in [Consumers -> Nat] /\ skipped \subseteq Nat
  <2>1. tail \in Nat /\ w \in Slots
    BY SlotType DEF TypeOK
  <2> QED
    BY <2>1 DEF TypeOK, EMPTY_CELL
<1>2. /\ ranks[w] = -1 /\ datas[w] = sent - 1 /\ ppc = "publish"
      /\ ranks' = [ranks EXCEPT ![w] = tail] /\ tail' = tail + 1 /\ ppc' = "idle"
      /\ UNCHANGED <<gaps, datas, head, sent, consumer>>
      /\ published = sent - 1 /\ published' = sent
  BY DEF EnqPublish, IInv, ProducerInv, EMPTY_CELL, published
<1>3. /\ ranks'[w] = tail
      /\ \A s \in Slots \ {w} : ranks'[s] = ranks[s]
      /\ \A s \in Slots : Busy(s)' <=> (Busy(s) \/ s = w)
  BY <1>1, <1>2 DEF Busy
<1>4. SentInv' /\ ProducerInv'
  BY <1>2 DEF SentInv, ProducerInv
<1>5. \A s \in Slots : Busy(s) => /\ s # w /\ Slot(ranks[s]) = s /\ ranks[s] < tail
                                  /\ datas[s] < sent - 1
  BY <1>2 DEF IInv, SlotsInv, Busy
<1>6. SlotsInv'
  <2> SUFFICES ASSUME NEW s \in Slots, Busy(s) \/ s = w
               PROVE  Slot(ranks'[s]) = s /\ ranks'[s] < tail + 1 /\ datas[s] < sent
    BY <1>2, <1>3 DEF SlotsInv, Slot
  <2>1. CASE s = w
    BY <1>1, <1>2, <1>3, <2>1
  <2>2. CASE Busy(s)
    <3>1. /\ s # w /\ Slot(ranks[s]) = s /\ ranks[s] < tail /\ datas[s] < sent - 1
          /\ ranks[s] \in Int /\ datas[s] \in Int
      BY <1>1, <1>5, <2>2
    <3>2. ranks'[s] = ranks[s]
      BY <1>3, <3>1
    <3> QED
      BY <1>1, <3>1, <3>2
  <2> QED
    BY <2>1, <2>2
<1>7. OrderInv'
  <2> SUFFICES ASSUME NEW s \in Slots, NEW t \in Slots, Busy(s) \/ s = w, Busy(t) \/ t = w,
                      ranks'[s] < ranks'[t]
               PROVE  datas[s] < datas[t]
    BY <1>2, <1>3 DEF OrderInv
  <2>1. CASE s = w
    <3>1. t # w
      BY <1>1, <1>3, <2>1
    <3>2. ranks'[t] = ranks[t] /\ ranks[t] < tail /\ ranks[t] \in Int
      BY <1>1, <1>3, <1>5, <3>1
    <3> QED
      BY <1>1, <1>3, <2>1, <3>2
  <2>2. CASE s # w /\ t = w
    BY <1>2, <1>5, <2>2
  <2>3. CASE s # w /\ t # w
    BY <1>3, <2>3 DEF IInv, OrderInv
  <2> QED
    BY <2>1, <2>2, <2>3
<1>8. TicketsInv'
  BY <1>2 DEF IInv, TicketsInv, consumer
<1>9. ReadersInv'
  <2> SUFFICES ASSUME NEW c \in Consumers
               PROVE  /\ cpc[c] \in {"get", "clear"} => ranks'[Slot(ticket[c])] = ticket[c]
                      /\ cpc[c] = "clear" => out[c] = datas[Slot(ticket[c])]
    BY <1>2 DEF ReadersInv, consumer, Slot
  <2>1. ticket[c] \in Nat /\ Slot(ticket[c]) \in Slots
    BY SlotType DEF TypeOK
  <2>2. Slot(ticket[c]) = w => ranks[Slot(ticket[c])] # ticket[c]
    BY <1>2, <2>1
  <2> QED
    BY <1>3, <2>1, <2>2 DEF IInv, ReadersInv
<1>10. GotInv'
  <2> SUFFICES ASSUME NEW c \in Consumers, NEW n \in DOMAIN got[c]
               PROVE  /\ got[c][n] < sent
                      /\ \A s \in Slots : Busy(s) \/ s = w => datas[s] # got[c][n]
                      /\ \A s \in Slots : (Busy(s) \/ s = w) /\ ranks'[s] >= Untried(c)
                                            => got[c][n] < datas[s]
    <3>1. \A c \in Consumers : Untried(c)' = Untried(c)
      BY <1>2 DEF Untried, consumer
    <3>2. got' = got
      BY <1>2 DEF consumer
    <3> QED
      BY <1>2, <1>3, <3>1, <3>2 DEF GotInv
  <2>1. got[c][n] \in Nat
    BY DEF TypeOK
  <2>2. /\ got[c][n] < sent - 1
        /\ \A s \in Slots : Busy(s) => datas[s] # got[c][n]
        /\ \A s \in Slots : Busy(s) /\ ranks[s] >= Untried(c) => got[c][n] < datas[s]
    BY <1>2 DEF IInv, GotInv
  <2>3. ASSUME NEW s \in Slots, Busy(s) \/ s = w, ranks'[s] >= Untried(c)
        PROVE  got[c][n] < datas[s]
    <3>1. CASE s = w
      BY <1>2, <2>2, <3>1
    <3>2. CASE s # w
      BY <1>3, <2>2, <2>3, <3>2
    <3> QED
      BY <3>1, <3>2
  <2> QED
    BY <1>1, <1>2, <2>1, <2>2, <2>3
<1>11. StoredInv'
  <2> SUFFICES ASSUME NEW b \in 0 .. sent - 1
               PROVE  (\E s \in Slots : (Busy(s) \/ s = w) /\ datas[s] = b) \/ Returned(b)
    BY <1>2, <1>3 DEF StoredInv, Returned, consumer
  <2>1. CASE b = sent - 1
    BY <1>1, <1>2, <2>1
  <2>2. CASE b # sent - 1
    <3>1. b \in 0 .. published - 1
      BY <1>1, <1>2, <2>2
    <3> QED
      BY <3>1 DEF IInv, StoredInv
  <2> QED
    BY <2>1, <2>2
<1>12. \A t \in Nat : Past(t) => Past(t)'
  <2> SUFFICES ASSUME NEW t \in Nat, t < tail, ranks[Slot(t)] # t
               PROVE  t < tail + 1 /\ ranks'[Slot(t)] # t
    BY <1>2 DEF Past, Slot
  <2>1. Slot(t) \in Slots
    BY SlotType
  <2>2. CASE Slot(t) = w
    BY <1>1, <1>3, <2>2
  <2>3. CASE Slot(t) # w
    BY <1>1, <1>3, <2>1, <2>3
  <2> QED
    BY <2>2, <2>3
<1>13. GapsInv'
  <2>1. \A s \in Slots : gaps[s] > 0 => gaps[s] < tail + 1
    BY <1>1 DEF IInv, GapsInv, TypeOK
  <2>2. ASSUME NEW c \in Consumers
        PROVE  /\ cpc[c] = "recheck" /\ ticket[c] > 0 => ticket[c] < tail + 1
               /\ cpc[c] = "skip" /\ ticket[c] > 0 => Past(ticket[c])'
    <3>1. ticket[c] \in Nat
      BY <1>1
    <3>2. /\ cpc[c] = "recheck" /\ ticket[c] > 0 => ticket[c] < tail
          /\ cpc[c] = "skip" /\ ticket[c] > 0 => Past(ticket[c])
      BY DEF IInv, GapsInv
    <3>3. Past(ticket[c]) => Past(ticket[c])'
      <4>1. ticket' = ticket
        BY <1>2 DEF consumer
      <4> QED
        BY <1>12, <3>1, <4>1 DEF Past
    <3> QED
      BY <1>1, <3>1, <3>2, <3>3
  <2>3. \A t \in skipped : t > 0 => Past(t)'
    BY <1>1, <1>12 DEF IInv, GapsInv
  <2> QED
    BY <1>2, <2>1, <2>2, <2>3 DEF GapsInv, consumer
<1>14. DrawnInv'
  <2> SUFFICES ASSUME NEW t \in 1 .. head - 1
               PROVE  (\E c \in Consumers : Holds(c, t)) \/ t \in timedOut \/ Past(t)'
    BY <1>2 DEF DrawnInv, Holds, consumer
  <2> QED
    BY <1>1, <1>12 DEF IInv, DrawnInv
<1> QED
  BY <1>4, <1>6, <1>7, <1>8, <1>9, <1>10, <1>11, <1>13, <1>14 DEF IInv

\* Every step of an enqueue call keeps the invariant.
LEMMA ProducerKeepsInv ==
  ASSUME TypeOK, IInv, Producer
  PROVE  IInv'
<1>0. /\ tail \in Nat /\ sent \in Nat /\ Slot(tail) \in Slots /\ gaps \in [Slots -> Nat]
      /\ ranks \in [Slots -> Nat \cup {EMPTY_CELL}] /\ datas \in [Slots -> Nat]
  <2>1. tail \in Nat /\ Slot(tail) \in Slots
    BY SlotType DEF TypeOK
  <2> QED
    BY <2>1 DEF TypeOK
<1>1. \A s \in Slots : gaps[s] > 0 => gaps[s] < tail
  BY DEF IInv, GapsInv
<1>2. CASE EnqueueBatch
  <2>1. SentInv' /\ ProducerInv' /\ published' = published
    BY <1>0, <1>2 DEF EnqueueBatch, SentInv, ProducerInv, published
  <2> QED
    BY <1>1, <1>2, <2>1, ProducerFrame DEF EnqueueBatch, IInv, windows
<1>3. CASE EnqReadRank
  <2>1. SentInv' /\ ProducerInv' /\ published' = published
    BY <1>0, <1>3 DEF EnqReadRank, IInv, SentInv, ProducerInv, published, Busy, EMPTY_CELL,
                      windows, Slot
  <2> QED
    BY <1>1, <1>3, <2>1, ProducerFrame DEF EnqReadRank, IInv, windows
<1>4. CASE EnqMarkGap
  <2>1. SentInv' /\ ProducerInv' /\ published' = published
    BY <1>4 DEF EnqMarkGap, IInv, SentInv, ProducerInv, published
  <2>2. \A s \in Slots : gaps'[s] > 0 => gaps'[s] < tail'
    <3>1. tail' = tail + 1 /\ gaps' = [gaps EXCEPT ![Slot(tail)] = tail]
      BY <1>4 DEF EnqMarkGap, PastBusy
    <3> QED
      BY <1>0, <1>1, <3>1
  <2>3. tail' = tail + 1
    BY <1>4 DEF EnqMarkGap, PastBusy
  <2> QED
    BY <1>4, <2>1, <2>2, <2>3, ProducerFrame DEF EnqMarkGap, IInv
<1>5. CASE EnqPutBatch
  <2>1. /\ ranks[Slot(tail)] = EMPTY_CELL /\ ppc' = "publish" /\ sent >= 1
        /\ datas' = [datas EXCEPT ![Slot(tail)] = sent - 1]
        /\ UNCHANGED <<ranks, gaps, head, tail, sent, consumer>>
    BY <1>5 DEF EnqPutBatch, IInv, ProducerInv, SentInv
  <2>2. SentInv' /\ ProducerInv'
    BY <1>0, <2>1 DEF SentInv, ProducerInv, Slot
  <2>3. published' = published
    BY <1>5, <2>1 DEF EnqPutBatch, published
  <2>4. \A s \in Slots : Busy(s) => datas'[s] = datas[s]
    BY <1>0, <2>1 DEF Busy, EMPTY_CELL
  <2> QED
    BY <1>1, <2>1, <2>2, <2>3, <2>4, ProducerFrame DEF IInv
<1> QED
  BY <1>2, <1>3, <1>4, <1>5, PublishKeepsInv DEF Producer

\* What the steps between drawing a ticket and emptying a slot leave alone.
LEMMA ConsumerFrame ==
  ASSUME TypeOK, IInv, NEW c \in Consumers, cpc[c] # "idle",
         UNCHANGED <<windows, head, producer, ticket, got, skipped>>,
         \A d \in Consumers \ {c} : cpc'[d] = cpc[d] /\ out'[d] = out[d],
         cpc'[c] \in {"get", "clear"} => ranks[Slot(ticket[c])] = ticket[c],
         cpc'[c] = "clear" => out'[c] = datas[Slot(ticket[c])],
         cpc'[c] = "recheck" /\ ticket[c] > 0 => ticket[c] < tail,
         cpc'[c] = "skip" /\ ticket[c] > 0 => Past(ticket[c]),
         cpc'[c] = "idle" => ticket[c] \in timedOut',
         timedOut \subseteq timedOut'
  PROVE  IInv'
<1>0. /\ ticket[c] \in Nat /\ ticket[c] < head /\ head \in Nat
      /\ ranks \in [Slots -> Nat \cup {-1}]
  BY DEF TypeOK, IInv, TicketsInv, EMPTY_CELL
<1>1. SentInv' /\ SlotsInv' /\ OrderInv' /\ ProducerInv' /\ StoredInv'
  BY DEF IInv, SentInv, SlotsInv, OrderInv, ProducerInv, StoredInv, Busy, Slot, Returned,
         published, windows, producer
<1>2. TicketsInv'
  BY DEF IInv, TicketsInv
<1>3. ReadersInv'
  BY DEF IInv, ReadersInv, windows, Slot
<1>4. GotInv'
  <2> SUFFICES ASSUME NEW d \in Consumers, NEW n \in DOMAIN got[d]
               PROVE  /\ got[d][n] < published
                      /\ \A s \in Slots : Busy(s) => datas[s] # got[d][n]
                      /\ \A s \in Slots : Busy(s) /\ ranks[s] >= Untried(d)'
                                            => got[d][n] < datas[s]
    BY DEF GotInv, Busy, published, windows, producer
  <2>1. /\ got[d][n] < published
        /\ \A s \in Slots : Busy(s) => datas[s] # got[d][n]
        /\ \A s \in Slots : Busy(s) /\ ranks[s] >= Untried(d) => got[d][n] < datas[s]
    BY DEF IInv, GotInv
  <2>2. Untried(d)' = Untried(d) \/ (d = c /\ Untried(d)' = head)
    BY DEF Untried
  <2>3. \A s \in Slots : Busy(s) /\ ranks[s] >= head /\ d = c => ranks[s] >= Untried(d)
    BY <1>0 DEF Untried, Busy
  <2> QED
    BY <2>1, <2>2, <2>3
<1>5. GapsInv'
  BY DEF IInv, GapsInv, Past, windows, producer, Slot
<1>6. DrawnInv'
  <2> SUFFICES ASSUME NEW t \in 1 .. head - 1
               PROVE  \/ \E d \in Consumers : cpc'[d] # "idle" /\ ticket[d] = t
                      \/ t \in timedOut'
                      \/ Past(t)
    BY DEF DrawnInv, Holds, Past, windows, producer, Slot
  <2>1. (\E d \in Consumers : cpc[d] # "idle" /\ ticket[d] = t) \/ t \in timedOut \/ Past(t)
    BY DEF IInv, DrawnInv, Holds
  <2> QED
    BY <2>1
<1> QED
  BY <1>1, <1>2, <1>3, <1>4, <1>5, <1>6 DEF IInv

\* A step that draws the next ticket; the one that the call had, if any, was
\* found to be past.
LEMMA DrawKeepsInv ==
  ASSUME TypeOK, IInv, NEW c \in Consumers,
         UNCHANGED <<windows, producer, got>>,
         ticket' = [ticket EXCEPT ![c] = head], head' = head + 1,
         \A d \in Consumers \ {c} : cpc'[d] = cpc[d] /\ out'[d] = out[d],
         cpc'[c] \in {"idle", "read"},
         cpc[c] # "idle" /\ ticket[c] > 0 => Past(ticket[c]),
         skipped' \in {skipped, skipped \cup {ticket[c]}},
         skipped' # skipped => cpc[c] # "idle",
         cpc'[c] = "idle" => head \in timedOut',
         timedOut \subseteq timedOut'
  PROVE  IInv'
<1>0. /\ head \in Nat /\ ticket \in [Consumers -> Nat] /\ skipped \subseteq Nat
      /\ ticket'[c] = head /\ \A d \in Consumers \ {c} : ticket'[d] = ticket[d]
      /\ ranks \in [Slots -> Nat \cup {-1}]
  BY DEF TypeOK, EMPTY_CELL
<1>1. SentInv' /\ SlotsInv' /\ OrderInv' /\ ProducerInv' /\ StoredInv'
  BY DEF IInv, SentInv, SlotsInv, OrderInv, ProducerInv, StoredInv, Busy, Slot, Returned,
         published, windows, producer
<1>2. TicketsInv'
  <2>1. \A d \in Consumers \ {c} : cpc'[d] # "idle" => ticket'[d] < head
    BY <1>0 DEF IInv, TicketsInv
  <2>2. ASSUME NEW d \in Consumers, cpc'[d] # "idle" PROVE ticket'[d] < head + 1
    BY <1>0, <2>1, <2>2
  <2>3. ASSUME NEW d \in Consumers, NEW e \in Consumers, d # e, cpc'[d] # "idle", cpc'[e] # "idle"
        PROVE  ticket'[d] # ticket'[e]
    <3>1. CASE d = c
      BY <1>0, <2>1, <2>3, <3>1
    <3>2. CASE e = c
      BY <1>0, <2>1, <2>3, <3>2
    <3>3. CASE d # c /\ e # c
      BY <1>0, <2>3, <3>3 DEF IInv, TicketsInv
    <3> QED
      BY <3>1, <3>2, <3>3
  <2> QED
    BY <2>2, <2>3 DEF TicketsInv
<1>3. ReadersInv'
  <2> SUFFICES ASSUME NEW d \in Consumers
               PROVE  /\ cpc'[d] \in {"get", "clear"} => ranks[Slot(ticket'[d])] = ticket'[d]
                      /\ cpc'[d] = "clear" => out'[d] = datas[Slot(ticket'[d])]
    BY DEF ReadersInv, windows, Slot
  <2>1. CASE d = c
    BY <2>1
  <2>2. CASE d # c
    BY <1>0, <2>2 DEF IInv, ReadersInv
  <2> QED
    BY <2>1, <2>2
<1>4. GotInv'
  <2> SUFFICES ASSUME NEW d \in Consumers, NEW n \in DOMAIN got[d]
               PROVE  /\ got[d][n] < published
                      /\ \A s \in Slots : Busy(s) => datas[s] # got[d][n]
                      /\ \A s \in Slots : Busy(s) /\ ranks[s] >= Untried(d)'
                                            => got[d][n] < datas[s]
    BY DEF GotInv, Busy, published, windows, producer
  <2>1. /\ got[d][n] < published
        /\ \A s \in Slots : Busy(s) => datas[s] # got[d][n]
        /\ \A s \in Slots : Busy(s) /\ ranks[s] >= Untried(d) => got[d][n] < datas[s]
    BY DEF IInv, GotInv
  <2>2. Untried(d) \in Nat /\ Untried(d)' \in Nat /\ Untried(d) =< Untried(d)'
    <3>1. cpc[d] # "idle" => ticket[d] < head
      BY DEF IInv, TicketsInv
    <3>2. ticket[d] \in Nat
      BY <1>0
    <3>3. Untried(d) \in Nat /\ Untried(d) =< head
      BY <1>0, <3>1, <3>2 DEF Untried
    <3>4. CASE d = c
      BY <1>0, <3>3, <3>4 DEF Untried
    <3>5. CASE d # c
      BY <1>0, <3>1, <3>2, <3>5 DEF Untried
    <3> QED
      BY <3>4, <3>5
  <2>3. \A s \in Slots : Busy(s) => ranks[s] \in Nat
    BY <1>0 DEF Busy
  <2> QED
    BY <2>1, <2>2, <2>3
<1>5. \A t \in Nat : Past(t)' <=> Past(t)
  BY DEF Past, windows, producer, Slot
<1>6. GapsInv'
  <2>1. ASSUME NEW d \in Consumers
        PROVE  /\ cpc'[d] = "recheck" /\ ticket'[d] > 0 => ticket'[d] < tail
               /\ cpc'[d] = "skip" /\ ticket'[d] > 0 => Past(ticket[d])'
    <3>1. CASE d = c
      BY <3>1
    <3>2. CASE d # c
      <4>1. Past(ticket[d])' <=> Past(ticket[d])
        BY <1>0, <3>2 DEF Past, windows, producer, Slot
      <4> QED
        BY <1>0, <3>2, <4>1 DEF IInv, GapsInv
    <3> QED
      BY <3>1, <3>2
  <2>2. \A t \in skipped' : t > 0 => Past(t)'
    <3>1. \A t \in skipped : t > 0 => Past(t)
      BY DEF IInv, GapsInv
    <3>2. \A t \in skipped' : t \in skipped \/ (t = ticket[c] /\ cpc[c] # "idle")
      OBVIOUS
    <3>3. ticket[c] \in Nat
      BY <1>0
    <3> QED
      BY <1>0, <1>5, <3>1, <3>2, <3>3
  <2> QED
    BY <2>1, <2>2 DEF IInv, GapsInv, windows, producer
<1>7. DrawnInv'
  <2> SUFFICES ASSUME NEW t \in 1 .. head' - 1
               PROVE  \/ \E d \in Consumers : cpc'[d] # "idle" /\ ticket'[d] = t
                      \/ t \in timedOut'
                      \/ Past(t)
    BY <1>0, <1>5 DEF DrawnInv, Holds
  <2>1. CASE t = head
    BY <1>0, <2>1
  <2>2. CASE t # head
    <3>1. t \in 1 .. head - 1
      BY <1>0, <2>2
    <3>2. (\E d \in Consumers : cpc[d] # "idle" /\ ticket[d] = t) \/ t \in timedOut \/ Past(t)
      BY <3>1 DEF IInv, DrawnInv, Holds
    <3> QED
      BY <1>0, <3>1, <3>2
  <2> QED
    BY <2>1, <2>2
<1> QED
  BY <1>1, <1>2, <1>3, <1>4, <1>6, <1>7 DEF IInv

\* The step that empties the slot returns the batch that was in it.
LEMMA ClearReturns ==
  ASSUME TypeOK, IInv, NEW c \in Consumers, DeqClearRank(c)
  PROVE  LET w == Slot(ticket[c])
         IN  /\ ticket[c] \in Nat /\ ticket[c] < tail /\ ticket[c] < head
             /\ w \in Slots /\ ranks[w] = ticket[c] /\ Busy(w)
             /\ ranks' = [ranks EXCEPT ![w] = -1]
             /\ datas[w] \in Nat /\ datas[w] < published
             /\ got' = [got EXCEPT ![c] = Append(@, datas[w])]
             /\ cpc[c] = "clear" /\ cpc' = [cpc EXCEPT ![c] = "idle"]
             /\ UNCHANGED <<gaps, datas, head, producer, ticket, skipped, timedOut, out>>
<1> DEFINE w == Slot(ticket[c])
<1>1. ticket[c] \in Nat /\ w \in Slots
  BY SlotType DEF TypeOK
<1>2. /\ cpc[c] = "clear" /\ ranks[w] = ticket[c] /\ out[c] = datas[w] /\ ticket[c] < head
  BY DEF DeqClearRank, IInv, ReadersInv, TicketsInv
<1>3. Busy(w)
  BY <1>1, <1>2 DEF Busy
<1>4. ticket[c] < tail /\ datas[w] < published /\ datas[w] \in Nat
  BY <1>1, <1>2, <1>3 DEF IInv, SlotsInv, TypeOK
<1> QED
  BY <1>1, <1>2, <1>3, <1>4 DEF DeqClearRank, EMPTY_CELL

\* What every consumer has received after that step.
LEMMA ClearGot ==
  ASSUME TypeOK, IInv, NEW c \in Consumers, DeqClearRank(c), NEW b, b = datas[Slot(ticket[c])]
  PROVE  /\ \A d \in Consumers : \A n \in DOMAIN got'[d] :
               \/ n \in DOMAIN got[d] /\ got'[d][n] = got[d][n]
               \/ d = c /\ got'[d][n] = b
         /\ \A a : Returned(a) => Returned(a)'
         /\ Returned(b)'
<1> DEFINE new == Append(got[c], b)
           k == Len(got[c]) + 1
<1>1. /\ got \in [Consumers -> Seq(Nat)] /\ b \in Nat
      /\ got' = [got EXCEPT ![c] = new]
  BY ClearReturns DEF TypeOK
<1>2. /\ DOMAIN new = 1 .. k /\ DOMAIN got[c] = 1 .. Len(got[c]) /\ Len(got[c]) \in Nat
      /\ new[k] = b /\ \A n \in 1 .. Len(got[c]) : new[n] = got[c][n]
  BY <1>1
<1>3. \A n \in 1 .. k : n \in 1 .. Len(got[c]) \/ n = k
  BY <1>2
<1>4. k \in 1 .. k /\ \A n \in 1 .. Len(got[c]) : n \in 1 .. k
  BY <1>2
<1> HIDE DEF new, k
<1>5. got'[c] = new /\ \A d \in Consumers \ {c} : got'[d] = got[d]
  BY <1>1
<1>6. ASSUME NEW d \in Consumers, NEW n \in DOMAIN got'[d]
      PROVE  \/ n \in DOMAIN got[d] /\ got'[d][n] = got[d][n]
             \/ d = c /\ got'[d][n] = b
  <2>1. CASE d = c
    BY <1>2, <1>3, <1>5, <2>1, Zenon
  <2>2. CASE d # c
    BY <1>5, <2>2, Zenon
  <2> QED
    BY <2>1, <2>2
<1>7. ASSUME NEW a, NEW d \in Consumers, NEW n \in DOMAIN got[d], got[d][n] = a
      PROVE  n \in DOMAIN got'[d] /\ got'[d][n] = a
  <2>1. CASE d = c
    BY <1>2, <1>4, <1>5, <1>7, <2>1, Zenon
  <2>2. CASE d # c
    BY <1>5, <1>7, <2>2, Zenon
  <2> QED
    BY <2>1, <2>2
<1>8. k \in DOMAIN got'[c] /\ got'[c][k] = b
  BY <1>2, <1>4, <1>5, Zenon
<1>9. \A a : Returned(a) => Returned(a)'
  BY <1>7, Zenon DEF Returned
<1>10. Returned(b)'
  BY <1>8, Zenon DEF Returned
<1> QED
  BY <1>6, <1>9, <1>10

\* Emptying the slot keeps the invariant: the batch is now in got.
LEMMA ClearKeepsInv ==
  ASSUME TypeOK, IInv, NEW c \in Consumers, DeqClearRank(c)
  PROVE  IInv'
<1> DEFINE w == Slot(ticket[c])
<1>1. /\ ticket[c] \in Nat /\ ticket[c] < tail /\ ticket[c] < head
      /\ w \in Slots /\ ranks[w] = ticket[c] /\ Busy(w)
      /\ ranks' = [ranks EXCEPT ![w] = -1]
      /\ datas[w] \in Nat /\ datas[w] < published
      /\ cpc[c] = "clear" /\ cpc' = [cpc EXCEPT ![c] = "idle"]
      /\ UNCHANGED <<gaps, datas, head, producer, ticket, skipped, timedOut, out>>
  BY ClearReturns
<1>2. /\ cpc \in [Consumers -> {"idle", "read", "get", "clear", "gap", "recheck", "skip"}]
      /\ ranks \in [Slots -> Nat \cup {-1}] /\ datas \in [Slots -> Nat]
      /\ ticket \in [Consumers -> Nat] /\ tail \in Nat /\ head \in Nat /\ sent \in Nat
      /\ skipped \subseteq Nat
  BY DEF TypeOK, EMPTY_CELL
<1>3. /\ cpc'[c] = "idle" /\ \A d \in Consumers \ {c} : cpc'[d] = cpc[d]
      /\ ranks'[w] = -1 /\ \A s \in Slots \ {w} : ranks'[s] = ranks[s]
      /\ \A s \in Slots : Busy(s)' <=> (Busy(s) /\ s # w)
      /\ published' = published
  <2>1. published' = published
    BY <1>1 DEF published, producer
  <2>2. ranks'[w] = -1 /\ \A s \in Slots \ {w} : ranks'[s] = ranks[s]
    BY <1>1, <1>2
  <2> QED
    BY <1>1, <1>2, <2>1, <2>2 DEF Busy
<1>4. SentInv' /\ ProducerInv'
  <2>1. Slot(tail) \in Slots /\ (ranks[Slot(tail)] = EMPTY_CELL => ranks'[Slot(tail)] = EMPTY_CELL)
    BY <1>2, <1>3, SlotType DEF EMPTY_CELL
  <2> QED
    BY <1>1, <2>1 DEF IInv, SentInv, ProducerInv, producer, Slot
<1>5. SlotsInv' /\ OrderInv'
  BY <1>1, <1>3 DEF IInv, SlotsInv, OrderInv, producer, Slot
<1>6. TicketsInv'
  BY <1>1, <1>3 DEF IInv, TicketsInv
<1>7. ReadersInv'
  <2> SUFFICES ASSUME NEW d \in Consumers, cpc'[d] # "idle"
               PROVE  /\ cpc[d] \in {"get", "clear"} => ranks'[Slot(ticket[d])] = ticket[d]
                      /\ cpc[d] = "clear" => out[d] = datas[Slot(ticket[d])]
    BY <1>1, <1>3 DEF ReadersInv, Slot
  <2>1. d # c /\ cpc'[d] = cpc[d]
    BY <1>3
  <2>2. ticket[d] # ticket[c]
    BY <1>1, <2>1 DEF IInv, TicketsInv
  <2>3. ASSUME cpc[d] \in {"get", "clear"} PROVE ranks'[Slot(ticket[d])] = ticket[d]
    <3>1. ranks[Slot(ticket[d])] = ticket[d] /\ Slot(ticket[d]) \in Slots
      BY <1>2, <2>3, SlotType DEF IInv, ReadersInv
    <3>2. Slot(ticket[d]) # w
      BY <1>1, <2>2, <3>1
    <3> QED
      BY <1>3, <3>1, <3>2
  <2> QED
    BY <2>3 DEF IInv, ReadersInv
<1>8. GotInv'
  <2> SUFFICES ASSUME NEW d \in Consumers, NEW n \in DOMAIN got'[d]
               PROVE  /\ got'[d][n] < published
                      /\ \A s \in Slots : Busy(s) /\ s # w => datas[s] # got'[d][n]
                      /\ \A s \in Slots : Busy(s) /\ s # w /\ ranks[s] >= Untried(d)'
                                            => got'[d][n] < datas[s]
    BY <1>1, <1>3 DEF GotInv
  <2>1. \A s \in Slots : Busy(s) /\ s # w /\ ranks[s] >= Untried(d)' => ranks[s] >= Untried(d)
    <3>1. CASE d = c
      BY <1>1, <1>2, <1>3, <3>1 DEF Untried, Busy
    <3>2. CASE d # c
      BY <1>1, <1>3, <3>2 DEF Untried
    <3> QED
      BY <3>1, <3>2
  <2>2. CASE n \in DOMAIN got[d] /\ got'[d][n] = got[d][n]
    BY <2>1, <2>2 DEF IInv, GotInv
  <2>3. CASE d = c /\ got'[d][n] = datas[w]
    <3>1. ASSUME NEW s \in Slots, Busy(s), s # w
          PROVE  /\ datas[s] # datas[w]
                 /\ ranks[s] >= head => datas[w] < datas[s]
      <4>1. ranks[s] \in Nat /\ Slot(ranks[s]) = s
        BY <1>2, <3>1 DEF IInv, SlotsInv, Busy
      <4>2. ranks[s] # ranks[w]
        BY <1>1, <3>1, <4>1
      <4>3. ranks[s] < ranks[w] \/ ranks[w] < ranks[s]
        BY <1>1, <4>1, <4>2
      <4>4. ranks[s] < ranks[w] => datas[s] < datas[w]
        BY <1>1, <3>1 DEF IInv, OrderInv
      <4>5. ranks[w] < ranks[s] => datas[w] < datas[s]
        BY <1>1, <3>1 DEF IInv, OrderInv
      <4>6. datas[s] \in Nat
        BY <1>2
      <4> QED
        BY <1>1, <1>2, <4>1, <4>3, <4>4, <4>5, <4>6
    <3>2. Untried(d)' = head
      BY <1>1, <1>3, <2>3 DEF Untried
    <3> QED
      BY <1>1, <2>3, <3>1, <3>2
  <2> QED
    BY <2>2, <2>3, ClearGot
<1>9. StoredInv'
  <2> SUFFICES ASSUME NEW b \in 0 .. published - 1
               PROVE  (\E s \in Slots : Busy(s) /\ s # w /\ datas[s] = b) \/ Returned(b)'
    BY <1>1, <1>3 DEF StoredInv
  <2>1. CASE b = datas[w]
    BY <2>1, ClearGot
  <2>2. CASE b # datas[w] /\ ~Returned(b)
    BY <2>2 DEF IInv, StoredInv
  <2>3. CASE Returned(b)
    BY <2>3, ClearGot
  <2> QED
    BY <2>1, <2>2, <2>3
<1>10. \A t \in Nat : Past(t) \/ t = ticket[c] => Past(t)'
  <2> SUFFICES ASSUME NEW t \in Nat, (t < tail /\ ranks[Slot(t)] # t) \/ t = ticket[c]
               PROVE  t < tail /\ ranks'[Slot(t)] # t
    BY <1>1 DEF Past, producer, Slot
  <2>1. Slot(t) \in Slots
    BY SlotType
  <2> QED
    BY <1>1, <1>3, <2>1
<1>11. GapsInv'
  <2>1. ASSUME NEW d \in Consumers
        PROVE  /\ cpc'[d] = "recheck" /\ ticket[d] > 0 => ticket[d] < tail
               /\ cpc'[d] = "skip" /\ ticket[d] > 0 => Past(ticket[d])'
    <3>1. cpc'[d] = "idle" \/ cpc'[d] = cpc[d]
      BY <1>3
    <3>2. Past(ticket[d]) => Past(ticket[d])'
      <4>1. ticket[d] \in Nat /\ ticket' = ticket
        BY <1>1, <1>2
      <4> QED
        BY <1>10, <4>1 DEF Past
    <3> QED
      BY <3>1, <3>2 DEF IInv, GapsInv
  <2>2. \A t \in skipped : t > 0 => Past(t)'
    BY <1>2, <1>10 DEF IInv, GapsInv
  <2> QED
    BY <1>1, <2>1, <2>2 DEF IInv, GapsInv, producer
<1>12. DrawnInv'
  <2> SUFFICES ASSUME NEW t \in 1 .. head - 1
               PROVE  \/ \E d \in Consumers : cpc'[d] # "idle" /\ ticket[d] = t
                      \/ t \in timedOut
                      \/ Past(t)'
    BY <1>1 DEF DrawnInv, Holds
  <2>1. (\E d \in Consumers : cpc[d] # "idle" /\ ticket[d] = t) \/ t \in timedOut \/ Past(t)
    BY DEF IInv, DrawnInv, Holds
  <2>2. t \in Nat
    BY <1>2
  <2>3. CASE t = ticket[c] \/ Past(t)
    BY <1>10, <2>2, <2>3
  <2>4. CASE t # ticket[c] /\ ~Past(t)
    BY <1>3, <2>1, <2>4
  <2> QED
    BY <2>3, <2>4
<1> QED
  BY <1>4, <1>5, <1>6, <1>7, <1>8, <1>9, <1>11, <1>12 DEF IInv

\* Every step of a dequeue call keeps the invariant.
LEMMA ConsumerKeepsInv ==
  ASSUME TypeOK, IInv, NEW c \in Consumers, Consumer(c)
  PROVE  IInv'
<1>0. /\ cpc \in [Consumers -> {"idle", "read", "get", "clear", "gap", "recheck", "skip"}]
      /\ out \in [Consumers -> Nat] /\ ticket[c] \in Nat /\ ticket \in [Consumers -> Nat]
      /\ tail \in Nat /\ gaps \in [Slots -> Nat] /\ Slot(ticket[c]) \in Slots
  <2>1. ticket[c] \in Nat /\ Slot(ticket[c]) \in Slots
    BY SlotType DEF TypeOK
  <2> QED
    BY <2>1 DEF TypeOK
<1>1. CASE DeqDraw(c)
  BY <1>0, <1>1, DrawKeepsInv DEF DeqDraw, DrawTicket
<1>2. CASE DeqReadRank(c)
  BY <1>0, <1>2, ConsumerFrame DEF DeqReadRank
<1>3. CASE DeqGetBatch(c)
  <2>1. ranks[Slot(ticket[c])] = ticket[c]
    BY <1>3 DEF DeqGetBatch, IInv, ReadersInv
  <2> QED
    BY <1>0, <1>3, <2>1, ConsumerFrame DEF DeqGetBatch
<1>4. CASE DeqReadGap(c)
  <2>1. gaps[Slot(ticket[c])] >= ticket[c] /\ ticket[c] > 0 => ticket[c] < tail
    BY <1>0 DEF IInv, GapsInv
  <2>2. cpc'[c] = "recheck" /\ ticket[c] > 0 => ticket[c] < tail
    BY <1>0, <1>4, <2>1 DEF DeqReadGap, WaitOrGiveUp
  <2> QED
    BY <1>0, <1>4, <2>2, ConsumerFrame DEF DeqReadGap, WaitOrGiveUp
<1>5. CASE DeqRecheck(c)
  <2>1. ticket[c] > 0 => ticket[c] < tail
    BY <1>5 DEF DeqRecheck, IInv, GapsInv
  <2>2. cpc'[c] = "skip" /\ ticket[c] > 0 => Past(ticket[c])
    BY <1>0, <1>5, <2>1 DEF DeqRecheck, WaitOrGiveUp, Gone, Past
  <2> QED
    BY <1>0, <1>5, <2>2, ConsumerFrame DEF DeqRecheck, WaitOrGiveUp
<1>6. CASE DeqSkip(c)
  <2>1. ticket[c] > 0 => Past(ticket[c])
    BY <1>6 DEF DeqSkip, IInv, GapsInv
  <2> QED
    BY <1>0, <1>6, <2>1, DrawKeepsInv DEF DeqSkip, DrawTicket
<1> QED
  BY <1>1, <1>2, <1>3, <1>4, <1>5, <1>6, ClearKeepsInv DEF Consumer
-----------------------------------------------------------------------------
\* The invariant holds in every reachable state.
THEOREM Invariant == Spec => [](TypeOK /\ IInv)
<1>1. Init => IInv
  BY DEF Init, IInv, SentInv, SlotsInv, OrderInv, ProducerInv, TicketsInv, ReadersInv, GotInv,
         StoredInv, GapsInv, DrawnInv, Busy, published, EMPTY_CELL
<1>2. TypeOK /\ IInv /\ [Next]_vars => IInv'
  <2> SUFFICES ASSUME TypeOK, IInv, [Next]_vars PROVE IInv'
    OBVIOUS
  <2>1. CASE UNCHANGED vars
    <3>1. SentInv' /\ ProducerInv' /\ published' = published
      BY <2>1 DEF vars, producer, windows, IInv, SentInv, ProducerInv, Slot, published
    <3>2. \A s \in Slots : gaps[s] > 0 => gaps[s] < tail
      BY DEF IInv, GapsInv
    <3> QED
      BY <2>1, <3>1, <3>2, ProducerFrame DEF vars, producer, windows, IInv
  <2> QED
    BY <2>1, ProducerKeepsInv, ConsumerKeepsInv DEF Next
<1> QED
  BY <1>1, <1>2, TypeCorrect, PTL DEF Spec

\* The producer never writes a slot whose batch a consumer is reading: a slot
\* is read only while a batch is published in it.
THEOREM NoRaceHolds == Spec => []NoRace
<1>1. TypeOK /\ IInv => NoRace
  <2> SUFFICES ASSUME TypeOK, IInv, NEW c \in Consumers,
                      ppc = "put", cpc[c] = "get", Slot(ticket[c]) = Slot(tail)
               PROVE  FALSE
    BY DEF NoRace
  <2>1. ranks[Slot(tail)] = ticket[c] /\ ranks[Slot(tail)] = -1 /\ ticket[c] \in Nat
    BY DEF IInv, ReadersInv, ProducerInv, EMPTY_CELL, TypeOK
  <2> QED
    BY <2>1
<1> QED
  BY <1>1, Invariant, PTL

\* No published batch vanishes: it is in a slot or some call returned it, and
\* not both, so no batch is returned while it can be returned again.
THEOREM ConservedHolds == Spec => []Conserved
<1>1. IInv => Conserved
  <2> SUFFICES ASSUME IInv, NEW b \in 0 .. published - 1
               PROVE  (\E s \in Slots : Busy(s) /\ datas[s] = b) # Returned(b)
    BY DEF Conserved
  <2>1. (\E s \in Slots : Busy(s) /\ datas[s] = b) \/ Returned(b)
    BY DEF IInv, StoredInv
  <2>2. ASSUME NEW s \in Slots, Busy(s), datas[s] = b, Returned(b) PROVE FALSE
    BY <2>2 DEF Returned, IInv, GotInv
  <2>3. (\E s \in Slots : Busy(s) /\ datas[s] = b) \in BOOLEAN /\ Returned(b) \in BOOLEAN
    BY DEF Returned
  <2> QED
    BY <2>1, <2>2, <2>3, Zenon
<1> QED
  BY <1>1, Invariant, PTL

\* A ticket given up after the double check is never published later: the
\* producer is past it.  Ticket 0 is the exception that the run NbdFFQFirst
\* shows, because the memory of gaps holds its mark from the start.
THEOREM SkipIsFinalHolds == Spec => []SkipIsFinalAfterFirst
<1>1. TypeOK /\ IInv => SkipIsFinalAfterFirst
  <2> SUFFICES ASSUME TypeOK, IInv, NEW s \in Slots, ranks[s] > 0, ranks[s] \in skipped
               PROVE  FALSE
    BY DEF SkipIsFinalAfterFirst
  <2>1. ranks[s] \in Nat
    BY DEF TypeOK, EMPTY_CELL
  <2>2. Slot(ranks[s]) = s
    BY <2>1 DEF IInv, SlotsInv, Busy
  <2> QED
    BY <2>2 DEF IInv, GapsInv, Past
<1> QED
  BY <1>1, Invariant, PTL

\* A batch whose ticket was drawn is lost only to a limit of the call that
\* drew it, or because it is the first: the double check loses no other.
THEOREM OnlyTimeoutsLoseHolds == Spec => []OnlyTimeoutsLose
<1>1. TypeOK /\ IInv => OnlyTimeoutsLose
  <2> SUFFICES ASSUME TypeOK, IInv, NEW s \in Slots, Busy(s), ranks[s] < head, ranks[s] # 0
               PROVE  (\E c \in Consumers : Holds(c, ranks[s])) \/ ranks[s] \in timedOut
    BY DEF OnlyTimeoutsLose
  <2>1. ranks[s] \in Nat /\ head \in Nat
    BY DEF TypeOK, Busy, EMPTY_CELL
  <2>2. ranks[s] \in 1 .. head - 1
    BY <2>1
  <2>3. ~Past(ranks[s])
    BY DEF Past, IInv, SlotsInv
  <2> QED
    BY <2>2, <2>3 DEF IInv, DrawnInv
<1> QED
  BY <1>1, Invariant, PTL

\* Where everything is: each batch in one place, and lost by a known rule
\* only.
THEOREM AccountedHolds == Spec => []Accounted
<1>1. Conserved /\ SkipIsFinalAfterFirst /\ OnlyTimeoutsLose => Accounted
  BY DEF Accounted
<1> QED
  BY <1>1, ConservedHolds, SkipIsFinalHolds, OnlyTimeoutsLoseHolds, PTL

\* A caller sees two steps of the bag: publishing a rank puts a batch in, and
\* emptying a slot takes its batch out.
LEMMA StepImplementsBag ==
  ASSUME TypeOK, IInv, [Next]_vars
  PROVE  [Bag!Next]_(Bag!bagVars)
<1>1. CASE EnqPublish
  <2>1. published' = published + 1 /\ got' = got
    BY <1>1 DEF EnqPublish, published, consumer, TypeOK
  <2> QED
    BY <2>1 DEF Bag!Next, Bag!Put
<1>2. ASSUME NEW c \in Consumers, DeqClearRank(c) PROVE [Bag!Next]_(Bag!bagVars)
  <2> DEFINE w == Slot(ticket[c])
             b == datas[w]
  <2>1. /\ w \in Slots /\ Busy(w) /\ ranks[w] = ticket[c] /\ ticket[c] \in Nat
        /\ b \in Nat /\ b < published /\ cpc[c] = "clear"
        /\ got' = [got EXCEPT ![c] = Append(@, b)]
        /\ UNCHANGED producer
    BY <1>2, ClearReturns
  <2>2. published \in Int /\ published' = published
    BY <2>1 DEF published, producer, TypeOK
  <2>3. b \in 0 .. published - 1
    BY <2>1, <2>2
  <2>4. ~Bag!Handed(b)
    BY <2>1 DEF IInv, GotInv, Bag!Handed
  <2>5. \A n \in DOMAIN got[c] : got[c][n] < b
    BY <2>1 DEF IInv, GotInv, Untried
  <2>6. Bag!Take(c, b)
    BY <2>1, <2>2, <2>3, <2>4, <2>5 DEF Bag!Take
  <2> QED
    BY <2>3, <2>6 DEF Bag!Next
<1>3. CASE EnqueueBatch \/ EnqReadRank \/ EnqMarkGap \/ EnqPutBatch
  <2>1. sent \in Nat /\ ppc' \in {"read", "mark", "put", "publish"} /\ got' = got
    BY <1>3 DEF EnqueueBatch, EnqReadRank, EnqMarkGap, EnqPutBatch, consumer, TypeOK
  <2>2. \/ ppc = "idle" /\ sent' = sent + 1
        \/ ppc # "idle" /\ sent' = sent
    BY <1>3 DEF EnqueueBatch, EnqReadRank, EnqMarkGap, EnqPutBatch
  <2>3. published' = published
    BY <2>1, <2>2 DEF published
  <2> QED
    BY <2>1, <2>3 DEF Bag!bagVars
<1>4. ASSUME NEW c \in Consumers,
             \/ DeqDraw(c) \/ DeqReadRank(c) \/ DeqGetBatch(c)
             \/ DeqReadGap(c) \/ DeqRecheck(c) \/ DeqSkip(c)
      PROVE  [Bag!Next]_(Bag!bagVars)
  <2>1. UNCHANGED producer /\ got' = got
    BY <1>4 DEF DeqDraw, DeqReadRank, DeqGetBatch, DeqReadGap, DeqRecheck, DeqSkip
  <2> QED
    BY <2>1 DEF producer, published, Bag!bagVars
<1>5. CASE UNCHANGED vars
  BY <1>5 DEF vars, producer, consumer, published, Bag!bagVars
<1> QED
  BY <1>1, <1>2, <1>3, <1>4, <1>5 DEF Next, Producer, Consumer

\* However the calls interleave, give up and skip, on either side, each batch
\* is returned at most once, only after it was enqueued, and in order to each
\* consumer.
THEOREM Refinement == Spec => ImplementsBag
<1>1. Init => Bag!Init
  BY DEF Init, Bag!Init, published
<1>2. TypeOK /\ IInv /\ [Next]_vars => [Bag!Next]_(Bag!bagVars)
  BY StepImplementsBag
<1> QED
  BY <1>1, <1>2, Invariant, PTL DEF Spec, ImplementsBag, Bag!Spec
=============================================================================
