--------------------------- MODULE Programs_proofs ---------------------------
(***************************************************************************)
(* The safety of the programs for every number of consumers and windows,   *)
(* and all sizes of queue, batches and loops.  A process follows a plan:   *)
(* after so many collective calls it is at this step and has these calls   *)
(* left.  What one process may assume of another at a step comes from the  *)
(* calls both have made by then.                                           *)
(***************************************************************************)
EXTENDS Programs, FiniteSetTheorems, SequenceTheorems, TLAPS

Call == {"barrier", "gather", "allreduce", "win_create", "win_free", "finalize"}

\* The calls a program makes between spmc_queue_init and spmc_queue_destroy.
Ordinary == {"barrier", "gather", "allreduce"}

Starting == {"init", "lock_all"}
Ending == {"free", "ended"}

\* The steps of a process in a program, between the queue's two functions.
Working(p) ==
  CASE prog = "demo"         -> IF p = 0 THEN {"demo_put", "exited"} ELSE {"demo_get"}
    [] prog = "micro"        -> IF p = 0 THEN {"warmup", "flush", "produce"} ELSE {"measure", "drain"}
    [] prog = "quick"        -> {"stop", "aggregate"} \cup
                                  IF p = 0 THEN {"warm", "enqueue"} ELSE {"consume"}
    [] prog = "enqueue_only" -> {"stop", "aggregate"} \cup IF p = 0 THEN {"enqueue"} ELSE {}
    [] prog = "dequeue_only" -> {"stop", "aggregate"} \cup IF p = 0 THEN {"warm"} ELSE {"consume"}

Steps == {"init", "lock_all", "main", "destroy", "free", "ended",
          "demo_put", "exited", "demo_get", "warmup", "flush", "produce", "measure", "drain",
          "warm", "enqueue", "consume", "stop", "aggregate"}

\* Every process is at a step of its program.
PlacesInv ==
  /\ pc \in [Ranks -> Steps]
  /\ \A p \in Ranks :
       pc[p] \in Starting \cup {"main", "destroy"} \cup Ending \cup Working(p)

\* The micro benchmark's producer sends a batch at three of its steps, between
\* calls, and keeps nothing back after them.
SendingInv ==
  /\ rest > 0 => script[0] = <<>> /\ ~inside[0] /\ pc[0] \in {"warmup", "flush", "produce"}
  /\ ebuf > 0 => rest = 0 /\ pc[0] \in {"warmup", "produce"}
  /\ pc[0] \in Starting \cup {"main"} => i[0] = 0
  /\ pc[0] = "warmup" => i[0] =< N
  /\ pc[0] = "produce" => i[0] =< 2 * N
  /\ pc[0] = "flush" => i[0] \in {N, 2 * N}

\* The tests' consumers stop at the last empty result they may have.
EmptiesInv == \A c \in ConsumerRanks :
                pc[c] \in Starting \cup {"main", "consume"} => empties[c] < MaxEmpty

StepsInv == PlacesInv /\ SendingInv /\ EmptiesInv

\* What a process has still to call says how far it is with its windows.
ScriptInv(p) ==
  CASE pc[p] = "init"     -> script[p] = <<>> /\ calls[p] = <<>> /\ valid[p] = 0
    [] pc[p] = "lock_all" -> /\ \E k \in 0 .. NumWindows : script[p] = Times(k, "win_create")
                             /\ valid[p] + Len(script[p]) = NumWindows
                             /\ Len(calls[p]) + Len(script[p]) = NumWindows
                             /\ calls[p] \in Seq({"win_create"})
    [] pc[p] = "free"     -> /\ \E k \in 0 .. NumWindows : script[p] = Times(k, "win_free")
                             /\ valid[p] = Len(script[p])
                             /\ script[p] = <<>> =>
                                  calls[p] # <<>> /\ calls[p][Len(calls[p])] = "win_free"
    [] pc[p] = "ended"    -> script[p] \in {<<>>, <<"finalize">>} /\ valid[p] = 0
    [] pc[p] = "exited"   -> script[p] = <<>> /\ valid[p] = 0
    [] OTHER              -> script[p] \in Seq(Ordinary) /\ valid[p] = NumWindows

\* Windows are freed only at the end, and locked only before.
WindowsInv ==
  \A p \in Ranks :
    /\ ScriptInv(p)
    /\ pc[p] \notin Ending => \A n \in DOMAIN calls[p] : calls[p][n] # "win_free"
    /\ locked[p] => pc[p] \notin Starting \cup Ending
    /\ pc[p] \notin Starting => Len(calls[0]) > 0

\* Every process has made n calls.
Passed(n) == \A q \in Ranks : Len(calls[q]) >= n

\* Who has left a call is not the first to have made it.
LeftAt(p) ==
  LET n == Len(calls[p])
  IN n > 0 /\ ~inside[p] /\ (p = 0 \/ calls[p][n] # "gather") =>
       \A q \in Ranks : Len(calls[q]) >= n /\ calls[q][n] = calls[p][n]

LeftInv == \A p \in Ranks : LeftAt(p)

\* The producer's memory is freed when nobody has a window any more.
MemoryInv ==
  /\ memory = "none" <=> pc[0] = "init"
  /\ memory = "freed" <=> pc[0] = "ended"
  /\ memory = "gone" <=> pc[0] = "exited"
  /\ pc[0] = "ended" => \A p \in Ranks : pc[p] \in Ending

LifeInv == WindowsInv /\ LeftInv /\ MemoryInv
-----------------------------------------------------------------------------
\* What the tests count.
CountInv ==
  prog \in Tests =>
    LET ahead == Total(ConsumerRanks) + stored - count[0]
        warming == pc[0] \in Starting \cup {"main", "warm"}
    IN /\ 0 =< ahead /\ ahead =< Warm
       /\ warming => ahead =< i[0] /\ i[0] =< Warm
-----------------------------------------------------------------------------
\* The calls of the tests' estimates: they depend on what was counted.
Extra == (IF Total({0}) = 0 THEN 2 ELSE 0) + (IF Total(ConsumerRanks) = 0 THEN 2 ELSE 0)

\* How many calls there are between the two functions, and which, in program g
\* with e calls of the estimates.
MiddleOf(g, e) == CASE g = "demo"  -> 1
                    [] g = "micro" -> 8
                    [] OTHER       -> 18 + e

MiddleCall(g, e, n) ==
  CASE g = "demo"  -> "barrier"
    [] g = "micro" -> IF n =< 5 THEN "barrier" ELSE "gather"
    [] OTHER       -> IF n =< 3 THEN "barrier"
                      ELSE IF n = 10 + e THEN "gather" ELSE "allreduce"

\* The plan that all processes follow: the n-th collective call of each.
PlanOf(g, e, n) == IF n =< NumWindows THEN "win_create"
                   ELSE IF n =< NumWindows + MiddleOf(g, e) THEN MiddleCall(g, e, n - NumWindows)
                   ELSE IF n =< 2 * NumWindows + MiddleOf(g, e) THEN "win_free"
                   ELSE "finalize"

Middle == MiddleOf(prog, Extra)

\* How many of the calls a process makes before it goes on with its step.
Made(p) ==
  CASE pc[p] = "init"      -> 0
    [] pc[p] = "destroy"   -> NumWindows + Middle
    [] pc[p] = "free"      -> 2 * NumWindows + Middle
    [] pc[p] = "ended"     -> 2 * NumWindows + Middle + 1
    [] pc[p] \in {"warmup", "enqueue", "consume", "stop"} -> NumWindows + 1
    [] pc[p] = "flush"     -> IF i[0] = N THEN NumWindows + 1 ELSE NumWindows + 3
    [] pc[p] \in {"produce", "measure"} -> NumWindows + 3
    [] pc[p] = "drain"     -> NumWindows + 4
    [] pc[p] = "warm"      -> IF prog = "dequeue_only" THEN NumWindows ELSE NumWindows + 1
    [] pc[p] = "aggregate" -> NumWindows + 9
    [] OTHER               -> NumWindows

\* The calls made and those of the script follow the plan, n in all.
Planned(g, e, made, next, n) ==
  /\ Len(made) + Len(next) = n
  /\ \A k \in DOMAIN made : made[k] = PlanOf(g, e, k)
  /\ \A k \in DOMAIN next : next[k] = PlanOf(g, e, Len(made) + k)

OnPlan(p) == pc[p] # "exited" /\ Planned(prog, Extra, calls[p], script[p], Made(p))

\* After the aggregation nothing is counted.
CountedInv == prog \in Tests => \A p \in Ranks : pc[p] \in {"destroy"} \cup Ending => Passed(NumWindows + 9)

DemoInv == prog = "demo" /\ pc[0] \in Starting \cup {"main", "demo_put"} =>
             stored =< i[0] /\ i[0] =< DemoItems

PlanInv == Roomy => /\ \A p \in Ranks : OnPlan(p)
                    /\ CountedInv
                    /\ DemoInv
-----------------------------------------------------------------------------
\* What a consumer of the micro benchmark returned.
Returned(c) == CASE pc[c] = "measure" -> i[c]
                 [] pc[c] \in {"drain", "destroy"} \cup Ending -> Ops + i[c]
                 [] OTHER -> 0

\* The sum of a function over a set.
Sum(f, S) == MapThenSumSet(LAMBDA x : f[x], S)

Fetched == [c \in ConsumerRanks |-> dbuf[c] + Returned(c)]

\* The items that came into the queue.
Arrived == stored + Sum(Fetched, ConsumerRanks)

Filling == pc[0] \in Starting \cup {"main", "warmup"} \/ (pc[0] = "flush" /\ i[0] = N)

\* The items that the producer has wanted to send, after the first N.
Wanted == IF pc[0] = "produce" THEN N + i[0] ELSE 3 * N

FillInv ==
  /\ Filling => Arrived + ebuf + rest = i[0] /\ i[0] =< N
  /\ ~Filling => N =< Arrived /\ Arrived + ebuf + rest =< Wanted

\* How far a consumer is, and what the others have done by then.
DrainAt(c) ==
  /\ pc[c] \in Starting \cup {"main"} => i[c] = 0
  /\ pc[c] = "measure" => i[c] =< Ops
  /\ (pc[c] = "drain" /\ i[c] > 0) \/ pc[c] \in {"destroy"} \cup Ending => Passed(NumWindows + 4)
  /\ pc[c] \in {"destroy"} \cup Ending => i[c] = Share \/ stored < DeqBatch

DrainInv == \A c \in ConsumerRanks : DrainAt(c)

MicroInv == prog = "micro" /\ Roomy => FillInv /\ DrainInv
-----------------------------------------------------------------------------
(***************************************************************************)
(* Collective calls, one after the other.                                  *)
(***************************************************************************)

\* The same call n times.
LEMMA TimesIs ==
  ASSUME NEW n \in Nat, NEW call
  PROVE  /\ Times(n, call) \in Seq({call})
         /\ Len(Times(n, call)) = n
         /\ DOMAIN Times(n, call) = 1 .. n
         /\ \A k \in 1 .. n : Times(n, call)[k] = call
         /\ (Times(n, call) = <<>>) <=> (n = 0)
  BY DEF Times

\* What is left of them after the first.
LEMMA TimesTail ==
  ASSUME NEW n \in Nat, NEW call, Times(n, call) # <<>>
  PROVE  /\ n - 1 \in Nat
         /\ Head(Times(n, call)) = call
         /\ Tail(Times(n, call)) = Times(n - 1, call)
<1> DEFINE t == Times(n, call)
<1>1. /\ t \in Seq({call}) /\ Len(t) = n /\ DOMAIN t = 1 .. n /\ \A k \in 1 .. n : t[k] = call
      /\ t = <<>> <=> n = 0
      /\ t = [k \in 1 .. n |-> call]
  BY TimesIs, Zenon DEF Times
<1>2. t # <<>>
  OBVIOUS
<1> HIDE DEF t
<1>3. n # 0
  BY <1>1, <1>2, Zenon
<1>4. n - 1 \in Nat /\ 1 \in 1 .. n
  BY <1>3
<1>5. Head(t) = t[1] /\ Tail(t) = [k \in 1 .. Len(t) - 1 |-> t[k + 1]]
  BY <1>1, <1>2
<1>6. \A k \in 1 .. n - 1 : t[k + 1] = call
  BY <1>1, <1>4
<1>7. Tail(t) = [k \in 1 .. n - 1 |-> call]
  BY <1>1, <1>5, <1>6
<1> QED
  BY <1>1, <1>4, <1>5, <1>7 DEF t, Times

\* A call after the others.
LEMMA OneMore ==
  ASSUME NEW S, NEW s \in Seq(S), NEW x \in S
  PROVE  /\ Append(s, x) \in Seq(S)
         /\ Len(Append(s, x)) = Len(s) + 1
         /\ DOMAIN s = 1 .. Len(s) /\ DOMAIN Append(s, x) = 1 .. Len(s) + 1
         /\ \A n \in 1 .. Len(s) : Append(s, x)[n] = s[n]
         /\ Append(s, x)[Len(s) + 1] = x
  BY Z3

\* The calls after the first.
LEMMA OneLess ==
  ASSUME NEW S, NEW s \in Seq(S), s # <<>>
  PROVE  /\ Head(s) \in S /\ Head(s) = s[1] /\ Tail(s) \in Seq(S)
         /\ Len(s) \in Nat \ {0} /\ Len(Tail(s)) = Len(s) - 1
         /\ DOMAIN s = 1 .. Len(s) /\ DOMAIN Tail(s) = 1 .. Len(s) - 1
         /\ \A k \in 1 .. Len(s) - 1 : Tail(s)[k] = s[k + 1]
  BY Z3

\* Some calls after others.
LEMMA Joined ==
  ASSUME NEW S, NEW s \in Seq(S), NEW t \in Seq(S)
  PROVE  /\ s \o t \in Seq(S)
         /\ Len(s \o t) = Len(s) + Len(t)
         /\ DOMAIN (s \o t) = 1 .. Len(s) + Len(t)
         /\ \A k \in 1 .. Len(s) + Len(t) :
              (s \o t)[k] = IF k =< Len(s) THEN s[k] ELSE t[k - Len(s)]
  BY Z3

\* Calls of one kind are ordinary ones if that kind is.
LEMMA TimesOrdinary ==
  ASSUME NEW n \in Nat, NEW call \in Ordinary
  PROVE  Times(n, call) \in Seq(Ordinary)
  BY TimesIs DEF Times
-----------------------------------------------------------------------------
(***************************************************************************)
(* What a step does to the steps and calls of a process: one of QueueLife, *)
(* or it goes on to another step of its program, or stays at its own, or   *)
(* it is the demo's producer that gives up.                                *)
(***************************************************************************)

Goes(p, step, seq) ==
  /\ script[p] = <<>> /\ ~inside[p]
  /\ pc[p] \in ({"main"} \cup Working(p)) \ {"exited"}
  /\ step \in ({"destroy"} \cup Working(p)) \ {"exited"}
  /\ seq \in Seq(Ordinary)
  /\ Then(p, step, seq)

ProgramStep == /\ UNCHANGED <<others, capacity>>
               /\ Stay \/ \E p \in Ranks : \E step \in Steps, seq \in Seq(Ordinary) : Goes(p, step, seq)

LifeStep(p) == Life(p) /\ UNCHANGED <<queue, local>>

\* The processes and what is known of the constants.
LEMMA Constants ==
  /\ NumConsumers \in Nat \ {0} /\ NumWindows \in Nat \ {0}
  /\ 0 \in Ranks /\ ConsumerRanks \subseteq Ranks /\ 0 \notin ConsumerRanks
  /\ Ranks = ConsumerRanks \cup {0} /\ Ranks \subseteq Nat
  /\ DemoItems \in Nat \ {0} /\ MaxAttempts \in Nat \ {0} /\ Ops \in Nat \ {0}
  /\ EnqBatch \in Nat \ {0} /\ DeqBatch \in Nat \ {0} /\ Items \in Nat \ {0}
  /\ MaxEmpty \in Nat \ {0} /\ Warm \in Nat /\ N \in Nat \ {0}
<1>1. NumConsumers \in Nat \ {0} /\ NumWindows \in Nat \ {0}
  BY QueueLifeAssumption
<1>2. /\ 0 \in Ranks /\ ConsumerRanks \subseteq Ranks /\ 0 \notin ConsumerRanks
      /\ Ranks = ConsumerRanks \cup {0} /\ Ranks \subseteq Nat
  BY <1>1 DEF Ranks, ConsumerRanks
<1>3. /\ DemoItems \in Nat \ {0} /\ MaxAttempts \in Nat \ {0} /\ Ops \in Nat \ {0}
      /\ EnqBatch \in Nat \ {0} /\ DeqBatch \in Nat \ {0} /\ Items \in Nat \ {0}
      /\ MaxEmpty \in Nat \ {0} /\ Warm \in Nat
  BY ProgramsAssumption
<1>4. \A a, b \in Nat \ {0} : a * b \in Nat \ {0}
  BY Z3
<1>5. N \in Nat \ {0}
  BY <1>1, <1>3, <1>4 DEF N
<1> QED
  BY <1>1, <1>2, <1>3, <1>5

\* The sequences of calls that the programs make.
LEMMA Sequences ==
  /\ <<>> \in Seq(Ordinary) /\ <<"barrier">> \in Seq(Ordinary)
  /\ \A n \in {2, 3} : Times(n, "barrier") \in Seq(Ordinary)
  /\ Reports \in Seq(Ordinary)
  /\ Times(2, "barrier") \o Reports \in Seq(Ordinary)
  /\ <<"barrier">> \o Reports \in Seq(Ordinary)
  /\ Times(2, "barrier") \o Times(6, "allreduce") \in Seq(Ordinary)
  /\ \A p \in Ranks : Estimate(p, {0}) \o Estimate(p, ConsumerRanks)
                        \o <<"gather">> \o Times(8, "allreduce") \in Seq(Ordinary)
<1>1. /\ <<>> \in Seq(Ordinary) /\ <<"barrier">> \in Seq(Ordinary) /\ <<"gather">> \in Seq(Ordinary)
  BY DEF Ordinary
<1>2. \A n \in Nat, call \in Ordinary : Times(n, call) \in Seq(Ordinary)
  BY TimesOrdinary
<1>3. /\ \A n \in {2, 3} : Times(n, "barrier") \in Seq(Ordinary)
      /\ Times(3, "gather") \in Seq(Ordinary) /\ Times(2, "allreduce") \in Seq(Ordinary)
      /\ Times(6, "allreduce") \in Seq(Ordinary) /\ Times(8, "allreduce") \in Seq(Ordinary)
  BY <1>2 DEF Ordinary
<1>4. \A s, t \in Seq(Ordinary) : s \o t \in Seq(Ordinary)
  BY Joined
<1>5. \A p, S : Estimate(p, S) \in Seq(Ordinary)
  BY <1>1, <1>3 DEF Estimate
<1>6. Reports \in Seq(Ordinary)
  BY <1>3 DEF Reports
<1>7. \A p \in Ranks : Estimate(p, {0}) \o Estimate(p, ConsumerRanks)
                         \o <<"gather">> \o Times(8, "allreduce") \in Seq(Ordinary)
  BY <1>1, <1>3, <1>4, <1>5, Zenon
<1> QED
  BY <1>1, <1>3, <1>4, <1>6, <1>7, Zenon

\* Every step is of one of these kinds.
LEMMA Moves ==
  ASSUME TypeOK, StepsInv, [Next]_vars
  PROVE  (\E p \in Ranks : LifeStep(p)) \/ ProgramStep \/ DemoGivesUp
<1> USE Constants
<1>0. /\ prog \in {"demo", "micro"} \cup Tests
      /\ \A p \in Ranks : /\ pc[p] \in Steps
                          /\ pc[p] \in Starting \cup {"main", "destroy"} \cup Ending \cup Working(p)
  BY ProgramsAssumption DEF TypeOK, StepsInv, PlacesInv
<1>1. ASSUME NEW p \in Ranks, NEW step \in Steps, NEW seq \in Seq(Ordinary), Goes(p, step, seq),
             UNCHANGED <<others, capacity>>
      PROVE  ProgramStep
  BY <1>1 DEF ProgramStep
<1>2. ASSUME Stay, UNCHANGED <<others, capacity>> PROVE ProgramStep
  BY <1>2 DEF ProgramStep
<1>3. CASE \E p \in Ranks : Life(p) /\ UNCHANGED <<queue, local>>
  BY <1>3 DEF LifeStep
<1>4. ASSUME NEW p \in Ranks, Main(p) PROVE ProgramStep
  <2>1. ASSUME NEW step \in (Working(p) \cap Steps) \ {"exited"}, NEW seq \in Seq(Ordinary),
               Then(p, step, seq)
        PROVE  ProgramStep
    BY <1>1, <1>4, <2>1 DEF Main, At, Goes, queue
  <2>2. CASE prog = "demo"
    BY <1>4, <2>1, <2>2, Sequences DEF Main, Working, Steps
  <2>3. CASE prog = "micro"
    BY <1>4, <2>1, <2>3, Sequences DEF Main, Working, Steps
  <2>4. CASE prog = "quick"
    BY <1>4, <2>1, <2>4, Sequences DEF Main, Working, Steps
  <2>5. CASE prog = "enqueue_only"
    BY <1>4, <2>1, <2>5, Sequences DEF Main, Working, Steps
  <2>6. CASE prog = "dequeue_only"
    BY <1>4, <2>1, <2>6, Sequences DEF Main, Working, Steps
  <2> QED
    BY <1>0, <2>2, <2>3, <2>4, <2>5, <2>6 DEF Tests
<1>5. ASSUME NEW p \in Ranks, Stop(p) PROVE ProgramStep
  <2>1. "aggregate" \in Working(p)
    BY <1>0, <1>5 DEF Stop, At, Working, Tests, Starting, Ending
  <2> QED
    BY <1>0, <1>1, <1>5, <2>1, Sequences
       DEF Stop, At, Goes, queue, Steps, Starting, Ending
<1>6. ASSUME NEW p \in Ranks, Aggregate(p) PROVE ProgramStep
  BY <1>0, <1>1, <1>6, Sequences DEF Aggregate, At, Goes, queue, Steps, Starting, Ending
<1>7. ASSUME DemoPut PROVE ProgramStep
  <2>1. prog = "demo" /\ pc[0] \in Working(0)
    BY <1>0, <1>7 DEF DemoPut, At, Working, Tests, Starting, Ending
  <2> QED
    BY <1>1, <1>2, <1>7, <2>1, Sequences DEF DemoPut, At, Goes, queue, Offer, Steps, Working
<1>8. ASSUME Warmup PROVE ProgramStep
  <2>1. prog = "micro" /\ pc[0] \in Working(0)
    BY <1>0, <1>8 DEF Warmup, At, Working, Tests, Starting, Ending
  <2> QED
    BY <1>1, <1>2, <1>8, <2>1, Sequences DEF Warmup, At, Goes, queue, Steps, Working
<1>9. ASSUME Produce PROVE ProgramStep
  <2>1. prog = "micro" /\ pc[0] \in Working(0)
    BY <1>0, <1>9 DEF Produce, At, Working, Tests, Starting, Ending
  <2> QED
    BY <1>1, <1>2, <1>9, <2>1, Sequences DEF Produce, At, Goes, queue, Steps, Working
<1>10. ASSUME BatchPut PROVE ProgramStep
  <2>1. script[0] = <<>> /\ ~inside[0] /\ pc[0] \in Working(0)
    BY <1>0, <1>10 DEF BatchPut, StepsInv, SendingInv, Starting, Ending
  <2> QED
    BY <1>1, <1>2, <1>10, <2>1, Sequences DEF BatchPut, Goes, queue, Offer, Steps
<1>11. ASSUME Flushed PROVE ProgramStep
  <2>1. prog = "micro" /\ pc[0] \in Working(0)
    BY <1>0, <1>11 DEF Flushed, At, Working, Tests, Starting, Ending
  <2> QED
    BY <1>1, <1>11, <2>1, Sequences DEF Flushed, At, Goes, queue, Steps, Working
<1>12. ASSUME WarmUp PROVE ProgramStep
  <2>1. pc[0] \in Working(0) /\ (prog = "dequeue_only" \/ "enqueue" \in Working(0)) /\ "stop" \in Working(0)
    BY <1>0, <1>12 DEF WarmUp, At, Working, Tests, Starting, Ending
  <2> QED
    BY <1>1, <1>2, <1>12, <2>1, Sequences DEF WarmUp, At, Goes, queue, Offer, Steps
<1>13. ASSUME Enqueue PROVE ProgramStep
  <2>1. pc[0] \in Working(0) /\ "stop" \in Working(0)
    BY <1>0, <1>13 DEF Enqueue, At, Working, Tests, Starting, Ending
  <2> QED
    BY <1>1, <1>2, <1>13, <2>1, Sequences DEF Enqueue, At, Goes, queue, Offer, Steps
<1>14. ASSUME NEW c \in ConsumerRanks, Consumer(c) PROVE ProgramStep
  <2>0. c \in Ranks /\ pc[c] \in Starting \cup {"main", "destroy"} \cup Ending \cup Working(c)
    BY <1>0
  <2>1. CASE DemoGet(c)
    <3>1. pc[c] \in Working(c)
      BY <2>0, <2>1 DEF DemoGet, At, Starting, Ending
    <3> QED
      BY <1>1, <1>2, <2>0, <2>1, <3>1, Sequences DEF DemoGet, At, Goes, queue, Take, Steps
  <2>2. CASE Measure(c)
    BY <1>2, <2>2 DEF Measure, DequeueWrapper, FromBuffer, Fetch, Take, queue
  <2>3. CASE Retry(c)
    BY <1>2, <2>3 DEF Retry, vars, life, queue, local, Stay, others
  <2>4. CASE Measured(c)
    <3>1. pc[c] \in Working(c) /\ "drain" \in Working(c)
      BY <1>0, <2>0, <2>4 DEF Measured, At, Starting, Ending, Working, Tests
    <3> QED
      BY <1>1, <2>0, <2>4, <3>1, Sequences DEF Measured, At, Goes, queue, Steps
  <2>5. CASE Drain(c)
    BY <1>2, <2>5 DEF Drain, DequeueWrapper, FromBuffer, Fetch, Take, queue
  <2>6. CASE Drained(c)
    <3>1. pc[c] \in Working(c)
      BY <2>0, <2>6 DEF Drained, At, Starting, Ending
    <3> QED
      BY <1>1, <2>0, <2>6, <3>1, Sequences DEF Drained, At, Goes, queue, local, Steps
  <2>7. CASE Consume(c) \/ Empty(c)
    <3>1. pc[c] \in Working(c) /\ "stop" \in Working(c)
      BY <1>0, <2>0, <2>7 DEF Consume, Empty, At, Starting, Ending, Working, Tests
    <3>2. Stay \/ Then(c, "stop", <<>>)
      BY <2>7 DEF Consume, Empty
    <3>3. At(c, "consume") /\ UNCHANGED <<others, capacity>>
      BY <2>7 DEF Consume, Empty, Take, queue
    <3> QED
      BY <1>1, <1>2, <2>0, <3>1, <3>2, <3>3, Sequences DEF At, Goes, Steps
  <2> QED
    BY <1>14, <2>1, <2>2, <2>3, <2>4, <2>5, <2>6, <2>7 DEF Consumer
<1>15. CASE UNCHANGED vars
  BY <1>2, <1>15 DEF vars, life, queue, local, Stay, others
<1> QED
  BY <1>3, <1>4, <1>5, <1>6, <1>7, <1>8, <1>9, <1>10, <1>11, <1>12, <1>13, <1>14, <1>15
     DEF Next, Rank, Producer
-----------------------------------------------------------------------------
(***************************************************************************)
(* Windows and memory.                                                     *)
(***************************************************************************)

\* The types of what the collective calls are about.
CallTypes ==
  /\ script \in [Ranks -> Seq(Call)] /\ calls \in [Ranks -> Seq(Call)]
  /\ inside \in [Ranks -> BOOLEAN] /\ locked \in [Ranks -> BOOLEAN]
  /\ memory \in {"none", "allocated", "freed", "gone"}
  /\ valid \in [Ranks -> 0 .. NumWindows]

\* What the type invariant says of the calls.
LEMMA CallTypesHold == ASSUME TypeOK PROVE CallTypes /\ prog \in {"demo", "micro"} \cup Tests
  BY ProgramsAssumption DEF TypeOK, LifeTypeOK, CallTypes, Call

\* A call is made: the script is one shorter, the history one longer.
LEMMA EnterDoes ==
  ASSUME CallTypes, NEW p \in Ranks, Enter(p)
  PROVE  \E call \in Call :
           /\ script[p] # <<>> /\ call = script[p][1] /\ Len(script[p]) \in Nat \ {0}
           /\ script' = [script EXCEPT ![p] = Tail(script[p])]
           /\ Len(script'[p]) = Len(script[p]) - 1
           /\ DOMAIN script[p] = 1 .. Len(script[p])
           /\ \A k \in 1 .. Len(script[p]) - 1 : script'[p][k] = script[p][k + 1]
           /\ calls' = [calls EXCEPT ![p] = Append(calls[p], call)]
           /\ calls'[p] = Append(calls[p], call)
           /\ Len(calls[p]) \in Nat /\ Len(calls'[p]) = Len(calls[p]) + 1
           /\ \A n \in 1 .. Len(calls[p]) : calls'[p][n] = calls[p][n]
           /\ calls'[p][Len(calls[p]) + 1] = call
           /\ \A q \in Ranks \ {p} : calls'[q] = calls[q] /\ script'[q] = script[q]
           /\ ~inside[p] /\ inside' = [inside EXCEPT ![p] = call # "gather" \/ p = 0]
           /\ valid' = [valid EXCEPT ![p] = CASE call = "win_create" -> @ + 1
                                              [] call = "win_free"   -> @ - 1
                                              [] OTHER               -> @]
           /\ script' \in [Ranks -> Seq(Call)] /\ calls' \in [Ranks -> Seq(Call)]
           /\ inside' \in [Ranks -> BOOLEAN]
<1> DEFINE call == Head(script[p])
<1>1. /\ script[p] # <<>> /\ ~inside[p]
      /\ script' = [script EXCEPT ![p] = Tail(@)]
      /\ calls' = [calls EXCEPT ![p] = Append(@, call)]
      /\ inside' = [inside EXCEPT ![p] = call # "gather" \/ p = 0]
      /\ valid' = [valid EXCEPT ![p] = CASE call = "win_create" -> @ + 1
                                         [] call = "win_free"   -> @ - 1
                                         [] OTHER               -> @]
  BY DEF Enter
<1>2. script \in [Ranks -> Seq(Call)] /\ calls \in [Ranks -> Seq(Call)] /\ inside \in [Ranks -> BOOLEAN]
  BY DEF CallTypes
<1>3. /\ call \in Call /\ call = script[p][1] /\ Tail(script[p]) \in Seq(Call)
      /\ Len(script[p]) \in Nat \ {0} /\ Len(Tail(script[p])) = Len(script[p]) - 1
      /\ DOMAIN script[p] = 1 .. Len(script[p])
      /\ \A k \in 1 .. Len(script[p]) - 1 : Tail(script[p])[k] = script[p][k + 1]
  BY <1>1, <1>2, OneLess
<1> HIDE DEF call
<1>4. /\ Append(calls[p], call) \in Seq(Call)
      /\ Len(Append(calls[p], call)) = Len(calls[p]) + 1
      /\ \A n \in 1 .. Len(calls[p]) : Append(calls[p], call)[n] = calls[p][n]
      /\ Append(calls[p], call)[Len(calls[p]) + 1] = call
  BY <1>2, <1>3, OneMore
<1>5. script'[p] = Tail(script[p]) /\ calls'[p] = Append(calls[p], call)
  BY <1>1, <1>2
<1>6. /\ script' \in [Ranks -> Seq(Call)] /\ calls' \in [Ranks -> Seq(Call)]
      /\ inside' \in [Ranks -> BOOLEAN]
      /\ \A q \in Ranks \ {p} : calls'[q] = calls[q] /\ script'[q] = script[q]
  BY <1>1, <1>2, <1>3, <1>4
<1>7. Len(calls[p]) \in Nat
  BY <1>2
<1> QED
  BY <1>1, <1>3, <1>4, <1>5, <1>6, <1>7

\* No step takes a call back.
LEMMA CallsGrow ==
  ASSUME TypeOK, StepsInv, [Next]_vars
  PROVE  \A q \in Ranks :
           /\ Len(calls[q]) \in Nat /\ Len(calls'[q]) \in Nat /\ Len(calls[q]) =< Len(calls'[q])
           /\ \A n \in 1 .. Len(calls[q]) : calls'[q][n] = calls[q][n]
<1>0. CallTypes
  BY CallTypesHold
<1>1. CASE calls' = calls
  BY <1>0, <1>1 DEF CallTypes
<1>2. ASSUME NEW p \in Ranks, Enter(p)
      PROVE  \A q \in Ranks :
               /\ Len(calls[q]) \in Nat /\ Len(calls'[q]) \in Nat /\ Len(calls[q]) =< Len(calls'[q])
               /\ \A n \in 1 .. Len(calls[q]) : calls'[q][n] = calls[q][n]
  <2>1. PICK call \in Call :
           /\ Len(calls[p]) \in Nat /\ Len(calls'[p]) = Len(calls[p]) + 1
           /\ \A n \in 1 .. Len(calls[p]) : calls'[p][n] = calls[p][n]
           /\ \A q \in Ranks \ {p} : calls'[q] = calls[q]
    BY <1>0, <1>2, EnterDoes
  <2>2. \A q \in Ranks : Len(calls[q]) \in Nat
    BY <1>0 DEF CallTypes
  <2> QED
    BY <2>1, <2>2
<1>3. (\E p \in Ranks : LifeStep(p)) => calls' = calls \/ \E p \in Ranks : Enter(p)
  BY DEF LifeStep, Life, Leave, QueueInit, LockAll, QueueDestroy, Free
<1>4. ProgramStep => calls' = calls
  BY DEF ProgramStep, others
<1>5. DemoGivesUp => calls' = calls
  BY DEF DemoGivesUp, Exit
<1> QED
  BY <1>1, <1>2, <1>3, <1>4, <1>5, Moves

\* What all have made stays made.
LEMMA PassedStays ==
  ASSUME TypeOK, StepsInv, [Next]_vars, NEW n \in Int, Passed(n)
  PROVE  Passed(n)'
  BY CallsGrow DEF Passed

\* Working(p) is the same set from beginning to end.
LEMMA SameProgram == ASSUME TypeOK, StepsInv, [Next]_vars
                     PROVE  prog' = prog /\ capacity' = capacity /\ \A p : Working(p)' = Working(p)
<1>1. prog' = prog /\ capacity' = capacity
  BY Moves DEF LifeStep, queue, local, ProgramStep, DemoGivesUp, others
<1> QED
  BY <1>1 DEF Working

\* Nobody but the demo's producer gives up.
LEMMA DemoAlone == ASSUME TypeOK, StepsInv, DemoGivesUp PROVE prog = "demo"
<1>1. /\ pc[0] = "demo_put" /\ prog \in {"demo", "micro"} \cup Tests
      /\ pc[0] \in Starting \cup {"main", "destroy"} \cup Ending \cup Working(0)
  BY Constants, CallTypesHold DEF DemoGivesUp, At, StepsInv, PlacesInv
<1> QED
  BY <1>1 DEF Working, Tests, Starting, Ending

\* Processes stay within their programs.
LEMMA PlacesStep ==
  ASSUME TypeOK, StepsInv, [Next]_vars
  PROVE  PlacesInv'
<1>1. /\ pc \in [Ranks -> Steps]
      /\ \A p \in Ranks : pc[p] \in Starting \cup {"main", "destroy"} \cup Ending \cup Working(p)
  BY DEF StepsInv, PlacesInv
<1>2. SUFFICES /\ pc' \in [Ranks -> Steps]
               /\ \A p \in Ranks : pc'[p] \in Starting \cup {"main", "destroy"} \cup Ending \cup Working(p)
  BY SameProgram DEF PlacesInv
<1>3. ASSUME NEW p \in Ranks, LifeStep(p)
      PROVE  pc' = pc \/ \E step \in Starting \cup {"main"} \cup Ending : pc' = [pc EXCEPT ![p] = step]
  BY <1>3 DEF LifeStep, Life, Enter, Leave, QueueInit, LockAll, QueueDestroy, Free, Then, Starting, Ending
<1>4. ASSUME ProgramStep
      PROVE  pc' = pc \/ \E p \in Ranks : \E step \in Steps \cap ({"destroy"} \cup Working(p)) :
                           pc' = [pc EXCEPT ![p] = step]
  BY <1>4 DEF ProgramStep, Goes, Stay, Then
<1>5. Starting \cup {"main"} \cup Ending \subseteq Steps
  BY DEF Starting, Ending, Steps
<1>6. ASSUME DemoGivesUp
      PROVE  pc' = [pc EXCEPT ![0] = "exited"] /\ 0 \in Ranks /\ "exited" \in Steps \cap Working(0)
  <2>1. prog = "demo" /\ 0 \in Ranks
    BY <1>6, Constants, DemoAlone
  <2> QED
    BY <1>6, <2>1 DEF DemoGivesUp, Exit, Then, Working, Steps
<1> QED
  BY <1>1, <1>3, <1>4, <1>5, <1>6, Moves

\* The windows of every process, from step to step: who is past their creation
\* has seen the producer create one.
LEMMA WindowsStep ==
  ASSUME TypeOK, StepsInv, LifeInv, [Next]_vars
  PROVE  CallTypes' /\ WindowsInv'
<1>0. /\ CallTypes /\ pc \in [Ranks -> Steps] /\ WindowsInv
      /\ NumWindows \in Nat \ {0} /\ 0 \in Ranks
  BY CallTypesHold, Constants DEF StepsInv, PlacesInv, LifeInv
<1>1. ASSUME NEW p \in Ranks
      PROVE  /\ ScriptInv(p)
             /\ pc[p] \notin Ending => \A n \in DOMAIN calls[p] : calls[p][n] # "win_free"
             /\ locked[p] => pc[p] \notin Starting \cup Ending
             /\ pc[p] \notin Starting => Len(calls[0]) > 0
             /\ script[p] \in Seq(Call) /\ calls[p] \in Seq(Call) /\ valid[p] \in 0 .. NumWindows
             /\ Len(script[p]) \in Nat /\ Len(calls[p]) \in Nat
             /\ DOMAIN calls[p] = 1 .. Len(calls[p]) /\ DOMAIN script[p] = 1 .. Len(script[p])
  BY <1>0 DEF WindowsInv, CallTypes
\* Only p's part has to be looked at.
<1>2. ASSUME NEW p \in Ranks, CallTypes',
             \A q \in Ranks \ {p} : /\ pc'[q] = pc[q] /\ script'[q] = script[q] /\ calls'[q] = calls[q]
                                    /\ valid'[q] = valid[q] /\ locked'[q] = locked[q],
             ScriptInv(p)',
             pc'[p] \notin Ending => \A n \in DOMAIN calls'[p] : calls'[p][n] # "win_free",
             locked'[p] => pc'[p] \notin Starting \cup Ending,
             pc'[p] \notin Starting => Len(calls[0]) > 0
      PROVE  CallTypes' /\ WindowsInv'
  <2>1. Len(calls[0]) \in Nat /\ Len(calls'[0]) \in Nat /\ Len(calls[0]) =< Len(calls'[0])
    BY <1>0, CallsGrow
  <2>2. SUFFICES ASSUME NEW q \in Ranks
                 PROVE  /\ ScriptInv(q)'
                        /\ pc'[q] \notin Ending => \A n \in DOMAIN calls'[q] : calls'[q][n] # "win_free"
                        /\ locked'[q] => pc'[q] \notin Starting \cup Ending
                        /\ pc'[q] \notin Starting => Len(calls'[0]) > 0
    BY <1>2 DEF WindowsInv
  <2>3. CASE q = p
    BY <1>2, <2>1, <2>3
  <2>4. CASE q # p
    <3>1. /\ pc'[q] = pc[q] /\ script'[q] = script[q] /\ calls'[q] = calls[q]
          /\ valid'[q] = valid[q] /\ locked'[q] = locked[q]
      BY <1>2, <2>4
    <3>2. ScriptInv(q)'
      BY <1>1, <3>1 DEF ScriptInv
    <3> QED
      BY <1>1, <2>1, <3>1, <3>2
  <2> QED
    BY <2>3, <2>4
<1>3. ASSUME NEW p \in Ranks, Enter(p) PROVE CallTypes' /\ WindowsInv'
  <2>1. PICK call \in Call :
           /\ script[p] # <<>> /\ call = script[p][1] /\ Len(script[p]) \in Nat \ {0}
           /\ script' = [script EXCEPT ![p] = Tail(script[p])]
           /\ calls' = [calls EXCEPT ![p] = Append(calls[p], call)]
           /\ calls'[p] = Append(calls[p], call)
           /\ Len(calls'[p]) = Len(calls[p]) + 1
           /\ \A n \in 1 .. Len(calls[p]) : calls'[p][n] = calls[p][n]
           /\ calls'[p][Len(calls[p]) + 1] = call
           /\ \A q \in Ranks \ {p} : calls'[q] = calls[q] /\ script'[q] = script[q]
           /\ valid' = [valid EXCEPT ![p] = CASE call = "win_create" -> @ + 1
                                              [] call = "win_free"   -> @ - 1
                                              [] OTHER               -> @]
           /\ script' \in [Ranks -> Seq(Call)] /\ calls' \in [Ranks -> Seq(Call)]
           /\ inside' \in [Ranks -> BOOLEAN]
    BY <1>0, <1>3, EnterDoes
  <2>2. UNCHANGED <<pc, memory, locked>>
    BY <1>3 DEF Enter
  <2>3. /\ script'[p] = Tail(script[p]) /\ Len(script'[p]) = Len(script[p]) - 1
        /\ DOMAIN calls'[p] = 1 .. Len(calls[p]) + 1
        /\ valid'[p] = CASE call = "win_create" -> valid[p] + 1
                         [] call = "win_free"   -> valid[p] - 1
                         [] OTHER               -> valid[p]
        /\ \A q \in Ranks \ {p} : valid'[q] = valid[q]
    <3>1. script'[p] = Tail(script[p]) /\ Len(Tail(script[p])) = Len(script[p]) - 1
      BY <1>0, <1>1, <2>1, OneLess DEF CallTypes
    <3>2. calls'[p] \in Seq(Call)
      BY <2>1
    <3> QED
      BY <1>0, <2>1, <3>1, <3>2 DEF CallTypes
  <2>4. /\ ScriptInv(p)' /\ valid'[p] \in 0 .. NumWindows
        /\ pc[p] \notin Ending => call # "win_free"
        /\ pc[p] \notin Starting => Len(calls[0]) > 0
    <3>1. CASE pc[p] = "init"
      BY <1>1, <2>1, <3>1 DEF ScriptInv
    <3>2. CASE pc[p] = "lock_all"
      <4>1. PICK k \in 0 .. NumWindows : script[p] = Times(k, "win_create")
        BY <1>1, <3>2 DEF ScriptInv
      <4>2. /\ k - 1 \in 0 .. NumWindows /\ script'[p] = Times(k - 1, "win_create")
            /\ call = "win_create" /\ Len(script[p]) = k
        <5>1. k \in Nat /\ Times(k, "win_create") # <<>>
          BY <1>0, <2>1, <4>1
        <5>2. /\ Len(Times(k, "win_create")) = k /\ k # 0
              /\ \A j \in 1 .. k : Times(k, "win_create")[j] = "win_create"
          BY <5>1, TimesIs, Zenon
        <5>3. Tail(Times(k, "win_create")) = Times(k - 1, "win_create")
          BY <5>1, TimesTail
        <5>4. k - 1 \in 0 .. NumWindows /\ 1 \in 1 .. k
          BY <1>0, <5>1, <5>2
        <5> QED
          BY <2>1, <2>3, <4>1, <5>2, <5>3, <5>4, Zenon
      <4>3. /\ valid[p] + k = NumWindows /\ Len(calls[p]) + k = NumWindows
            /\ calls[p] \in Seq({"win_create"})
        BY <1>1, <3>2, <4>2 DEF ScriptInv
      <4>4. calls'[p] \in Seq({"win_create"})
        BY <2>1, <4>2, <4>3, OneMore
      <4>5. valid'[p] = valid[p] + 1 /\ Len(script'[p]) = k - 1
        BY <2>3, <4>2
      <4>6. /\ valid'[p] + Len(script'[p]) = NumWindows
            /\ Len(calls'[p]) + Len(script'[p]) = NumWindows
            /\ valid'[p] \in 0 .. NumWindows
        <5>1. Len(calls'[p]) = Len(calls[p]) + 1 /\ Len(calls[p]) \in Nat /\ valid[p] \in Nat
          BY <1>0, <1>1, <2>1
        <5>2. valid[p] + k = NumWindows /\ Len(calls[p]) + k = NumWindows /\ k \in Nat /\ k # 0
          BY <1>0, <4>2, <4>3
        <5>3. NumWindows \in Nat
          BY <1>0
        <5>4. /\ (valid[p] + 1) + (k - 1) = NumWindows /\ (Len(calls[p]) + 1) + (k - 1) = NumWindows
              /\ valid[p] + 1 \in 0 .. NumWindows
          BY <5>1, <5>2, <5>3, SMTT(30)
        <5> QED
          BY <4>5, <5>1, <5>4, Zenon
      <4>7. ScriptInv(p)'
        BY <2>2, <3>2, <4>2, <4>4, <4>6 DEF ScriptInv
      <4> QED
        BY <3>2, <4>2, <4>6, <4>7 DEF Starting
    <3>3. CASE pc[p] = "free"
      <4>1. PICK k \in 0 .. NumWindows : script[p] = Times(k, "win_free")
        BY <1>1, <3>3 DEF ScriptInv
      <4>2. /\ k - 1 \in 0 .. NumWindows /\ script'[p] = Times(k - 1, "win_free")
            /\ call = "win_free" /\ Len(script[p]) = k
        <5>1. k \in Nat /\ Times(k, "win_free") # <<>>
          BY <1>0, <2>1, <4>1
        <5>2. /\ Len(Times(k, "win_free")) = k /\ k # 0
              /\ \A j \in 1 .. k : Times(k, "win_free")[j] = "win_free"
          BY <5>1, TimesIs, Zenon
        <5>3. Tail(Times(k, "win_free")) = Times(k - 1, "win_free")
          BY <5>1, TimesTail
        <5>4. k - 1 \in 0 .. NumWindows /\ 1 \in 1 .. k
          BY <1>0, <5>1, <5>2
        <5> QED
          BY <2>1, <2>3, <4>1, <5>2, <5>3, <5>4, Zenon
      <4>3. valid[p] = k
        BY <1>1, <3>3, <4>2 DEF ScriptInv
      <4>4. valid'[p] = valid[p] - 1 /\ Len(script'[p]) = k - 1
        BY <2>3, <4>2
      <4>5. valid'[p] = Len(script'[p]) /\ valid'[p] \in 0 .. NumWindows
        BY <1>0, <4>2, <4>3, <4>4
      <4>6. calls'[p] # <<>> /\ calls'[p][Len(calls'[p])] = "win_free"
        <5>1. Len(calls'[p]) = Len(calls[p]) + 1 /\ calls'[p][Len(calls[p]) + 1] = "win_free"
          BY <2>1, <4>2, Zenon
        <5>2. calls'[p] # <<>>
          BY <1>1, <5>1
        <5> QED
          BY <5>1, <5>2
      <4>7. ScriptInv(p)'
        BY <2>2, <3>3, <4>2, <4>5, <4>6 DEF ScriptInv
      <4> QED
        BY <1>1, <3>3, <4>5, <4>7 DEF Ending
    <3>4. CASE pc[p] = "ended"
      <4>1. script[p] = <<"finalize">> /\ valid[p] = 0
        BY <1>1, <2>1, <3>4 DEF ScriptInv
      <4>2. call = "finalize" /\ Tail(script[p]) = <<>>
        BY <2>1, <4>1
      <4>3. valid'[p] = 0 /\ script'[p] = <<>>
        BY <2>3, <4>1, <4>2
      <4> QED
        BY <1>0, <1>1, <2>2, <3>4, <4>3 DEF ScriptInv, Ending
    <3>5. CASE pc[p] \notin Starting \cup Ending
      <4>0. pc[p] # "exited"
        BY <1>1, <2>1 DEF ScriptInv
      <4>1. script[p] \in Seq(Ordinary) /\ valid[p] = NumWindows
        BY <1>1, <3>5, <4>0 DEF ScriptInv, Starting, Ending
      <4>2. call \in Ordinary /\ Tail(script[p]) \in Seq(Ordinary)
        BY <2>1, <4>1, OneLess
      <4>3. valid'[p] = NumWindows
        BY <2>3, <4>1, <4>2 DEF Ordinary
      <4>4. ScriptInv(p)'
        BY <2>2, <2>3, <3>5, <4>0, <4>2, <4>3 DEF ScriptInv, Starting, Ending
      <4> QED
        BY <1>0, <1>1, <3>5, <4>2, <4>3, <4>4 DEF Ordinary
    <3> QED
      BY <3>1, <3>2, <3>3, <3>4, <3>5 DEF Starting, Ending
  <2>5. CallTypes'
    <3>1. valid' \in [Ranks -> 0 .. NumWindows]
      BY <1>0, <2>1, <2>4 DEF CallTypes
    <3> QED
      BY <1>0, <2>1, <2>2, <3>1 DEF CallTypes
  <2>6. pc'[p] \notin Ending => \A n \in DOMAIN calls'[p] : calls'[p][n] # "win_free"
    BY <1>1, <2>1, <2>2, <2>3, <2>4
  <2>7. locked'[p] => pc'[p] \notin Starting \cup Ending
    BY <1>1, <2>2
  <2> QED
    BY <1>2, <2>1, <2>2, <2>3, <2>4, <2>5, <2>6, <2>7
<1>4. ASSUME NEW p \in Ranks, Leave(p) PROVE CallTypes' /\ WindowsInv'
  <2>1. UNCHANGED <<pc, script, calls, memory, valid, locked>> /\ inside' = [inside EXCEPT ![p] = FALSE]
    BY <1>4 DEF Leave
  <2>2. CallTypes'
    BY <1>0, <2>1 DEF CallTypes
  <2>3. WindowsInv'
    BY <1>0, <2>1 DEF WindowsInv, ScriptInv
  <2> QED
    BY <2>2, <2>3
<1>5. ASSUME NEW p \in Ranks, NEW step \in Steps, NEW seq \in Seq(Call), Then(p, step, seq),
             UNCHANGED <<calls, inside, valid>>
      PROVE  /\ pc'[p] = step /\ script'[p] = seq
             /\ script' \in [Ranks -> Seq(Call)]
             /\ \A q \in Ranks \ {p} : /\ pc'[q] = pc[q] /\ script'[q] = script[q]
                                       /\ calls'[q] = calls[q] /\ valid'[q] = valid[q]
  BY <1>0, <1>5 DEF Then, CallTypes
<1>6. ASSUME NEW p \in Ranks, QueueInit(p) PROVE CallTypes' /\ WindowsInv'
  <2> DEFINE seq == Times(NumWindows, "win_create")
  <2>1. seq \in Seq({"win_create"}) /\ Len(seq) = NumWindows /\ seq \in Seq(Call)
    BY <1>0, TimesIs DEF Call, Times
  <2>2. /\ At(p, "init") /\ Then(p, "lock_all", seq) /\ UNCHANGED <<calls, inside, valid, locked>>
        /\ memory' \in {"none", "allocated", "freed", "gone"}
    BY <1>0, <1>6 DEF QueueInit, CallTypes
  <2> HIDE DEF seq
  <2>3. calls[p] = <<>> /\ valid[p] = 0
    BY <1>1, <2>2 DEF At, ScriptInv
  <2>4. /\ pc'[p] = "lock_all" /\ script'[p] = seq /\ script' \in [Ranks -> Seq(Call)]
        /\ \A q \in Ranks \ {p} : /\ pc'[q] = pc[q] /\ script'[q] = script[q]
                                  /\ calls'[q] = calls[q] /\ valid'[q] = valid[q]
    BY <1>5, <2>1, <2>2 DEF Steps
  <2>5. CallTypes'
    BY <1>0, <2>2, <2>4 DEF CallTypes
  <2>6. ScriptInv(p)'
    BY <1>0, <2>1, <2>2, <2>3, <2>4 DEF ScriptInv, seq
  <2> QED
    BY <1>1, <1>2, <2>2, <2>3, <2>4, <2>5, <2>6 DEF Starting, Ending, At
<1>7. ASSUME NEW p \in Ranks, LockAll(p) PROVE CallTypes' /\ WindowsInv'
  <2>1. /\ At(p, "lock_all") /\ Then(p, "main", <<>>) /\ UNCHANGED <<calls, inside, memory, valid>>
        /\ locked' = [locked EXCEPT ![p] = TRUE]
    BY <1>7 DEF LockAll
  <2>2. Len(calls[p]) = NumWindows /\ valid[p] = NumWindows /\ calls[p] \in Seq({"win_create"})
    BY <1>0, <1>1, <2>1 DEF At, ScriptInv
  <2>3. /\ pc'[p] = "main" /\ script'[p] = <<>> /\ script' \in [Ranks -> Seq(Call)]
        /\ \A q \in Ranks \ {p} : /\ pc'[q] = pc[q] /\ script'[q] = script[q]
                                  /\ calls'[q] = calls[q] /\ valid'[q] = valid[q]
    <3>1. <<>> \in Seq(Call) /\ "main" \in Steps
      BY DEF Steps
    <3> QED
      BY <1>5, <2>1, <3>1
  <2>4. CallTypes'
    BY <1>0, <2>1, <2>3 DEF CallTypes
  <2>5. Passed(NumWindows)
    <3>1. calls[p][NumWindows] = "win_create"
      BY <1>0, <2>2
    <3> QED
      BY <1>0, <2>1, <2>2, <3>1 DEF LifeInv, LeftInv, LeftAt, Passed, At
  <2>6. Len(calls[0]) > 0
    BY <1>0, <1>1, <2>5 DEF Passed
  <2>7. ScriptInv(p)'
    BY <2>1, <2>2, <2>3 DEF ScriptInv
  <2> QED
    BY <1>0, <1>1, <1>2, <2>1, <2>3, <2>4, <2>6, <2>7 DEF Starting, Ending, At, CallTypes
<1>8. ASSUME NEW p \in Ranks, QueueDestroy(p) PROVE CallTypes' /\ WindowsInv'
  <2> DEFINE seq == Times(NumWindows, "win_free")
  <2>1. seq \in Seq(Call) /\ Len(seq) = NumWindows /\ seq # <<>>
    BY <1>0, TimesIs DEF Call, Times
  <2>2. /\ At(p, "destroy") /\ Then(p, "free", seq) /\ UNCHANGED <<calls, inside, memory, valid>>
        /\ locked' = [locked EXCEPT ![p] = FALSE]
    BY <1>8 DEF QueueDestroy
  <2> HIDE DEF seq
  <2>3. valid[p] = NumWindows
    BY <1>1, <2>2 DEF At, ScriptInv
  <2>4. /\ pc'[p] = "free" /\ script'[p] = seq /\ script' \in [Ranks -> Seq(Call)]
        /\ \A q \in Ranks \ {p} : /\ pc'[q] = pc[q] /\ script'[q] = script[q]
                                  /\ calls'[q] = calls[q] /\ valid'[q] = valid[q]
    BY <1>5, <2>1, <2>2 DEF Steps
  <2>5. CallTypes'
    BY <1>0, <2>2, <2>4 DEF CallTypes
  <2>6. ScriptInv(p)'
    BY <1>0, <2>1, <2>2, <2>3, <2>4 DEF ScriptInv, seq
  <2> QED
    BY <1>0, <1>1, <1>2, <2>2, <2>4, <2>5, <2>6 DEF Starting, Ending, At, CallTypes
<1>9. ASSUME NEW p \in Ranks, Free(p) PROVE CallTypes' /\ WindowsInv'
  <2>1. /\ At(p, "free") /\ Then(p, "ended", <<"finalize">>) /\ UNCHANGED <<calls, inside, valid, locked>>
        /\ memory' \in {"none", "allocated", "freed", "gone"}
    BY <1>0, <1>9 DEF Free, CallTypes
  <2>2. valid[p] = 0
    BY <1>1, <2>1 DEF At, ScriptInv
  <2>3. /\ pc'[p] = "ended" /\ script'[p] = <<"finalize">> /\ script' \in [Ranks -> Seq(Call)]
        /\ \A q \in Ranks \ {p} : /\ pc'[q] = pc[q] /\ script'[q] = script[q]
                                  /\ calls'[q] = calls[q] /\ valid'[q] = valid[q]
    <3>1. <<"finalize">> \in Seq(Call) /\ "ended" \in Steps
      BY DEF Call, Steps
    <3> QED
      BY <1>5, <2>1, <3>1
  <2>4. CallTypes'
    BY <1>0, <2>1, <2>3 DEF CallTypes
  <2>5. ScriptInv(p)'
    BY <2>1, <2>2, <2>3 DEF ScriptInv
  <2> QED
    BY <1>1, <1>2, <2>1, <2>3, <2>4, <2>5 DEF Starting, Ending, At
<1>10. ASSUME ProgramStep PROVE CallTypes' /\ WindowsInv'
  <2>1. UNCHANGED <<calls, inside, memory, valid, locked>>
    BY <1>10 DEF ProgramStep, others
  <2>2. CASE Stay
    BY <1>0, <2>1, <2>2 DEF Stay, CallTypes, WindowsInv, ScriptInv
  <2>3. ASSUME NEW p \in Ranks, NEW step \in Steps, NEW seq \in Seq(Ordinary), Goes(p, step, seq)
        PROVE  CallTypes' /\ WindowsInv'
    <3>1. /\ pc[p] \notin Starting \cup Ending \cup {"exited"}
          /\ step \notin Starting \cup Ending \cup {"exited"}
          /\ Then(p, step, seq) /\ seq \in Seq(Call)
      BY <2>3, CallTypesHold DEF Goes, Working, Tests, Starting, Ending, Ordinary, Call
    <3>2. /\ pc'[p] = step /\ script'[p] = seq /\ script' \in [Ranks -> Seq(Call)]
          /\ \A q \in Ranks \ {p} : /\ pc'[q] = pc[q] /\ script'[q] = script[q]
                                    /\ calls'[q] = calls[q] /\ valid'[q] = valid[q]
      BY <1>5, <2>1, <3>1
    <3>3. CallTypes'
      BY <1>0, <2>1, <3>2 DEF CallTypes
    <3>4. valid[p] = NumWindows
      BY <1>1, <3>1 DEF ScriptInv, Starting, Ending
    <3>5. ScriptInv(p)'
      BY <2>1, <2>3, <3>1, <3>2, <3>4 DEF ScriptInv, Starting, Ending
    <3> QED
      BY <1>1, <1>2, <2>1, <3>1, <3>2, <3>3, <3>5
  <2> QED
    BY <1>10, <2>2, <2>3 DEF ProgramStep
<1>11. ASSUME DemoGivesUp PROVE CallTypes' /\ WindowsInv'
  <2>1. /\ At(0, "demo_put") /\ Then(0, "exited", <<>>) /\ UNCHANGED <<calls, inside>>
        /\ memory' = "gone" /\ 0 \in Ranks
        /\ valid' = [valid EXCEPT ![0] = 0] /\ locked' = [locked EXCEPT ![0] = FALSE]
    BY <1>11, Constants DEF DemoGivesUp, Exit
  <2>2. /\ pc'[0] = "exited" /\ script'[0] = <<>> /\ script' \in [Ranks -> Seq(Call)]
        /\ \A q \in Ranks \ {0} : pc'[q] = pc[q] /\ script'[q] = script[q] /\ calls'[q] = calls[q]
    <3>1. <<>> \in Seq(Call) /\ "exited" \in Steps
      BY DEF Steps
    <3>2. /\ pc \in [Ranks -> Steps] /\ script \in [Ranks -> Seq(Call)]
          /\ pc' = [pc EXCEPT ![0] = "exited"] /\ script' = [script EXCEPT ![0] = <<>>]
      BY <1>0, <2>1 DEF Then, CallTypes
    <3> QED
      BY <2>1, <3>1, <3>2
  <2>3. valid'[0] = 0 /\ valid' \in [Ranks -> 0 .. NumWindows] /\ \A q \in Ranks \ {0} : valid'[q] = valid[q]
    BY <1>0, <2>1 DEF CallTypes
  <2>4. CallTypes'
    BY <1>0, <2>1, <2>2, <2>3 DEF CallTypes
  <2>5. ScriptInv(0)'
    BY <2>2, <2>3 DEF ScriptInv
  <2> QED
    BY <1>0, <1>1, <1>2, <2>1, <2>2, <2>3, <2>4, <2>5 DEF Starting, Ending, At, CallTypes
<1> QED
  BY <1>3, <1>4, <1>6, <1>7, <1>8, <1>9, <1>10, <1>11, Moves DEF LifeStep, Life

\* A call is left when all have made it.
LEMMA LeftStep ==
  ASSUME TypeOK, StepsInv, LifeInv, [Next]_vars
  PROVE  LeftInv'
<1>0. CallTypes /\ LeftInv
  BY CallTypesHold DEF LifeInv
<1>1. \A q \in Ranks :
        /\ Len(calls[q]) \in Nat /\ Len(calls'[q]) \in Nat /\ Len(calls[q]) =< Len(calls'[q])
        /\ \A n \in 1 .. Len(calls[q]) : calls'[q][n] = calls[q][n]
  BY CallsGrow
<1>2. ASSUME NEW r \in Ranks, calls'[r] = calls[r], inside'[r] = inside[r]
      PROVE  LeftAt(r)'
  <2> DEFINE n == Len(calls[r])
  <2>1. SUFFICES ASSUME n > 0, ~inside[r], r = 0 \/ calls[r][n] # "gather"
                 PROVE  \A q \in Ranks : Len(calls'[q]) >= n /\ calls'[q][n] = calls'[r][n]
    BY <1>2 DEF LeftAt
  <2>2. \A q \in Ranks : Len(calls[q]) >= n /\ calls[q][n] = calls[r][n]
    BY <1>0, <2>1 DEF LeftInv, LeftAt
  <2>3. n \in Nat
    BY <1>1
  <2> HIDE DEF n
  <2>4. ASSUME NEW q \in Ranks PROVE Len(calls'[q]) >= n /\ calls'[q][n] = calls[q][n]
    BY <1>1, <2>1, <2>2, <2>3
  <2> QED
    BY <1>2, <2>2, <2>4
<1>3. ASSUME NEW p \in Ranks, Enter(p) PROVE LeftInv'
  <2>1. PICK call \in Call :
           /\ calls'[p][Len(calls[p]) + 1] = call
           /\ Len(calls'[p]) = Len(calls[p]) + 1
           /\ \A q \in Ranks \ {p} : calls'[q] = calls[q]
           /\ inside' = [inside EXCEPT ![p] = call # "gather" \/ p = 0]
    BY <1>0, <1>3, EnterDoes
  <2>2. SUFFICES ASSUME NEW r \in Ranks PROVE LeftAt(r)'
    BY DEF LeftInv
  <2>3. CASE r = p
    <3>1. inside'[p] = (call # "gather" \/ p = 0) /\ calls'[p][Len(calls'[p])] = call
      BY <1>0, <2>1 DEF CallTypes
    <3> QED
      BY <2>3, <3>1 DEF LeftAt
  <2>4. CASE r # p
    BY <1>0, <1>2, <2>1, <2>4 DEF CallTypes
  <2> QED
    BY <2>3, <2>4
<1>4. ASSUME NEW p \in Ranks, Leave(p) PROVE LeftInv'
  <2>1. /\ calls' = calls /\ inside' = [inside EXCEPT ![p] = FALSE]
        /\ \A q \in Ranks : Len(calls[q]) >= Len(calls[p]) /\ calls[q][Len(calls[p])] = calls[p][Len(calls[p])]
    BY <1>4 DEF Leave
  <2>2. SUFFICES ASSUME NEW r \in Ranks PROVE LeftAt(r)'
    BY DEF LeftInv
  <2>3. CASE r = p
    BY <2>1, <2>3 DEF LeftAt
  <2>4. CASE r # p
    BY <1>0, <1>2, <2>1, <2>4 DEF CallTypes
  <2> QED
    BY <2>3, <2>4
<1>5. CASE UNCHANGED <<calls, inside>>
  BY <1>0, <1>5 DEF LeftInv, LeftAt
<1> QED
  BY <1>3, <1>4, <1>5, Moves
     DEF LifeStep, Life, QueueInit, LockAll, QueueDestroy, Free, ProgramStep, DemoGivesUp, Exit, others

\* The producer frees its memory when every process has freed its windows.
LEMMA MemoryStep ==
  ASSUME TypeOK, StepsInv, LifeInv, [Next]_vars
  PROVE  MemoryInv'
<1>0. /\ CallTypes /\ pc \in [Ranks -> Steps] /\ WindowsInv /\ LeftInv /\ MemoryInv
      /\ NumWindows \in Nat \ {0} /\ 0 \in Ranks
  BY CallTypesHold, Constants DEF StepsInv, PlacesInv, LifeInv
<1>1. CASE UNCHANGED <<pc, memory>>
  BY <1>0, <1>1 DEF MemoryInv
<1>2. ASSUME NEW p \in Ranks, QueueInit(p) PROVE MemoryInv'
  BY <1>0, <1>2 DEF QueueInit, At, Then, MemoryInv, Ending
<1>3. ASSUME NEW p \in Ranks, LockAll(p) PROVE MemoryInv'
  BY <1>0, <1>3 DEF LockAll, At, Then, MemoryInv, Ending
<1>4. ASSUME NEW p \in Ranks, QueueDestroy(p) PROVE MemoryInv'
  BY <1>0, <1>4 DEF QueueDestroy, At, Then, MemoryInv, Ending
<1>5. ASSUME NEW p \in Ranks, Free(p) PROVE MemoryInv'
  <2>1. /\ At(p, "free") /\ pc' = [pc EXCEPT ![p] = "ended"]
        /\ memory' = IF p = 0 THEN "freed" ELSE memory
    BY <1>5 DEF Free, Then
  <2>2. CASE p # 0
    BY <1>0, <2>1, <2>2 DEF At, MemoryInv, Ending
  <2>3. CASE p = 0
    <3> DEFINE n == Len(calls[0])
    <3>1. calls[0] # <<>> /\ calls[0][n] = "win_free" /\ ~inside[0]
      BY <1>0, <2>1, <2>3 DEF At, WindowsInv, ScriptInv
    <3>2. n \in Nat \ {0}
      BY <1>0, <3>1 DEF CallTypes
    <3>3. \A q \in Ranks : Len(calls[q]) >= n /\ calls[q][n] = "win_free"
      BY <1>0, <3>1, <3>2 DEF LeftInv, LeftAt
    <3> HIDE DEF n
    <3>4. ASSUME NEW q \in Ranks PROVE pc[q] \in Ending
      <4>1. Len(calls[q]) \in Nat /\ DOMAIN calls[q] = 1 .. Len(calls[q])
        BY <1>0 DEF CallTypes
      <4>2. n \in DOMAIN calls[q]
        BY <3>2, <3>3, <4>1
      <4> QED
        BY <1>0, <3>3, <4>2 DEF WindowsInv
    <3> QED
      BY <1>0, <2>1, <2>3, <3>4 DEF MemoryInv, Ending
  <2> QED
    BY <2>2, <2>3
<1>6. CASE ProgramStep
  <2>1. ASSUME NEW p \in Ranks, NEW step \in Steps, NEW seq, Goes(p, step, seq)
        PROVE  /\ pc[p] \notin Starting \cup Ending \cup {"exited"}
               /\ step \notin Starting \cup Ending \cup {"exited"}
    BY <2>1, CallTypesHold DEF Goes, Working, Tests, Starting, Ending
  <2> QED
    BY <1>0, <1>6, <2>1 DEF ProgramStep, others, Stay, Goes, Then, MemoryInv, Starting, Ending
<1>7. ASSUME DemoGivesUp PROVE MemoryInv'
  <2>1. /\ pc[0] = "demo_put" /\ pc' = [pc EXCEPT ![0] = "exited"] /\ memory' = "gone"
    BY <1>7 DEF DemoGivesUp, Exit, At, Then
  <2> QED
    BY <1>0, <2>1 DEF MemoryInv
<1> QED
  BY <1>1, <1>2, <1>3, <1>4, <1>5, <1>6, <1>7, Moves DEF LifeStep, Life, Enter, Leave

\* Windows locked are windows whose memory is there, or has gone with the producer.
LEMMA LifeIsSafe ==
  ASSUME TypeOK, StepsInv, LifeInv, NEW p \in Ranks, locked[p]
  PROVE  memory = "allocated" \/ pc[0] = "exited"
<1>1. /\ pc[p] \notin Starting \cup Ending /\ Len(calls[0]) > 0
      /\ ScriptInv(0) /\ 0 \in Ranks
  BY Constants DEF LifeInv, WindowsInv
<1>2. pc[0] # "init"
  <2>1. pc[0] = "init" => calls[0] = <<>>
    BY <1>1 DEF ScriptInv
  <2>2. calls[0] # <<>>
    BY <1>1
  <2> QED
    BY <2>1, <2>2
<1>3. pc[0] # "ended"
  BY <1>1 DEF LifeInv, MemoryInv, Ending
<1> QED
  BY <1>2, <1>3, CallTypesHold DEF LifeInv, MemoryInv, CallTypes

\* In the beginning nobody has called anything.
LEMMA LifeBegins == ASSUME Init PROVE PlacesInv /\ LifeInv
<1>1. /\ pc = [p \in Ranks |-> "init"] /\ script = [p \in Ranks |-> <<>>]
      /\ calls = [p \in Ranks |-> <<>>] /\ inside = [p \in Ranks |-> FALSE]
      /\ memory = "none" /\ valid = [p \in Ranks |-> 0] /\ locked = [p \in Ranks |-> FALSE]
  BY DEF Init, LifeInit
<1>2. 0 \in Ranks
  BY Constants
<1>3. PlacesInv
  BY <1>1 DEF PlacesInv, Starting, Steps
<1>4. WindowsInv
  BY <1>1, <1>2 DEF WindowsInv, ScriptInv, Starting, Ending
<1>5. LeftInv
  BY <1>1, <1>2 DEF LeftInv, LeftAt
<1>6. MemoryInv
  BY <1>1, <1>2 DEF MemoryInv
<1> QED
  BY <1>3, <1>4, <1>5, <1>6 DEF LifeInv
-----------------------------------------------------------------------------
(***************************************************************************)
(* The queue, the buffers and the counters.                                *)
(***************************************************************************)

DataTypes ==
  /\ capacity \in Capacities /\ stored \in 0 .. capacity
  /\ prog \in Programs /\ i \in [Ranks -> Nat]
  /\ ebuf \in 0 .. EnqBatch - 1 /\ rest \in 0 .. EnqBatch
  /\ dbuf \in [ConsumerRanks -> 0 .. DeqBatch - 1]
  /\ empties \in [ConsumerRanks -> 0 .. MaxEmpty]
  /\ count \in [Ranks -> Nat]

\* The type invariant in two parts: the calls, and the data.
LEMMA TypeParts == TypeOK <=> CallTypes /\ DataTypes
  BY DEF TypeOK, LifeTypeOK, CallTypes, DataTypes, Call

\* The queue holds what it can.
LEMMA QueueTypes ==
  ASSUME TypeOK
  PROVE  /\ capacity \in Nat /\ stored \in Nat /\ stored =< capacity
         /\ \A r \in Obtainable(DeqBatch) : r \in 0 .. DeqBatch /\ r =< stored
         /\ 0 \in Obtainable(DeqBatch) => stored < DeqBatch
         /\ Offer => stored' \in 0 .. capacity /\ capacity' = capacity
         /\ \A r \in Obtainable(DeqBatch) : Take(r) => stored' \in 0 .. capacity /\ capacity' = capacity
<1>1. capacity \in Nat /\ stored \in 0 .. capacity /\ DeqBatch \in Nat \ {0}
  BY QueueLifeAssumption, Constants DEF TypeOK, LifeTypeOK
<1>2. \A r \in Obtainable(DeqBatch) : r \in 0 .. DeqBatch /\ r =< stored
  BY <1>1 DEF Obtainable
<1>3. 0 \in Obtainable(DeqBatch) => stored < DeqBatch
  BY <1>1 DEF Obtainable
<1>4. Offer => stored' \in 0 .. capacity /\ capacity' = capacity
  BY <1>1 DEF Offer, Full
<1>5. \A r \in Obtainable(DeqBatch) : Take(r) => stored' \in 0 .. capacity /\ capacity' = capacity
  BY <1>1, <1>2 DEF Take
<1> QED
  BY <1>1, <1>2, <1>3, <1>4, <1>5

\* A wrapper call of the micro benchmark returns an item of the consumer's
\* buffer, or fetches some items and keeps all but one.
LEMMA WrapperDoes ==
  ASSUME TypeOK, NEW c \in ConsumerRanks, DequeueWrapper(c)
  PROVE  \E r \in 0 .. DeqBatch :
           /\ r =< stored /\ stored' = stored - r /\ stored' \in 0 .. capacity /\ capacity' = capacity
           /\ dbuf[c] + r - 1 \in 0 .. DeqBatch - 1
           /\ dbuf' = [dbuf EXCEPT ![c] = dbuf[c] + r - 1]
           /\ dbuf[c] > 0 => r = 0
<1>1. dbuf[c] \in 0 .. DeqBatch - 1 /\ DeqBatch \in Nat \ {0} /\ stored \in Nat /\ stored \in 0 .. capacity
  BY Constants, QueueTypes DEF TypeOK
<1>2. CASE FromBuffer(c)
  <2>1. /\ dbuf[c] > 0 /\ dbuf' = [dbuf EXCEPT ![c] = dbuf[c] - 1]
        /\ stored' = stored /\ capacity' = capacity
    BY <1>2 DEF FromBuffer, queue
  <2>2. dbuf[c] + 0 - 1 = dbuf[c] - 1 /\ dbuf[c] - 1 \in 0 .. DeqBatch - 1 /\ stored - 0 = stored
        /\ 0 \in 0 .. DeqBatch /\ 0 =< stored
    BY <1>1, <2>1
  <2> QED
    BY <1>1, <2>1, <2>2
<1>3. ASSUME NEW r \in 1 .. DeqBatch, Fetch(c, r)
      PROVE  /\ r =< stored /\ stored' = stored - r /\ stored' \in 0 .. capacity /\ capacity' = capacity
             /\ dbuf[c] + r - 1 \in 0 .. DeqBatch - 1
             /\ dbuf' = [dbuf EXCEPT ![c] = dbuf[c] + r - 1]
             /\ dbuf[c] > 0 => r = 0
  <2>1. /\ dbuf[c] = 0 /\ r \in Obtainable(DeqBatch) /\ Take(r)
        /\ dbuf' = [dbuf EXCEPT ![c] = r - 1]
    BY <1>3 DEF Fetch, Left
  <2>2. 0 + r - 1 = r - 1 /\ r - 1 \in 0 .. DeqBatch - 1
    BY <1>1
  <2> QED
    BY <2>1, <2>2, QueueTypes DEF Take
<1> QED
  BY <1>2, <1>3 DEF DequeueWrapper

\* Every variable keeps its type, and the producer its habits.
LEMMA DataStep ==
  ASSUME TypeOK, StepsInv, LifeInv, [Next]_vars
  PROVE  DataTypes' /\ SendingInv' /\ EmptiesInv'
<1> USE Constants
<1>0. /\ DataTypes /\ CallTypes /\ PlacesInv /\ SendingInv /\ EmptiesInv /\ pc \in [Ranks -> Steps]
      /\ prog' = prog /\ capacity' = capacity /\ capacity \in Nat
  BY SameProgram, QueueTypes, TypeParts DEF StepsInv, PlacesInv
<1>1. /\ i \in [Ranks -> Nat] /\ ebuf \in 0 .. EnqBatch - 1 /\ rest \in 0 .. EnqBatch
      /\ dbuf \in [ConsumerRanks -> 0 .. DeqBatch - 1]
      /\ empties \in [ConsumerRanks -> 0 .. MaxEmpty] /\ count \in [Ranks -> Nat]
      /\ stored \in 0 .. capacity
  BY <1>0 DEF DataTypes
\* A step of QueueLife.
<1>2. ASSUME NEW p \in Ranks, LifeStep(p) PROVE DataTypes' /\ SendingInv' /\ EmptiesInv'
  <2>1. UNCHANGED <<capacity, stored, prog, i, ebuf, rest, dbuf, empties, count>>
    BY <1>2 DEF LifeStep, queue, local
  <2>2. DataTypes'
    BY <1>0, <2>1 DEF DataTypes
  <2>3. ASSUME NEW q \in Ranks
        PROVE  \/ pc'[q] = pc[q]
               \/ pc[q] \in Starting \cup {"destroy", "free"} /\ pc'[q] \in {"lock_all", "main"} \cup Ending
                    /\ (pc'[q] \in {"lock_all", "main"} => pc[q] \in Starting)
    BY <1>0, <1>2 DEF LifeStep, Life, Enter, Leave, QueueInit, LockAll, QueueDestroy, Free,
                      At, Then, Starting, Ending
  <2>4. EmptiesInv'
    BY <1>0, <2>1, <2>3 DEF EmptiesInv, Starting, Ending
  <2>5. rest > 0 => script'[0] = <<>> /\ ~inside'[0] /\ pc'[0] = pc[0]
    <3>1. ASSUME rest > 0 PROVE script[0] = <<>> /\ ~inside[0] /\ pc[0] \notin Starting \cup {"destroy"} \cup Ending
      BY <1>0, <3>1 DEF SendingInv, Starting, Ending
    <3>2. ASSUME rest > 0 PROVE p # 0
      BY <1>2, <3>1, <3>2 DEF LifeStep, Life, Enter, Leave, QueueInit, LockAll, QueueDestroy, Free, At,
                              Starting, Ending
    <3>3. ASSUME p # 0 PROVE script'[0] = script[0] /\ inside'[0] = inside[0] /\ pc'[0] = pc[0]
      BY <1>0, <1>2, <3>3 DEF CallTypes, LifeStep, Life, Enter, Leave, QueueInit, LockAll, QueueDestroy,
                              Free, Then
    <3> QED
      BY <3>1, <3>2, <3>3
  <2>6. SendingInv'
    BY <1>0, <2>1, <2>3, <2>5 DEF SendingInv, Starting, Ending
  <2> QED
    BY <2>2, <2>4, <2>6
\* A step of a consumer.
<1>3. ASSUME NEW c \in ConsumerRanks, Consumer(c) PROVE DataTypes' /\ SendingInv' /\ EmptiesInv'
  <2>0. c \in Ranks /\ c # 0 /\ UNCHANGED <<ebuf, rest>>
    BY <1>3 DEF Consumer, DemoGet, Measure, Retry, Measured, Drain, Drained, Consume, Empty, vars, local
  <2>1. /\ UNCHANGED inside /\ \A p \in Ranks \ {c} : pc'[p] = pc[p] /\ script'[p] = script[p] /\ i'[p] = i[p]
        /\ pc'[c] \in Starting \cup {"main", "consume"} => pc'[c] = pc[c]
    <3>1. /\ UNCHANGED inside
          /\ UNCHANGED i \/ Step(c) \/ Reset(c)
          /\ Stay \/ \E step \in {"destroy", "drain", "stop"} : \E seq : Then(c, step, seq)
      BY <1>3 DEF Consumer, DemoGet, Measure, Retry, Measured, Drain, Drained, Consume, Empty,
                  vars, life, local, others, Stay
    <3>2. CASE Stay
      BY <1>1, <2>0, <3>1, <3>2 DEF Stay, Step, Reset
    <3>3. ASSUME NEW step \in {"destroy", "drain", "stop"}, NEW seq, Then(c, step, seq)
          PROVE  /\ \A p \in Ranks \ {c} : pc'[p] = pc[p] /\ script'[p] = script[p] /\ i'[p] = i[p]
                 /\ pc'[c] \in Starting \cup {"main", "consume"} => pc'[c] = pc[c]
      <4>1. \A p \in Ranks \ {c} : i'[p] = i[p]
        BY <1>1, <2>0, <3>1 DEF Step, Reset
      <4> QED
        BY <1>0, <2>0, <3>3, <4>1 DEF CallTypes, Then, Starting
    <3> QED
      BY <3>1, <3>2, <3>3
  <2>2. SendingInv'
    BY <1>0, <2>0, <2>1 DEF SendingInv
  <2>3. CASE DemoGet(c) \/ Measured(c) \/ Drained(c) \/ Retry(c)
    <3>1. UNCHANGED <<dbuf, empties, count>> /\ i' \in [Ranks -> Nat] /\ stored' \in 0 .. capacity
      BY <1>1, <2>0, <2>3, QueueTypes
         DEF DemoGet, Measured, Drained, Retry, vars, local, queue, Step, Reset
    <3> QED
      BY <1>0, <1>1, <2>0, <2>1, <2>2, <3>1 DEF DataTypes, EmptiesInv
  <2>4. CASE Measure(c) \/ Drain(c)
    <3>1. DequeueWrapper(c) /\ Step(c) /\ UNCHANGED <<empties, count>>
      BY <2>4 DEF Measure, Drain
    <3>2. dbuf' \in [ConsumerRanks -> 0 .. DeqBatch - 1] /\ stored' \in 0 .. capacity
      BY <1>1, <3>1, WrapperDoes
    <3>3. i' \in [Ranks -> Nat]
      BY <1>1, <2>0, <3>1 DEF Step
    <3> QED
      BY <1>0, <1>1, <2>0, <2>1, <2>2, <3>1, <3>2, <3>3 DEF DataTypes, EmptiesInv
  <2>5. CASE Consume(c)
    <3>1. PICK r \in Obtainable(DeqBatch) : Take(r) /\ count' = [count EXCEPT ![c] = @ + r]
      BY <2>5 DEF Consume, Record, Recorded
    <3>2. empties' = [empties EXCEPT ![c] = 0] /\ UNCHANGED <<i, dbuf>>
      BY <2>5 DEF Consume
    <3>3. r \in Nat /\ stored' \in 0 .. capacity
      BY <3>1, QueueTypes
    <3>4. count' \in [Ranks -> Nat]
      BY <1>1, <2>0, <3>1, <3>3
    <3>5. empties' \in [ConsumerRanks -> 0 .. MaxEmpty] /\ EmptiesInv'
      BY <1>0, <1>1, <2>1, <3>2 DEF EmptiesInv
    <3> QED
      BY <1>0, <1>1, <2>0, <2>2, <3>2, <3>3, <3>4, <3>5 DEF DataTypes
  <2>6. CASE Empty(c)
    <3>1. /\ empties' = [empties EXCEPT ![c] = @ + 1] /\ UNCHANGED <<stored, i, dbuf, count>>
          /\ pc[c] = "consume"
          /\ pc' = [pc EXCEPT ![c] = "stop"] \/ empties[c] + 1 < MaxEmpty
      BY <2>6 DEF Empty, At, Then, queue
    <3>2. empties[c] < MaxEmpty /\ empties[c] \in Nat
      BY <1>0, <1>1, <3>1 DEF EmptiesInv
    <3>3. empties' \in [ConsumerRanks -> 0 .. MaxEmpty]
      BY <1>1, <3>1, <3>2
    <3>4. ASSUME NEW d \in ConsumerRanks, pc'[d] \in Starting \cup {"main", "consume"}
          PROVE  empties'[d] < MaxEmpty
      <4>1. CASE d # c
        BY <1>0, <1>1, <2>1, <3>1, <3>4, <4>1 DEF EmptiesInv
      <4>2. CASE d = c
        BY <1>0, <1>1, <2>0, <3>1, <3>4, <4>2 DEF Starting
      <4> QED
        BY <4>1, <4>2
    <3> QED
      BY <1>0, <1>1, <2>0, <2>2, <3>1, <3>3, <3>4 DEF DataTypes, EmptiesInv
  <2> QED
    BY <1>3, <2>3, <2>4, <2>5, <2>6 DEF Consumer
\* The first step of a program, and the last ones of a test.
<1>4. ASSUME NEW p \in Ranks, Main(p) \/ Stop(p) \/ Aggregate(p) PROVE DataTypes' /\ SendingInv' /\ EmptiesInv'
  <2>1. UNCHANGED <<capacity, stored, prog, i, ebuf, rest, dbuf, empties, count, inside>>
    BY <1>4 DEF Main, Stop, Aggregate, others, queue
  <2>2. DataTypes'
    BY <1>0, <2>1 DEF DataTypes
  <2>3. /\ \A q \in Ranks \ {p} : pc'[q] = pc[q] /\ script'[q] = script[q]
        /\ pc[p] \in {"main", "stop", "aggregate"}
        /\ pc'[p] \notin Starting \cup {"main", "produce", "flush"}
        /\ pc'[p] \in {"warmup", "consume"} => pc[p] = "main"
    <3>1. CASE Stop(p) \/ Aggregate(p)
      <4>1. /\ pc[p] \in {"stop", "aggregate"} /\ \E step \in {"aggregate", "destroy"} : pc' = [pc EXCEPT ![p] = step]
            /\ \E seq : script' = [script EXCEPT ![p] = seq]
        BY <3>1 DEF Stop, Aggregate, Then, At
      <4> QED
        BY <1>0, <4>1 DEF CallTypes, Starting
    <3>2. ASSUME NEW step \in {"demo_put", "demo_get", "warmup", "measure", "warm", "enqueue", "stop",
                               "consume"},
                 NEW seq, Then(p, step, seq), pc[p] = "main"
          PROVE  /\ \A q \in Ranks \ {p} : pc'[q] = pc[q] /\ script'[q] = script[q]
                 /\ pc[p] \in {"main", "stop", "aggregate"}
                 /\ pc'[p] \notin Starting \cup {"main", "produce", "flush"}
                 /\ pc'[p] \in {"warmup", "consume"} => pc[p] = "main"
      BY <1>0, <3>2 DEF CallTypes, Then, Starting
    <3>3. ASSUME Main(p)
          PROVE  \E step \in {"demo_put", "demo_get", "warmup", "measure", "warm", "enqueue", "stop",
                              "consume"} :
                   \E seq : Then(p, step, seq) /\ pc[p] = "main"
      BY <3>3 DEF Main, At
    <3> QED
      BY <1>4, <3>1, <3>2, <3>3
  <2>4. SendingInv'
    BY <1>0, <1>1, <2>1, <2>3 DEF SendingInv, Starting
  <2>5. EmptiesInv'
    BY <1>0, <1>1, <2>1, <2>3 DEF EmptiesInv, Starting
  <2> QED
    BY <2>2, <2>4, <2>5
\* The producer acts between calls, and the consumers stay where they are.
<1>5. ASSUME Producer
      PROVE  /\ UNCHANGED <<inside, dbuf, empties>>
             /\ \A c \in ConsumerRanks : pc'[c] = pc[c] /\ script'[c] = script[c]
             /\ stored' \in 0 .. capacity /\ i' \in [Ranks -> Nat] /\ count' \in [Ranks -> Nat]
  <2>1. UNCHANGED <<inside, dbuf, empties>>
    BY <1>5 DEF Producer, DemoPut, DemoGivesUp, Exit, Warmup, Produce, BatchPut, Flushed, WarmUp, Enqueue,
                others, local
  <2>2. \A c \in ConsumerRanks : pc'[c] = pc[c] /\ script'[c] = script[c]
    BY <1>0, <1>5 DEF CallTypes, Producer, DemoPut, DemoGivesUp, Exit, Warmup, Produce, BatchPut, Flushed,
                      WarmUp, Enqueue, Then, Stay
  <2>3. stored' \in 0 .. capacity
    BY <1>1, <1>5, QueueTypes
       DEF Producer, DemoPut, DemoGivesUp, Warmup, Produce, BatchPut, Flushed, WarmUp, Enqueue, queue
  <2>4. i' \in [Ranks -> Nat] /\ count' \in [Ranks -> Nat]
    <3>1. i' = i \/ Step(0) \/ Reset(0)
      BY <1>5 DEF Producer, DemoPut, DemoGivesUp, Warmup, Produce, BatchPut, Flushed, WarmUp, Enqueue, local
    <3>2. count' = count \/ \E n \in {0, 1} : Record(0, n)
      BY <1>5 DEF Producer, DemoPut, DemoGivesUp, Warmup, Produce, BatchPut, Flushed, WarmUp, Enqueue, local
    <3> QED
      BY <1>1, <3>1, <3>2 DEF Step, Reset, Record
  <2> QED
    BY <2>1, <2>2, <2>3, <2>4
<1>6. ASSUME Producer, ebuf' \in 0 .. EnqBatch - 1, rest' \in 0 .. EnqBatch, SendingInv'
      PROVE  DataTypes' /\ SendingInv' /\ EmptiesInv'
  <2>1. EmptiesInv'
    BY <1>0, <1>5, <1>6 DEF EmptiesInv
  <2> QED
    BY <1>0, <1>1, <1>5, <1>6, <2>1 DEF DataTypes
<1>7. ASSUME DemoPut \/ DemoGivesUp \/ WarmUp \/ Enqueue PROVE DataTypes' /\ SendingInv' /\ EmptiesInv'
  <2>1. /\ UNCHANGED <<ebuf, rest>> /\ pc[0] \in {"demo_put", "warm", "enqueue"}
        /\ pc'[0] \in {"demo_put", "warm", "enqueue", "exited", "destroy", "stop"}
    BY <1>0, <1>7 DEF DemoPut, DemoGivesUp, Exit, WarmUp, Enqueue, At, Then, Stay, local
  <2>2. SendingInv'
    BY <1>0, <1>1, <2>1 DEF SendingInv, Starting
  <2> QED
    BY <1>1, <1>6, <1>7, <2>1, <2>2 DEF Producer
<1>8. ASSUME Buffered, rest = 0
      PROVE  /\ ebuf' \in 0 .. EnqBatch - 1 /\ rest' \in 0 .. EnqBatch
             /\ ebuf' > 0 => rest' = 0
  BY <1>1, <1>8 DEF Buffered, Send
<1>9. ASSUME SendRest PROVE ebuf' \in 0 .. EnqBatch - 1 /\ rest' \in 0 .. EnqBatch /\ ebuf' = 0
  BY <1>1, <1>9 DEF SendRest, Send
<1>10. ASSUME Warmup \/ Produce PROVE DataTypes' /\ SendingInv' /\ EmptiesInv'
  <2>1. /\ rest = 0 /\ script[0] = <<>> /\ ~inside[0] /\ ~inside'[0]
        /\ \/ pc[0] = "warmup" /\ i[0] =< N
           \/ pc[0] = "produce" /\ i[0] =< 2 * N
    BY <1>0, <1>5, <1>10 DEF Producer, Warmup, Produce, At, SendingInv
  <2>2. \/ /\ Buffered /\ i'[0] = i[0] + 1 /\ pc' = pc /\ script' = script
           /\ i[0] < IF pc[0] = "warmup" THEN N ELSE 2 * N
        \/ /\ SendRest /\ i' = i /\ pc'[0] = "flush" /\ script'[0] = <<>>
           /\ ~(i[0] < IF pc[0] = "warmup" THEN N ELSE 2 * N)
    BY <1>0, <1>1, <1>10, <2>1 DEF Warmup, Produce, Step, Stay, Then, At, CallTypes
  <2>3. ebuf' \in 0 .. EnqBatch - 1 /\ rest' \in 0 .. EnqBatch
    BY <1>8, <1>9, <2>1, <2>2
  <2>4. i[0] \in Nat /\ N \in Nat
    BY <1>1
  <2>5. SendingInv'
    <3>1. CASE Buffered /\ i'[0] = i[0] + 1 /\ pc' = pc /\ script' = script
                 /\ i[0] < IF pc[0] = "warmup" THEN N ELSE 2 * N
      BY <1>8, <2>1, <2>4, <3>1 DEF SendingInv, Starting
    <3>2. CASE SendRest /\ i' = i /\ pc'[0] = "flush" /\ script'[0] = <<>>
                 /\ ~(i[0] < IF pc[0] = "warmup" THEN N ELSE 2 * N)
      BY <1>9, <2>1, <2>4, <3>2 DEF SendingInv, Starting
    <3> QED
      BY <2>2, <3>1, <3>2
  <2> QED
    BY <1>6, <1>10, <2>3, <2>5 DEF Producer
<1>11. ASSUME BatchPut PROVE DataTypes' /\ SendingInv' /\ EmptiesInv'
  <2>1. /\ rest > 0 /\ rest' \in {0, rest - 1} /\ ebuf' = ebuf /\ i' = i
        /\ script[0] = <<>> /\ ~inside[0] /\ ~inside'[0]
        /\ pc[0] \in {"warmup", "flush", "produce"} /\ ebuf = 0
    BY <1>0, <1>1, <1>5, <1>11 DEF BatchPut, Producer, SendingInv
  <2>2. (pc' = pc /\ script' = script) \/ (pc'[0] = "destroy" /\ rest' = 0)
    BY <1>0, <1>11 DEF BatchPut, Then, Stay
  <2>3. rest' \in 0 .. EnqBatch
    BY <1>1, <2>1
  <2>4. SendingInv'
    BY <1>0, <1>1, <2>1, <2>2 DEF SendingInv, Starting
  <2> QED
    BY <1>1, <1>6, <1>11, <2>1, <2>3, <2>4 DEF Producer
<1>12. ASSUME Flushed PROVE DataTypes' /\ SendingInv' /\ EmptiesInv'
  <2>1. /\ pc[0] = "flush" /\ rest = 0 /\ ebuf = 0 /\ UNCHANGED <<ebuf, rest>>
        /\ (pc'[0] = "produce" /\ i'[0] = 0) \/ pc'[0] = "destroy"
    BY <1>0, <1>1, <1>12 DEF Flushed, At, Then, Reset, SendingInv
  <2>2. SendingInv'
    BY <1>1, <2>1 DEF SendingInv, Starting
  <2> QED
    BY <1>1, <1>6, <1>12, <2>1, <2>2 DEF Producer
<1>13. CASE UNCHANGED vars
  BY <1>0, <1>13 DEF vars, life, queue, local, DataTypes, SendingInv, EmptiesInv
<1> QED
  BY <1>2, <1>3, <1>4, <1>7, <1>10, <1>11, <1>12, <1>13 DEF Next, Rank, Producer, LifeStep

\* What holds whatever the queue can hold.
Base == TypeOK /\ StepsInv /\ LifeInv

\* Every program begins with its types, its steps and no call.
LEMMA BaseInit == ASSUME Init PROVE Base
<1>1. CallTypes
  <2>1. <<>> \in Seq(Call)
    OBVIOUS
  <2> QED
    BY <2>1, Constants DEF Init, LifeInit, CallTypes
<1>2. DataTypes
  BY Constants, QueueLifeAssumption DEF Init, LifeInit, DataTypes
<1>3. SendingInv /\ EmptiesInv
  BY Constants DEF Init, LifeInit, SendingInv, EmptiesInv, Starting
<1> QED
  BY <1>1, <1>2, <1>3, LifeBegins, TypeParts DEF Base, StepsInv

\* Every step of a program keeps them.
LEMMA BaseStep == ASSUME Base, [Next]_vars PROVE Base'
<1>1. TypeOK /\ StepsInv /\ LifeInv
  BY DEF Base
<1>2. PlacesInv' /\ CallTypes' /\ WindowsInv' /\ LeftInv' /\ MemoryInv' /\ DataTypes' /\ SendingInv' /\ EmptiesInv'
  BY <1>1, PlacesStep, WindowsStep, LeftStep, MemoryStep, DataStep
<1>3. TypeOK'
  BY <1>2 DEF TypeOK, LifeTypeOK, CallTypes, DataTypes, Call
<1> QED
  BY <1>2, <1>3 DEF Base, StepsInv, LifeInv

\* Hence they hold from beginning to end.
LEMMA BaseHolds == FairSpec => []Base
<1>1. Init => Base
  BY BaseInit
<1>2. Base /\ [Next]_vars => Base'
  BY BaseStep
<1> QED
  BY <1>1, <1>2, PTL DEF FairSpec

\* No process frees a window it does not have, no buffer holds more than a
\* batch and no queue more than it can, whichever calls fail.
THEOREM TypeCorrect == FairSpec => []TypeOK
<1>1. Base => TypeOK
  BY DEF Base
<1> QED
  BY <1>1, BaseHolds, PTL
-----------------------------------------------------------------------------
(***************************************************************************)
(* Sums over the processes.                                                *)
(***************************************************************************)

\* The element of s that a sum over s takes first.
First(s) == CHOOSE x \in s : TRUE

\* A set of natural numbers that is not empty has a least element.
LEMMA Least ==
  ASSUME NEW S, S \subseteq Nat, S # {}
  PROVE  \E m \in S : \A x \in S : m =< x
<1>1. PICK m \in S : \A x \in S : ~(<<x, m>> \in OpToRel(<, Nat))
  BY NatLessThanWellFounded, WFMin, Zenon
<1>2. \A x \in S : ~(x < m)
  BY <1>1 DEF OpToRel
<1> QED
  BY <1>2

\* A set that has 0 and with every n also n + 1 has every natural number.
LEMMA Induction ==
  ASSUME NEW S, 0 \in S, \A n \in Nat : n \in S => n + 1 \in S
  PROVE  Nat \subseteq S
<1> DEFINE out == Nat \ S
<1>1. SUFFICES ASSUME out # {} PROVE FALSE
  OBVIOUS
<1>2. PICK m \in out : \A x \in out : m =< x
  BY <1>1, Least
<1>3. m # 0 /\ m - 1 \in Nat /\ m - 1 \notin out
  BY <1>2
<1> QED
  BY <1>2, <1>3

\* A set without its first element.
LEMMA Shrink ==
  ASSUME NEW S, IsFiniteSet(S), NEW s \in SUBSET S, s # {}
  PROVE  /\ First(s) \in s /\ s \ {First(s)} \in SUBSET S
         /\ IsFiniteSet(s) /\ Cardinality(s) \in Nat \ {0}
         /\ Cardinality(s \ {First(s)}) = Cardinality(s) - 1
<1>1. First(s) \in s
  BY DEF First
<1>2. IsFiniteSet(s) /\ Cardinality(s) \in Nat
  BY FS_Subset, FS_CardinalityType
<1>3. Cardinality(s) # 0
  BY <1>2, FS_EmptySet
<1>4. Cardinality(s \ {First(s)}) = Cardinality(s) - 1
  BY <1>1, <1>2, FS_RemoveElement
<1> QED
  BY <1>1, <1>2, <1>3, <1>4

\* What holds of the empty set, and of a set when it holds without the first
\* element, holds of every finite set.
LEMMA OneByOne ==
  ASSUME NEW S, IsFiniteSet(S), NEW G, {} \in G,
         \A s \in SUBSET S : s # {} /\ s \ {First(s)} \in G => s \in G
  PROVE  S \in G
<1> DEFINE good == {n \in Nat : \A s \in SUBSET S : Cardinality(s) = n => s \in G}
<1>1. 0 \in good
  <2>1. \A s \in SUBSET S : Cardinality(s) = 0 => s = {}
    BY FS_Subset, FS_EmptySet
  <2> QED
    BY <2>1
<1>2. ASSUME NEW n \in Nat, n \in good PROVE n + 1 \in good
  <2>1. SUFFICES ASSUME NEW s \in SUBSET S, Cardinality(s) = n + 1 PROVE s \in G
    OBVIOUS
  <2>2. s # {}
    <3>1. Cardinality({}) = 0 /\ n + 1 # 0
      BY FS_EmptySet
    <3> QED
      BY <2>1, <3>1, Zenon
  <2>3. s \ {First(s)} \in SUBSET S /\ Cardinality(s \ {First(s)}) = n
    BY <2>1, <2>2, Shrink
  <2> QED
    BY <1>2, <2>2, <2>3
<1>3. Cardinality(S) \in good
  <2>1. Cardinality(S) \in Nat
    BY FS_CardinalityType
  <2> HIDE DEF good
  <2> QED
    BY <1>1, <1>2, <2>1, Induction
<1> QED
  BY <1>3

\* g adds f up over the subsets of S.
Adds(g, f, S) == \A s \in SUBSET S : g[s] = IF s = {} THEN 0 ELSE f[First(s)] + g[s \ {First(s)}]

\* The sum over nothing.
LEMMA AddsNothing == ASSUME NEW S, NEW g, NEW f, Adds(g, f, S) PROVE g[{}] = 0
<1>1. \A s \in SUBSET S : s = {} => g[s] = 0
  BY DEF Adds
<1>2. {} \in SUBSET S
  OBVIOUS
<1> QED
  BY <1>1, <1>2, Zenon

\* What MapThenSumSet computes.
LEMMA SumIs ==
  ASSUME NEW S, IsFiniteSet(S), NEW f, \A x \in S : f[x] \in Int
  PROVE  \E g \in [SUBSET S -> Int] : Adds(g, f, S) /\ g[S] = Sum(f, S)
<1> DEFINE Rec(g, s) == IF s = {} THEN 0 ELSE f[First(s)] + g[s \ {First(s)}]
           Upto(g, n) == \A s \in SUBSET S : Cardinality(s) =< n => g[s] = Rec(g, s)
           good == {n \in Nat : \E g \in [SUBSET S -> Int] : Upto(g, n)}
<1>1. \A s \in SUBSET S : Cardinality(s) \in Nat
  BY FS_Subset, FS_CardinalityType
<1>2. 0 \in good
  <2> DEFINE g == [s \in SUBSET S |-> 0]
  <2>1. \A s \in SUBSET S : Cardinality(s) =< 0 => s = {}
    BY <1>1, FS_Subset, FS_EmptySet
  <2>2. g \in [SUBSET S -> Int] /\ Upto(g, 0)
    BY <2>1
  <2> HIDE DEF g
  <2> QED
    BY <2>2
<1>3. ASSUME NEW n \in Nat, n \in good PROVE n + 1 \in good
  <2>1. PICK g \in [SUBSET S -> Int] : Upto(g, n)
    BY <1>3
  <2> DEFINE h == [s \in SUBSET S |-> Rec(g, s)]
  <2>2. \A s \in SUBSET S : s # {} => f[First(s)] \in Int /\ s \ {First(s)} \in SUBSET S
                                       /\ Cardinality(s \ {First(s)}) = Cardinality(s) - 1
    BY Shrink
  <2>3. h \in [SUBSET S -> Int]
    BY <2>2
  <2>4. ASSUME NEW s \in SUBSET S, Cardinality(s) =< n + 1 PROVE h[s] = Rec(h, s)
    <3>1. CASE s = {}
      BY <3>1
    <3>2. CASE s # {}
      <4> DEFINE t == s \ {First(s)}
      <4>1. t \in SUBSET S /\ Cardinality(t) =< n
        BY <1>1, <2>2, <2>4, <3>2
      <4> HIDE DEF t
      <4>2. h[t] = g[t]
        BY <2>1, <4>1
      <4> QED
        BY <3>2, <4>2 DEF t
    <3> QED
      BY <3>1, <3>2
  <2> HIDE DEF h
  <2>5. Upto(h, n + 1)
    BY <2>4
  <2> QED
    BY <2>3, <2>5
<1>4. PICK g \in [SUBSET S -> Int] : \A s \in SUBSET S : g[s] = Rec(g, s)
  <2>1. Cardinality(S) \in good
    <3>1. Cardinality(S) \in Nat
      BY FS_CardinalityType
    <3> HIDE DEF good
    <3> QED
      BY <1>2, <1>3, <3>1, Induction
  <2>2. PICK g \in [SUBSET S -> Int] : Upto(g, Cardinality(S))
    BY <2>1
  <2>3. \A s \in SUBSET S : Cardinality(s) =< Cardinality(S)
    BY FS_Subset
  <2> QED
    BY <2>2, <2>3
<1> DEFINE sum == CHOOSE h : h = [s \in SUBSET S |->
                    IF s = {} THEN 0
                    ELSE f[CHOOSE x \in s : TRUE] + h[s \ {CHOOSE x \in s : TRUE}]]
<1>5. sum[S] = Sum(f, S)
  BY DEF Sum, MapThenSumSet, MapThenFoldSet
<1>6. \E h : h = [s \in SUBSET S |-> Rec(h, s)]
  <2>1. g = [s \in SUBSET S |-> Rec(g, s)]
    BY <1>4
  <2> QED
    BY <2>1
<1>7. sum = [s \in SUBSET S |-> Rec(sum, s)]
  BY <1>6 DEF First
<1> HIDE DEF sum
<1>8. Adds(sum, f, S)
  BY <1>7 DEF Adds
<1>9. sum \in [SUBSET S -> Int]
  <2>1. ASSUME NEW s \in SUBSET S PROVE sum[s] \in Int
    <3> DEFINE typed == {t \in SUBSET S : sum[t] \in Int}
    <3>1. {} \in typed
      BY <1>8, AddsNothing
    <3>2. ASSUME NEW t \in SUBSET s, t # {}, t \ {First(t)} \in typed PROVE t \in typed
      <4>1. t \in SUBSET S /\ First(t) \in S /\ sum[t \ {First(t)}] \in Int
        BY <3>2, Shrink
      <4>2. sum[t] = f[First(t)] + sum[t \ {First(t)}]
        BY <1>8, <3>2, <4>1 DEF Adds
      <4> QED
        BY <4>1, <4>2
    <3> HIDE DEF typed
    <3>3. s \in typed
      <4>1. IsFiniteSet(s)
        BY FS_Subset
      <4> QED
        BY <3>1, <3>2, <4>1, OneByOne
    <3> QED
      BY <3>3 DEF typed
  <2> QED
    BY <1>7, <2>1
<1> QED
  BY <1>5, <1>8, <1>9 DEF sum

\* A sum of integers is one.
LEMMA SumType ==
  ASSUME NEW S, IsFiniteSet(S), NEW f, \A x \in S : f[x] \in Int
  PROVE  Sum(f, S) \in Int
<1>1. PICK g \in [SUBSET S -> Int] : g[S] = Sum(f, S)
  BY SumIs
<1> QED
  BY <1>1

\* Larger summands make a larger sum.
LEMMA SumGrows ==
  ASSUME NEW S, IsFiniteSet(S), NEW f, NEW h,
         \A x \in S : f[x] \in Int /\ h[x] \in Int /\ f[x] =< h[x]
  PROVE  Sum(f, S) =< Sum(h, S)
<1>1. PICK a \in [SUBSET S -> Int] : Adds(a, f, S) /\ a[S] = Sum(f, S)
  BY SumIs
<1>2. PICK b \in [SUBSET S -> Int] : Adds(b, h, S) /\ b[S] = Sum(h, S)
  BY SumIs
<1> DEFINE G == {s \in SUBSET S : a[s] =< b[s]}
<1>3. {} \in G
  BY <1>1, <1>2, AddsNothing
<1>4. ASSUME NEW s \in SUBSET S, s # {}, s \ {First(s)} \in G PROVE s \in G
  <2> DEFINE t == s \ {First(s)}
             x == First(s)
  <2>1. x \in S /\ a[t] \in Int /\ b[t] \in Int /\ a[t] =< b[t]
    BY <1>4, Shrink
  <2>2. a[s] = f[x] + a[t] /\ b[s] = h[x] + b[t]
    BY <1>1, <1>2, <1>4 DEF Adds
  <2> HIDE DEF t, x
  <2>3. f[x] \in Int /\ h[x] \in Int /\ f[x] =< h[x]
    BY <2>1
  <2>4. a[s] =< b[s]
    BY <2>1, <2>2, <2>3
  <2> QED
    BY <2>4
<1> HIDE DEF G
<1>5. S \in G
  BY <1>3, <1>4, OneByOne
<1> QED
  BY <1>1, <1>2, <1>5 DEF G

\* A sum of equal summands.
LEMMA SumOfEqual ==
  ASSUME NEW S, IsFiniteSet(S), NEW f, NEW k \in Int, \A x \in S : f[x] = k
  PROVE  Sum(f, S) = Cardinality(S) * k
<1>1. PICK a \in [SUBSET S -> Int] : Adds(a, f, S) /\ a[S] = Sum(f, S)
  BY SumIs
<1> DEFINE G == {s \in SUBSET S : a[s] = Cardinality(s) * k}
<1>3. {} \in G
  <2>1. 0 * k = 0
    BY Z3
  <2> QED
    BY <1>1, <2>1, AddsNothing, FS_EmptySet
<1>4. ASSUME NEW s \in SUBSET S, s # {}, s \ {First(s)} \in G PROVE s \in G
  <2> DEFINE t == s \ {First(s)}
             m == Cardinality(s)
  <2>1. m \in Nat \ {0} /\ Cardinality(t) = m - 1 /\ a[t] = Cardinality(t) * k /\ First(s) \in S
    BY <1>4, Shrink
  <2>2. a[s] = k + a[t]
    BY <1>1, <1>4, <2>1 DEF Adds
  <2> HIDE DEF t, m
  <2>3. k + (m - 1) * k = m * k
    BY <2>1, Z3
  <2>4. a[s] = m * k
    BY <2>1, <2>2, <2>3
  <2> QED
    BY <2>4 DEF m
<1> HIDE DEF G
<1>5. S \in G
  BY <1>3, <1>4, OneByOne
<1> QED
  BY <1>1, <1>5 DEF G

\* When one summand changes the sum changes by as much.
LEMMA SumChanges ==
  ASSUME NEW S, IsFiniteSet(S), NEW f, NEW h, NEW y \in S,
         \A x \in S : f[x] \in Int /\ h[x] \in Int,
         \A x \in S \ {y} : h[x] = f[x]
  PROVE  Sum(h, S) = Sum(f, S) + h[y] - f[y]
<1>1. PICK a \in [SUBSET S -> Int] : Adds(a, f, S) /\ a[S] = Sum(f, S)
  BY SumIs
<1>2. PICK b \in [SUBSET S -> Int] : Adds(b, h, S) /\ b[S] = Sum(h, S)
  BY SumIs
<1> DEFINE d == h[y] - f[y]
           G == {s \in SUBSET S : b[s] = a[s] + IF y \in s THEN d ELSE 0}
<1>0. d \in Int /\ h[y] = f[y] + d
  OBVIOUS
<1>3. {} \in G
  BY <1>1, <1>2, AddsNothing
<1> HIDE DEF d
<1>4. ASSUME NEW s \in SUBSET S, s # {}, s \ {First(s)} \in G PROVE s \in G
  <2> DEFINE t == s \ {First(s)}
             x == First(s)
  <2>1. /\ x \in s /\ x \in S /\ a[t] \in Int /\ b[t] \in Int
        /\ b[t] = a[t] + IF y \in t THEN d ELSE 0
        /\ y \in t <=> (y \in s /\ y # x)
    <3>1. x \in s /\ x \in S /\ t \in SUBSET S
      BY <1>4, Shrink
    <3> QED
      BY <1>4, <3>1
  <2>2. a[s] = f[x] + a[t] /\ b[s] = h[x] + b[t]
    BY <1>1, <1>2, <1>4 DEF Adds
  <2> HIDE DEF t, x
  <2>3. f[x] \in Int /\ h[x] = f[x] + IF x = y THEN d ELSE 0
    BY <1>0, <2>1
  <2>4. b[s] = a[s] + IF y \in s THEN d ELSE 0
    BY <1>0, <2>1, <2>2, <2>3
  <2> QED
    BY <2>4
<1> HIDE DEF G
<1>5. S \in G
  BY <1>3, <1>4, OneByOne
<1>6. Sum(h, S) = Sum(f, S) + d /\ Sum(f, S) \in Int
  BY <1>1, <1>2, <1>5, SumType DEF G
<1> QED
  BY <1>0, <1>6 DEF d

\* Equal functions have equal sums.
LEMMA SumStays ==
  ASSUME NEW S, IsFiniteSet(S), NEW f, NEW h,
         \A x \in S : f[x] \in Int /\ h[x] = f[x]
  PROVE  Sum(h, S) = Sum(f, S)
<1>1. Sum(f, S) =< Sum(h, S) /\ Sum(h, S) =< Sum(f, S)
  BY SumGrows
<1>2. Sum(f, S) \in Int /\ Sum(h, S) \in Int
  BY SumType
<1> QED
  BY <1>1, <1>2
-----------------------------------------------------------------------------
(***************************************************************************)
(* What the tests count.                                                   *)
(***************************************************************************)

\* Total in terms of Sum, before and after a step.
LEMMA TotalIs == \A S : Total(S) = Sum(count, S) /\ Total(S)' = Sum(count', S)
<1>1. \A S : Total(S) = Sum(count, S)
  BY DEF Total, Sum, MapThenSumSet, MapThenFoldSet
<1>2. \A S : Total(S)' = Sum(count', S)
  BY DEF Total, Sum, MapThenSumSet, MapThenFoldSet
<1> QED
  BY <1>1, <1>2

\* The processes are finitely many, and the consumers NumConsumers.
LEMMA RanksFinite == IsFiniteSet(Ranks) /\ IsFiniteSet(ConsumerRanks) /\ Cardinality(ConsumerRanks) = NumConsumers
<1>1. NumConsumers \in Nat \ {0}
  BY Constants
<1>2. IsFiniteSet(0 .. NumConsumers) /\ IsFiniteSet(1 .. NumConsumers)
      /\ Cardinality(1 .. NumConsumers) = IF 1 > NumConsumers THEN 0 ELSE NumConsumers - 1 + 1
  BY <1>1, FS_Interval
<1> QED
  BY <1>1, <1>2 DEF Ranks, ConsumerRanks

\* How a step changes the total of the consumers.
LEMMA TotalSteps ==
  ASSUME TypeOK, count' \in [Ranks -> Nat]
  PROVE  /\ Total(ConsumerRanks) \in Int /\ Total({0}) \in Int
         /\ count' = count => Total(ConsumerRanks)' = Total(ConsumerRanks)
         /\ (\A c \in ConsumerRanks : count'[c] = count[c]) => Total(ConsumerRanks)' = Total(ConsumerRanks)
         /\ count' = count => Total({0})' = Total({0})
         /\ \A c \in ConsumerRanks, r \in Nat :
              count' = [count EXCEPT ![c] = @ + r] =>
                Total(ConsumerRanks)' = Total(ConsumerRanks) + r
<1>0. count \in [Ranks -> Nat] /\ ConsumerRanks \subseteq Ranks /\ 0 \in Ranks
  BY Constants DEF TypeOK
<1>1. /\ \A p \in Ranks : count[p] \in Int /\ count'[p] \in Int
      /\ \A c \in ConsumerRanks : count[c] \in Int /\ count'[c] \in Int
      /\ count[0] \in Int /\ IsFiniteSet({0})
  <2>1. IsFiniteSet({0})
    BY FS_Singleton, Zenon
  <2> QED
    BY <1>0, <2>1
<1>2. Total(ConsumerRanks) \in Int /\ Total({0}) \in Int
  BY <1>1, TotalIs, RanksFinite, SumType
<1>3. (\A c \in ConsumerRanks : count'[c] = count[c]) => Total(ConsumerRanks)' = Total(ConsumerRanks)
  BY <1>1, TotalIs, RanksFinite, SumStays
<1>4. count' = count => Total({0})' = Total({0}) /\ Total(ConsumerRanks)' = Total(ConsumerRanks)
  BY TotalIs
<1>5. ASSUME NEW c \in ConsumerRanks, NEW r \in Nat, count' = [count EXCEPT ![c] = @ + r]
      PROVE  Total(ConsumerRanks)' = Total(ConsumerRanks) + r
  <2>1. count'[c] = count[c] + r /\ \A d \in ConsumerRanks \ {c} : count'[d] = count[d]
    BY <1>0, <1>5
  <2>2. Sum(count', ConsumerRanks) = Sum(count, ConsumerRanks) + count'[c] - count[c]
    <3>1. \A d \in ConsumerRanks : count[d] \in Int /\ count'[d] \in Int
      BY <1>1
    <3>2. \A d \in ConsumerRanks \ {c} : count'[d] = count[d]
      BY <2>1
    <3>3. IsFiniteSet(ConsumerRanks)
      BY RanksFinite
    <3> QED
      BY <3>1, <3>2, <3>3, SumChanges
  <2>3. Sum(count', ConsumerRanks) = Sum(count, ConsumerRanks) + r
    BY <1>1, <1>2, <2>1, <2>2, TotalIs
  <2> QED
    BY <2>3, TotalIs
<1> QED
  BY <1>2, <1>3, <1>4, <1>5

\* What is ahead of the producer's count came from warming up.
LEMMA CountStep ==
  ASSUME Base, CountInv, [Next]_vars
  PROVE  CountInv'
<1> USE Constants
<1>0. /\ TypeOK /\ StepsInv /\ LifeInv /\ prog' = prog /\ pc \in [Ranks -> Steps]
      /\ i \in [Ranks -> Nat] /\ count \in [Ranks -> Nat] /\ count' \in [Ranks -> Nat]
      /\ stored \in Nat /\ capacity \in Nat
  <2>1. TypeOK /\ StepsInv /\ LifeInv
    BY DEF Base
  <2> QED
    BY <2>1, BaseStep, SameProgram, QueueTypes DEF Base, TypeOK, StepsInv, PlacesInv
<1>1. SUFFICES ASSUME prog \in Tests
               PROVE  CountInv'
  BY <1>0 DEF CountInv
<1> DEFINE all == Total(ConsumerRanks)
           ahead == all + stored - count[0]
           warming == pc[0] \in Starting \cup {"main", "warm"}
<1>2. /\ all \in Int /\ 0 =< ahead /\ ahead =< Warm
      /\ warming => ahead =< i[0] /\ i[0] =< Warm
      /\ count[0] \in Nat /\ i[0] \in Nat
  BY <1>0, <1>1, TotalSteps DEF CountInv
<1>3. ASSUME all' + stored' - count'[0] = ahead, warming' => warming /\ i'[0] = i[0]
      PROVE  CountInv'
  BY <1>2, <1>3 DEF CountInv
<1>4. ASSUME UNCHANGED <<count, stored>>, warming' => warming /\ i'[0] = i[0] PROVE CountInv'
  BY <1>0, <1>3, <1>4, TotalSteps
\* Steps that leave the items where they are.
<1>5. ASSUME NEW p \in Ranks, LifeStep(p) PROVE CountInv'
  <2>1. UNCHANGED <<count, stored, i>>
    BY <1>5 DEF LifeStep, queue, local
  <2>2. warming' => warming
    BY <1>0, <1>5 DEF LifeStep, Life, Enter, Leave, QueueInit, LockAll, QueueDestroy, Free, At, Then, Starting
  <2> QED
    BY <1>4, <2>1, <2>2
<1>6. ASSUME NEW p \in Ranks, Main(p) \/ Stop(p) \/ Aggregate(p) PROVE CountInv'
  <2>1. UNCHANGED <<count, stored, i>>
    BY <1>6 DEF Main, Stop, Aggregate, queue
  <2>2. warming' => warming
    BY <1>0, <1>1, <1>6 DEF Main, Stop, Aggregate, At, Then, Starting
  <2> QED
    BY <1>4, <2>1, <2>2
<1>7. CASE UNCHANGED vars
  BY <1>4, <1>7 DEF vars, life, queue, local
\* A test takes no step of the other programs.
<1>8. /\ ~DemoPut /\ ~DemoGivesUp /\ ~Warmup /\ ~Produce /\ ~BatchPut /\ ~Flushed
      /\ \A c \in ConsumerRanks : ~DemoGet(c) /\ ~Measure(c) /\ ~Measured(c) /\ ~Drain(c) /\ ~Drained(c)
  <2>1. \A p \in Ranks : pc[p] \notin {"demo_put", "demo_get", "warmup", "produce", "flush", "measure", "drain"}
    BY <1>0, <1>1 DEF StepsInv, PlacesInv, Starting, Ending, Working, Tests
  <2>2. rest = 0
    BY <1>0, <2>1 DEF StepsInv, SendingInv, TypeOK
  <2> QED
    BY <2>1, <2>2
       DEF DemoPut, DemoGivesUp, Warmup, Produce, BatchPut, Flushed, DemoGet, Measure, Measured, Drain, Drained, At
<1>9. ASSUME WarmUp PROVE CountInv'
  <2>1. CASE i[0] < Warm
    <3>1. /\ stored' \in {stored, stored + 1} /\ i'[0] = i[0] + 1 /\ UNCHANGED <<pc, count>>
          /\ pc[0] = "warm"
      BY <1>0, <1>9, <2>1 DEF WarmUp, Offer, Step, Stay, At
    <3>2. all' = all
      BY <1>0, <3>1, TotalSteps
    <3> HIDE DEF all
    <3> QED
      BY <1>0, <1>2, <2>1, <3>1, <3>2 DEF CountInv, all, Starting
  <2>2. CASE ~(i[0] < Warm)
    <3>1. UNCHANGED <<stored, count>> /\ pc'[0] \in {"stop", "enqueue"}
      BY <1>0, <1>9, <2>2 DEF WarmUp, queue, Then
    <3> QED
      BY <1>4, <3>1 DEF Starting
  <2> QED
    BY <2>1, <2>2
<1>10. ASSUME Enqueue PROVE CountInv'
  <2>1. CASE i[0] < Items
    <3>1. /\ pc' = pc /\ pc[0] = "enqueue"
          /\ count' = [count EXCEPT ![0] = @ + IF Full THEN 0 ELSE 1]
          /\ stored' = IF Full THEN stored ELSE stored + 1
      BY <1>10, <2>1 DEF Enqueue, Stay, At, Record, Offer
    <3>2. \A c \in ConsumerRanks : count'[c] = count[c]
      BY <1>0, <3>1
    <3>3. all' = all
      BY <1>0, <3>2, TotalSteps
    <3>4. stored' - count'[0] = stored - count[0] /\ count'[0] \in Nat /\ stored' \in Nat
      BY <1>0, <3>1
    <3> HIDE DEF all
    <3>5. all' + stored' - count'[0] = ahead
      BY <1>0, <1>2, <3>3, <3>4
    <3> QED
      BY <1>3, <3>1, <3>5 DEF Starting, all
  <2>2. CASE ~(i[0] < Items)
    <3>1. UNCHANGED <<stored, count>> /\ pc'[0] = "stop"
      BY <1>0, <1>10, <2>2 DEF Enqueue, queue, Then
    <3> QED
      BY <1>4, <3>1 DEF Starting
  <2> QED
    BY <2>1, <2>2
<1>11. ASSUME NEW c \in ConsumerRanks, Consume(c) PROVE CountInv'
  <2>1. PICK r \in Obtainable(DeqBatch) : Take(r) /\ count' = [count EXCEPT ![c] = @ + r]
    BY <1>11 DEF Consume, Record, Recorded
  <2>2. r \in Nat /\ stored' = stored - r /\ count'[0] = count[0] /\ i' = i /\ pc'[0] = pc[0]
    <3>1. r \in Nat
      BY <1>0, QueueTypes
    <3>2. stored' = stored - r /\ count'[0] = count[0]
      BY <1>0, <2>1 DEF Take
    <3>3. i' = i /\ pc'[0] = pc[0]
      BY <1>0, <1>11 DEF Consume, Then, Stay
    <3> QED
      BY <3>1, <3>2, <3>3
  <2>3. all' = all + r
    BY <1>0, <2>1, <2>2, TotalSteps
  <2> HIDE DEF all
  <2>4. all' + stored' - count'[0] = ahead
    BY <1>0, <1>2, <2>2, <2>3
  <2> QED
    BY <1>3, <2>2, <2>4 DEF all
<1>12. ASSUME NEW c \in ConsumerRanks, Empty(c) \/ Retry(c) PROVE CountInv'
  <2>1. UNCHANGED <<stored, count, i>> /\ pc'[0] = pc[0]
    BY <1>0, <1>12 DEF Empty, Retry, vars, life, local, queue, Then, Stay
  <2> QED
    BY <1>4, <2>1
<1> QED
  BY <1>0, <1>5, <1>6, <1>7, <1>8, <1>9, <1>10, <1>11, <1>12
     DEF Next, Rank, Producer, Consumer, LifeStep

\* At the beginning nothing is counted.
LEMMA CountInit == ASSUME Init PROVE CountInv
<1>1. count = [p \in Ranks |-> 0] /\ stored = 0 /\ i = [p \in Ranks |-> 0]
  BY DEF Init, LifeInit
<1>2. Total(ConsumerRanks) = 0
  <2>1. \A c \in ConsumerRanks : count[c] = 0
    BY <1>1, Constants
  <2>2. Sum(count, ConsumerRanks) = NumConsumers * 0
    BY <2>1, RanksFinite, SumOfEqual
  <2>3. NumConsumers * 0 = 0
    BY Constants, Z3
  <2> QED
    BY <2>2, <2>3, TotalIs
<1> QED
  BY <1>1, <1>2, Constants DEF CountInv

\* However the calls of a test interleave, and however many are refused, what
\* its consumers recorded and what is left in the queue is what the producer
\* recorded, and at most the warmup more.
THEOREM CountsAgreeHolds == FairSpec => []CountsAgree
<1>1. Init => Base /\ CountInv
  BY BaseInit, CountInit
<1>2. (Base /\ CountInv) /\ [Next]_vars => (Base /\ CountInv)'
  BY BaseStep, CountStep
<1>3. Base /\ CountInv => CountsAgree
  <2> SUFFICES ASSUME Base, CountInv, prog \in Tests
               PROVE  LET accounted == Total(ConsumerRanks) + stored
                      IN count[0] =< accounted /\ accounted =< count[0] + Warm
    BY DEF CountsAgree
  <2>1. TypeOK
    BY DEF Base
  <2>2. stored \in Nat /\ count[0] \in Nat /\ Warm \in Nat /\ Total(ConsumerRanks) \in Int
    <3>1. count \in [Ranks -> Nat] /\ ConsumerRanks \subseteq Ranks /\ 0 \in Ranks
      BY <2>1, Constants DEF TypeOK
    <3>2. Sum(count, ConsumerRanks) \in Int
      BY <3>1, RanksFinite, SumType
    <3> QED
      BY <2>1, <3>1, <3>2, Constants, QueueTypes, TotalIs
  <2> QED
    BY <2>2 DEF CountInv
<1> QED
  BY <1>1, <1>2, <1>3, PTL DEF FairSpec
-----------------------------------------------------------------------------
(***************************************************************************)
(* The plan.                                                               *)
(***************************************************************************)

\* How long the plan is.
LEMMA PlanTypes ==
  /\ Extra \in {0, 2, 4}
  /\ prog = "demo" => Middle = 1
  /\ prog = "micro" => Middle = 8
  /\ prog \in Tests => Middle = 18 + Extra
  /\ Middle \in Nat \ {0}
<1>1. Extra \in {0, 2, 4}
  BY DEF Extra
<1>2. /\ prog = "demo" => Middle = 1
      /\ prog = "micro" => Middle = 8
      /\ prog \notin {"demo", "micro"} => Middle = 18 + Extra
  BY DEF Middle, MiddleOf
<1> QED
  BY <1>1, <1>2 DEF Tests

\* The plan depends on the counts only after the tests' aggregation.
LEMMA PlanStays ==
  ASSUME NEW g \in Tests, NEW e \in {0, 2, 4}, NEW n \in Int, n =< NumWindows + 9
  PROVE  PlanOf(g, e, n) = IF n =< NumWindows THEN "win_create"
                           ELSE IF n - NumWindows =< 3 THEN "barrier" ELSE "allreduce"
<1>1. g # "demo" /\ g # "micro" /\ NumWindows \in Nat
  BY Constants DEF Tests
<1>2. MiddleOf(g, e) = 18 + e
  BY <1>1 DEF MiddleOf
<1>3. n - NumWindows # 10 + e /\ n =< NumWindows + MiddleOf(g, e)
  BY <1>1, <1>2
<1> QED
  BY <1>1, <1>3 DEF PlanOf, MiddleCall

\* Who made all calls of its script goes on with others of the plan.
LEMMA PlannedMore ==
  ASSUME NEW g, NEW e, NEW made \in Seq(Call), NEW n, Planned(g, e, made, <<>>, n), NEW seq \in Seq(Call),
         \A k \in 1 .. Len(seq) : seq[k] = PlanOf(g, e, n + k)
  PROVE  Planned(g, e, made, seq, n + Len(seq)) /\ n = Len(made)
<1>1. Len(made) \in Nat /\ Len(seq) \in Nat /\ DOMAIN seq = 1 .. Len(seq) /\ n = Len(made)
  BY DEF Planned
<1>2. \A k \in DOMAIN seq : seq[k] = PlanOf(g, e, Len(made) + k)
  BY <1>1, Zenon
<1> QED
  BY <1>1, <1>2 DEF Planned

\* The next call is made.
LEMMA PlannedEnter ==
  ASSUME NEW g, NEW e, NEW made \in Seq(Call), NEW next \in Seq(Call), NEW n, Planned(g, e, made, next, n),
         next # <<>>
  PROVE  Planned(g, e, Append(made, Head(next)), Tail(next), n)
<1> DEFINE x == Head(next)
<1>1. /\ x \in Call /\ x = next[1] /\ Tail(next) \in Seq(Call)
      /\ Len(next) \in Nat \ {0} /\ Len(Tail(next)) = Len(next) - 1
      /\ DOMAIN next = 1 .. Len(next) /\ DOMAIN Tail(next) = 1 .. Len(next) - 1
      /\ \A k \in 1 .. Len(next) - 1 : Tail(next)[k] = next[k + 1]
  BY OneLess
<1> HIDE DEF x
<1>2. /\ Len(made) \in Nat
      /\ Len(Append(made, x)) = Len(made) + 1
      /\ DOMAIN made = 1 .. Len(made) /\ DOMAIN Append(made, x) = 1 .. Len(made) + 1
      /\ \A k \in 1 .. Len(made) : Append(made, x)[k] = made[k]
      /\ Append(made, x)[Len(made) + 1] = x
  BY <1>1, OneMore
<1>3. \A k \in DOMAIN Append(made, x) : Append(made, x)[k] = PlanOf(g, e, k)
  <2>1. x = PlanOf(g, e, Len(made) + 1)
    BY <1>1 DEF Planned
  <2>2. \A k \in 1 .. Len(made) : Append(made, x)[k] = PlanOf(g, e, k)
    BY <1>2, Zenon DEF Planned
  <2>3. \A k \in 1 .. Len(made) + 1 : k \in 1 .. Len(made) \/ k = Len(made) + 1
    BY <1>2
  <2> QED
    BY <1>2, <2>1, <2>2, <2>3, Zenon
<1>4. \A k \in DOMAIN Tail(next) : Tail(next)[k] = PlanOf(g, e, Len(Append(made, x)) + k)
  <2> SUFFICES ASSUME NEW k \in 1 .. Len(next) - 1
               PROVE  Tail(next)[k] = PlanOf(g, e, Len(Append(made, x)) + k)
    BY <1>1
  <2>1. k + 1 \in DOMAIN next /\ Len(made) + (k + 1) = Len(Append(made, x)) + k
    BY <1>1, <1>2
  <2>2. next[k + 1] = PlanOf(g, e, Len(made) + (k + 1))
    BY <2>1, Zenon DEF Planned
  <2> QED
    BY <1>1, <2>1, <2>2, Zenon
<1>5. Len(Append(made, x)) + Len(Tail(next)) = n
  BY <1>1, <1>2 DEF Planned
<1> QED
  BY <1>3, <1>4, <1>5 DEF x, Planned

\* Before the end of a test's aggregation the counts do not matter.
LEMMA PlannedEarly ==
  ASSUME NEW g \in Tests, NEW e \in {0, 2, 4}, NEW f \in {0, 2, 4}, NEW made \in Seq(Call),
         NEW next \in Seq(Call), NEW n \in Int, n =< NumWindows + 9, Planned(g, e, made, next, n)
  PROVE  Planned(g, f, made, next, n)
<1>1. /\ Len(made) \in Nat /\ Len(next) \in Nat /\ DOMAIN made = 1 .. Len(made)
      /\ DOMAIN next = 1 .. Len(next) /\ Len(made) + Len(next) = n
  BY DEF Planned
<1>2. \A k \in Int : k =< NumWindows + 9 => PlanOf(g, e, k) = PlanOf(g, f, k)
  BY PlanStays
<1>3. NumWindows \in Nat
  BY Constants
<1>4. ASSUME NEW k \in DOMAIN made PROVE made[k] = PlanOf(g, f, k)
  <2>1. k \in Int /\ k =< NumWindows + 9
    BY <1>1, <1>3
  <2> QED
    BY <1>2, <2>1, Zenon DEF Planned
<1>5. ASSUME NEW k \in DOMAIN next PROVE next[k] = PlanOf(g, f, Len(made) + k)
  <2>1. Len(made) + k \in Int /\ Len(made) + k =< NumWindows + 9
    BY <1>1, <1>3
  <2> QED
    BY <1>2, <2>1, Zenon DEF Planned
<1> QED
  BY <1>1, <1>4, <1>5 DEF Planned

\* n calls of one kind.
Block(s, n, call) == s \in Seq(Call) /\ Len(s) = n /\ \A k \in 1 .. n : s[k] = call

\* The scripts of one kind of call.
LEMMA BlocksAre ==
  /\ \A n \in Nat, call \in Call : Block(Times(n, call), n, call)
  /\ Block(<<>>, 0, "allreduce") /\ Block(<<"barrier">>, 1, "barrier") /\ Block(<<"gather">>, 1, "gather")
<1>1. ASSUME NEW n \in Nat, NEW call \in Call PROVE Block(Times(n, call), n, call)
  BY TimesIs DEF Times, Block
<1>2. Block(<<>>, 0, "allreduce") /\ Block(<<"barrier">>, 1, "barrier") /\ Block(<<"gather">>, 1, "gather")
  BY DEF Block, Call
<1> QED
  BY <1>1, <1>2

\* m calls of one kind, then n of another.
TwoBlocks(s, m, x, n, y) ==
  s \in Seq(Call) /\ Len(s) = m + n /\ \A k \in 1 .. m + n : s[k] = IF k =< m THEN x ELSE y

\* Two blocks, one behind the other.
LEMMA Blocks ==
  ASSUME NEW s, NEW t, NEW m \in Nat, NEW n \in Nat, NEW x, NEW y, Block(s, m, x), Block(t, n, y)
  PROVE  TwoBlocks(s \o t, m, x, n, y)
<1>1. /\ s \o t \in Seq(Call) /\ Len(s \o t) = m + n
      /\ \A k \in 1 .. m + n : (s \o t)[k] = IF k =< m THEN s[k] ELSE t[k - m]
  <2>1. s \in Seq(Call) /\ t \in Seq(Call) /\ Len(s) = m /\ Len(t) = n
    BY DEF Block
  <2> QED
    BY <2>1, Joined, Zenon
<1>2. ASSUME NEW k \in 1 .. m + n PROVE (s \o t)[k] = IF k =< m THEN x ELSE y
  <2>1. CASE k =< m
    <3>1. k \in 1 .. m
      BY <2>1
    <3> QED
      BY <1>1, <2>1, <3>1 DEF Block
  <2>2. CASE ~(k =< m)
    <3>1. k - m \in 1 .. n
      BY <2>2
    <3> QED
      BY <1>1, <2>2, <3>1 DEF Block
  <2> QED
    BY <2>1, <2>2
<1> QED
  BY <1>1, <1>2 DEF TwoBlocks

\* The calls in the scripts, one by one.
LEMMA ScriptsAre ==
  /\ Block(<<"barrier">>, 1, "barrier")
  /\ \A n \in {2, 3} : Block(Times(n, "barrier"), n, "barrier")
  /\ TwoBlocks(Times(2, "barrier") \o Reports, 2, "barrier", 3, "gather")
  /\ TwoBlocks(<<"barrier">> \o Reports, 1, "barrier", 3, "gather")
  /\ TwoBlocks(Times(2, "barrier") \o Times(6, "allreduce"), 2, "barrier", 6, "allreduce")
<1> DEFINE one == <<"barrier">>
           two == Times(2, "barrier")
           six == Times(6, "allreduce")
<1>1. 2 \in Nat /\ 3 \in Nat /\ 6 \in Nat /\ 1 \in Nat
  OBVIOUS
<1>2. "barrier" \in Call /\ "gather" \in Call /\ "allreduce" \in Call
  BY DEF Call
<1>3. /\ \A n \in {2, 3} : Block(Times(n, "barrier"), n, "barrier")
      /\ Block(one, 1, "barrier") /\ Block(two, 2, "barrier") /\ Block(six, 6, "allreduce")
      /\ Block(Reports, 3, "gather")
  BY <1>1, <1>2, BlocksAre DEF Reports
<1> HIDE DEF one, two, six
<1>4. /\ TwoBlocks(two \o Reports, 2, "barrier", 3, "gather")
      /\ TwoBlocks(one \o Reports, 1, "barrier", 3, "gather")
      /\ TwoBlocks(two \o six, 2, "barrier", 6, "allreduce")
  BY <1>1, <1>3, Blocks
<1> QED
  BY <1>1, <1>3, <1>4 DEF one, two, six

\* The calls from the estimates on.
LEMMA AggregationIs ==
  ASSUME NEW p
  PROVE  LET s == Estimate(p, {0}) \o Estimate(p, ConsumerRanks) \o <<"gather">> \o Times(8, "allreduce")
         IN /\ s \in Seq(Call)
            /\ Len(s) = Extra + 9
            /\ \A k \in 1 .. Extra + 9 : s[k] = IF k = Extra + 1 THEN "gather" ELSE "allreduce"
<1> DEFINE a == Estimate(p, {0})
           b == Estimate(p, ConsumerRanks)
           g == <<"gather">>
           t == Times(8, "allreduce")
           m == IF Total({0}) = 0 THEN 2 ELSE 0
           n == IF Total(ConsumerRanks) = 0 THEN 2 ELSE 0
<1>0. 0 \in Nat /\ 1 \in Nat /\ 2 \in Nat /\ 8 \in Nat /\ 1 + 8 = 9 /\ "allreduce" \in Call
  BY DEF Call
<1>1. ASSUME NEW S PROVE Block(Estimate(p, S), IF Total(S) = 0 THEN 2 ELSE 0, "allreduce")
  BY <1>0, BlocksAre, Zenon DEF Estimate, NoneFinished
<1>2. /\ Block(a, m, "allreduce") /\ Block(b, n, "allreduce") /\ Block(g, 1, "gather")
      /\ Block(t, 8, "allreduce")
  BY <1>0, <1>1, BlocksAre
<1>5. m \in {0, 2} /\ n \in {0, 2} /\ Extra = m + n
  BY DEF Extra
<1> HIDE DEF a, b, g, t, m, n
<1>6. m \in Nat /\ n \in Nat /\ m + n \in Nat /\ (m + n) + 1 = Extra + 1
  BY <1>5
<1>7. Block(a \o b, m + n, "allreduce")
  <2>1. TwoBlocks(a \o b, m, "allreduce", n, "allreduce")
    BY <1>2, <1>6, Blocks, Zenon
  <2> QED
    BY <2>1 DEF Block, TwoBlocks
<1> DEFINE abg == (a \o b) \o g
<1>8. /\ abg \in Seq(Call) /\ Len(abg) = (m + n) + 1
      /\ \A k \in 1 .. (m + n) + 1 : abg[k] = IF k =< m + n THEN "allreduce" ELSE "gather"
  <2>1. TwoBlocks(abg, m + n, "allreduce", 1, "gather")
    BY <1>0, <1>2, <1>6, <1>7, Blocks, Zenon
  <2> HIDE DEF abg
  <2> QED
    BY <2>1 DEF TwoBlocks
<1> HIDE DEF abg
<1>4. t \in Seq(Call) /\ Len(t) = 8 /\ \A k \in 1 .. 8 : t[k] = "allreduce"
  BY <1>2 DEF Block
<1>9. /\ abg \o t \in Seq(Call) /\ Len(abg \o t) = Len(abg) + Len(t)
      /\ \A k \in 1 .. Len(abg) + Len(t) : (abg \o t)[k] = IF k =< Len(abg) THEN abg[k] ELSE t[k - Len(abg)]
  <2>1. abg \in Seq(Call) /\ t \in Seq(Call)
    BY <1>4, <1>8
  <2> QED
    BY <2>1, Joined, Zenon
<1>10. ASSUME NEW k \in 1 .. Extra + 9 PROVE (abg \o t)[k] = IF k = Extra + 1 THEN "gather" ELSE "allreduce"
  <2>1. k \in 1 .. Len(abg) + Len(t) /\ Len(abg) = Extra + 1
    BY <1>4, <1>5, <1>6, <1>8
  <2>2. CASE k =< Extra + 1
    <3>1. (abg \o t)[k] = abg[k]
      BY <1>9, <2>1, <2>2
    <3>2. k \in 1 .. (m + n) + 1 /\ (k =< m + n <=> k # Extra + 1)
      BY <1>5, <1>6, <2>2
    <3> QED
      BY <1>8, <3>1, <3>2
  <2>3. CASE ~(k =< Extra + 1)
    <3>1. (abg \o t)[k] = t[k - Len(abg)]
      BY <1>9, <2>1, <2>3
    <3>2. k - Len(abg) \in 1 .. 8 /\ k # Extra + 1
      BY <1>5, <1>6, <2>1, <2>3
    <3> QED
      BY <1>4, <3>1, <3>2
  <2> QED
    BY <2>2, <2>3
<1>11. Len(abg) + Len(t) = Extra + 9
  BY <1>4, <1>5, <1>6, <1>8
<1> QED
  BY <1>9, <1>10, <1>11 DEF abg, a, b, g, t

\* How far a process is depends on its step.
LEMMA MadeStays ==
  ASSUME NEW p \in Ranks, prog' = prog, pc'[p] = pc[p], pc[p] = "flush" => i'[0] = i[0],
         Extra' = Extra \/ pc[p] \notin {"destroy"} \cup Ending
  PROVE  Made(p)' = Made(p)
<1>1. CASE Extra' = Extra
  <2>1. Middle' = Middle
    BY <1>1 DEF Middle
  <2> QED
    BY <2>1 DEF Made
<1>2. CASE pc[p] \notin {"destroy"} \cup Ending
  BY <1>2 DEF Made, Ending
<1> QED
  BY <1>1, <1>2

\* Before its end no process of a test is past the aggregation.
LEMMA MadeEarly ==
  ASSUME NEW p \in Ranks, pc[p] \notin {"destroy"} \cup Ending
  PROVE  Made(p) \in Int /\ Made(p) =< NumWindows + 9
<1>1. NumWindows \in Nat
  BY Constants
<1>2. pc[p] \notin {"destroy", "free", "ended"}
  BY DEF Ending
<1>3. Made(p) \in {0, NumWindows, NumWindows + 1, NumWindows + 3, NumWindows + 4, NumWindows + 9}
  BY <1>2 DEF Made
<1> QED
  BY <1>1, <1>3

\* Who does not move stays on the plan, also when the counts change.
LEMMA StaysOnPlan ==
  ASSUME TypeOK, StepsInv, NEW p \in Ranks, OnPlan(p), prog' = prog,
         pc'[p] = pc[p], script'[p] = script[p], calls'[p] = calls[p],
         pc[p] = "flush" => i'[0] = i[0],
         Extra' = Extra \/ (prog \in Tests /\ pc[p] \notin {"destroy"} \cup Ending)
  PROVE  OnPlan(p)'
<1>1. CASE Extra' = Extra
  BY <1>1, MadeStays DEF OnPlan
<1>2. CASE prog \in Tests /\ pc[p] \notin {"destroy"} \cup Ending
  <2>1. Made(p)' = Made(p) /\ Made(p) \in Int /\ Made(p) =< NumWindows + 9
    BY <1>2, MadeStays, MadeEarly
  <2>2. Extra \in {0, 2, 4} /\ Extra' \in {0, 2, 4}
    BY DEF Extra
  <2>3. script[p] \in Seq(Call) /\ calls[p] \in Seq(Call)
    BY CallTypesHold DEF CallTypes
  <2>4. Planned(prog, Extra, calls[p], script[p], Made(p))
    BY DEF OnPlan
  <2>5. Planned(prog, Extra', calls[p], script[p], Made(p))
    BY <1>2, <2>1, <2>2, <2>3, <2>4, PlannedEarly
  <2> QED
    BY <2>1, <2>5 DEF OnPlan
<1> QED
  BY <1>1, <1>2

\* Who goes on stays on the plan if its new calls are the next ones.
LEMMA MovesOnPlan ==
  ASSUME TypeOK, NEW p \in Ranks, OnPlan(p), prog' = prog, Extra' = Extra, pc \in [Ranks -> Steps],
         script[p] = <<>>, calls' = calls, NEW step, step # "exited", NEW seq \in Seq(Call), Then(p, step, seq),
         Made(p)' = Made(p) + Len(seq),
         \A k \in 1 .. Len(seq) : seq[k] = PlanOf(prog, Extra, Made(p) + k)
  PROVE  OnPlan(p)'
<1>1. script \in [Ranks -> Seq(Call)] /\ calls[p] \in Seq(Call)
  BY CallTypesHold DEF CallTypes
<1>2. pc'[p] = step /\ script'[p] = seq
  BY <1>1 DEF Then
<1>3. Planned(prog, Extra, calls[p], <<>>, Made(p))
  BY DEF OnPlan
<1>4. Planned(prog, Extra, calls[p], seq, Made(p) + Len(seq))
  BY <1>1, <1>3, PlannedMore
<1>5. Planned(prog', Extra', calls'[p], script'[p], Made(p)')
  BY <1>2, <1>4, Zenon
<1> QED
  BY <1>2, <1>5 DEF OnPlan

\* What the plan says of a block of calls.
LEMMA PlanBlocks ==
  LET nw == NumWindows
  IN /\ \A k \in 1 .. nw : PlanOf(prog, Extra, k) = "win_create"
     /\ \A k \in 1 .. nw : PlanOf(prog, Extra, nw + Middle + k) = "win_free"
     /\ PlanOf(prog, Extra, 2 * nw + Middle + 1) = "finalize"
     /\ prog = "demo" => PlanOf(prog, Extra, nw + 1) = "barrier"
     /\ prog = "micro" =>
          /\ \A k \in 1 .. 5 : PlanOf(prog, Extra, nw + k) = "barrier"
          /\ \A k \in 6 .. 8 : PlanOf(prog, Extra, nw + k) = "gather"
     /\ prog \in Tests =>
          /\ \A k \in 1 .. 3 : PlanOf(prog, Extra, nw + k) = "barrier"
          /\ \A k \in 4 .. 9 : PlanOf(prog, Extra, nw + k) = "allreduce"
          /\ \A k \in 1 .. Extra + 9 : PlanOf(prog, Extra, nw + 9 + k) =
                                         IF k = Extra + 1 THEN "gather" ELSE "allreduce"
<1> DEFINE m == Middle  e == Extra
<1>1. NumWindows \in Nat \ {0} /\ m \in Nat \ {0} /\ e \in {0, 2, 4}
  BY Constants, PlanTypes
<1>2. \A n : PlanOf(prog, e, n) = IF n =< NumWindows THEN "win_create"
                                  ELSE IF n =< NumWindows + m THEN MiddleCall(prog, e, n - NumWindows)
                                  ELSE IF n =< 2 * NumWindows + m THEN "win_free"
                                  ELSE "finalize"
  BY DEF PlanOf, Middle
<1>3. /\ prog = "demo" => m = 1 /\ \A n : MiddleCall(prog, e, n) = "barrier"
      /\ prog = "micro" => m = 8 /\ \A n : MiddleCall(prog, e, n) = IF n =< 5 THEN "barrier" ELSE "gather"
      /\ prog \in Tests => m = 18 + e /\ \A n : MiddleCall(prog, e, n) =
                             IF n =< 3 THEN "barrier" ELSE IF n = 10 + e THEN "gather" ELSE "allreduce"
  BY PlanTypes DEF MiddleCall, Tests
<1> HIDE DEF m, e
<1>4. /\ \A k \in 1 .. NumWindows : PlanOf(prog, e, k) = "win_create"
      /\ \A k \in 1 .. NumWindows : PlanOf(prog, e, NumWindows + m + k) = "win_free"
      /\ PlanOf(prog, e, 2 * NumWindows + m + 1) = "finalize"
  BY <1>1, <1>2
<1>5. ASSUME NEW k \in 1 .. m PROVE PlanOf(prog, e, NumWindows + k) = MiddleCall(prog, e, k)
  <2>1. \A n \in Int : n = NumWindows + k =>
                         n - NumWindows = k /\ n =< NumWindows + m /\ ~(n =< NumWindows)
    BY <1>1
  <2>2. \A n \in Int : n = NumWindows + k => PlanOf(prog, e, n) = MiddleCall(prog, e, k)
    BY <1>2, <2>1, Zenon
  <2>3. NumWindows + k \in Int
    BY <1>1
  <2> QED
    BY <2>2, <2>3, Zenon
<1>6. CASE prog = "demo"
  BY <1>1, <1>3, <1>4, <1>5, <1>6 DEF Tests, m, e
<1>7. CASE prog = "micro"
  BY <1>1, <1>3, <1>4, <1>5, <1>7 DEF Tests, m, e
<1>8. ASSUME prog \in Tests
      PROVE  /\ \A k \in 1 .. 3 : PlanOf(prog, e, NumWindows + k) = "barrier"
             /\ \A k \in 4 .. 9 : PlanOf(prog, e, NumWindows + k) = "allreduce"
             /\ \A k \in 1 .. e + 9 : PlanOf(prog, e, NumWindows + 9 + k) =
                                        IF k = e + 1 THEN "gather" ELSE "allreduce"
  <2>1. m = 18 + e /\ \A n : MiddleCall(prog, e, n) =
                         IF n =< 3 THEN "barrier" ELSE IF n = 10 + e THEN "gather" ELSE "allreduce"
    BY <1>3, <1>8
  <2>2. \A k \in 1 .. 3 : PlanOf(prog, e, NumWindows + k) = "barrier"
    BY <1>1, <1>5, <2>1
  <2>3. \A k \in 4 .. 9 : PlanOf(prog, e, NumWindows + k) = "allreduce"
    BY <1>1, <1>5, <2>1
  <2>4. ASSUME NEW k \in 1 .. e + 9
        PROVE  PlanOf(prog, e, NumWindows + 9 + k) = IF k = e + 1 THEN "gather" ELSE "allreduce"
    <3>1. 9 + k \in 1 .. m /\ NumWindows + (9 + k) = NumWindows + 9 + k /\ ~(9 + k =< 3)
          /\ (9 + k = 10 + e <=> k = e + 1)
      BY <1>1, <2>1
    <3>2. PlanOf(prog, e, NumWindows + (9 + k)) = MiddleCall(prog, e, 9 + k)
      BY <1>5, <3>1
    <3> QED
      BY <2>1, <3>1, <3>2
  <2> QED
    BY <2>2, <2>3, <2>4
<1> QED
  BY <1>4, <1>6, <1>7, <1>8 DEF m, e, Tests

\* Nothing is counted, no call is added to the estimates.
LEMMA ExtraStays == ASSUME count' = count PROVE Extra' = Extra
  BY TotalIs DEF Extra

\* One process moves.
LEMMA OneOnPlan ==
  ASSUME Base, \A q \in Ranks : OnPlan(q), prog' = prog, count' = count, NEW p \in Ranks, OnPlan(p)',
         p # 0 => i'[0] = i[0],
         \A q \in Ranks \ {p} : pc'[q] = pc[q] /\ script'[q] = script[q] /\ calls'[q] = calls[q]
  PROVE  \A q \in Ranks : OnPlan(q)'
<1> SUFFICES ASSUME NEW q \in Ranks, q # p PROVE OnPlan(q)'
  OBVIOUS
<1>1. TypeOK /\ StepsInv /\ PlacesInv
  BY DEF Base, StepsInv
<1>2. pc[q] = "flush" => q = 0
  BY <1>1, CallTypesHold DEF PlacesInv, Starting, Ending, Working, Tests
<1>3. Extra' = Extra
  BY ExtraStays
<1> QED
  BY <1>1, <1>2, <1>3, StaysOnPlan

\* The steps of QueueLife are in the plan.
LEMMA PlanLife ==
  ASSUME Base, \A q \in Ranks : OnPlan(q), NEW p \in Ranks, LifeStep(p)
  PROVE  \A q \in Ranks : OnPlan(q)'
<1>0. /\ TypeOK /\ StepsInv /\ pc \in [Ranks -> Steps] /\ CallTypes /\ NumWindows \in Nat \ {0}
      /\ prog' = prog /\ count' = count /\ i' = i /\ OnPlan(p) /\ Middle \in Nat
  BY CallTypesHold, Constants, PlanTypes DEF Base, StepsInv, PlacesInv, LifeStep, local
<1>1. Extra' = Extra /\ Middle' = Middle
  BY <1>0, ExtraStays DEF Middle
<1>2. \A q \in Ranks \ {p} : pc'[q] = pc[q] /\ script'[q] = script[q] /\ calls'[q] = calls[q]
  BY <1>0 DEF CallTypes, LifeStep, Life, Enter, Leave, QueueInit, LockAll, QueueDestroy, Free, Then
<1>3. SUFFICES OnPlan(p)'
  BY <1>0, <1>2, OneOnPlan
<1>4. CASE Enter(p)
  <2>1. /\ script'[p] = Tail(script[p]) /\ calls'[p] = Append(calls[p], Head(script[p]))
        /\ pc' = pc /\ script[p] # <<>>
    BY <1>0, <1>4 DEF Enter, CallTypes
  <2>2. script[p] \in Seq(Call) /\ calls[p] \in Seq(Call) /\ Planned(prog, Extra, calls[p], script[p], Made(p))
    BY <1>0 DEF CallTypes, OnPlan
  <2>3. Planned(prog, Extra, calls'[p], script'[p], Made(p))
    BY <2>1, <2>2, PlannedEnter
  <2>4. Made(p)' = Made(p)
    BY <1>0, <1>1, <2>1, MadeStays
  <2> QED
    BY <1>0, <1>1, <2>1, <2>3, <2>4 DEF OnPlan
<1>5. CASE Leave(p)
  BY <1>0, <1>1, <1>5, StaysOnPlan DEF Leave
<1>6. ASSUME NEW step, NEW seq \in Seq(Call), Then(p, step, seq), At(p, pc[p]), step # "exited", calls' = calls,
             Made(p)' = Made(p) + Len(seq),
             \A k \in 1 .. Len(seq) : seq[k] = PlanOf(prog, Extra, Made(p) + k)
      PROVE  OnPlan(p)'
  BY <1>0, <1>1, <1>6, MovesOnPlan DEF At
<1> DEFINE create == Times(NumWindows, "win_create")
           free == Times(NumWindows, "win_free")
<1>7. /\ create \in Seq(Call) /\ Len(create) = NumWindows /\ \A k \in 1 .. NumWindows : create[k] = "win_create"
      /\ free \in Seq(Call) /\ Len(free) = NumWindows /\ \A k \in 1 .. NumWindows : free[k] = "win_free"
  BY <1>0, BlocksAre DEF Block, Call
<1> HIDE DEF create, free
<1>8. CASE QueueInit(p)
  <2>1. At(p, "init") /\ Then(p, "lock_all", create) /\ calls' = calls
    BY <1>8 DEF QueueInit, create
  <2>2. pc[p] = "init" /\ pc'[p] = "lock_all"
    BY <1>0, <2>1 DEF At, Then
  <2>3. Made(p) = 0 /\ Made(p)' = NumWindows
    BY <2>2 DEF Made
  <2>4. \A k \in 1 .. NumWindows : create[k] = PlanOf(prog, Extra, 0 + k)
    BY <1>7, PlanBlocks
  <2> QED
    BY <1>0, <1>6, <1>7, <2>1, <2>2, <2>3, <2>4
<1>9. CASE LockAll(p)
  <2>1. At(p, "lock_all") /\ Then(p, "main", <<>>) /\ calls' = calls
    BY <1>9 DEF LockAll
  <2>2. pc[p] = "lock_all" /\ pc'[p] = "main"
    BY <1>0, <2>1 DEF At, Then
  <2>3. Made(p) = NumWindows /\ Made(p)' = NumWindows
    BY <2>2 DEF Made
  <2>4. <<>> \in Seq(Call) /\ Len(<<>>) = 0
    OBVIOUS
  <2>5. Made(p)' = Made(p) + Len(<<>>) /\ \A k \in 1 .. Len(<<>>) : <<>>[k] = PlanOf(prog, Extra, Made(p) + k)
    BY <1>0, <2>3, <2>4
  <2>6. pc[p] = "lock_all" /\ "main" # "exited"
    BY <2>2
  <2> QED
    BY <1>6, <2>1, <2>4, <2>5, <2>6, Zenon
<1>10. CASE QueueDestroy(p)
  <2>1. At(p, "destroy") /\ Then(p, "free", free) /\ calls' = calls
    BY <1>10 DEF QueueDestroy, free
  <2>2. pc[p] = "destroy" /\ pc'[p] = "free"
    BY <1>0, <2>1 DEF At, Then
  <2>3. Made(p) = NumWindows + Middle /\ Made(p)' = 2 * NumWindows + Middle
    BY <1>1, <2>2 DEF Made
  <2>4. \A k \in 1 .. NumWindows : free[k] = PlanOf(prog, Extra, NumWindows + Middle + k)
    BY <1>7, PlanBlocks
  <2>5. Made(p)' = Made(p) + Len(free)
    BY <1>0, <1>7, <2>3
  <2> QED
    BY <1>6, <1>7, <2>1, <2>2, <2>3, <2>4, <2>5
<1>11. CASE Free(p)
  <2>1. At(p, "free") /\ Then(p, "ended", <<"finalize">>) /\ calls' = calls
    BY <1>11 DEF Free
  <2>2. pc[p] = "free" /\ pc'[p] = "ended"
    BY <1>0, <2>1 DEF At, Then
  <2>3. Made(p) = 2 * NumWindows + Middle /\ Made(p)' = 2 * NumWindows + Middle + 1
    BY <1>1, <2>2 DEF Made
  <2>4. <<"finalize">> \in Seq(Call) /\ Len(<<"finalize">>) = 1 /\ \A k \in 1 .. 1 : <<"finalize">>[k] = "finalize"
    BY DEF Call
  <2>5. \A k \in 1 .. 1 : <<"finalize">>[k] = PlanOf(prog, Extra, 2 * NumWindows + Middle + k)
    BY <2>4, PlanBlocks
  <2> QED
    BY <1>6, <2>1, <2>2, <2>3, <2>4, <2>5
<1> QED
  BY <1>4, <1>5, <1>8, <1>9, <1>10, <1>11 DEF LifeStep, Life

\* What came into the queue.
LEMMA ArrivedType ==
  ASSUME TypeOK
  PROVE  /\ \A c \in ConsumerRanks : Returned(c) \in Nat /\ Fetched[c] = dbuf[c] + Returned(c) /\ Fetched[c] \in Nat
         /\ Sum(Fetched, ConsumerRanks) \in Nat /\ Arrived \in Nat /\ stored =< Arrived /\ stored \in Nat
<1>1. ASSUME NEW c \in ConsumerRanks
      PROVE  Returned(c) \in Nat /\ Fetched[c] = dbuf[c] + Returned(c) /\ Fetched[c] \in Nat
  <2>1. i[c] \in Nat /\ dbuf[c] \in Nat /\ Ops \in Nat
    BY Constants DEF TypeOK
  <2>2. Returned(c) \in {i[c], Ops + i[c], 0}
    BY DEF Returned
  <2>3. Returned(c) \in Nat
    BY <2>1, <2>2
  <2> QED
    BY <2>1, <2>3 DEF Fetched
<1> DEFINE zero == [c \in ConsumerRanks |-> 0]
<1>2. \A c \in ConsumerRanks : zero[c] \in Int /\ zero[c] = 0 /\ Fetched[c] \in Int /\ zero[c] =< Fetched[c]
  BY <1>1
<1> HIDE DEF zero
<1>3. Sum(zero, ConsumerRanks) = NumConsumers * 0 /\ 0 \in Int
  BY <1>2, RanksFinite, SumOfEqual
<1>4. NumConsumers * 0 = 0
  BY Constants, Z3
<1>5. Sum(Fetched, ConsumerRanks) \in Int /\ Sum(zero, ConsumerRanks) =< Sum(Fetched, ConsumerRanks)
  BY <1>2, RanksFinite, SumType, SumGrows
<1>6. stored \in Nat
  BY QueueTypes
<1> QED
  BY <1>1, <1>3, <1>4, <1>5, <1>6 DEF Arrived

\* A queue that holds the warmup refuses nothing of it.
LEMMA WarmupFits ==
  ASSUME Base, MicroInv, Roomy, rest > 0, pc[0] = "warmup"
  PROVE  ~Full
<1>1. prog = "micro" /\ 0 \in Ranks /\ TypeOK
  BY Constants, CallTypesHold DEF Base, StepsInv, PlacesInv, Starting, Ending, Working, Tests
<1>2. Arrived + ebuf + rest = i[0] /\ i[0] =< N /\ N =< capacity
  BY <1>1 DEF MicroInv, FillInv, Filling, Roomy
<1>3. ebuf \in Nat /\ rest \in Nat /\ i[0] \in Nat /\ N \in Nat /\ capacity \in Nat
  BY <1>1, Constants, QueueTypes DEF TypeOK
<1>4. stored \in Nat /\ Arrived \in Nat /\ stored =< Arrived
  BY <1>1, ArrivedType
<1>5. stored < capacity
  BY <1>2, <1>3, <1>4
<1> QED
  BY <1>3, <1>4, <1>5 DEF Full

\* Who is early in a test, and stays so, is on the plan whatever is counted.
LEMMA EarlyOnPlan ==
  ASSUME TypeOK, NEW p \in Ranks, OnPlan(p), prog' = prog, prog \in Tests,
         pc'[p] # "exited", script'[p] = script[p], calls'[p] = calls[p],
         Made(p)' = Made(p), Made(p) \in Int, Made(p) =< NumWindows + 9
  PROVE  OnPlan(p)'
<1>1. Extra \in {0, 2, 4} /\ Extra' \in {0, 2, 4}
  BY DEF Extra
<1>2. script[p] \in Seq(Call) /\ calls[p] \in Seq(Call)
  BY CallTypesHold DEF CallTypes
<1>3. Planned(prog, Extra, calls[p], script[p], Made(p))
  BY DEF OnPlan
<1>4. Planned(prog, Extra', calls[p], script[p], Made(p))
  BY <1>1, <1>2, <1>3, PlannedEarly
<1> QED
  BY <1>4 DEF OnPlan

\* A process at one of its program's steps goes on as planned.
LEMMA GoesOnPlan ==
  ASSUME Base, \A q \in Ranks : OnPlan(q), prog' = prog, count' = count, calls' = calls,
         NEW p \in Ranks, At(p, pc[p]), p # 0 => i'[0] = i[0],
         NEW step, step # "exited", NEW seq \in Seq(Call), Then(p, step, seq),
         Made(p)' = Made(p) + Len(seq),
         \A k \in 1 .. Len(seq) : seq[k] = PlanOf(prog, Extra, Made(p) + k)
  PROVE  \A q \in Ranks : OnPlan(q)'
<1>1. TypeOK /\ pc \in [Ranks -> Steps] /\ script \in [Ranks -> Seq(Call)] /\ Extra' = Extra
  BY CallTypesHold, ExtraStays DEF Base, StepsInv, PlacesInv, CallTypes
<1>2. OnPlan(p)'
  BY <1>1, MovesOnPlan DEF At
<1>3. \A q \in Ranks \ {p} : pc'[q] = pc[q] /\ script'[q] = script[q] /\ calls'[q] = calls[q]
  BY <1>1 DEF Then
<1> QED
  BY <1>2, <1>3, OneOnPlan

\* It makes no call.
LEMMA GoesSilently ==
  ASSUME Base, \A q \in Ranks : OnPlan(q), prog' = prog, count' = count, calls' = calls,
         NEW p \in Ranks, At(p, pc[p]), p # 0 => i'[0] = i[0],
         NEW step, step # "exited", Then(p, step, <<>>), Made(p) \in Nat, Made(p)' = Made(p)
  PROVE  \A q \in Ranks : OnPlan(q)'
<1>1. /\ <<>> \in Seq(Call) /\ Made(p)' = Made(p) + Len(<<>>)
      /\ \A k \in 1 .. Len(<<>>) : <<>>[k] = PlanOf(prog, Extra, Made(p) + k)
  OBVIOUS
<1> QED
  BY <1>1, GoesOnPlan

\* What the plan wants n times from the a-th call on.
Wants(a, n, call) == \A k \in 1 .. n : PlanOf(prog, Extra, NumWindows + (a + k)) = call

\* The calls of seq are those that the plan wants from there.
Fits(seq, n, a) ==
  seq \in Seq(Call) /\ Len(seq) = n /\ \A k \in 1 .. n : seq[k] = PlanOf(prog, Extra, NumWindows + (a + k))

\* One block of calls fits where the plan has it.
LEMMA FitsOne ==
  ASSUME NEW s, NEW n \in Nat, NEW x, NEW a \in Nat, Block(s, n, x), Wants(a, n, x)
  PROVE  Fits(s, n, a)
  BY DEF Block, Fits, Wants

\* So do two.
LEMMA FitsTwo ==
  ASSUME NEW s, NEW m \in Nat, NEW n \in Nat, NEW x, NEW y, NEW a \in Nat, TwoBlocks(s, m, x, n, y),
         Wants(a, m, x), Wants(a + m, n, y)
  PROVE  Fits(s, m + n, a)
<1>1. ASSUME NEW k \in 1 .. m + n PROVE s[k] = PlanOf(prog, Extra, NumWindows + (a + k))
  <2>1. CASE k =< m
    <3>1. k \in 1 .. m
      BY <2>1
    <3> QED
      BY <2>1, <3>1 DEF TwoBlocks, Wants
  <2>2. CASE ~(k =< m)
    <3>1. k - m \in 1 .. n /\ (a + m) + (k - m) = a + k
      BY <2>2
    <3>2. PlanOf(prog, Extra, NumWindows + (a + k)) = y
      BY <3>1, Zenon DEF Wants
    <3> QED
      BY <2>2, <3>2 DEF TwoBlocks
  <2> QED
    BY <2>1, <2>2
<1> QED
  BY <1>1 DEF TwoBlocks, Fits

\* The scripts of the programs where they are made.
LEMMA PlannedScripts ==
  /\ prog \in {"demo", "micro"} \cup Tests => Fits(<<"barrier">>, 1, 0)
  /\ prog = "micro" => /\ Fits(Times(3, "barrier"), 3, 0)
                       /\ Fits(Times(2, "barrier"), 2, 1)
                       /\ Fits(Times(2, "barrier") \o Reports, 2 + 3, 3)
                       /\ Fits(<<"barrier">>, 1, 3)
                       /\ Fits(<<"barrier">> \o Reports, 1 + 3, 4)
  /\ prog \in Tests => Fits(Times(2, "barrier") \o Times(6, "allreduce"), 2 + 6, 1)
<1>0. {0, 1, 2, 3, 4, 6} \subseteq Nat /\ 3 + 2 = 5 /\ 4 + 1 = 5 /\ 1 + 2 = 3
  OBVIOUS
<1>1. ASSUME prog = "micro"
      PROVE  /\ Wants(0, 1, "barrier") /\ Wants(0, 3, "barrier") /\ Wants(1, 2, "barrier")
             /\ Wants(3, 2, "barrier") /\ Wants(3, 1, "barrier") /\ Wants(4, 1, "barrier")
             /\ Wants(5, 3, "gather")
  <2>1. /\ \A k \in 1 .. 5 : PlanOf(prog, Extra, NumWindows + k) = "barrier"
        /\ \A k \in 6 .. 8 : PlanOf(prog, Extra, NumWindows + k) = "gather"
    BY <1>1, PlanBlocks
  <2>2. \A a \in 0 .. 4, n \in 1 .. 3 : a + n =< 5 => Wants(a, n, "barrier")
    BY <2>1 DEF Wants
  <2>3. Wants(5, 3, "gather")
    BY <2>1 DEF Wants
  <2> QED
    BY <2>2, <2>3
<1>2. ASSUME prog \in Tests
      PROVE  Wants(0, 1, "barrier") /\ Wants(1, 2, "barrier") /\ Wants(3, 6, "allreduce")
  <2>1. /\ \A k \in 1 .. 3 : PlanOf(prog, Extra, NumWindows + k) = "barrier"
        /\ \A k \in 4 .. 9 : PlanOf(prog, Extra, NumWindows + k) = "allreduce"
    BY <1>2, PlanBlocks
  <2> QED
    BY <2>1 DEF Wants
<1>3. prog = "demo" => Wants(0, 1, "barrier")
  <2>1. prog = "demo" => PlanOf(prog, Extra, NumWindows + 1) = "barrier"
    BY PlanBlocks
  <2> QED
    BY <2>1 DEF Wants
<1>4. prog \in {"demo", "micro"} \cup Tests => Fits(<<"barrier">>, 1, 0)
  BY <1>0, <1>1, <1>2, <1>3, FitsOne, ScriptsAre
<1>5. ASSUME prog = "micro"
      PROVE  /\ Fits(Times(3, "barrier"), 3, 0)
             /\ Fits(Times(2, "barrier"), 2, 1)
             /\ Fits(Times(2, "barrier") \o Reports, 2 + 3, 3)
             /\ Fits(<<"barrier">>, 1, 3)
             /\ Fits(<<"barrier">> \o Reports, 1 + 3, 4)
  <2>1. Fits(Times(3, "barrier"), 3, 0) /\ Fits(Times(2, "barrier"), 2, 1) /\ Fits(<<"barrier">>, 1, 3)
    BY <1>0, <1>1, <1>5, FitsOne, ScriptsAre
  <2>2. Wants(3 + 2, 3, "gather") /\ Wants(4 + 1, 3, "gather")
    BY <1>0, <1>1, <1>5
  <2>3. Fits(Times(2, "barrier") \o Reports, 2 + 3, 3) /\ Fits(<<"barrier">> \o Reports, 1 + 3, 4)
    BY <1>0, <1>1, <1>5, <2>2, FitsTwo, ScriptsAre, Zenon
  <2> QED
    BY <2>1, <2>3
<1>6. ASSUME prog \in Tests PROVE Fits(Times(2, "barrier") \o Times(6, "allreduce"), 2 + 6, 1)
  <2>1. Wants(1 + 2, 6, "allreduce")
    BY <1>0, <1>2, <1>6
  <2> QED
    BY <1>0, <1>2, <1>6, <2>1, FitsTwo, ScriptsAre, Zenon
<1> QED
  BY <1>4, <1>5, <1>6

\* A process goes on as planned from the a-th call on.
LEMMA GoesFrom ==
  ASSUME Base, \A q \in Ranks : OnPlan(q), prog' = prog, count' = count, calls' = calls,
         NEW p \in Ranks, At(p, pc[p]), p # 0 => i'[0] = i[0],
         NEW step, step # "exited", NEW seq, Then(p, step, seq), NEW a \in Nat, NEW n \in Nat, Fits(seq, n, a),
         Made(p) = NumWindows + a, Made(p)' = NumWindows + (a + n)
  PROVE  \A q \in Ranks : OnPlan(q)'
<1>1. NumWindows \in Nat /\ seq \in Seq(Call) /\ Len(seq) = n
  BY Constants DEF Fits
<1>2. Made(p)' = Made(p) + Len(seq)
  BY <1>1
<1>3. ASSUME NEW k \in 1 .. n PROVE seq[k] = PlanOf(prog, Extra, Made(p) + k)
  <2>1. NumWindows + (a + k) = Made(p) + k
    BY <1>1
  <2> QED
    BY <2>1, Zenon DEF Fits
<1> QED
  BY <1>1, <1>2, <1>3, GoesOnPlan

\* The demo's producer is never refused.
LEMMA NeverRefused == ASSUME Base, PlanInv, Roomy PROVE ~DemoGivesUp
<1> SUFFICES ASSUME DemoGivesUp PROVE FALSE
  OBVIOUS
<1>1. pc[0] = "demo_put" /\ i[0] < DemoItems /\ stored = capacity /\ prog = "demo"
  BY DemoAlone DEF DemoGivesUp, At, Full, Base
<1>2. stored =< i[0] /\ DemoItems =< capacity
  BY <1>1 DEF PlanInv, DemoInv, Roomy
<1>3. stored \in Nat /\ capacity \in Nat /\ i[0] \in Nat /\ DemoItems \in Nat
  BY Constants, QueueTypes DEF Base, TypeOK
<1> QED
  BY <1>1, <1>2, <1>3

\* The steps of the programs are in the plan.
LEMMA PlanProgram ==
  ASSUME Base, PlanInv, MicroInv, Roomy, Next, \A p \in Ranks : ~LifeStep(p)
  PROVE  \A q \in Ranks : OnPlan(q)'
<1>0. /\ TypeOK /\ StepsInv /\ pc \in [Ranks -> Steps] /\ script \in [Ranks -> Seq(Call)] /\ prog' = prog
      /\ i \in [Ranks -> Nat] /\ 0 \in Ranks /\ ConsumerRanks \subseteq Ranks /\ 0 \notin ConsumerRanks
      /\ NumWindows \in Nat \ {0} /\ N \in Nat \ {0} /\ \A q \in Ranks : OnPlan(q)
      /\ prog \in {"demo", "micro"} \cup Tests /\ calls' = calls
  <2>1. TypeOK /\ StepsInv
    BY DEF Base
  <2>2. calls' = calls
    BY <2>1, Moves, NeverRefused DEF ProgramStep, others
  <2> QED
    BY <2>1, <2>2, Constants, CallTypesHold, SameProgram DEF StepsInv, PlacesInv, CallTypes, TypeOK, PlanInv
<1>1. \A p \in Ranks : /\ pc[p] \in Starting \cup {"main", "destroy"} \cup Ending \cup Working(p)
                       /\ pc[p] = "flush" => p = 0
  BY <1>0 DEF StepsInv, PlacesInv, Starting, Ending, Working, Tests
\* Nobody moves.
<1>2. ASSUME Stay, count' = count, pc[0] = "flush" => i'[0] = i[0] PROVE \A q \in Ranks : OnPlan(q)'
  BY <1>0, <1>1, <1>2, ExtraStays, StaysOnPlan DEF Stay
\* One process moves.
<1>3. ASSUME NEW p \in Ranks, NEW step, NEW seq, Then(p, step, seq) PROVE pc'[p] = step /\ script'[p] = seq
  BY <1>0, <1>3 DEF Then
\* While a test counts, nobody has passed its aggregation.
<1>4. ASSUME NEW p \in Ranks, pc[p] \in {"enqueue", "consume"}, At(p, pc[p]), script' = script,
             pc' = pc \/ (pc[p] = "consume" /\ pc' = [pc EXCEPT ![p] = "stop"])
      PROVE  \A q \in Ranks : OnPlan(q)'
  <2>1. prog \in Tests
    BY <1>0, <1>1, <1>4 DEF Starting, Ending, Working, Tests
  <2>2. Len(calls[p]) = NumWindows + 1
    <3>1. Made(p) = NumWindows + 1 /\ Len(script[p]) = 0 /\ Len(calls[p]) \in Nat
      BY <1>0, <1>4, CallTypesHold DEF Made, At, CallTypes
    <3>2. Len(calls[p]) + Len(script[p]) = Made(p)
      BY <1>0 DEF OnPlan, Planned
    <3> QED
      BY <1>0, <3>1, <3>2
  <2>3. ~Passed(NumWindows + 9)
    BY <1>0, <2>2 DEF Passed
  <2>4. \A q \in Ranks : pc[q] \notin {"destroy"} \cup Ending
    BY <2>1, <2>3 DEF PlanInv, CountedInv
  <2>5. ASSUME NEW q \in Ranks PROVE OnPlan(q)'
    <3>1. Made(q) \in Int /\ Made(q) =< NumWindows + 9
      BY <2>4, MadeEarly
    <3>2. Made(q)' = Made(q)
      <4>1. CASE pc' = pc
        <5>1. pc[q] # "flush"
          BY <1>0, <1>1, <2>1 DEF Starting, Ending, Working, Tests
        <5> QED
          BY <1>0, <2>4, <4>1, <5>1, MadeStays
      <4>2. CASE pc[p] = "consume" /\ pc' = [pc EXCEPT ![p] = "stop"]
        <5>1. CASE q = p
          BY <1>0, <4>2, <5>1 DEF Made
        <5>2. CASE q # p
          <6>1. pc[q] # "flush" /\ pc'[q] = pc[q]
            BY <1>0, <1>1, <2>1, <4>2, <5>2 DEF Starting, Ending, Working, Tests
          <6> QED
            BY <1>0, <2>4, <6>1, MadeStays
        <5> QED
          BY <5>1, <5>2
      <4> QED
        BY <1>4, <4>1, <4>2
    <3>3. pc'[q] # "exited"
      BY <1>0, <1>4 DEF OnPlan
    <3> QED
      BY <1>0, <1>4, <2>1, <3>1, <3>2, <3>3, EarlyOnPlan
  <2> QED
    BY <2>5
<1>5. ASSUME NEW p \in Ranks, Main(p) PROVE \A q \in Ranks : OnPlan(q)'
  <2>1. At(p, pc[p]) /\ pc[p] = "main" /\ count' = count /\ i' = i
    BY <1>5 DEF Main, At
  <2>2. Made(p) = NumWindows
    BY <2>1 DEF Made
  <2>3. ASSUME NEW step, Then(p, step, <<>>), step # "exited", Made(p)' = NumWindows
        PROVE  \A q \in Ranks : OnPlan(q)'
    BY <1>0, <2>1, <2>2, <2>3, GoesSilently
  <2>4. ASSUME NEW step, NEW n \in Nat, NEW seq, Then(p, step, seq), step # "exited", Fits(seq, n, 0),
               Made(p)' = NumWindows + (0 + n)
        PROVE  \A q \in Ranks : OnPlan(q)'
    BY <1>0, <2>1, <2>2, <2>4, GoesFrom
  <2>5. CASE prog = "demo"
    <3>1. PICK step \in {"demo_put", "demo_get"} : Then(p, step, <<>>)
      BY <1>5, <2>5 DEF Main
    <3>2. Made(p)' = NumWindows
      BY <1>3, <3>1 DEF Made
    <3> QED
      BY <2>3, <3>1, <3>2
  <2>6. CASE prog = "micro" /\ p = 0
    <3>1. Then(p, "warmup", <<"barrier">>)
      BY <1>5, <2>6 DEF Main
    <3>2. Made(p)' = NumWindows + (0 + 1)
      BY <1>0, <1>3, <3>1 DEF Made
    <3> QED
      BY <2>4, <2>6, <3>1, <3>2, PlannedScripts
  <2>7. CASE prog = "micro" /\ p # 0
    <3>1. Then(p, "measure", Times(3, "barrier"))
      BY <1>5, <2>7 DEF Main
    <3>2. Made(p)' = NumWindows + (0 + 3)
      BY <1>0, <1>3, <3>1 DEF Made
    <3> QED
      BY <2>4, <2>7, <3>1, <3>2, PlannedScripts
  <2>8. CASE prog = "dequeue_only" /\ p = 0
    <3>1. Then(p, "warm", <<>>)
      BY <1>5, <2>8 DEF Main
    <3>2. Made(p)' = NumWindows
      BY <1>0, <1>3, <2>8, <3>1 DEF Made
    <3> QED
      BY <2>3, <3>1, <3>2
  <2>9. CASE prog \in Tests /\ ~(prog = "dequeue_only" /\ p = 0)
    <3>1. PICK step \in {"warm", "enqueue", "stop", "consume"} : Then(p, step, <<"barrier">>)
                /\ (step = "warm" => prog = "quick")
      BY <1>5, <2>9 DEF Main, Tests
    <3>2. Made(p)' = NumWindows + (0 + 1)
      BY <1>0, <1>3, <3>1 DEF Made
    <3> QED
      BY <2>4, <2>9, <3>1, <3>2, PlannedScripts
  <2> QED
    BY <1>0, <2>5, <2>6, <2>7, <2>8, <2>9 DEF Tests
<1>6. ASSUME NEW p \in Ranks, Stop(p) PROVE \A q \in Ranks : OnPlan(q)'
  <2>1. /\ At(p, pc[p]) /\ pc[p] = "stop" /\ count' = count /\ i' = i
        /\ Then(p, "aggregate", Times(2, "barrier") \o Times(6, "allreduce"))
    BY <1>6 DEF Stop, At
  <2>2. prog \in Tests
    BY <1>0, <1>1, <2>1 DEF Starting, Ending, Working, Tests
  <2>3. Made(p) = NumWindows + 1 /\ Made(p)' = NumWindows + (1 + (2 + 6))
    BY <1>0, <1>3, <2>1 DEF Made
  <2> QED
    BY <1>0, <2>1, <2>2, <2>3, PlannedScripts, GoesFrom
<1>7. ASSUME NEW p \in Ranks, Aggregate(p) PROVE \A q \in Ranks : OnPlan(q)'
  <2> DEFINE seq == Estimate(p, {0}) \o Estimate(p, ConsumerRanks) \o <<"gather">> \o Times(8, "allreduce")
  <2>1. /\ At(p, pc[p]) /\ pc[p] = "aggregate" /\ count' = count /\ i' = i
        /\ Then(p, "destroy", seq)
    BY <1>7 DEF Aggregate, At
  <2>2. /\ seq \in Seq(Call) /\ Len(seq) = Extra + 9
        /\ \A k \in 1 .. Extra + 9 : seq[k] = IF k = Extra + 1 THEN "gather" ELSE "allreduce"
    BY AggregationIs
  <2> HIDE DEF seq
  <2>3. prog \in Tests
    BY <1>0, <1>1, <2>1 DEF Starting, Ending, Working, Tests
  <2>4. Extra \in {0, 2, 4} /\ Middle = 18 + Extra /\ Extra' = Extra /\ Middle' = Middle
    BY <1>0, <2>1, <2>3, PlanTypes, ExtraStays DEF Middle
  <2>5. Made(p) = NumWindows + 9 /\ Made(p)' = NumWindows + Middle
    BY <1>3, <2>1, <2>4 DEF Made
  <2>6. Made(p)' = Made(p) + Len(seq)
    BY <1>0, <2>2, <2>4, <2>5
  <2>7. \A k \in 1 .. Len(seq) : seq[k] = PlanOf(prog, Extra, Made(p) + k)
    BY <2>2, <2>3, <2>5, PlanBlocks
  <2> QED
    BY <1>0, <2>1, <2>2, <2>6, <2>7, GoesOnPlan
\* The demo's producer puts an item or is through.
<1>8. ASSUME DemoPut PROVE \A q \in Ranks : OnPlan(q)'
  <2>1. At(0, pc[0]) /\ pc[0] = "demo_put" /\ count' = count /\ prog = "demo"
    BY <1>0, <1>1, <1>8 DEF DemoPut, At, Starting, Ending, Working, Tests
  <2>2. CASE i[0] < DemoItems
    BY <1>2, <1>8, <2>1, <2>2 DEF DemoPut
  <2>3. CASE ~(i[0] < DemoItems)
    <3>1. Then(0, "destroy", <<"barrier">>)
      BY <1>8, <2>3 DEF DemoPut
    <3>2. Made(0) = NumWindows + 0 /\ Made(0)' = NumWindows + (0 + 1)
      BY <1>0, <1>3, <2>1, <3>1 DEF Made, Middle, MiddleOf
    <3> QED
      BY <1>0, <2>1, <3>1, <3>2, PlannedScripts, GoesFrom
  <2> QED
    BY <2>2, <2>3
<1>9. ASSUME Warmup PROVE \A q \in Ranks : OnPlan(q)'
  <2>1. At(0, pc[0]) /\ pc[0] = "warmup" /\ count' = count
    BY <1>9 DEF Warmup, At
  <2>2. CASE i[0] < N
    BY <1>2, <1>9, <2>1, <2>2 DEF Warmup
  <2>3. CASE ~(i[0] < N)
    <3>1. Then(0, "flush", <<>>) /\ i' = i
      BY <1>9, <2>3 DEF Warmup
    <3>2. i[0] = N
      BY <1>0, <2>1, <2>3 DEF StepsInv, SendingInv
    <3>3. Made(0) = NumWindows + 1 /\ Made(0)' = Made(0) /\ Made(0) \in Nat
      <4>1. N' = N
        BY DEF N
      <4> QED
        BY <1>0, <1>3, <2>1, <3>1, <3>2, <4>1 DEF Made
    <3> QED
      BY <1>0, <2>1, <3>1, <3>3, GoesSilently
  <2> QED
    BY <2>2, <2>3
<1>10. ASSUME Produce PROVE \A q \in Ranks : OnPlan(q)'
  <2>1. At(0, pc[0]) /\ pc[0] = "produce" /\ count' = count
    BY <1>10 DEF Produce, At
  <2>2. CASE i[0] < 2 * N
    BY <1>2, <1>10, <2>1, <2>2 DEF Produce
  <2>3. CASE ~(i[0] < 2 * N)
    <3>1. Then(0, "flush", <<>>) /\ i' = i
      BY <1>10, <2>3 DEF Produce
    <3>2. i[0] # N
      BY <1>0, <2>3
    <3>3. Made(0) = NumWindows + 3 /\ Made(0)' = Made(0) /\ Made(0) \in Nat
      BY <1>0, <1>3, <2>1, <3>1, <3>2 DEF Made, N
    <3> QED
      BY <1>0, <2>1, <3>1, <3>3, GoesSilently
  <2> QED
    BY <2>2, <2>3
\* The micro benchmark's producer is refused nothing of the warmup.
<1>11. ASSUME BatchPut PROVE \A q \in Ranks : OnPlan(q)'
  <2>1. ~(Full /\ pc[0] = "warmup")
    BY <1>11, WarmupFits DEF BatchPut
  <2>2. Stay /\ count' = count /\ i' = i
    BY <1>11, <2>1 DEF BatchPut
  <2> QED
    BY <1>2, <2>2
<1>12. ASSUME Flushed PROVE \A q \in Ranks : OnPlan(q)'
  <2>1. At(0, pc[0]) /\ pc[0] = "flush" /\ count' = count /\ prog = "micro"
    BY <1>0, <1>1, <1>12 DEF Flushed, At, Starting, Ending, Working, Tests
  <2>2. CASE i[0] = N
    <3>1. Then(0, "produce", Times(2, "barrier"))
      BY <1>12, <2>2 DEF Flushed
    <3>2. Made(0) = NumWindows + 1 /\ Made(0)' = NumWindows + (1 + 2)
      BY <1>0, <1>3, <2>1, <2>2, <3>1 DEF Made
    <3> QED
      BY <1>0, <2>1, <3>1, <3>2, PlannedScripts, GoesFrom
  <2>3. CASE i[0] # N
    <3>1. Then(0, "destroy", Times(2, "barrier") \o Reports)
      BY <1>12, <2>3 DEF Flushed
    <3>2. Made(0) = NumWindows + 3 /\ Made(0)' = NumWindows + (3 + (2 + 3))
      BY <1>0, <1>3, <2>1, <2>3, <3>1 DEF Made, Middle, MiddleOf
    <3> QED
      BY <1>0, <2>1, <3>1, <3>2, PlannedScripts, GoesFrom
  <2> QED
    BY <2>2, <2>3
<1>13. ASSUME WarmUp PROVE \A q \in Ranks : OnPlan(q)'
  <2>1. At(0, pc[0]) /\ pc[0] = "warm" /\ count' = count /\ prog \in Tests
    BY <1>0, <1>1, <1>13 DEF WarmUp, At, Starting, Ending, Working, Tests
  <2>2. CASE i[0] < Warm
    BY <1>2, <1>13, <2>1, <2>2 DEF WarmUp
  <2>3. CASE ~(i[0] < Warm) /\ prog = "dequeue_only"
    <3>1. Then(0, "stop", <<"barrier">>)
      BY <1>13, <2>3 DEF WarmUp
    <3>2. Made(0) = NumWindows + 0 /\ Made(0)' = NumWindows + (0 + 1)
      BY <1>0, <1>3, <2>1, <2>3, <3>1 DEF Made
    <3> QED
      BY <1>0, <2>1, <3>1, <3>2, PlannedScripts, GoesFrom
  <2>4. CASE ~(i[0] < Warm) /\ prog # "dequeue_only"
    <3>1. Then(0, "enqueue", <<>>)
      BY <1>13, <2>4 DEF WarmUp
    <3>2. Made(0) = NumWindows + 1 /\ Made(0)' = Made(0) /\ Made(0) \in Nat
      BY <1>0, <1>3, <2>1, <2>4, <3>1 DEF Made
    <3> QED
      BY <1>0, <2>1, <3>1, <3>2, GoesSilently
  <2> QED
    BY <2>2, <2>3, <2>4
<1>14. ASSUME Enqueue PROVE \A q \in Ranks : OnPlan(q)'
  <2>1. At(0, pc[0]) /\ pc[0] = "enqueue"
    BY <1>14 DEF Enqueue, At
  <2>2. CASE i[0] < Items
    BY <1>0, <1>4, <1>14, <2>1, <2>2 DEF Enqueue, Stay
  <2>3. CASE ~(i[0] < Items)
    <3>1. Then(0, "stop", <<>>) /\ count' = count
      BY <1>14, <2>3 DEF Enqueue
    <3>2. Made(0) = NumWindows + 1 /\ Made(0)' = Made(0) /\ Made(0) \in Nat
      BY <1>0, <1>3, <2>1, <3>1 DEF Made
    <3> QED
      BY <1>0, <2>1, <3>1, <3>2, GoesSilently
  <2> QED
    BY <2>2, <2>3
<1>15. ASSUME NEW c \in ConsumerRanks, Consumer(c) PROVE \A q \in Ranks : OnPlan(q)'
  <2>0. c \in Ranks /\ c # 0
    BY <1>0
  <2>1. CASE DemoGet(c)
    <3>1. At(c, pc[c]) /\ pc[c] = "demo_get" /\ count' = count /\ prog = "demo" /\ i'[0] = i[0]
      BY <1>0, <1>1, <2>0, <2>1 DEF DemoGet, At, Starting, Ending, Working, Tests, Step
    <3>2. CASE i[c] < MaxAttempts
      BY <1>2, <2>1, <3>1, <3>2 DEF DemoGet
    <3>3. CASE ~(i[c] < MaxAttempts)
      <4>1. Then(c, "destroy", <<"barrier">>)
        BY <2>1, <3>3 DEF DemoGet
      <4>2. Made(c) = NumWindows + 0 /\ Made(c)' = NumWindows + (0 + 1)
        BY <1>0, <1>3, <2>0, <3>1, <4>1 DEF Made, Middle, MiddleOf
      <4> QED
        BY <1>0, <2>0, <3>1, <4>1, <4>2, PlannedScripts, GoesFrom
    <3> QED
      BY <3>2, <3>3
  <2>2. CASE Measure(c) \/ Drain(c) \/ Retry(c)
    <3>1. Stay /\ count' = count /\ i'[0] = i[0]
      BY <1>0, <2>0, <2>2 DEF Measure, Drain, Retry, vars, life, local, Stay, Step
    <3> QED
      BY <1>2, <3>1
  <2>3. CASE Measured(c)
    <3>1. /\ At(c, pc[c]) /\ pc[c] = "measure" /\ count' = count /\ prog = "micro" /\ i'[0] = i[0]
          /\ Then(c, "drain", <<"barrier">>)
      BY <1>0, <1>1, <2>0, <2>3 DEF Measured, At, Starting, Ending, Working, Tests, Reset
    <3>2. Made(c) = NumWindows + 3 /\ Made(c)' = NumWindows + (3 + 1)
      BY <1>0, <1>3, <2>0, <3>1 DEF Made
    <3> QED
      BY <1>0, <2>0, <3>1, <3>2, PlannedScripts, GoesFrom
  <2>4. CASE Drained(c)
    <3>1. /\ At(c, pc[c]) /\ pc[c] = "drain" /\ count' = count /\ prog = "micro" /\ i' = i
          /\ Then(c, "destroy", <<"barrier">> \o Reports)
      BY <1>0, <1>1, <2>0, <2>4 DEF Drained, At, Starting, Ending, Working, Tests, local
    <3>2. Made(c) = NumWindows + 4 /\ Made(c)' = NumWindows + (4 + (1 + 3))
      BY <1>0, <1>3, <2>0, <3>1 DEF Made, Middle, MiddleOf
    <3> QED
      BY <1>0, <2>0, <3>1, <3>2, PlannedScripts, GoesFrom
  <2>5. CASE Consume(c)
    <3>1. At(c, pc[c]) /\ pc[c] = "consume" /\ (Stay \/ Then(c, "stop", <<>>))
      BY <2>5 DEF Consume, At
    <3>2. script' = script /\ (pc' = pc \/ pc' = [pc EXCEPT ![c] = "stop"])
      BY <1>0, <2>0, <3>1 DEF Stay, Then, At
    <3> QED
      BY <1>4, <2>0, <3>1, <3>2
  <2>6. CASE Empty(c)
    <3>1. At(c, pc[c]) /\ pc[c] = "consume" /\ (Stay \/ Then(c, "stop", <<>>))
      BY <2>6 DEF Empty, At
    <3>2. script' = script /\ (pc' = pc \/ pc' = [pc EXCEPT ![c] = "stop"])
      BY <1>0, <2>0, <3>1 DEF Stay, Then, At
    <3> QED
      BY <1>4, <2>0, <3>1, <3>2
  <2> QED
    BY <1>15, <2>1, <2>2, <2>3, <2>4, <2>5, <2>6 DEF Consumer
<1> QED
  BY <1>5, <1>6, <1>7, <1>8, <1>9, <1>10, <1>11, <1>12, <1>13, <1>14, <1>15, NeverRefused
     DEF Next, Rank, Producer, LifeStep

\* Who aggregates has left a call of the aggregation that holds everybody.
LEMMA CountedStep ==
  ASSUME Base, PlanInv, Roomy, [Next]_vars
  PROVE  CountedInv'
<1>0. /\ TypeOK /\ StepsInv /\ CallTypes /\ pc \in [Ranks -> Steps] /\ prog' = prog /\ NumWindows \in Nat \ {0}
      /\ 0 \in Ranks /\ ConsumerRanks \subseteq Ranks /\ CountedInv /\ LeftInv
  BY CallTypesHold, Constants, SameProgram DEF Base, StepsInv, PlacesInv, PlanInv, LifeInv
<1>1. SUFFICES ASSUME prog \in Tests, NEW q \in Ranks, pc'[q] \in {"destroy"} \cup Ending
               PROVE  Passed(NumWindows + 9)
  <2>1. NumWindows + 9 \in Int
    BY <1>0
  <2> QED
    BY <1>0, <2>1, PassedStays DEF CountedInv
<1>2. CASE pc[q] \in {"destroy"} \cup Ending
  BY <1>0, <1>1, <1>2 DEF CountedInv
<1>3. CASE pc[q] \notin {"destroy"} \cup Ending
  <2>1. \A p \in Ranks : pc[p] \notin {"demo_put", "demo_get", "warmup", "produce", "flush", "measure", "drain"}
    BY <1>0, <1>1 DEF StepsInv, PlacesInv, Starting, Ending, Working, Tests
  <2>2. rest = 0
    BY <1>0, <2>1 DEF StepsInv, SendingInv, TypeOK
  <2>3. Aggregate(q)
    <3>1. ASSUME NEW p \in Ranks, Life(p) PROVE FALSE
      BY <1>0, <1>1, <1>3, <3>1
         DEF Life, Enter, Leave, QueueInit, LockAll, QueueDestroy, Free, At, Then, Ending
    <3>2. ASSUME NEW p \in Ranks, Main(p) PROVE FALSE
      <4>1. PICK step \in {"demo_put", "demo_get", "warmup", "measure", "warm", "enqueue", "stop", "consume"} :
              \E seq : Then(p, step, seq)
        BY <3>2 DEF Main
      <4> QED
        BY <1>0, <1>1, <1>3, <4>1 DEF Then, Ending
    <3>3. ASSUME NEW p \in Ranks, Stop(p) PROVE FALSE
      BY <1>0, <1>1, <1>3, <3>3 DEF Stop, Then, Ending
    <3>4. ASSUME NEW p \in Ranks, Aggregate(p) PROVE p = q
      BY <1>0, <1>1, <1>3, <3>4 DEF Aggregate, Then
    <3>5. ~Producer
      BY <1>0, <1>1, <1>3, <2>1, <2>2
         DEF Producer, DemoPut, DemoGivesUp, Warmup, Produce, BatchPut, Flushed, WarmUp, Enqueue, At, Then, Stay, Ending
    <3>6. ASSUME NEW c \in ConsumerRanks, Consumer(c) PROVE FALSE
      BY <1>0, <1>1, <1>3, <2>1, <3>6
         DEF Consumer, DemoGet, Measure, Retry, Measured, Drain, Drained, Consume, Empty, At, Then, Stay, Ending
    <3>7. pc' # pc
      BY <1>1, <1>3
    <3> QED
      BY <3>1, <3>2, <3>3, <3>4, <3>5, <3>6, <3>7 DEF Next, Rank, vars, life
  <2>4. pc[q] = "aggregate" /\ script[q] = <<>> /\ ~inside[q]
    BY <2>3 DEF Aggregate, At
  <2>5. Len(calls[q]) = NumWindows + 9
    <3>1. Made(q) = NumWindows + 9 /\ Len(script[q]) = 0 /\ Len(calls[q]) \in Nat
      BY <1>0, <2>4 DEF Made, CallTypes
    <3>2. Len(calls[q]) + Len(script[q]) = Made(q)
      BY DEF PlanInv, OnPlan, Planned
    <3> QED
      BY <1>0, <3>1, <3>2
  <2>6. calls[q][NumWindows + 9] = "allreduce"
    <3>1. NumWindows + 9 \in DOMAIN calls[q]
      BY <1>0, <2>5 DEF CallTypes
    <3>2. calls[q][NumWindows + 9] = PlanOf(prog, Extra, NumWindows + 9)
      BY <3>1, Zenon DEF PlanInv, OnPlan, Planned
    <3> QED
      BY <1>1, <3>2, PlanBlocks
  <2> QED
    BY <1>0, <2>4, <2>5, <2>6 DEF LeftInv, LeftAt, Passed
<1> QED
  BY <1>2, <1>3

\* The demo's queue holds no more than was put into it.
LEMMA DemoStep ==
  ASSUME Base, PlanInv, Roomy, [Next]_vars
  PROVE  DemoInv'
<1>0. /\ TypeOK /\ StepsInv /\ pc \in [Ranks -> Steps] /\ prog' = prog
      /\ i \in [Ranks -> Nat] /\ 0 \in Ranks /\ ConsumerRanks \subseteq Ranks /\ 0 \notin ConsumerRanks
      /\ stored \in Nat /\ DemoItems \in Nat /\ DemoInv
  BY Constants, SameProgram, QueueTypes DEF Base, StepsInv, PlacesInv, TypeOK, PlanInv
<1>1. SUFFICES ASSUME prog = "demo", pc'[0] \in Starting \cup {"main", "demo_put"}
               PROVE  stored' =< i'[0] /\ i'[0] =< DemoItems
  BY <1>0 DEF DemoInv
<1>2. CASE UNCHANGED <<stored, i>>
  <2>1. pc[0] \in Starting \cup {"main", "demo_put"}
    <3>1. CASE pc' = pc
      BY <1>1, <3>1
    <3>2. ASSUME NEW p \in Ranks, LifeStep(p) PROVE pc[0] \in Starting \cup {"main", "demo_put"}
      BY <1>0, <1>1, <3>2 DEF LifeStep, Life, Enter, Leave, QueueInit, LockAll, QueueDestroy, Free,
                              At, Then, Starting, Ending
    <3>3. CASE ProgramStep
      <4>1. ASSUME NEW p \in Ranks, NEW step \in Steps, NEW seq, Goes(p, step, seq), p = 0
            PROVE  pc[0] \in Starting \cup {"main", "demo_put"}
        <5>1. pc[0] \in {"main", "demo_put", "exited"} /\ step \in {"destroy", "demo_put", "exited"}
              /\ pc'[0] = step
          BY <1>0, <1>1, <4>1 DEF Goes, Working, Then
        <5>2. pc[0] # "exited"
          BY <1>0 DEF PlanInv, OnPlan
        <5> QED
          BY <5>1, <5>2
      <4>2. ASSUME NEW p \in Ranks, NEW step \in Steps, NEW seq, Goes(p, step, seq), p # 0
            PROVE  pc'[0] = pc[0]
        BY <1>0, <4>2 DEF Goes, Then
      <4> QED
        BY <1>1, <3>3, <4>1, <4>2 DEF ProgramStep, Stay
    <3> QED
      BY <1>0, <3>2, <3>3, Moves, NeverRefused
  <2> QED
    BY <1>0, <1>1, <1>2, <2>1 DEF DemoInv
<1>3. /\ \A p \in Ranks : pc[p] \in Starting \cup Ending \cup {"main", "destroy", "demo_put", "exited", "demo_get"}
      /\ rest = 0
  <2>1. \A p \in Ranks : pc[p] \in Starting \cup Ending \cup {"main", "destroy", "demo_put", "exited", "demo_get"}
    BY <1>0, <1>1 DEF StepsInv, PlacesInv, Working
  <2>2. rest = 0
    <3>1. pc[0] \notin {"warmup", "flush", "produce"}
      BY <1>0, <2>1 DEF Starting, Ending
    <3> QED
      BY <1>0, <3>1 DEF StepsInv, SendingInv, TypeOK
  <2> QED
    BY <2>1, <2>2
<1>4. CASE DemoPut
  <2>1. CASE i[0] < DemoItems
    <3>1. stored' \in {stored, stored + 1} /\ i'[0] = i[0] + 1 /\ pc[0] = "demo_put"
      BY <1>0, <1>4, <2>1 DEF DemoPut, Offer, Step, At
    <3>2. stored =< i[0]
      BY <1>0, <1>1, <3>1 DEF DemoInv
    <3> QED
      BY <1>0, <2>1, <3>1, <3>2
  <2>2. CASE ~(i[0] < DemoItems)
    BY <1>2, <1>4, <2>2 DEF DemoPut, queue
  <2> QED
    BY <2>1, <2>2
<1>5. ASSUME NEW c \in ConsumerRanks, DemoGet(c) PROVE stored' =< i'[0] /\ i'[0] =< DemoItems
  <2>1. CASE i[c] < MaxAttempts
    <3>1. Step(c) /\ Stay /\ (stored' = stored \/ \E r \in Obtainable(DeqBatch) : Take(r))
      BY <1>5, <2>1 DEF DemoGet, queue
    <3>2. stored' \in Nat /\ stored' =< stored /\ i'[0] = i[0] /\ pc'[0] = pc[0]
      BY <1>0, <3>1, QueueTypes DEF Take, Step, Stay
    <3>3. stored =< i[0] /\ i[0] =< DemoItems
      BY <1>0, <1>1, <3>2 DEF DemoInv
    <3> QED
      BY <1>0, <3>2, <3>3
  <2>2. CASE ~(i[c] < MaxAttempts)
    BY <1>2, <1>5, <2>2 DEF DemoGet, queue
  <2> QED
    BY <2>1, <2>2
<1>6. UNCHANGED <<stored, i>> \/ DemoPut \/ \E c \in ConsumerRanks : DemoGet(c)
  <2>1. ASSUME NEW c \in ConsumerRanks, Consumer(c) PROVE UNCHANGED <<stored, i>> \/ DemoGet(c)
    BY <1>0, <1>3, <2>1 DEF Consumer, Measure, Retry, Measured, Drain, Drained, Consume, Empty, At, Starting, Ending
  <2>2. ASSUME Producer PROVE DemoPut
    BY <1>0, <1>3, <2>2, NeverRefused
       DEF Producer, Warmup, Produce, BatchPut, Flushed, WarmUp, Enqueue, At, Starting, Ending
  <2>3. ASSUME NEW p \in Ranks, Rank(p) PROVE UNCHANGED <<stored, i>>
    BY <2>3 DEF Rank, Main, Stop, Aggregate, queue, local
  <2>4. UNCHANGED vars => UNCHANGED <<stored, i>>
    BY DEF vars, queue, local
  <2> QED
    BY <2>1, <2>2, <2>3, <2>4 DEF Next
<1> QED
  BY <1>2, <1>4, <1>5, <1>6

\* Everybody follows the plan.
LEMMA PlanStep ==
  ASSUME Base, PlanInv, MicroInv, [Next]_vars
  PROVE  PlanInv'
<1>0. TypeOK /\ StepsInv /\ prog' = prog /\ capacity' = capacity
  BY SameProgram DEF Base
<1>1. SUFFICES ASSUME Roomy PROVE (\A p \in Ranks : OnPlan(p)') /\ CountedInv' /\ DemoInv'
  BY <1>0 DEF PlanInv, Roomy, N
<1>2. \A p \in Ranks : OnPlan(p)'
  <2>1. ASSUME NEW p \in Ranks, LifeStep(p) PROVE \A q \in Ranks : OnPlan(q)'
    BY <1>1, <2>1, PlanLife DEF PlanInv
  <2>2. CASE UNCHANGED vars
    <3>1. UNCHANGED <<pc, script, calls, i, count, prog>>
      BY <2>2 DEF vars, life, local
    <3>2. Extra' = Extra
      BY <3>1, ExtraStays
    <3> QED
      BY <1>0, <1>1, <3>1, <3>2, StaysOnPlan DEF PlanInv
  <2> QED
    BY <1>1, <2>1, <2>2, PlanProgram
<1> QED
  BY <1>1, <1>2, CountedStep, DemoStep

\* In the beginning the plan lies ahead.
LEMMA PlanInit == ASSUME Init PROVE PlanInv
<1>1. /\ pc = [p \in Ranks |-> "init"] /\ script = [p \in Ranks |-> <<>>]
      /\ calls = [p \in Ranks |-> <<>>] /\ stored = 0 /\ i = [p \in Ranks |-> 0]
  BY DEF Init, LifeInit
<1>2. ASSUME NEW p \in Ranks PROVE OnPlan(p)
  BY <1>1 DEF OnPlan, Planned, Made
<1>3. CountedInv
  BY <1>1 DEF CountedInv, Ending
<1>4. DemoInv
  BY <1>1, Constants DEF DemoInv
<1> QED
  BY <1>2, <1>3, <1>4 DEF PlanInv

\* Who follows the plan makes the same calls.
LEMMA PlanAgrees == ASSUME PlanInv PROVE CollectivesMatch
<1> SUFFICES ASSUME Roomy, NEW p \in Ranks, NEW q \in Ranks, NEW n \in DOMAIN calls[p] \cap DOMAIN calls[q]
             PROVE  calls[p][n] = calls[q][n]
  BY DEF CollectivesMatch
<1>1. calls[p][n] = PlanOf(prog, Extra, n) /\ calls[q][n] = PlanOf(prog, Extra, n)
  BY DEF PlanInv, OnPlan, Planned
<1> QED
  BY <1>1
-----------------------------------------------------------------------------
(***************************************************************************)
(* The phases of the micro benchmark.                                      *)
(***************************************************************************)

\* An item that comes into the queue, or goes from the queue to a consumer.
LEMMA ArrivedSteps ==
  ASSUME TypeOK, TypeOK'
  PROVE  /\ (\A d \in ConsumerRanks : Fetched'[d] = Fetched[d]) => Arrived' = Arrived + stored' - stored
         /\ \A c \in ConsumerRanks :
              (\A d \in ConsumerRanks \ {c} : Fetched'[d] = Fetched[d]) =>
                Arrived' = Arrived + (Fetched'[c] - Fetched[c]) + stored' - stored
<1>1. /\ \A c \in ConsumerRanks : Fetched[c] \in Nat
      /\ Sum(Fetched, ConsumerRanks) \in Nat /\ stored \in Nat /\ Arrived = stored + Sum(Fetched, ConsumerRanks)
  BY ArrivedType DEF Arrived
<1>2. \A c \in ConsumerRanks : Fetched'[c] \in Nat
  <2>1. ASSUME NEW c \in ConsumerRanks PROVE Fetched'[c] \in Nat
    <3>1. i'[c] \in Nat /\ dbuf'[c] \in Nat /\ Ops \in Nat
      BY Constants DEF TypeOK
    <3>2. Returned(c)' \in {i'[c], Ops + i'[c], 0}
      BY DEF Returned
    <3>3. Returned(c)' \in Nat
      BY <3>1, <3>2
    <3>4. Fetched'[c] = dbuf'[c] + Returned(c)'
      BY DEF Fetched
    <3> QED
      BY <3>1, <3>3, <3>4
  <2> QED
    BY <2>1
<1>3. stored' \in Nat /\ Arrived' = stored' + Sum(Fetched', ConsumerRanks)
  <2>1. capacity' \in Nat /\ stored' \in 0 .. capacity'
    BY QueueLifeAssumption DEF TypeOK, LifeTypeOK
  <2>2. Arrived' = stored' + Sum(Fetched', ConsumerRanks)
    BY DEF Arrived, Sum, MapThenSumSet, MapThenFoldSet
  <2> QED
    BY <2>1, <2>2
<1>4. ASSUME \A d \in ConsumerRanks : Fetched'[d] = Fetched[d] PROVE Arrived' = Arrived + stored' - stored
  <2>1. Sum(Fetched', ConsumerRanks) = Sum(Fetched, ConsumerRanks)
    <3>1. \A d \in ConsumerRanks : Fetched[d] \in Int /\ Fetched'[d] = Fetched[d]
      BY <1>1, <1>4
    <3> QED
      BY <3>1, RanksFinite, SumStays
  <2> QED
    BY <1>1, <1>3, <2>1
<1>5. ASSUME NEW c \in ConsumerRanks, \A d \in ConsumerRanks \ {c} : Fetched'[d] = Fetched[d]
      PROVE  Arrived' = Arrived + (Fetched'[c] - Fetched[c]) + stored' - stored
  <2>0. \A d \in ConsumerRanks : Fetched[d] \in Int /\ Fetched'[d] \in Int
    BY <1>1, <1>2
  <2>1. Sum(Fetched', ConsumerRanks) = Sum(Fetched, ConsumerRanks) + Fetched'[c] - Fetched[c]
    BY <1>5, <2>0, RanksFinite, SumChanges
  <2> QED
    BY <1>1, <1>2, <1>3, <2>1
<1> QED
  BY <1>4, <1>5

\* What a consumer has fetched, by its step.
LEMMA FetchedIs ==
  /\ \A c \in ConsumerRanks : Fetched[c] = dbuf[c] + Returned(c)
  /\ \A c \in ConsumerRanks : Fetched'[c] = dbuf'[c] + Returned(c)'
  BY DEF Fetched

\* Who goes on after a call that holds everybody knows that all have made it.
LEMMA HasPassed ==
  ASSUME Base, PlanInv, Roomy, NEW p \in Ranks, At(p, pc[p]), NEW n \in Nat \ {0}, Made(p) = NumWindows + n,
         PlanOf(prog, Extra, NumWindows + n) # "gather"
  PROVE  Passed(NumWindows + n) /\ Len(calls[p]) = NumWindows + n
<1>1. /\ TypeOK /\ CallTypes /\ LeftAt(p) /\ NumWindows \in Nat \ {0}
      /\ Len(calls[p]) + Len(script[p]) = Made(p)
      /\ \A k \in DOMAIN calls[p] : calls[p][k] = PlanOf(prog, Extra, k)
  BY CallTypesHold, Constants DEF Base, LifeInv, LeftInv, PlanInv, OnPlan, Planned
<1>2. /\ Len(script[p]) = 0 /\ Len(calls[p]) \in Nat /\ DOMAIN calls[p] = 1 .. Len(calls[p])
      /\ script[p] = <<>> /\ ~inside[p]
  BY <1>1 DEF At, CallTypes
<1>3. Len(calls[p]) = NumWindows + n /\ NumWindows + n \in DOMAIN calls[p] /\ NumWindows + n > 0
  BY <1>1, <1>2
<1>4. calls[p][NumWindows + n] # "gather"
  BY <1>1, <1>3
<1>5. \A q \in Ranks : Len(calls[q]) >= Len(calls[p])
  BY <1>1, <1>2, <1>3, <1>4, Zenon DEF LeftAt
<1> QED
  BY <1>3, <1>5 DEF Passed

\* No process has made more calls than its plan says.
LEMMA NotAhead ==
  ASSUME Base, PlanInv, Roomy, NEW p \in Ranks
  PROVE  Len(calls[p]) =< Made(p) /\ Len(calls[p]) \in Nat /\ Made(p) \in Nat
<1>1. Len(calls[p]) + Len(script[p]) = Made(p) /\ Len(calls[p]) \in Nat /\ Len(script[p]) \in Nat
  BY CallTypesHold DEF Base, PlanInv, OnPlan, Planned, CallTypes
<1>2. \A a, b \in Nat : a =< a + b /\ a + b \in Nat
  OBVIOUS
<1> QED
  BY <1>1, <1>2, Zenon

\* The steps of the micro benchmark.
LEMMA MicroIs ==
  ASSUME Base, prog = "micro"
  PROVE  /\ pc[0] \in Starting \cup {"main", "warmup", "flush", "produce", "destroy"} \cup Ending
         /\ \A c \in ConsumerRanks :
              pc[c] \in Starting \cup {"main", "measure", "drain", "destroy"} \cup Ending
         /\ ~DemoPut /\ ~WarmUp /\ ~Enqueue
         /\ \A c \in ConsumerRanks : ~DemoGet(c) /\ ~Consume(c) /\ ~Empty(c)
         /\ \A p \in Ranks : ~Stop(p) /\ ~Aggregate(p)
<1>1. /\ pc[0] \in Starting \cup {"main", "warmup", "flush", "produce", "destroy"} \cup Ending
      /\ \A c \in ConsumerRanks :
           pc[c] \in Starting \cup {"main", "measure", "drain", "destroy"} \cup Ending
  BY Constants DEF Base, StepsInv, PlacesInv, Working
<1>2. \A p \in Ranks : pc[p] \in Starting \cup Ending \cup
                         {"main", "warmup", "flush", "produce", "measure", "drain", "destroy"}
  BY <1>1, Constants
<1> QED
  BY <1>1, <1>2, Constants DEF DemoPut, WarmUp, Enqueue, DemoGet, Consume, Empty, Stop, Aggregate, At, Starting, Ending

\* What comes into the queue is what the producer sent.
LEMMA FillStep ==
  ASSUME Base, PlanInv, FillInv, DrainInv, prog = "micro", Roomy, [Next]_vars
  PROVE  FillInv'
<1>0. /\ TypeOK /\ TypeOK' /\ StepsInv /\ PlacesInv /\ SendingInv /\ pc \in [Ranks -> Steps]
      /\ i \in [Ranks -> Nat] /\ dbuf \in [ConsumerRanks -> 0 .. DeqBatch - 1]
      /\ 0 \in Ranks /\ ConsumerRanks \subseteq Ranks /\ 0 \notin ConsumerRanks
      /\ N \in Nat \ {0} /\ Ops \in Nat /\ DeqBatch \in Nat /\ ebuf \in Nat /\ rest \in Nat /\ i[0] \in Nat
      /\ EnqBatch \in Nat \ {0}
  BY BaseStep, Constants DEF Base, StepsInv, PlacesInv, TypeOK
<1>1. /\ Arrived \in Nat /\ stored \in Nat /\ stored =< Arrived /\ capacity \in Nat /\ N =< capacity
      /\ stored' \in Nat /\ ebuf' \in Nat /\ rest' \in Nat
      /\ \A c \in ConsumerRanks : dbuf'[c] \in Nat
  <2>1. capacity' \in Nat
    BY <1>0, QueueLifeAssumption DEF TypeOK, LifeTypeOK
  <2>2. Arrived \in Nat /\ stored \in Nat /\ stored =< Arrived /\ capacity \in Nat
    BY <1>0, ArrivedType, QueueTypes
  <2>3. stored' \in Nat /\ ebuf' \in Nat /\ rest' \in Nat
    BY <1>0, <2>1 DEF TypeOK, LifeTypeOK
  <2>4. \A c \in ConsumerRanks : dbuf'[c] \in Nat
    BY <1>0 DEF TypeOK
  <2>5. N =< capacity
    BY DEF Roomy
  <2> QED
    BY <2>2, <2>3, <2>4, <2>5
\* Only the places of the consumers count.
<1>2. ASSUME \A c \in ConsumerRanks : dbuf'[c] + Returned(c)' = dbuf[c] + Returned(c)
      PROVE  Arrived' = Arrived + stored' - stored
  BY <1>0, <1>2, FetchedIs, ArrivedSteps
<1>3. ASSUME UNCHANGED <<stored, ebuf, rest>>, i'[0] = i[0],
             \A c \in ConsumerRanks : dbuf'[c] + Returned(c)' = dbuf[c] + Returned(c),
             \/ pc'[0] = pc[0]
             \/ pc[0] \in Starting /\ pc'[0] \in Starting \cup {"main"}
             \/ pc[0] = "main" /\ pc'[0] = "warmup"
             \/ pc[0] \in {"destroy"} \cup Ending /\ pc'[0] \in Ending
      PROVE  FillInv'
  <2>1. Arrived' = Arrived
    BY <1>1, <1>2, <1>3
  <2>2. N' = N
    BY DEF N
  <2>3. Filling' = Filling /\ Wanted' = Wanted
    BY <1>3, <2>2 DEF Filling, Wanted, Starting, Ending
  <2> QED
    BY <1>3, <2>1, <2>2, <2>3 DEF FillInv
\* The queue's functions and the first step.
<1>4. ASSUME NEW p \in Ranks, LifeStep(p) PROVE FillInv'
  <2>1. UNCHANGED <<stored, ebuf, rest, i, dbuf>>
    BY <1>4 DEF LifeStep, queue, local
  <2>2. ASSUME NEW q \in Ranks
        PROVE  \/ pc'[q] = pc[q]
               \/ pc[q] \in Starting /\ pc'[q] \in Starting \cup {"main"}
               \/ pc[q] \in {"destroy"} \cup Ending /\ pc'[q] \in Ending
    BY <1>0, <1>4 DEF LifeStep, Life, Enter, Leave, QueueInit, LockAll, QueueDestroy, Free,
                      At, Then, Starting, Ending
  <2>3. \A c \in ConsumerRanks : Returned(c)' = Returned(c)
    BY <1>0, <2>1, <2>2 DEF Returned, Starting, Ending
  <2>4. \A c \in ConsumerRanks : dbuf'[c] + Returned(c)' = dbuf[c] + Returned(c)
    BY <2>1, <2>3
  <2> QED
    BY <1>0, <1>3, <2>1, <2>2, <2>4
<1>5. ASSUME NEW p \in Ranks, Main(p) PROVE FillInv'
  <2>1. /\ UNCHANGED <<stored, ebuf, rest, i, dbuf>> /\ pc[p] = "main"
        /\ pc' = [pc EXCEPT ![p] = IF p = 0 THEN "warmup" ELSE "measure"]
    BY <1>5 DEF Main, At, Then, queue
  <2>2. ASSUME NEW c \in ConsumerRanks PROVE dbuf'[c] + Returned(c)' = dbuf[c] + Returned(c)
    <3>1. CASE c # p
      BY <1>0, <2>1, <3>1 DEF Returned
    <3>2. CASE c = p
      <4>1. i[c] = 0
        BY <2>1, <3>2 DEF DrainInv, DrainAt
      <4>2. Returned(c) = 0 /\ Returned(c)' = 0
        BY <1>0, <2>1, <3>2, <4>1 DEF Returned, Ending
      <4> QED
        BY <2>1, <4>2
    <3> QED
      BY <3>1, <3>2
  <2>3. pc'[0] = pc[0] \/ (pc[0] = "main" /\ pc'[0] = "warmup")
    BY <1>0, <2>1
  <2> QED
    BY <1>3, <2>1, <2>2, <2>3
\* A consumer returns one item, from its buffer or from the queue.
<1>6. ASSUME NEW c \in ConsumerRanks, Measure(c) \/ Drain(c) PROVE FillInv'
  <2>1. DequeueWrapper(c) /\ Step(c) /\ UNCHANGED <<pc, ebuf, rest>> /\ pc[c] \in {"measure", "drain"}
    BY <1>6 DEF Measure, Drain, Stay, At
  <2>2. PICK r \in 0 .. DeqBatch : /\ stored' = stored - r /\ dbuf' = [dbuf EXCEPT ![c] = dbuf[c] + r - 1]
    BY <1>0, <2>1, WrapperDoes
  <2>3. /\ i'[c] = i[c] + 1 /\ \A q \in Ranks \ {c} : i'[q] = i[q]
        /\ dbuf'[c] = dbuf[c] + r - 1 /\ \A d \in ConsumerRanks \ {c} : dbuf'[d] = dbuf[d]
    BY <1>0, <2>1, <2>2 DEF Step
  <2>4. \A d \in ConsumerRanks \ {c} : dbuf'[d] + Returned(d)' = dbuf[d] + Returned(d)
    BY <1>0, <2>1, <2>3 DEF Returned
  <2>5. i[c] \in Nat /\ dbuf[c] \in Nat
    BY <1>0
  <2>6. dbuf'[c] + Returned(c)' = dbuf[c] + Returned(c) + r
    BY <1>0, <2>1, <2>3, <2>5 DEF Returned
  <2>7. Fetched'[c] - Fetched[c] = r
    <3>1. Returned(c) \in Nat
      BY <1>0, ArrivedType
    <3> QED
      BY <2>5, <2>6, <3>1, FetchedIs
  <2>8. \A d \in ConsumerRanks \ {c} : Fetched'[d] = Fetched[d]
    BY <2>4, FetchedIs
  <2>9. Arrived' = Arrived
    <3>1. Arrived' = Arrived + (Fetched'[c] - Fetched[c]) + stored' - stored
      BY <1>0, <2>8, ArrivedSteps
    <3> QED
      BY <1>1, <2>2, <2>7, <3>1
  <2>10. i'[0] = i[0] /\ N' = N
    BY <1>0, <2>3 DEF N
  <2>11. Filling' = Filling /\ Wanted' = Wanted
    BY <2>1, <2>10 DEF Filling, Wanted
  <2> QED
    BY <2>1, <2>9, <2>10, <2>11 DEF FillInv
\* It starts to count anew, or has done.
<1>7. ASSUME NEW c \in ConsumerRanks, Measured(c) \/ Drained(c) \/ Retry(c) PROVE FillInv'
  <2>1. UNCHANGED <<stored, ebuf, rest, dbuf>> /\ pc'[0] = pc[0] /\ i'[0] = i[0]
    BY <1>0, <1>7 DEF Measured, Drained, Retry, Then, Reset, queue, local, vars, life
  <2>2. ASSUME NEW d \in ConsumerRanks PROVE Returned(d)' = Returned(d)
    <3>1. CASE Retry(c)
      BY <3>1 DEF Retry, vars, life, local, Returned
    <3>2. CASE Measured(c)
      <4>1. /\ pc[c] = "measure" /\ i[c] = Ops /\ i' = [i EXCEPT ![c] = 0]
            /\ pc' = [pc EXCEPT ![c] = "drain"]
        BY <3>2 DEF Measured, At, Reset, Then
      <4>2. CASE d = c
        <5>1. pc'[c] = "drain" /\ i'[c] = 0 /\ Ops + 0 = Ops
          BY <1>0, <4>1
        <5>2. Returned(c) = Ops
          BY <4>1 DEF Returned, Ending
        <5>3. Returned(c)' = Ops + i'[c]
          BY <5>1 DEF Returned, Ending
        <5> QED
          BY <4>2, <5>1, <5>2, <5>3
      <4>3. CASE d # c
        BY <1>0, <4>1, <4>3 DEF Returned
      <4> QED
        BY <4>2, <4>3
    <3>3. CASE Drained(c)
      <4>1. pc[c] = "drain" /\ i' = i /\ pc' = [pc EXCEPT ![c] = "destroy"]
        BY <3>3 DEF Drained, At, local, Then
      <4>2. CASE d = c
        BY <1>0, <4>1, <4>2 DEF Returned
      <4>3. CASE d # c
        BY <1>0, <4>1, <4>3 DEF Returned
      <4> QED
        BY <4>2, <4>3
    <3> QED
      BY <1>7, <3>1, <3>2, <3>3
  <2>3. \A d \in ConsumerRanks : dbuf'[d] + Returned(d)' = dbuf[d] + Returned(d)
    BY <2>1, <2>2
  <2> QED
    BY <1>3, <2>1, <2>3
\* The producer: no consumer moves.
<1>8. ASSUME Warmup \/ Produce \/ BatchPut \/ Flushed
      PROVE  Arrived' = Arrived + stored' - stored
  <2>1. /\ dbuf' = dbuf /\ \A c \in ConsumerRanks : pc'[c] = pc[c] /\ i'[c] = i[c]
    BY <1>0, <1>8 DEF Warmup, Produce, BatchPut, Flushed, Step, Stay, Then, Reset
  <2>2. \A c \in ConsumerRanks : Returned(c)' = Returned(c)
    BY <2>1 DEF Returned
  <2> QED
    BY <1>2, <2>1, <2>2
<1>9. ASSUME Buffered, rest = 0 PROVE ebuf' + rest' = ebuf + 1
  BY <1>0, <1>9 DEF Buffered, Send
<1>10. ASSUME SendRest, rest = 0 PROVE ebuf' + rest' = ebuf
  BY <1>0, <1>10 DEF SendRest, Send
<1>11. N' = N
  BY DEF N
<1>12. ASSUME Warmup PROVE FillInv'
  <2>1. pc[0] = "warmup" /\ rest = 0 /\ stored' = stored
    BY <1>12 DEF Warmup, At, queue
  <2>2. Arrived' = Arrived /\ Arrived + ebuf = i[0] /\ i[0] =< N
    BY <1>0, <1>1, <1>8, <1>12, <2>1 DEF FillInv, Filling
  <2>3. CASE i[0] < N
    <3>1. Buffered /\ pc'[0] = "warmup" /\ i'[0] = i[0] + 1
      BY <1>0, <1>12, <2>1, <2>3 DEF Warmup, Stay, Step
    <3>2. Arrived' + ebuf' + rest' = i'[0] /\ i'[0] =< N
      <4>1. ebuf' + rest' = ebuf + 1
        BY <1>9, <2>1, <3>1
      <4>2. i[0] \in Nat /\ N \in Nat /\ Arrived \in Nat /\ ebuf \in Nat /\ ebuf' \in Nat /\ rest' \in Nat
        BY <1>0, <1>1
      <4>3. PICK e, r \in Nat : e = ebuf' /\ r = rest'
        BY <4>2
      <4>4. e + r = ebuf + 1
        BY <4>1, <4>3
      <4>5. Arrived + e + r = i[0] + 1 /\ i[0] + 1 =< N
        BY <2>2, <2>3, <4>2, <4>4
      <4> QED
        BY <2>2, <3>1, <4>3, <4>5
    <3> QED
      BY <1>11, <3>1, <3>2 DEF FillInv, Filling
  <2>4. CASE ~(i[0] < N)
    <3>1. SendRest /\ pc'[0] = "flush" /\ i' = i /\ i[0] = N
      BY <1>0, <1>12, <2>2, <2>4 DEF Warmup, Then
    <3>2. Arrived' + ebuf' + rest' = i'[0] /\ i'[0] =< N
      <4>1. ebuf' + rest' = ebuf
        BY <1>10, <2>1, <3>1
      <4>2. i[0] \in Nat /\ N \in Nat /\ Arrived \in Nat /\ ebuf \in Nat /\ ebuf' \in Nat /\ rest' \in Nat
        BY <1>0, <1>1
      <4>3. PICK e, r \in Nat : e = ebuf' /\ r = rest'
        BY <4>2
      <4>4. e + r = ebuf
        BY <4>1, <4>3
      <4>5. Arrived + e + r = i[0]
        BY <2>2, <4>2, <4>4
      <4> QED
        BY <2>2, <3>1, <4>3, <4>5
    <3> QED
      BY <1>11, <3>1, <3>2 DEF FillInv, Filling
  <2> QED
    BY <2>3, <2>4
<1>13. ASSUME Produce PROVE FillInv'
  <2>1. pc[0] = "produce" /\ rest = 0 /\ stored' = stored /\ i[0] =< 2 * N
    BY <1>0, <1>13 DEF Produce, At, queue, SendingInv
  <2>2. Arrived' = Arrived /\ N =< Arrived /\ Arrived + ebuf =< N + i[0]
    BY <1>0, <1>1, <1>8, <1>13, <2>1 DEF FillInv, Filling, Wanted, Starting
  <2>3. CASE i[0] < 2 * N
    <3>1. Buffered /\ pc'[0] = "produce" /\ i'[0] = i[0] + 1
      BY <1>0, <1>13, <2>1, <2>3 DEF Produce, Stay, Step
    <3>2. Arrived' + ebuf' + rest' =< N + i'[0]
      <4>1. ebuf' + rest' = ebuf + 1
        BY <1>9, <2>1, <3>1
      <4>2. i[0] \in Nat /\ N \in Nat /\ Arrived \in Nat /\ ebuf \in Nat /\ ebuf' \in Nat /\ rest' \in Nat
        BY <1>0, <1>1
      <4>3. PICK e, r \in Nat : e = ebuf' /\ r = rest'
        BY <4>2
      <4>4. e + r = ebuf + 1
        BY <4>1, <4>3
      <4>5. Arrived + e + r =< N + (i[0] + 1)
        BY <2>2, <4>2, <4>4
      <4> QED
        BY <2>2, <3>1, <4>3, <4>5
    <3> QED
      BY <1>11, <2>2, <3>1, <3>2 DEF FillInv, Filling, Wanted, Starting
  <2>4. CASE ~(i[0] < 2 * N)
    <3>1. SendRest /\ pc'[0] = "flush" /\ i' = i /\ i[0] # N
      BY <1>0, <1>13, <2>4 DEF Produce, Then
    <3>2. Arrived' + ebuf' + rest' =< 3 * N
      <4>1. ebuf' + rest' = ebuf
        BY <1>10, <2>1, <3>1
      <4>2. i[0] \in Nat /\ N \in Nat /\ Arrived \in Nat /\ ebuf \in Nat /\ ebuf' \in Nat /\ rest' \in Nat
        BY <1>0, <1>1
      <4>3. PICK e, r \in Nat : e = ebuf' /\ r = rest'
        BY <4>2
      <4>4. e + r = ebuf
        BY <4>1, <4>3
      <4>5. Arrived + e + r =< 3 * N
        BY <2>1, <2>2, <4>2, <4>4
      <4> QED
        BY <2>2, <3>1, <4>3, <4>5
    <3> QED
      BY <1>11, <2>2, <3>1, <3>2 DEF FillInv, Filling, Wanted, Starting
  <2> QED
    BY <2>3, <2>4
<1>14. ASSUME BatchPut PROVE FillInv'
  <2>1. /\ rest > 0 /\ ebuf' = ebuf /\ i' = i /\ Offer
        /\ rest' = (IF Full THEN 0 ELSE rest - 1)
        /\ pc[0] \in {"warmup", "flush", "produce"}
    BY <1>0, <1>14 DEF BatchPut, SendingInv
  <2>2. CASE Filling
    <3>1. Arrived + ebuf + rest = i[0] /\ i[0] =< N
      BY <2>2 DEF FillInv
    <3>2. ~Full
      BY <1>0, <1>1, <2>1, <3>1 DEF Full
    <3>3. pc' = pc
      BY <1>14, <3>2 DEF BatchPut, Stay
    <3>4. stored' = stored + 1 /\ rest' = rest - 1 /\ Arrived' = Arrived + 1
      BY <1>1, <1>8, <1>14, <2>1, <3>2 DEF Offer
    <3>5. Arrived' + ebuf' + rest' = i'[0] /\ i'[0] =< N
      <4>1. Arrived + 1 + ebuf + (rest - 1) = Arrived + ebuf + rest
        BY <1>0, <1>1, <2>1
      <4> QED
        BY <2>1, <3>1, <3>4, <4>1
    <3> QED
      BY <1>11, <2>1, <2>2, <3>3, <3>5 DEF FillInv, Filling
  <2>3. CASE ~Filling
    <3>1. N =< Arrived /\ Arrived + ebuf + rest =< Wanted
      BY <2>3 DEF FillInv
    <3>2. pc' = pc
      BY <1>14, <2>3 DEF BatchPut, Stay, Filling
    <3>3. Wanted' = Wanted /\ ~Filling' /\ Wanted \in Nat
      BY <1>0, <1>11, <2>1, <2>3, <3>2 DEF Wanted, Filling
    <3>4. Arrived =< Arrived' /\ Arrived' + ebuf' + rest' =< Arrived + ebuf + rest /\ Arrived' \in Nat
      <4>1. CASE Full
        <5>1. stored' = stored /\ rest' = 0 /\ Arrived' = Arrived
          BY <1>1, <1>8, <1>14, <2>1, <4>1 DEF Offer
        <5>2. \A a, e, r \in Nat : a =< a /\ a + e + 0 =< a + e + r
          OBVIOUS
        <5>3. Arrived' + ebuf + 0 =< Arrived + ebuf + rest
          BY <1>0, <1>1, <5>1, <5>2, Zenon
        <5>4. Arrived =< Arrived' /\ Arrived' \in Nat
          BY <1>1, <5>1
        <5> QED
          BY <2>1, <5>1, <5>3, <5>4, Zenon
      <4>2. CASE ~Full
        <5>1. stored' = stored + 1 /\ rest' = rest - 1 /\ Arrived' = Arrived + 1
          BY <1>1, <1>8, <1>14, <2>1, <4>2 DEF Offer
        <5>2. /\ Arrived =< Arrived + 1 /\ Arrived + 1 \in Nat
              /\ Arrived + 1 + ebuf + (rest - 1) =< Arrived + ebuf + rest
          BY <1>0, <1>1, <2>1
        <5> QED
          BY <2>1, <5>1, <5>2, Zenon
      <4> QED
        BY <4>1, <4>2
    <3>5. N =< Arrived' /\ Arrived' + ebuf' + rest' =< Wanted
      <4>1. PICK a, e, r \in Nat : a = Arrived' /\ e = ebuf' /\ r = rest'
        BY <1>1, <3>4
      <4>2. Arrived =< a /\ a + e + r =< Arrived + ebuf + rest
        BY <3>4, <4>1
      <4>3. N =< a /\ a + e + r =< Wanted
        BY <1>0, <1>1, <3>1, <3>3, <4>2
      <4> QED
        BY <4>1, <4>3
    <3> QED
      BY <1>11, <3>3, <3>5 DEF FillInv
  <2> QED
    BY <2>2, <2>3
<1>15. ASSUME Flushed PROVE FillInv'
  <2>1. /\ pc[0] = "flush" /\ rest = 0 /\ ebuf = 0 /\ UNCHANGED <<stored, ebuf, rest>>
        /\ i[0] \in {N, 2 * N}
    BY <1>0, <1>15 DEF Flushed, At, queue, SendingInv
  <2>2. Arrived' = Arrived
    BY <1>1, <1>8, <1>15, <2>1
  <2>3. CASE i[0] = N
    <3>1. pc'[0] = "produce" /\ i'[0] = 0
      BY <1>0, <1>15, <2>3 DEF Flushed, Then, Reset
    <3>2. Arrived = N
      BY <1>1, <2>1, <2>3 DEF FillInv, Filling
    <3> QED
      BY <1>0, <1>11, <2>1, <2>2, <3>1, <3>2 DEF FillInv, Filling, Wanted, Starting
  <2>4. CASE i[0] # N
    <3>1. pc'[0] = "destroy"
      BY <1>0, <1>15, <2>4 DEF Flushed, Then
    <3>2. N =< Arrived /\ Arrived =< 3 * N
      BY <1>0, <1>1, <2>1, <2>4 DEF FillInv, Filling, Wanted, Starting
    <3> QED
      BY <1>0, <1>1, <1>11, <2>1, <2>2, <3>1, <3>2 DEF FillInv, Filling, Wanted, Starting
  <2> QED
    BY <2>3, <2>4
<1>16. CASE UNCHANGED vars
  BY <1>3, <1>16 DEF vars, life, queue, local, Returned
<1> QED
  BY <1>4, <1>5, <1>6, <1>7, <1>12, <1>13, <1>14, <1>15, <1>16, MicroIs, NeverRefused
     DEF Next, Rank, Producer, Consumer, LifeStep

\* The share of a consumer is the same from beginning to end.
LEMMA ShareStays == Share' = Share
  BY DEF Share, N

\* The queue is emptied behind a consumer that is through.
LEMMA DrainStays ==
  ASSUME Base, [Next]_vars, NEW c \in ConsumerRanks, DrainAt(c), i'[c] = i[c],
         stored' =< stored \/ pc[c] \notin {"destroy"} \cup Ending,
         \/ pc'[c] = pc[c]
         \/ pc[c] \in Starting /\ pc'[c] \in Starting \cup {"main"}
         \/ pc[c] = "main" /\ pc'[c] = "measure"
         \/ pc[c] \in {"destroy"} \cup Ending /\ pc'[c] \in Ending
  PROVE  DrainAt(c)'
<1>1. /\ TypeOK /\ StepsInv /\ stored \in Nat /\ stored' \in Nat /\ DeqBatch \in Nat /\ Ops \in Nat
      /\ NumWindows + 4 \in Int /\ i[c] \in Nat
  <2>1. TypeOK /\ StepsInv /\ TypeOK'
    BY BaseStep DEF Base
  <2>2. stored' \in Nat
    BY <2>1, QueueLifeAssumption DEF TypeOK, LifeTypeOK
  <2> QED
    BY <2>1, <2>2, Constants, QueueTypes DEF TypeOK
<1>2. Share' = Share
  BY ShareStays
<1>3. Passed(NumWindows + 4) => Passed(NumWindows + 4)'
  BY <1>1, PassedStays
<1>4. stored < DeqBatch => stored' < DeqBatch \/ pc[c] \notin {"destroy"} \cup Ending
  BY <1>1
<1>5. pc'[c] \in {"destroy"} \cup Ending => pc[c] \in {"destroy"} \cup Ending
  BY DEF Starting, Ending
<1>6. pc'[c] \in Starting \cup {"main"} => pc[c] \in Starting \cup {"main"}
  BY DEF Starting, Ending
<1>7. pc'[c] = "measure" => i'[c] =< Ops
  <2>1. CASE pc[c] = "main"
    BY <1>1, <2>1 DEF DrainAt
  <2>2. CASE pc[c] # "main"
    BY <2>2 DEF DrainAt, Starting, Ending
  <2> QED
    BY <2>1, <2>2
<1>8. pc'[c] = "drain" => pc[c] = "drain"
  BY DEF Starting, Ending
<1> QED
  BY <1>2, <1>3, <1>4, <1>5, <1>6, <1>7, <1>8 DEF DrainAt

\* While items come in, no consumer is through: it waits for the producer.
LEMMA NoneThrough ==
  ASSUME Base, PlanInv, DrainInv, prog = "micro", Roomy,
         pc[0] \in {"warmup", "flush", "produce"}, NEW c \in ConsumerRanks
  PROVE  pc[c] \notin {"destroy"} \cup Ending
<1>1. SUFFICES ASSUME pc[c] \in {"destroy"} \cup Ending PROVE FALSE
  OBVIOUS
<1>2. NumWindows \in Nat /\ 0 \in Ranks
  BY Constants
<1>3. Len(calls[0]) >= NumWindows + 4
  BY <1>1, <1>2 DEF DrainInv, DrainAt, Passed
<1>4. Made(0) \in {NumWindows + 1, NumWindows + 3}
  BY DEF Made
<1>5. Len(calls[0]) =< Made(0) /\ Len(calls[0]) \in Nat
  BY <1>2, NotAhead
<1> QED
  BY <1>2, <1>3, <1>4, <1>5

\* A consumer that drains goes on when all are past the measurement.
LEMMA AllDrain ==
  ASSUME Base, PlanInv, prog = "micro", Roomy, NEW c \in ConsumerRanks, At(c, "drain")
  PROVE  Passed(NumWindows + 4)
<1>1. c \in Ranks /\ pc[c] = "drain" /\ At(c, pc[c]) /\ 4 \in Nat \ {0}
  BY Constants DEF At
<1>2. Made(c) = NumWindows + 4
  BY <1>1 DEF Made
<1>3. PlanOf(prog, Extra, NumWindows + 4) = "barrier"
  <2>1. 4 \in 1 .. 5
    OBVIOUS
  <2> QED
    BY <2>1, PlanBlocks, Zenon
<1>4. PlanOf(prog, Extra, NumWindows + 4) # "gather"
  BY <1>3
<1> QED
  BY <1>1, <1>2, <1>4, HasPassed

\* What a consumer has done by its step, from step to step.
LEMMA DrainStep ==
  ASSUME Base, PlanInv, DrainInv, prog = "micro", Roomy, [Next]_vars
  PROVE  DrainInv'
<1>0. /\ TypeOK /\ TypeOK' /\ StepsInv /\ PlacesInv /\ SendingInv /\ pc \in [Ranks -> Steps]
      /\ i \in [Ranks -> Nat] /\ stored \in Nat /\ stored' \in Nat
      /\ 0 \in Ranks /\ ConsumerRanks \subseteq Ranks /\ 0 \notin ConsumerRanks
      /\ Ops \in Nat /\ DeqBatch \in Nat
  <2>1. TypeOK /\ TypeOK' /\ StepsInv
    BY BaseStep DEF Base
  <2>2. stored' \in Nat
    BY <2>1, QueueLifeAssumption DEF TypeOK, LifeTypeOK
  <2> QED
    BY <2>1, <2>2, Constants, QueueTypes DEF StepsInv, PlacesInv, TypeOK
<1>a. \A c \in ConsumerRanks : DrainAt(c)
  BY DEF DrainInv
<1>b. ASSUME \A c \in ConsumerRanks : DrainAt(c)' PROVE DrainInv'
  BY <1>b DEF DrainInv
\* Nothing of a consumer changes and no item comes in.
<1>1. ASSUME stored' =< stored,
             \A c \in ConsumerRanks :
               /\ i'[c] = i[c]
               /\ \/ pc'[c] = pc[c]
                  \/ pc[c] \in Starting /\ pc'[c] \in Starting \cup {"main"}
                  \/ pc[c] = "main" /\ pc'[c] = "measure"
                  \/ pc[c] \in {"destroy"} \cup Ending /\ pc'[c] \in Ending
      PROVE  DrainInv'
  BY <1>a, <1>b, <1>1, DrainStays
\* One consumer moves.
<1>2. ASSUME NEW c \in ConsumerRanks, DrainAt(c)', stored' =< stored,
             \A d \in ConsumerRanks \ {c} : i'[d] = i[d] /\ pc'[d] = pc[d]
      PROVE  DrainInv'
  <2>1. \A d \in ConsumerRanks \ {c} : DrainAt(d)'
    BY <1>a, <1>2, DrainStays
  <2> QED
    BY <1>b, <1>2, <2>1
<1>3. ASSUME NEW p \in Ranks, LifeStep(p) PROVE DrainInv'
  <2>1. UNCHANGED <<stored, i>>
    BY <1>3 DEF LifeStep, queue, local
  <2>2. ASSUME NEW q \in Ranks
        PROVE  \/ pc'[q] = pc[q]
               \/ pc[q] \in Starting /\ pc'[q] \in Starting \cup {"main"}
               \/ pc[q] \in {"destroy"} \cup Ending /\ pc'[q] \in Ending
    BY <1>0, <1>3 DEF LifeStep, Life, Enter, Leave, QueueInit, LockAll, QueueDestroy, Free,
                      At, Then, Starting, Ending
  <2>3. stored' =< stored /\ \A c \in ConsumerRanks : i'[c] = i[c]
    BY <1>0, <2>1
  <2> QED
    BY <1>0, <1>1, <2>2, <2>3
<1>4. ASSUME NEW p \in Ranks, Main(p) PROVE DrainInv'
  <2>1. /\ UNCHANGED <<stored, i>> /\ pc[p] = "main"
        /\ pc' = [pc EXCEPT ![p] = IF p = 0 THEN "warmup" ELSE "measure"]
    BY <1>4 DEF Main, At, Then, queue
  <2>2. stored' =< stored
    BY <1>0, <2>1
  <2>3. \A c \in ConsumerRanks : pc'[c] = pc[c] \/ (pc[c] = "main" /\ pc'[c] = "measure")
    BY <1>0, <2>1
  <2> QED
    BY <1>1, <2>1, <2>2, <2>3
<1>5. ASSUME NEW c \in ConsumerRanks, Measure(c) \/ Drain(c) PROVE DrainInv'
  <2>1. DequeueWrapper(c) /\ Step(c) /\ pc' = pc
    BY <1>5 DEF Measure, Drain, Stay
  <2>2. stored' =< stored
    <3>1. PICK r \in 0 .. DeqBatch : stored' = stored - r
      BY <1>0, <2>1, WrapperDoes
    <3> QED
      BY <1>0, <3>1
  <2>3. i'[c] = i[c] + 1 /\ \A d \in ConsumerRanks \ {c} : i'[d] = i[d]
    BY <1>0, <2>1 DEF Step
  <2>4. CASE Measure(c)
    <3>1. pc[c] = "measure" /\ i[c] < Ops /\ i[c] \in Nat
      BY <1>0, <2>4 DEF Measure, At
    <3>2. i'[c] =< Ops
      BY <1>0, <2>3, <3>1
    <3>3. DrainAt(c)'
      BY <2>1, <3>1, <3>2 DEF DrainAt, Starting, Ending
    <3> QED
      BY <1>2, <2>1, <2>2, <2>3, <3>3
  <2>5. CASE Drain(c)
    <3>1. At(c, "drain")
      BY <2>5 DEF Drain
    <3>2. Passed(NumWindows + 4)' /\ pc'[c] = "drain"
      <4>1. NumWindows + 4 \in Int
        BY Constants
      <4> QED
        BY <1>0, <2>1, <3>1, <4>1, AllDrain, PassedStays DEF At
    <3>3. DrainAt(c)'
      BY <3>2 DEF DrainAt, Starting, Ending
    <3> QED
      BY <1>2, <2>1, <2>2, <2>3, <3>3
  <2> QED
    BY <1>5, <2>4, <2>5
<1>6. ASSUME NEW c \in ConsumerRanks, Measured(c) PROVE DrainInv'
  <2>1. /\ stored' = stored /\ pc' = [pc EXCEPT ![c] = "drain"] /\ i' = [i EXCEPT ![c] = 0]
    BY <1>6 DEF Measured, Then, Reset, queue
  <2>2. /\ pc'[c] = "drain" /\ i'[c] = 0 /\ stored' =< stored
        /\ \A d \in ConsumerRanks \ {c} : i'[d] = i[d] /\ pc'[d] = pc[d]
    BY <1>0, <2>1
  <2>3. DrainAt(c)'
    BY <2>2 DEF DrainAt, Starting, Ending
  <2> QED
    BY <1>2, <2>2, <2>3
<1>7. ASSUME NEW c \in ConsumerRanks, Drained(c) PROVE DrainInv'
  <2>1. /\ stored' = stored /\ pc' = [pc EXCEPT ![c] = "destroy"] /\ i' = i
        /\ At(c, "drain") /\ (i[c] = Share \/ 0 \in Obtainable(DeqBatch))
    BY <1>7 DEF Drained, Then, queue, local, NothingFetched
  <2>2. /\ pc'[c] = "destroy" /\ i'[c] = i[c] /\ stored' =< stored
        /\ \A d \in ConsumerRanks \ {c} : i'[d] = i[d] /\ pc'[d] = pc[d]
    BY <1>0, <2>1
  <2>3. Passed(NumWindows + 4)'
    <3>1. NumWindows + 4 \in Int
      BY Constants
    <3> QED
      BY <1>0, <2>1, <3>1, AllDrain, PassedStays
  <2>4. i'[c] = Share' \/ stored' < DeqBatch
    BY <1>0, <2>1, ShareStays, QueueTypes
  <2>5. DrainAt(c)'
    BY <2>2, <2>3, <2>4 DEF DrainAt, Starting, Ending
  <2> QED
    BY <1>2, <2>2, <2>5
<1>8. ASSUME BatchPut PROVE DrainInv'
  <2>1. pc[0] \in {"warmup", "flush", "produce"}
    BY <1>0, <1>8 DEF BatchPut, SendingInv
  <2>2. \A c \in ConsumerRanks : i'[c] = i[c] /\ pc'[c] = pc[c]
    BY <1>0, <1>8 DEF BatchPut, Then, Stay
  <2> QED
    BY <1>a, <1>b, <2>1, <2>2, NoneThrough, DrainStays
<1>9. ASSUME Warmup \/ Produce \/ Flushed PROVE DrainInv'
  <2>1. stored' =< stored /\ \A c \in ConsumerRanks : i'[c] = i[c] /\ pc'[c] = pc[c]
    BY <1>0, <1>9 DEF Warmup, Produce, Flushed, Step, Stay, Then, Reset, queue
  <2> QED
    BY <1>1, <2>1
<1>10. CASE UNCHANGED vars \/ \E c \in ConsumerRanks : Retry(c)
  BY <1>0, <1>1, <1>10 DEF Retry, vars, life, queue, local
<1> QED
  BY <1>3, <1>4, <1>5, <1>6, <1>7, <1>8, <1>9, <1>10, MicroIs, NeverRefused
     DEF Next, Rank, Producer, Consumer, LifeStep

\* The items and the phases of the micro benchmark, from step to step.
LEMMA MicroStep ==
  ASSUME Base, PlanInv, MicroInv, [Next]_vars
  PROVE  MicroInv'
<1>1. prog' = prog /\ capacity' = capacity
  BY SameProgram DEF Base
<1>2. SUFFICES ASSUME prog = "micro", Roomy PROVE FillInv' /\ DrainInv'
  BY <1>1 DEF MicroInv, Roomy, N
<1>3. FillInv /\ DrainInv
  BY <1>2 DEF MicroInv
<1> QED
  BY <1>2, <1>3, FillStep, DrainStep

\* At the beginning nothing has arrived.
LEMMA MicroInit == ASSUME Init PROVE MicroInv
<1>1. /\ pc = [p \in Ranks |-> "init"] /\ stored = 0 /\ ebuf = 0 /\ rest = 0
      /\ i = [p \in Ranks |-> 0] /\ dbuf = [c \in ConsumerRanks |-> 0]
  BY DEF Init, LifeInit
<1>2. /\ pc[0] = "init" /\ i[0] = 0 /\ N \in Nat
      /\ \A c \in ConsumerRanks : pc[c] = "init" /\ i[c] = 0 /\ dbuf[c] = 0
  BY <1>1, Constants
<1>3. Arrived = 0
  <2>1. \A c \in ConsumerRanks : Fetched[c] = 0
    <3>1. \A c \in ConsumerRanks : Returned(c) = 0
      BY <1>2 DEF Returned, Ending
    <3> QED
      BY <1>2, <3>1 DEF Fetched
  <2>2. Sum(Fetched, ConsumerRanks) = NumConsumers * 0
    BY <2>1, RanksFinite, SumOfEqual
  <2>3. NumConsumers * 0 = 0
    BY Constants, Z3
  <2> QED
    BY <1>1, <2>2, <2>3 DEF Arrived
<1>4. FillInv
  BY <1>1, <1>2, <1>3 DEF FillInv, Filling, Starting
<1>5. DrainInv
  BY <1>2 DEF DrainInv, DrainAt, Starting, Ending
<1> QED
  BY <1>4, <1>5 DEF MicroInv

\* The shares of the consumers are whole, and all of what is produced.
LEMMA Shares == Share = 2 * Ops /\ NumConsumers * Ops = N /\ NumConsumers * (3 * Ops) = 3 * N
<1>1. NumConsumers \in Nat \ {0} /\ Ops \in Nat
  BY Constants, QueueLifeAssumption
<1>2. \A a \in Nat \ {0}, b \in Nat : 2 * (a * b) = a * (2 * b) /\ a * (3 * b) = 3 * (a * b)
  BY Z3
<1>3. \A a \in Nat \ {0}, b \in Nat : (a * b) \div a = b
  BY Z3
<1>4. 2 * N = NumConsumers * (2 * Ops) /\ 2 * Ops \in Nat
  BY <1>1, <1>2 DEF N
<1>5. (NumConsumers * (2 * Ops)) \div NumConsumers = 2 * Ops
  BY <1>1, <1>3, <1>4
<1> QED
  BY <1>1, <1>2, <1>4, <1>5 DEF N, Share

\* What all consumers have fetched is what has arrived, when none is stored.
LEMMA NothingMissing ==
  ASSUME Base, PlanInv, MicroInv, Roomy, NEW c \in ConsumerRanks, At(c, "measure"), i[c] < Ops,
         NothingFetched(c), stored = 0, \A d \in ConsumerRanks \ {c} : dbuf[d] = 0
  PROVE  FALSE
<1>0. /\ TypeOK /\ c \in Ranks /\ pc[c] = "measure" /\ prog = "micro" /\ N \in Nat /\ Ops \in Nat
      /\ i[c] \in Nat /\ dbuf[c] = 0 /\ 0 \in Ranks /\ c # 0 /\ NumWindows \in Nat
  BY Constants, CallTypesHold DEF Base, At, StepsInv, PlacesInv, Working, Starting, Ending, Tests, TypeOK, NothingFetched
<1>1. FillInv /\ DrainInv
  BY <1>0 DEF MicroInv
\* The producer has warmed up before this consumer measures.
<1>2. Passed(NumWindows + 3) /\ Len(calls[c]) = NumWindows + 3
  <2>1. Made(c) = NumWindows + 3 /\ At(c, pc[c]) /\ 3 \in Nat \ {0}
    BY <1>0 DEF Made
  <2>2. PlanOf(prog, Extra, NumWindows + 3) = "barrier"
    <3>1. 3 \in 1 .. 5
      OBVIOUS
    <3> QED
      BY <1>0, <3>1, PlanBlocks, Zenon
  <2>3. PlanOf(prog, Extra, NumWindows + 3) # "gather"
    BY <2>2
  <2> QED
    BY <1>0, <2>1, <2>3, HasPassed
<1>3. N =< Arrived
  <2>1. Len(calls[0]) >= NumWindows + 3 /\ Len(calls[0]) \in Nat /\ Len(calls[0]) =< Made(0)
    BY <1>0, <1>2, NotAhead DEF Passed
  <2>2. ASSUME Filling PROVE Made(0) \in {0, NumWindows, NumWindows + 1}
    BY <2>2 DEF Filling, Made, Starting
  <2>3. ~Filling
    BY <1>0, <2>1, <2>2
  <2> QED
    BY <1>1, <2>3 DEF FillInv
\* No consumer is further than the end of its measurement.
<1>4. ~Passed(NumWindows + 4)
  BY <1>0, <1>2 DEF Passed
<1>5. ASSUME NEW d \in ConsumerRanks PROVE Returned(d) =< Ops
  <2>1. pc[d] \notin {"destroy"} \cup Ending /\ (pc[d] = "drain" => ~(i[d] > 0))
    BY <1>1, <1>4 DEF DrainInv, DrainAt
  <2>2. pc[d] = "measure" => i[d] =< Ops
    BY <1>1 DEF DrainInv, DrainAt
  <2>3. i[d] \in Nat
    BY <1>0, Constants DEF TypeOK
  <2>4. CASE pc[d] = "measure"
    BY <2>2, <2>4 DEF Returned, Ending
  <2>5. CASE pc[d] = "drain"
    <3>1. Returned(d) = Ops + i[d] /\ i[d] = 0
      BY <2>1, <2>3, <2>5 DEF Returned
    <3> QED
      BY <1>0, <3>1
  <2>6. CASE pc[d] \notin {"measure", "drain"}
    <3>1. Returned(d) = 0
      BY <2>1, <2>6 DEF Returned
    <3> QED
      BY <1>0, <3>1
  <2> QED
    BY <2>4, <2>5, <2>6
<1> DEFINE h == [d \in ConsumerRanks |-> IF d = c THEN i[c] ELSE Ops]
           k == [d \in ConsumerRanks |-> Ops]
<1>6. \A d \in ConsumerRanks : Fetched[d] \in Int /\ h[d] \in Int /\ Fetched[d] =< h[d]
  <2>1. ASSUME NEW d \in ConsumerRanks PROVE Fetched[d] \in Int /\ h[d] \in Int /\ Fetched[d] =< h[d]
    <3>1. Fetched[d] = dbuf[d] + Returned(d) /\ dbuf[d] = 0 /\ Returned(d) \in Nat
      BY <1>0, ArrivedType
    <3>2. CASE d = c
      BY <1>0, <3>1, <3>2 DEF Returned, Ending
    <3>3. CASE d # c
      BY <1>0, <1>5, <3>1, <3>3
    <3> QED
      BY <3>2, <3>3
  <2> QED
    BY <2>1
<1>7. Sum(Fetched, ConsumerRanks) =< Sum(h, ConsumerRanks)
  BY <1>6, RanksFinite, SumGrows
<1>8. Sum(h, ConsumerRanks) = Sum(k, ConsumerRanks) + i[c] - Ops
  <2>1. /\ \A d \in ConsumerRanks : k[d] \in Int /\ h[d] \in Int
        /\ \A d \in ConsumerRanks \ {c} : h[d] = k[d]
        /\ h[c] = i[c] /\ k[c] = Ops
    BY <1>0
  <2> HIDE DEF h, k
  <2> QED
    BY <2>1, RanksFinite, SumChanges, SMTT(30)
<1>9. Sum(k, ConsumerRanks) = N
  <2>1. Sum(k, ConsumerRanks) = NumConsumers * Ops
    <3>1. \A d \in ConsumerRanks : k[d] = Ops
      OBVIOUS
    <3> HIDE DEF k
    <3> QED
      BY <1>0, <3>1, RanksFinite, SumOfEqual
  <2> QED
    BY <2>1 DEF N
<1> HIDE DEF h, k
<1>10. Arrived = Sum(Fetched, ConsumerRanks) /\ Sum(Fetched, ConsumerRanks) \in Nat
  BY <1>0, ArrivedType DEF Arrived
<1>11. Sum(h, ConsumerRanks) = N + i[c] - Ops
  BY <1>8, <1>9
<1> QED
  BY <1>0, <1>3, <1>7, <1>10, <1>11

\* A consumer measures while items are left, here or in other buffers.
LEMMA MeasureHolds == ASSUME Base, PlanInv, MicroInv PROVE EmptyOnlyByPrefetch
<1>1. SUFFICES ASSUME NEW c \in ConsumerRanks, Roomy, At(c, "measure"), i[c] < Ops, NothingFetched(c),
                      ~(stored > 0), ~ \E d \in ConsumerRanks \ {c} : dbuf[d] > 0
               PROVE  FALSE
  BY DEF EmptyOnlyByPrefetch
<1>2. TypeOK /\ stored \in Nat /\ \A d \in ConsumerRanks : dbuf[d] \in Nat
  BY Constants, QueueTypes DEF Base, TypeOK
<1>3. stored = 0 /\ \A d \in ConsumerRanks \ {c} : dbuf[d] = 0
  BY <1>1, <1>2
<1> QED
  BY <1>1, <1>3, NothingMissing

\* The consumers that take their whole shares leave nothing.
LEMMA DrainHolds == ASSUME Base, PlanInv, MicroInv PROVE DrainLeavesLess
<1>1. SUFFICES ASSUME prog = "micro", Roomy, memory = "freed", ~(stored < DeqBatch) PROVE FALSE
  BY DEF DrainLeavesLess
<1>2. /\ TypeOK /\ 0 \in Ranks /\ ConsumerRanks \subseteq Ranks /\ stored \in Nat /\ DeqBatch \in Nat \ {0}
      /\ N \in Nat /\ Ops \in Nat /\ FillInv /\ DrainInv /\ pc[0] = "ended"
      /\ \A c \in ConsumerRanks : pc[c] \in Ending
  BY <1>1, Constants, QueueTypes DEF Base, LifeInv, MemoryInv, MicroInv
<1>3. \A c \in ConsumerRanks : i[c] = Share
  BY <1>1, <1>2 DEF DrainInv, DrainAt
<1>4. Arrived =< 3 * N
  <2>1. ~Filling /\ Wanted = 3 * N
    BY <1>2 DEF Filling, Wanted, Starting
  <2>2. Arrived + ebuf + rest =< 3 * N /\ ebuf \in Nat /\ rest \in Nat /\ Arrived \in Nat
    BY <1>2, <2>1, Constants, ArrivedType DEF FillInv, TypeOK
  <2> QED
    BY <1>2, <2>2
<1> DEFINE k == [c \in ConsumerRanks |-> 3 * Ops]
<1>5. \A c \in ConsumerRanks : k[c] \in Int /\ Fetched[c] \in Int /\ k[c] =< Fetched[c]
  <2>1. ASSUME NEW c \in ConsumerRanks PROVE k[c] \in Int /\ Fetched[c] \in Int /\ k[c] =< Fetched[c]
    <3>1. Fetched[c] = dbuf[c] + Returned(c) /\ Fetched[c] \in Nat /\ dbuf[c] \in Nat
      BY <1>2, ArrivedType, Constants DEF TypeOK
    <3>2. Returned(c) = Ops + i[c]
      BY <1>2 DEF Returned, Ending
    <3>3. i[c] = 2 * Ops
      BY <1>3, Shares
    <3> QED
      BY <1>2, <3>1, <3>2, <3>3
  <2> QED
    BY <2>1
<1>6. Sum(k, ConsumerRanks) = 3 * N
  <2>1. Sum(k, ConsumerRanks) = NumConsumers * (3 * Ops)
    <3>1. (\A c \in ConsumerRanks : k[c] = 3 * Ops) /\ 3 * Ops \in Int
      BY <1>2
    <3> HIDE DEF k
    <3> QED
      BY <3>1, RanksFinite, SumOfEqual
  <2> QED
    BY <2>1, Shares
<1> HIDE DEF k
<1>7. Sum(k, ConsumerRanks) =< Sum(Fetched, ConsumerRanks)
  BY <1>5, RanksFinite, SumGrows
<1>8. Arrived = stored + Sum(Fetched, ConsumerRanks) /\ Sum(Fetched, ConsumerRanks) \in Nat
  BY <1>2, ArrivedType DEF Arrived
<1> QED
  BY <1>1, <1>2, <1>4, <1>6, <1>7, <1>8
-----------------------------------------------------------------------------
\* The steps, the plan and the items of every program, step by step.
LEMMA ProgramsHold == FairSpec => [](Base /\ PlanInv /\ MicroInv)
<1>1. Init => Base /\ PlanInv /\ MicroInv
  BY BaseInit, PlanInit, MicroInit
<1>2. (Base /\ PlanInv /\ MicroInv) /\ [Next]_vars => (Base /\ PlanInv /\ MicroInv)'
  BY BaseStep, PlanStep, MicroStep
<1> QED
  BY <1>1, <1>2, PTL DEF FairSpec

\* No two processes ever disagree about which collective call comes next,
\* although the tests' aggregation calls more when nobody finished and the
\* micro benchmark's producer gives its warmup up when an item is refused.
THEOREM CollectivesMatchHolds == FairSpec => []CollectivesMatch
<1>1. Base /\ PlanInv /\ MicroInv => CollectivesMatch
  BY PlanAgrees
<1> QED
  BY <1>1, ProgramsHold, PTL

\* spmc_queue_destroy frees the memory behind the windows when no process can
\* reach it any more, also when the micro benchmark's warmup gives up.  Only the
\* demo's producer takes the memory with it, and only when it is refused an item.
THEOREM MemoryOutlivesEpochsHolds == FairSpec => []MemoryOutlivesEpochs
<1>1. ASSUME Base, PlanInv PROVE MemoryOutlivesEpochs
  <2>1. Roomy => pc[0] # "exited"
    BY <1>1, Constants DEF PlanInv, OnPlan
  <2>2. \A p \in Ranks : locked[p] => memory = "allocated" \/ pc[0] = "exited"
    BY <1>1, LifeIsSafe DEF Base
  <2> QED
    BY <2>1, <2>2 DEF MemoryOutlivesEpochs
<1> QED
  BY <1>1, ProgramsHold, PTL

\* A consumer of the micro benchmark finds the queue empty while it measures
\* only when others prefetched, and the drain leaves less than a batch.
THEOREM PhasesHoldHolds == FairSpec => []PhasesHold
<1>1. Base /\ PlanInv /\ MicroInv => PhasesHold
  BY MeasureHolds, DrainHolds DEF PhasesHold
<1> QED
  BY <1>1, ProgramsHold, PTL
=============================================================================
