----------------------------- MODULE QueueLife -----------------------------
(***************************************************************************)
(* What the programs share: the collective calls of MPI, the windows of    *)
(* mpi_lib, spmc_queue_init and spmc_queue_destroy, and a queue that loses *)
(* nothing in the place of the seven which the other modules are about.    *)
(* Rank 0 is the producer and owns the memory behind the windows.          *)
(***************************************************************************)
EXTENDS Integers, Sequences

CONSTANTS NumConsumers,
          NumWindows,   \* windows of the queue: 2 to 5
          Capacities    \* the capacities of the queue that are looked at

ASSUME QueueLifeAssumption ==
  /\ NumConsumers \in Nat \ {0} /\ NumWindows \in Nat \ {0} /\ Capacities \subseteq Nat

VARIABLES
  pc,       \* where each process is
  script,   \* the collective calls it makes before it goes on
  calls,    \* history: the collective calls it made, the current one included
  inside,   \* it waits in the last of them
  memory,   \* the producer's memory: "none", "allocated", "freed", or "gone"
  valid,    \* each process's windows that are valid
  locked,   \* it holds all of them locked
  capacity, stored    \* the queue: what it can hold, and what it holds

life == <<pc, script, calls, inside, memory, valid, locked>>
queue == <<capacity, stored>>

Ranks == 0 .. NumConsumers
ConsumerRanks == 1 .. NumConsumers
Times(n, call) == [k \in 1 .. n |-> call]

LifeInit == /\ pc = [p \in Ranks |-> "init"]
            /\ script = [p \in Ranks |-> <<>>]
            /\ calls = [p \in Ranks |-> <<>>]
            /\ inside = [p \in Ranks |-> FALSE]
            /\ memory = "none"
            /\ valid = [p \in Ranks |-> 0]
            /\ locked = [p \in Ranks |-> FALSE]
            /\ capacity \in Capacities /\ stored = 0
-----------------------------------------------------------------------------
(* Collective calls *)

At(p, step) == pc[p] = step /\ script[p] = <<>> /\ ~inside[p]

\* The process makes the collective calls of seq, and goes on at step.
Then(p, step, seq) == /\ pc' = [pc EXCEPT ![p] = step]
                      /\ script' = [script EXCEPT ![p] = seq]

\* MPI_Gather holds nobody but its root; the other calls hold everybody.
Enter(p) ==
  LET call == Head(script[p])
  IN /\ script[p] # <<>> /\ ~inside[p]
     /\ script' = [script EXCEPT ![p] = Tail(@)]
     /\ calls' = [calls EXCEPT ![p] = Append(@, call)]
     /\ inside' = [inside EXCEPT ![p] = call # "gather" \/ p = 0]
     /\ valid' = [valid EXCEPT ![p] = CASE call = "win_create" -> @ + 1
                                        [] call = "win_free"   -> @ - 1
                                        [] OTHER               -> @]
     /\ UNCHANGED <<pc, memory, locked>>

\* A call is over when every process has made it; calls that differ never are.
Leave(p) == LET n == Len(calls[p])
            IN /\ inside[p]
               /\ \A q \in Ranks : Len(calls[q]) >= n /\ calls[q][n] = calls[p][n]
               /\ inside' = [inside EXCEPT ![p] = FALSE]
               /\ UNCHANGED <<pc, script, calls, memory, valid, locked>>
-----------------------------------------------------------------------------
(* spmc_queue_init, spmc_queue_destroy *)

QueueInit(p) == /\ At(p, "init")
                /\ memory' = IF p = 0 THEN "allocated" ELSE memory
                /\ Then(p, "lock_all", Times(NumWindows, "win_create"))
                /\ UNCHANGED <<calls, inside, valid, locked>>

LockAll(p) == /\ At(p, "lock_all")
              /\ locked' = [locked EXCEPT ![p] = TRUE]
              /\ Then(p, "main", <<>>)
              /\ UNCHANGED <<calls, inside, memory, valid>>

\* Variant: the producer frees its memory before the windows.
QueueDestroyEarly(p) == /\ At(p, "destroy")
                        /\ locked' = [locked EXCEPT ![p] = FALSE]
                        /\ memory' = IF p = 0 THEN "freed" ELSE memory
                        /\ Then(p, "free", Times(NumWindows, "win_free"))
                        /\ UNCHANGED <<calls, inside, valid>>

QueueDestroy(p) == /\ At(p, "destroy")
                   /\ locked' = [locked EXCEPT ![p] = FALSE]
                   /\ Then(p, "free", Times(NumWindows, "win_free"))
                   /\ UNCHANGED <<calls, inside, memory, valid>>

Free(p) == /\ At(p, "free")
           /\ memory' = IF p = 0 THEN "freed" ELSE memory
           /\ Then(p, "ended", <<"finalize">>)
           /\ UNCHANGED <<calls, inside, valid, locked>>

\* Process p returns from main without these: it is gone with its windows and,
\* when it is the producer, with the memory behind everybody's.
Exit(p) == /\ memory' = IF p = 0 THEN "gone" ELSE memory
           /\ valid' = [valid EXCEPT ![p] = 0]
           /\ locked' = [locked EXCEPT ![p] = FALSE]
           /\ Then(p, "exited", <<>>)
           /\ UNCHANGED <<calls, inside>>

Life(p) == Enter(p) \/ Leave(p) \/ QueueInit(p) \/ LockAll(p) \/ QueueDestroy(p) \/ Free(p)

Ended(p) == At(p, "ended")
-----------------------------------------------------------------------------
(* The queue: it takes an item unless it is full; a dequeue call that asks  *)
(* for k gets some of them, or finds fewer than k and may get none.         *)

Full == stored = capacity
Offer == stored' = (IF Full THEN stored ELSE stored + 1) /\ UNCHANGED capacity

Obtainable(k) == IF stored >= k THEN 1 .. k ELSE 0 .. stored
Take(r) == stored' = stored - r /\ UNCHANGED capacity
-----------------------------------------------------------------------------
LifeTypeOK ==
  LET Call == {"barrier", "gather", "allreduce", "win_create", "win_free", "finalize"}
  IN /\ script \in [Ranks -> Seq(Call)] /\ calls \in [Ranks -> Seq(Call)]
     /\ inside \in [Ranks -> BOOLEAN] /\ locked \in [Ranks -> BOOLEAN]
     /\ memory \in {"none", "allocated", "freed", "gone"}
     /\ valid \in [Ranks -> 0 .. NumWindows]
     /\ capacity \in Capacities /\ stored \in 0 .. capacity
=============================================================================
