--------------------------- MODULE RewardPipeline ----------------------------
(***************************************************************************)
(* How the rows of a batch are scored by a reward model while the agent    *)
(* loops run (verl/experimental/agent_loop/agent_loop.py):                 *)
(*                                                                         *)
(*   AgentLoopManager.generate_sequences chunks the batch over the         *)
(*     AgentLoopWorkers and waits for them all;                            *)
(*   an AgentLoopWorker runs its rows as coroutines; a row whose loop is   *)
(*     over asks the worker's RewardManagerWorker for its score;           *)
(*   the RewardManagerWorker runs the request on a pool of threads, and    *)
(*     the thread blocks until the BatchExecutor has answered;             *)
(*   the BatchExecutor, one for all workers, collects requests into        *)
(*     batches that the reward model's ranks can share out evenly.         *)
(*                                                                         *)
(* These are processes that share nothing but messages and futures, so any *)
(* two of their steps may come in any order.                               *)
(***************************************************************************)
EXTENDS DataProto

CONSTANTS
    NumWorkers,   \* config.agent.num_workers
    Sizes,        \* lengths of the batch
    Threads,      \* threads of a RewardManagerWorker's default executor
    DpRank,       \* [ranks of rm_wg -> Nat], the rank's data-parallel rank
    DpSize,       \* how many data-parallel ranks there are
    Reports,      \* [ranks of rm_wg -> BOOLEAN], does its output count?
    Faults        \* may agent loops, the reward model and the manager raise?

WorldSize == Len(DpRank)

ASSUME PipelineAssumption ==
    /\ {NumWorkers, Threads, DpSize} \subseteq Nat \ {0}
    /\ Sizes \subseteq Nat \ {0} /\ Sizes # {}
    /\ WorldSize \in Nat \ {0}
    /\ DpRank \in [1..WorldSize -> 0..DpSize - 1]
    /\ Reports \in [1..WorldSize -> BOOLEAN]
    /\ Faults \in BOOLEAN

VARIABLES
    size,      \* len(prompts)
    manager,   \* where generate_sequences is
    row,       \* where each row's coroutine or request is
    queue,     \* BatchExecutor._q
    items,     \* the batch the executor is collecting
    executor,  \* where _worker_loop is
    result     \* what each row's future holds, 0 for nothing

vars == <<size, manager, row, queue, items, executor, result>>

-----------------------------------------------------------------------------
Rows == 1..size

\* A row's request occupies a thread from the moment the thread takes it until
\* its future is resolved and the reward manager has run.
OnThread == {"queued", "batched", "answered", "errored"}
Places == {"idle", "looping", "pool", "scored", "failed"} \cup OnThread

\* The rows of a worker: chunk(len(self.agent_loop_workers)).
WorkerOf(r) == ((r - 1) \div (size \div NumWorkers)) + 1

Init == /\ size \in Sizes
        /\ manager = "called"
        /\ row = [r \in Rows |-> "idle"]
        /\ queue = <<>> /\ items = <<>> /\ executor = "first"
        /\ result = [r \in Rows |-> 0]

Moves(r, from, to) == row[r] = from /\ row' = [row EXCEPT ![r] = to]

-----------------------------------------------------------------------------
\* The manager

\* A slip: only the workers' share is checked.
SplitsOverWorkers(n) == Divides(NumWorkers, n)

\* The length must suit the reward model's ranks, and chunk() asserts that it
\* suits the workers.
Splits(n) == Divides(WorldSize, n) /\ Divides(NumWorkers, n)

Call == /\ manager = "called"
        /\ IF Splits(size)
           THEN manager' = "waiting" /\ row' = [r \in Rows |-> "looping"]
           ELSE manager' = "raised" /\ UNCHANGED row
        /\ UNCHANGED <<size, queue, items, executor, result>>

\* ray.get, and the worker's gather, raise as soon as one row has.
Raise == /\ manager = "waiting"
         /\ \E r \in Rows : row[r] = "failed"
         /\ manager' = "raised"
         /\ UNCHANGED <<size, row, queue, items, executor, result>>

Return == /\ manager = "waiting"
          /\ \A r \in Rows : row[r] = "scored"
          /\ manager' = "returned"
          /\ UNCHANGED <<size, row, queue, items, executor, result>>

-----------------------------------------------------------------------------
\* A row

LoopReturns(r) == /\ Moves(r, "looping", "pool")
                  /\ UNCHANGED <<size, manager, queue, items, executor, result>>

LoopRaises(r) == /\ Faults /\ Moves(r, "looping", "failed")
                 /\ UNCHANGED <<size, manager, queue, items, executor, result>>

Busy(w) == {r \in Rows : WorkerOf(r) = w /\ row[r] \in OnThread}

\* A thread takes the request and blocks in ray.get; submit_task, on the event
\* loop of the executor's actor, puts the row in the queue.
Submit(r) == /\ Moves(r, "pool", "queued")
             /\ Cardinality(Busy(WorkerOf(r))) < Threads
             /\ queue' = Append(queue, r)
             /\ UNCHANGED <<size, manager, items, executor, result>>

\* The future is resolved; the thread runs the reward manager and is free.
Scored(r) == /\ Moves(r, "answered", "scored")
             /\ UNCHANGED <<size, manager, queue, items, executor, result>>

RewardRaises(r) == /\ \/ Moves(r, "errored", "failed")
                      \/ Faults /\ Moves(r, "answered", "failed")
                   /\ UNCHANGED <<size, manager, queue, items, executor, result>>

RowStep(r) == \/ LoopReturns(r) \/ LoopRaises(r) \/ Submit(r)
              \/ Scored(r) \/ RewardRaises(r)

-----------------------------------------------------------------------------
\* The executor's thread

Take(next) == /\ queue # <<>>
              /\ items' = Append(items, Head(queue))
              /\ queue' = Tail(queue)
              /\ row' = [row EXCEPT ![Head(queue)] = "batched"]
              /\ executor' = next

First == /\ executor = "first" /\ Take("drain")
         /\ UNCHANGED <<size, manager, result>>

Drain == /\ executor = "drain" /\ Take("drain")
         /\ UNCHANGED <<size, manager, result>>

WholeBatch(batch) == Divides(WorldSize, Len(batch))

DrainEnds == /\ executor = "drain" /\ queue = <<>>
             /\ executor' = IF WholeBatch(items) THEN "compute" ELSE "fill"
             /\ UNCHANGED <<size, manager, row, queue, items, result>>

Fill == /\ executor = "fill"
        /\ Take(IF WholeBatch(items') THEN "compute" ELSE "fill")
        /\ UNCHANGED <<size, manager, result>>

\* The reward model's answer to a row is the row itself.
Score(batch) == batch

\* batch_fn: concat, compute_rm_score on all ranks, split(1).
BatchFn(batch) ==
    LET shares == Dispatch(DpRank, DpSize, batch)
    IN  Collect(Reports, [rank \in DOMAIN shares |-> Score(shares[rank])])

Resolve(place, answer(_)) ==
    /\ row' = [r \in Rows |-> IF row[r] = "batched" THEN place ELSE row[r]]
    /\ result' = [r \in Rows |-> IF row[r] = "batched" THEN answer(r) ELSE result[r]]
    /\ items' = <<>> /\ executor' = "first"
    /\ UNCHANGED <<size, manager, queue>>

\* zip(futs, results): the i-th future is given the i-th result.
Compute == /\ executor = "compute"
           /\ LET results == BatchFn(items)
                  Place(r) == CHOOSE i \in DOMAIN items : items[i] = r
              IN  Resolve("answered", LAMBDA r : results[Place(r)])

ComputeRaises == /\ Faults /\ executor = "compute"
                 /\ Resolve("errored", LAMBDA r : 0)

ExecutorStep == First \/ Drain \/ DrainEnds \/ Fill \/ Compute \/ ComputeRaises

-----------------------------------------------------------------------------
Next == Call \/ Raise \/ Return \/ ExecutorStep \/ \E r \in Rows : RowStep(r)

Spec == Init /\ [][Next]_vars

\* Ray delivers every call and schedules every process, the agent loops end and
\* the reward model answers.
FairSpec == /\ Spec
            /\ WF_vars(Call \/ Raise \/ Return) /\ WF_vars(ExecutorStep)
            /\ WF_vars(\E r \in Rows : RowStep(r))

-----------------------------------------------------------------------------
TypeOK ==
    /\ size \in Sizes
    /\ manager \in {"called", "waiting", "returned", "raised"}
    /\ row \in [Rows -> Places]
    /\ queue \in Seq(Rows) /\ items \in Seq(Rows)
    /\ executor \in {"first", "drain", "fill", "compute"}
    /\ result \in [Rows -> Nat]

\* Every row is given its own score, through the executor's batches, the ranks'
\* shares and the futures, and all rows of a batch that returns have one.
OwnScore ==
    /\ \A r \in Rows : row[r] \in {"answered", "scored"} => result[r] = r
    /\ manager = "returned" => \A r \in Rows : result[r] = r

\* generate_sequences returns or raises: the executor, which waits until its
\* batch is whole, and the threads, which wait for the executor, do not wait
\* for each other.
GenerateEnds == <>(manager \in {"returned", "raised"})
=============================================================================
