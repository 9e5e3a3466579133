------------------------ MODULE HybridEngineProofs --------------------------
(***************************************************************************)
(* Proofs about HybridEngine, for any number of workers, buckets, attempts *)
(* and steps, in every configuration: type correctness, the trainer's      *)
(* random stream, the sharing of memory and the refinement of OnPolicyLoop.*)
(***************************************************************************)
EXTENDS HybridEngine, TLAPS

LEMMA Assumptions ==
    /\ TP \in Nat \ {0} /\ NumBuckets \in Nat \ {0} /\ MaxAttempts \in Nat \ {0}
    /\ LastStep \in Nat \ {0} /\ FirstUpdate \in Nat \ {0}
    /\ Generations \in [RolloutStages -> Nat \ {0}] /\ OffloadParam \in BOOLEAN /\ Configs \subseteq Config
    /\ 0 \in Ranks
BY TPAssumption, NumBucketsAssumption, MaxAttemptsAssumption, LastStepAssumption,
   FirstUpdateAssumption, GenerationsAssumption, OffloadParamAssumption, ConfigsAssumption DEF Ranks

-----------------------------------------------------------------------------
(* The inductive invariant.                                                *)

\* What the stage says of the workers' places.
PlaceInv ==
    /\ stage \in ComputeStages => \A r \in Ranks : pc[r] \in {"to_gpu", "compute", "done"}
    /\ \A r \in Ranks : pc[r] = "compute" => stage \in ComputeStages
    /\ \A r \in Ranks : pc[r] \in EngineOps => r = 0
    /\ stage = "init" => \A r \in Ranks : pc[r] \in {"release", "restore", "done", "raised"}
    /\ ~Switches /\ stage \notin ComputeStages => \A r \in Ranks : pc[r] \in {"ready", "done"}

\* The answer rank 0 has is the answer to its last attempt, and the queue is
\* empty then; the queue's last request is that attempt.
HttpInv ==
    /\ waiting => pc[0] \in EngineOps
    /\ pc[0] \notin EngineOps => attempt = 0
    /\ reply # "none" => waiting /\ sent /\ inbox = <<>>
    /\ sent => waiting
    /\ sent /\ inbox # <<>> => inbox[Len(inbox)] = Request

\* The stream a worker draws from, and where the trainer's is kept meanwhile.
Own == [stream |-> "trainer", drawn |-> updates]
Generating == {"ready", "barrier", "release", "restore"}
StreamInv ==
    \A r \in Ranks :
        /\ pc[r] \in Generating /\ Switches => torch_random_states[r] = Own
        /\ pc[r] \notin Generating \cup {"raised"} => rng[r] = Own
        /\ ~Switches => rng[r] = Own

\* A request in the queue is the present one or a flush that was given up.
QueueInv ==
    \A i \in 1 .. Len(inbox) :
        inbox[i].op = "flush" \/ pc[0] = "raised" \/ (pc[0] \in EngineOps /\ inbox[i] = Request)

\* While a worker trains or offloads, the cache is neither there nor asked for.
Training == {"to_gpu", "compute", "to_cpu"}
PastGathering == {"update_weights", "flush", "resume_kv", "enter", "ready", "barrier", "release"}
CacheAwaited == \/ kv \/ pc[0] \in PastGathering
                \/ \E i \in 1 .. Len(inbox) : inbox[i].op = "resume_kv"
SharingInv ==
    /\ CacheAwaited => \A r \in Ranks : pc[r] \notin Training
    /\ OffloadParam => \A r \in gpu : pc[r] \in Training
    /\ pc[0] \in Training \cup {"restore", "done"} => ~weights /\ ~kv
    /\ pc[0] \notin {"barrier", "release", "raised"} => cache = {}
    /\ reply = "ok" /\ pc[0] = "release" => ~weights /\ ~kv /\ cache = {}

\* How far the engine's weights follow the trainer's, and what was refused.
UpdatedTo(n) == \A b \in Buckets : b <= n => loaded[b] = trained
Heard == Switches /\ "update_weights" \notin ignored
LoadedInv ==
    /\ pc[0] \in Training \cup {"resume_weights"} => bucket = 0
    /\ pc[0] = "update_weights" => bucket >= 1
    /\ pc[0] = "update_weights" /\ reply = "ok" => loaded[bucket] = trained
    /\ Heard /\ pc[0] = "update" => UpdatedTo(bucket)
    /\ Heard /\ pc[0] = "update_weights" => UpdatedTo(bucket - 1)
    /\ Heard /\ pc[0] \in {"flush", "resume_kv", "enter", "ready"} => UpdatedTo(NumBuckets)

\* After a flush that was carried out no prefix is cached.
Flushed == Switches /\ "flush" \notin ignored
FlushedInv ==
    /\ pc[0] = "flush" /\ reply = "ok" => cache = {}
    /\ Flushed /\ pc[0] \in {"resume_kv", "enter", "ready"} => cache = {}

\* What the stage says of the batch.
BatchInv ==
    /\ stage = "gen" /\ pc[0] \in {"barrier", "release", "restore", "done"} => batch # {}
    /\ stage = "logp" \/ (stage = "train" /\ pc[0] # "done") => batch # {}
    /\ stage = "init" \/ (stage = "load" /\ pc[0] # "done") => trained = 0 /\ batch = {}

Basic == TypeOK /\ PlaceInv /\ HttpInv
EngineInv == QueueInv /\ LoadedInv /\ FlushedInv
FreedInv == config.free_cache_engine => SharingInv
IInv == Basic /\ StreamInv /\ EngineInv /\ BatchInv /\ FreedInv

-----------------------------------------------------------------------------
(* What a step leaves alone.                                               *)

LEMMA DriverFrame ==
    [Next]_vars => \/ NextCall \/ DriverFails \/ Compute \/ Generate
                   \/ GenerateAsync \/ GenerateAsyncRaises
                   \/ UNCHANGED driver
BY DEF Next, vars, WorkerStep, ToGpu, ToCpu, GatherBucket, LeaveUpdate, EnterRollout,
       RestoreTrainer, GenerateRaises, AwaitRankZero, Barrier, Send, Serve, Settle,
       Answered, Refused, Discarded, TryAgain, GiveUp

LEMMA ConfigFrame == [Next]_vars => config' = config
BY DriverFrame DEF NextCall, DriverFails, Compute, Generate, GenerateAsync, Sampled,
                   GenerateAsyncRaises, driver

LEMMA StreamFrame ==
    [Next]_vars => \/ Compute \/ Barrier \/ UNCHANGED randomness
                   \/ \E r \in Ranks : EnterRollout(r) \/ RestoreTrainer(r)
BY DEF Next, vars, WorkerStep, NextCall, DriverFails, ToGpu, ToCpu, GatherBucket,
       LeaveUpdate, Generate, GenerateAsync, GenerateAsyncRaises,
       GenerateRaises, AwaitRankZero, Send, Serve, Settle, Answered, Refused, Discarded, TryAgain, GiveUp

LEMMA MemoryFrame ==
    [Next]_vars => Generate \/ GenerateAsync \/ Serve \/ UNCHANGED memory
BY DEF Next, vars, WorkerStep, NextCall, DriverFails, ToGpu, ToCpu, Compute, GatherBucket,
       LeaveUpdate, EnterRollout, RestoreTrainer, GenerateAsyncRaises, GenerateRaises,
       AwaitRankZero, Barrier, Send, Settle, Answered, Refused, Discarded, TryAgain, GiveUp

LEMMA HttpFrame ==
    [Next]_vars => \/ Send \/ Serve \/ Answered \/ Refused \/ Discarded \/ TryAgain \/ GiveUp
                   \/ UNCHANGED http
BY DEF Next, vars, WorkerStep, NextCall, DriverFails, ToGpu, ToCpu, Compute, GatherBucket,
       LeaveUpdate, EnterRollout, RestoreTrainer, Generate, Sampled, GenerateAsync,
       GenerateAsyncRaises, GenerateRaises, AwaitRankZero, Barrier

LEMMA IgnoredFrame ==
    [Next]_vars => Answered \/ Discarded \/ GiveUp \/ UNCHANGED ignored
BY DEF Next, vars, WorkerStep, NextCall, DriverFails, ToGpu, ToCpu, Compute, GatherBucket,
       LeaveUpdate, EnterRollout, RestoreTrainer, Generate, Sampled, GenerateAsync,
       GenerateAsyncRaises, GenerateRaises, AwaitRankZero, Barrier, Send, Serve, Refused, TryAgain

-----------------------------------------------------------------------------
(* Type correctness.                                                       *)

LEMMA DriverTypesStep == TypeOK /\ [Next]_vars => DriverTypes'
<1> SUFFICES ASSUME TypeOK, [Next]_vars PROVE DriverTypes'
    OBVIOUS
<1> USE DEF TypeOK, DriverTypes
<1>1. CASE NextCall
  <2>1. stage' \in Stages
    BY <1>1 DEF NextCall, Following, Onward, Stages, RolloutStages, ComputeStages
  <2> QED BY <1>1, <2>1 DEF NextCall
<1>2. CASE DriverFails
    BY <1>2 DEF DriverFails, Stages
<1>3. CASE Compute
    BY <1>3 DEF Compute
<1>4. CASE Generate \/ GenerateAsync
    BY <1>4 DEF Generate, GenerateAsync, Sampled, SampledFrom, EngineTypes
<1>5. CASE GenerateAsyncRaises
    BY <1>5 DEF GenerateAsyncRaises, Stages
<1>6. CASE UNCHANGED driver
    BY <1>6 DEF driver
<1> QED BY <1>1, <1>2, <1>3, <1>4, <1>5, <1>6, DriverFrame

LEMMA StreamTypesStep == TypeOK /\ [Next]_vars => StreamTypes'
<1> SUFFICES ASSUME TypeOK, [Next]_vars PROVE StreamTypes'
    OBVIOUS
<1> USE DEF TypeOK, StreamTypes, State
<1>1. CASE Compute
    BY <1>1 DEF Compute
<1>2. CASE Barrier
    BY <1>2 DEF Barrier
<1>3. CASE UNCHANGED randomness
    BY <1>3 DEF randomness
<1>4. ASSUME NEW r \in Ranks, EnterRollout(r) \/ RestoreTrainer(r)
      PROVE  StreamTypes'
    BY <1>4 DEF EnterRollout, RestoreTrainer
<1> QED BY <1>1, <1>2, <1>3, <1>4, StreamFrame

LEMMA EngineTypesStep == TypeOK /\ [Next]_vars => EngineTypes'
<1> SUFFICES ASSUME TypeOK, [Next]_vars PROVE EngineTypes'
    OBVIOUS
<1> USE DEF TypeOK, EngineTypes
<1>1. CASE Generate \/ GenerateAsync
    BY <1>1 DEF Generate, GenerateAsync, Sampled
<1>2. CASE Serve
  <2>1. Head(inbox) \in Requests
    BY <1>2 DEF Serve, HttpTypes
  <2>2. CASE UNCHANGED memory
    BY <2>2 DEF memory
  <2>3. CASE Apply(Head(inbox))
    BY <2>1, <2>3 DEF Apply, Requests, Version, Dummy, EngineOps
  <2> QED BY <1>2, <2>2, <2>3 DEF Serve
<1>3. CASE UNCHANGED memory
    BY <1>3 DEF memory
<1> QED BY <1>1, <1>2, <1>3, MemoryFrame

LEMMA HttpTypesStep == TypeOK /\ [Next]_vars => HttpTypes'
<1> SUFFICES ASSUME TypeOK, [Next]_vars PROVE HttpTypes'
    OBVIOUS
<1> USE DEF TypeOK, HttpTypes
<1>0. ignored' \subseteq SuccessOps
    BY IgnoredFrame DEF Answered, Carried, Discarded, GiveUp, SuccessOps
<1>1. CASE Send
  <2>1. attempt + 1 \in 0 .. 4 * MaxAttempts
    BY <1>1, Assumptions DEF Send, Limit
  <2>2. Request \in Requests
    BY <1>1 DEF Send, Request, Requests, DriverTypes, WorkerTypes
  <2>3. inbox' \in Seq(Requests)
    BY <1>1, <2>2 DEF Send
  <2>4. attempt' = attempt + 1 /\ waiting' = TRUE /\ sent' \in BOOLEAN /\ reply' = reply
    BY <1>1 DEF Send
  <2> QED BY <1>0, <2>1, <2>3, <2>4
<1>2. CASE Serve
    BY <1>0, <1>2 DEF Serve
<1>3. CASE Answered \/ Refused \/ Discarded \/ GiveUp
  <2>1. /\ inbox' = inbox /\ attempt' = 0
        /\ waiting' = FALSE /\ sent' = FALSE /\ reply' = "none"
    BY <1>3 DEF Answered, Refused, Discarded, GiveUp, Settle
  <2>2. 0 \in 0 .. 4 * MaxAttempts
    BY Assumptions
  <2> QED BY <1>0, <2>1, <2>2
<1>4. CASE TryAgain
    BY <1>0, <1>4 DEF TryAgain
<1>5. CASE UNCHANGED http
    BY <1>0, <1>5 DEF http
<1> QED BY <1>1, <1>2, <1>3, <1>4, <1>5, HttpFrame

LEMMA WorkerTypesStep == TypeOK /\ HttpInv /\ [Next]_vars => WorkerTypes'
<1> SUFFICES ASSUME TypeOK, HttpInv, [Next]_vars PROVE WorkerTypes'
    OBVIOUS
<1> USE Assumptions DEF TypeOK, WorkerTypes, Places, EngineOps, Go, TrainerMode
<1>1. CASE NextCall
    BY <1>1 DEF NextCall, Entry
<1>2. CASE DriverFails \/ Serve \/ Send \/ TryAgain \/ GenerateAsyncRaises \/ UNCHANGED vars
    BY <1>2 DEF DriverFails, Serve, Send, TryAgain, GenerateAsyncRaises, vars
<1>3. CASE Compute \/ Barrier
    BY <1>3 DEF Compute, Barrier, Offloaded
<1>4. CASE GatherBucket
    BY <1>4 DEF GatherBucket
<1>5. CASE Generate \/ GenerateRaises \/ GenerateAsync
    BY <1>5 DEF Generate, GenerateRaises, GenerateAsync, Sampled
<1>6. CASE Answered \/ Refused \/ Discarded \/ GiveUp
  <2>1. pc[0] \in EngineOps => AfterOp(pc[0]) \in Places
    BY DEF AfterOp
  <2>2. Answered \/ Discarded => pc[0] \in EngineOps
    BY DEF Answered, Discarded, SuccessOps, HttpInv
  <2>3. \E place \in Places : pc' = [pc EXCEPT ![0] = place]
    BY <1>6, <2>1, <2>2 DEF Answered, Refused, Discarded, GiveUp, Settle
  <2>4. bucket' = bucket /\ gpu' = gpu
    BY <1>6 DEF Answered, Refused, Discarded, GiveUp, Settle
  <2> QED BY <2>3, <2>4
<1>7. ASSUME NEW r \in Ranks, WorkerStep(r)
      PROVE  WorkerTypes'
    BY <1>7 DEF WorkerStep, ToGpu, ToCpu, LeaveUpdate, EnterRollout, RestoreTrainer,
                AwaitRankZero, Offloaded, AfterOffload
<1> QED BY <1>1, <1>2, <1>3, <1>4, <1>5, <1>6, <1>7 DEF Next

LEMMA TypeStep == TypeOK /\ HttpInv /\ [Next]_vars => TypeOK'
BY DriverTypesStep, StreamTypesStep, EngineTypesStep, HttpTypesStep, WorkerTypesStep DEF TypeOK

-----------------------------------------------------------------------------
(* Places, the exchange with the engine, and the random streams.           *)

LEMMA AfterOpPlaces ==
    ASSUME NEW op \in EngineOps
    PROVE  /\ AfterOp(op) \in {"update", "flush", "resume_kv", "enter", "restore"}
           /\ AfterOp(op) = "restore" <=> op = "release"
BY DEF AfterOp, EngineOps

LEMMA PlaceStep == Basic /\ [Next]_vars => PlaceInv'
<1> SUFFICES ASSUME Basic, [Next]_vars PROVE PlaceInv'
    OBVIOUS
<1> USE Assumptions DEF Basic, TypeOK, DriverTypes, WorkerTypes, PlaceInv, Stages,
        RolloutStages, ComputeStages, EngineOps, Go, TrainerMode, Switches
<1>1. CASE NextCall
    BY <1>1 DEF NextCall, Entry, Following, Onward, Again, AllDone
<1>2. CASE DriverFails
    BY <1>2 DEF DriverFails
<1>3. CASE Serve \/ Send \/ TryAgain \/ UNCHANGED vars
    BY <1>3 DEF Serve, Send, TryAgain, vars, driver
<1>4. CASE Compute \/ Barrier
    BY <1>4 DEF Compute, Barrier, driver
<1>5. CASE GatherBucket
    BY <1>5 DEF GatherBucket, driver
<1>6. CASE Generate \/ GenerateRaises \/ GenerateAsync \/ GenerateAsyncRaises
    BY <1>6 DEF Generate, GenerateRaises, GenerateAsync, GenerateAsyncRaises, Sampled, driver
<1>7. CASE Answered \/ Refused \/ Discarded \/ GiveUp
  <2>1. pc[0] \in EngineOps
    BY <1>7 DEF Answered, Refused, Discarded, GiveUp, HttpInv
  <2>2. \E place \in {"update", "flush", "resume_kv", "enter", "restore", "raised"} :
            pc' = [pc EXCEPT ![0] = place]
    BY <1>7, <2>1, AfterOpPlaces DEF Answered, Refused, Discarded, GiveUp, Settle
  <2>3. stage' = stage /\ config' = config
    BY <1>7 DEF Answered, Refused, Discarded, GiveUp, Settle, driver
  <2>4. pc[0] = "release" => pc'[0] \in {"restore", "raised"}
    BY <1>7, <2>1, AfterOpPlaces DEF Answered, Refused, Discarded, GiveUp, Settle
  <2> QED BY <2>1, <2>2, <2>3, <2>4
<1>8. ASSUME NEW r \in Ranks, WorkerStep(r)
      PROVE  PlaceInv'
    BY <1>8 DEF WorkerStep, ToGpu, ToCpu, LeaveUpdate, EnterRollout, RestoreTrainer,
                AwaitRankZero, AfterOffload, driver
<1> QED BY <1>1, <1>2, <1>3, <1>4, <1>5, <1>6, <1>7, <1>8 DEF Next

\* While rank 0 waits for the engine nothing but their exchange concerns it.
LEMMA EngineOpFrame ==
    ASSUME TypeOK, PlaceInv, [Next]_vars, UNCHANGED http, pc[0] \in EngineOps
    PROVE  pc'[0] = pc[0] /\ UNCHANGED <<bucket, trained>>
<1> USE Assumptions DEF TypeOK, WorkerTypes, Go, EngineOps
<1>1. CASE DriverFails \/ UNCHANGED vars
    BY <1>1 DEF DriverFails, vars, driver
<1>2. ASSUME NEW r \in Ranks, WorkerStep(r)
      PROVE  pc'[0] = pc[0] /\ UNCHANGED <<bucket, trained>>
  <2>1. r # 0
    BY <1>2 DEF WorkerStep, ToGpu, ToCpu, LeaveUpdate, EnterRollout, RestoreTrainer, AwaitRankZero
  <2> QED BY <1>2, <2>1 DEF WorkerStep, ToGpu, ToCpu, LeaveUpdate, EnterRollout,
                RestoreTrainer, AwaitRankZero, driver
<1>3. ~(NextCall \/ Compute \/ GatherBucket \/ Barrier \/ Generate \/ GenerateRaises)
    BY DEF NextCall, AllDone, Compute, GatherBucket, Barrier, Generate, GenerateRaises
<1>4. ~(GenerateAsync \/ GenerateAsyncRaises)
    BY DEF GenerateAsync, GenerateAsyncRaises
<1>5. ~(Send \/ TryAgain \/ Answered \/ Refused \/ Discarded)
    BY DEF Send, TryAgain, Answered, Refused, Discarded, Settle, http
<1>6. ~GiveUp
    BY DEF GiveUp, Settle, Limit, http
<1>7. ~Serve
    BY DEF Serve, HttpTypes, http
<1> QED BY <1>1, <1>2, <1>3, <1>4, <1>5, <1>6, <1>7 DEF Next

\* Rank 0 does nothing more once it has raised.
LEMMA RaisedFrame ==
    ASSUME TypeOK, PlaceInv, HttpInv, [Next]_vars, pc[0] = "raised"
    PROVE  pc'[0] = "raised"
<1> USE Assumptions DEF TypeOK, WorkerTypes, Go, EngineOps
<1>1. CASE DriverFails \/ Serve \/ TryAgain \/ UNCHANGED vars
    BY <1>1 DEF DriverFails, Serve, TryAgain, vars
<1>2. ASSUME NEW r \in Ranks, WorkerStep(r)
      PROVE  pc'[0] = "raised"
    BY <1>2 DEF WorkerStep, ToGpu, ToCpu, LeaveUpdate, EnterRollout, RestoreTrainer, AwaitRankZero
<1>3. ~(NextCall \/ Compute \/ GatherBucket \/ Barrier \/ Generate \/ GenerateRaises)
    BY DEF NextCall, AllDone, Compute, GatherBucket, Barrier, Generate, GenerateRaises
<1>4. ~(GenerateAsync \/ GenerateAsyncRaises \/ Send \/ GiveUp)
    BY DEF GenerateAsync, GenerateAsyncRaises, Send, GiveUp
<1>5. ~(Answered \/ Refused \/ Discarded)
    BY DEF Answered, Refused, Discarded, HttpInv
<1> QED BY <1>1, <1>2, <1>3, <1>4, <1>5 DEF Next

LEMMA HttpStep == Basic /\ [Next]_vars => HttpInv'
<1> SUFFICES ASSUME Basic, [Next]_vars PROVE HttpInv'
    OBVIOUS
<1> USE Assumptions DEF Basic, TypeOK, WorkerTypes, PlaceInv, HttpInv, Go
<1>1. CASE Send
  <2> USE <1>1 DEF Send
  <2>1. UNCHANGED <<pc, bucket, trained, reply>> /\ reply = "none"
    BY DEF driver, HttpTypes
  <2>2. Request' = Request
    BY <2>1 DEF Request
  <2>3. sent' => inbox'[Len(inbox')] = Request
    BY DEF HttpTypes
  <2> QED BY <2>1, <2>2, <2>3
<1>2. CASE Serve
  <2> USE <1>2 DEF Serve
  <2>1. UNCHANGED <<pc, bucket, trained, attempt, waiting, sent>>
    BY DEF driver
  <2>2. Request' = Request
    BY <2>1 DEF Request
  <2>3. reply = "none"
    BY DEF HttpTypes
  <2>4. reply' # "none" => waiting /\ sent /\ inbox' = <<>>
    BY <2>3 DEF Awaited, HttpTypes
  <2>5. inbox' # <<>> => inbox'[Len(inbox')] = inbox[Len(inbox)]
    BY DEF HttpTypes
  <2> QED BY <2>1, <2>2, <2>4, <2>5
<1>3. CASE Answered \/ Refused \/ Discarded \/ GiveUp
    BY <1>3 DEF Answered, Refused, Discarded, GiveUp, Settle
<1>4. CASE TryAgain
    BY <1>4 DEF TryAgain
<1>5. CASE UNCHANGED http /\ pc[0] \notin EngineOps
    BY <1>5 DEF http
<1>6. CASE UNCHANGED http /\ pc[0] \in EngineOps
  <2>1. pc'[0] = pc[0] /\ UNCHANGED <<bucket, trained>>
    BY <1>6, EngineOpFrame DEF Basic
  <2> QED BY <1>6, <2>1 DEF http, Request
<1> QED BY <1>1, <1>2, <1>3, <1>4, <1>5, <1>6, HttpFrame

LEMMA StreamStep == Basic /\ StreamInv /\ [Next]_vars => StreamInv'
<1> SUFFICES ASSUME Basic, StreamInv, [Next]_vars PROVE StreamInv'
    OBVIOUS
<1> USE Assumptions DEF Basic, TypeOK, WorkerTypes, StreamTypes, DriverTypes, State, StreamInv,
        PlaceInv, Own, Generating, Switches, Go, TrainerMode, EngineOps
<1>1. CASE NextCall
  <2>1. /\ stage' # "init" /\ UNCHANGED <<config, updates, randomness>>
        /\ pc' = [r \in Ranks |-> Entry(stage', r)]
        /\ \A r \in Ranks : pc[r] = "done"
    BY <1>1 DEF NextCall, Following, Onward, Again, RolloutStages, AllDone
  <2>2. \A r \in Ranks : Entry(stage', r) \in {"to_gpu", "done"} \/ (Entry(stage', r) = "ready" /\ ~Switches)
    BY <2>1 DEF Entry
  <2> QED BY <2>1, <2>2 DEF randomness
<1>2. CASE DriverFails \/ Serve \/ Send \/ TryAgain \/ GenerateAsyncRaises \/ UNCHANGED vars
    BY <1>2 DEF DriverFails, Serve, Send, TryAgain, GenerateAsyncRaises, vars, driver, randomness
<1>3. CASE Compute
  <2>1. /\ \A r \in Ranks : pc[r] = "compute" /\ pc'[r] = "done"
        /\ UNCHANGED <<config, torch_random_states>>
        /\ \/ updates' = updates /\ rng' = rng
           \/ updates' = updates + 1 /\ rng' = [r \in Ranks |-> [rng[r] EXCEPT !.drawn = @ + 1]]
    BY <1>3 DEF Compute
  <2>2. \A r \in Ranks : rng[r] = Own
    BY <2>1
  <2> QED BY <2>1, <2>2
<1>4. CASE Barrier
    BY <1>4 DEF Barrier, driver
<1>5. CASE GatherBucket
    BY <1>5 DEF GatherBucket, driver, randomness
<1>6. CASE Generate \/ GenerateRaises \/ GenerateAsync
    BY <1>6 DEF Generate, GenerateRaises, GenerateAsync, Sampled, driver, randomness
<1>7. CASE Answered \/ Refused \/ Discarded \/ GiveUp
  <2>1. pc[0] \in EngineOps
    BY <1>7 DEF Answered, Refused, Discarded, GiveUp, HttpInv
  <2>2. \E place \in {AfterOp(pc[0]), "raised"} : pc' = [pc EXCEPT ![0] = place]
    BY <1>7 DEF Answered, Refused, Discarded, GiveUp, Settle
  <2>3. /\ AfterOp(pc[0]) \in {"update", "flush", "resume_kv", "enter", "restore"}
        /\ AfterOp(pc[0]) = "restore" <=> pc[0] = "release"
    BY <2>1 DEF AfterOp
  <2>4. UNCHANGED <<driver, randomness>>
    BY <1>7 DEF Answered, Refused, Discarded, GiveUp, Settle
  <2> QED BY <2>1, <2>2, <2>3, <2>4 DEF driver, randomness
<1>8. ASSUME NEW r \in Ranks, WorkerStep(r)
      PROVE  StreamInv'
    BY <1>8 DEF WorkerStep, ToGpu, ToCpu, LeaveUpdate, EnterRollout, RestoreTrainer,
                AwaitRankZero, AfterOffload, driver, randomness
<1> QED BY <1>1, <1>2, <1>3, <1>4, <1>5, <1>6, <1>7, <1>8 DEF Next

-----------------------------------------------------------------------------
(* The queue, the memory, the weights, the prefixes and the batch.         *)

LEMMA QueueStep == Basic /\ QueueInv /\ [Next]_vars => QueueInv'
<1> SUFFICES ASSUME Basic, QueueInv, [Next]_vars PROVE QueueInv'
    OBVIOUS
<1> USE DEF Basic, TypeOK, HttpTypes, QueueInv
<1>1. CASE Send
  <2>1. pc' = pc /\ Request' = Request /\ pc[0] \in EngineOps
    BY <1>1 DEF Send, Request, driver
  <2>2. inbox' = inbox \/ inbox' = Append(inbox, Request)
    BY <1>1 DEF Send
  <2> QED BY <2>1, <2>2
<1>2. CASE Serve
  <2>1. pc' = pc /\ Request' = Request
    BY <1>2 DEF Serve, Request, driver
  <2>2. Len(inbox') = Len(inbox) - 1 /\ \A i \in 1 .. Len(inbox') : inbox'[i] = inbox[i + 1]
    BY <1>2 DEF Serve
  <2> QED BY <2>1, <2>2
<1>3. CASE Answered
    BY <1>3 DEF Answered, Settle, HttpInv
<1>4. CASE Refused \/ Discarded
    BY <1>4 DEF Refused, Discarded, Settle, HttpInv
<1>5. CASE GiveUp
  <2>1. inbox' = inbox
    BY <1>5 DEF GiveUp, Settle
  <2>2. CASE pc[0] = "flush"
    BY <2>1, <2>2 DEF Request
  <2>3. CASE pc[0] # "flush"
    <3>1. pc'[0] = "raised"
      BY <1>5, <2>3, Assumptions DEF GiveUp, Settle, Go, WorkerTypes
    <3> QED BY <2>1, <3>1
  <2> QED BY <2>2, <2>3
<1>6. CASE TryAgain
    BY <1>6 DEF TryAgain, Request, driver
<1>7. CASE UNCHANGED http /\ pc[0] \in EngineOps
  <2>1. pc'[0] = pc[0] /\ UNCHANGED <<bucket, trained>>
    BY <1>7, EngineOpFrame
  <2> QED BY <1>7, <2>1 DEF Request, http
<1>8. CASE UNCHANGED http /\ pc[0] \notin EngineOps
  <2>1. pc[0] = "raised" => pc'[0] = "raised"
    BY RaisedFrame
  <2> QED BY <1>8, <2>1 DEF http
<1> QED BY <1>1, <1>2, <1>3, <1>4, <1>5, <1>6, <1>7, <1>8, HttpFrame

\* Where the end of an exchange with the engine leaves rank 0.
LEMMA ExchangeEnds ==
    ASSUME WorkerTypes, HttpInv, Answered \/ Refused \/ Discarded \/ GiveUp
    PROVE  \/ pc'[0] \in {"update", "flush", "resume_kv", "enter", "raised"}
           \/ pc[0] = "release" /\ pc'[0] = "restore"
<1>1. pc[0] \in EngineOps
    BY DEF Answered, Refused, Discarded, GiveUp, HttpInv
<1>2. \E place \in {AfterOp(pc[0]), "raised"} : pc' = [pc EXCEPT ![0] = place]
    BY DEF Answered, Refused, Discarded, GiveUp, Settle, Go
<1>3. pc'[0] = AfterOp(pc[0]) \/ pc'[0] = "raised"
    BY <1>2, Assumptions DEF WorkerTypes
<1> QED BY <1>1, <1>3, AfterOpPlaces

\* The engine's oldest request, and what carrying a request out does.
LEMMA HeadIsRequest ==
    ASSUME HttpTypes, inbox # <<>>
    PROVE  Head(inbox) \in Requests /\ Head(inbox) = inbox[1] /\ 1 \in 1 .. Len(inbox)
BY DEF HttpTypes

LEMMA Applied ==
    ASSUME NEW q \in Requests, Apply(q)
    PROVE  /\ kv' => kv \/ q.op = "resume_kv"
           /\ cache' = cache \/ cache' = {}
           /\ q.op = "flush" => UNCHANGED <<weights, kv, loaded>>
           /\ q.op = "release" => ~weights' /\ ~kv' /\ cache' = {}
           /\ q.op = "update_weights" => loaded' = [loaded EXCEPT ![q.bucket] = q.version]
           /\ q.op \notin {"update_weights", "release"} => loaded' = loaded
BY DEF Apply, Requests, EngineOps

LEMMA SharingStep ==
    Basic /\ config.free_cache_engine /\ QueueInv /\ SharingInv /\ [Next]_vars => SharingInv'
<1> SUFFICES ASSUME Basic, config.free_cache_engine, QueueInv, SharingInv, [Next]_vars
             PROVE  SharingInv'
    OBVIOUS
<1> USE Assumptions DEF Basic, TypeOK, WorkerTypes, PlaceInv, SharingInv, CacheAwaited,
        Training, PastGathering, Go, TrainerMode, EngineOps
<1>1. CASE NextCall
  <2>1. /\ UNCHANGED <<config, gpu, kv, weights, cache, inbox, reply>>
        /\ pc' = [r \in Ranks |-> Entry(stage', r)]
        /\ \A r \in Ranks : pc[r] = "done"
        /\ stage' # "init"
    BY <1>1 DEF NextCall, AllDone, Following, Onward, Again, RolloutStages, memory, http
  <2>2. \A r \in Ranks : Entry(stage', r) \in {"to_gpu", "done"}
    BY <2>1 DEF Entry, Switches
  <2>3. ~CacheAwaited
    BY <2>1 DEF QueueInv
  <2>4. reply = "none"
    BY <2>1 DEF HttpInv
  <2> QED BY <2>1, <2>2, <2>3, <2>4
<1>2. CASE DriverFails \/ GenerateAsyncRaises \/ UNCHANGED vars
    BY <1>2 DEF DriverFails, GenerateAsyncRaises, vars, memory, http
<1>3. CASE Send
  <2>1. /\ UNCHANGED <<pc, gpu, kv, weights, cache, reply>>
        /\ inbox' = inbox \/ inbox' = Append(inbox, Request)
    BY <1>3 DEF Send, memory
  <2>2. CacheAwaited' => CacheAwaited
    <3>1. Request.op = pc[0]
      BY DEF Request
    <3>2. \A i \in 1 .. Len(inbox') : \/ i \in 1 .. Len(inbox) /\ inbox'[i] = inbox[i]
                                      \/ inbox'[i] = Request
      BY <2>1 DEF HttpTypes
    <3> QED BY <2>1, <3>1, <3>2
  <2> QED BY <2>1, <2>2
<1>4. CASE Serve
  <2>1. UNCHANGED <<pc, gpu>>
    BY <1>4 DEF Serve
  <2>2. UNCHANGED memory \/ Apply(Head(inbox))
    BY <1>4 DEF Serve, memory
  <2>3. /\ Head(inbox) = inbox[1] /\ 1 \in 1 .. Len(inbox)
        /\ \A i \in 1 .. Len(inbox') : inbox'[i] = inbox[i + 1] /\ i + 1 \in 1 .. Len(inbox)
        /\ Head(inbox) \in Requests
    BY <1>4, HeadIsRequest DEF Serve, HttpTypes
  <2>4. kv' => kv \/ Head(inbox).op = "resume_kv"
    BY <2>2, <2>3, Applied DEF memory
  <2>5. CacheAwaited' => CacheAwaited
    BY <2>1, <2>3, <2>4
  <2>6. cache' = cache \/ cache' = {}
    BY <2>2, <2>3, Applied DEF memory
  <2>7. pc[0] \notin EngineOps \cup {"raised"} => UNCHANGED <<weights, kv>>
    BY <2>2, <2>3, Applied DEF memory, QueueInv
  <2>8. reply' = "ok" /\ pc[0] = "release" => ~weights' /\ ~kv' /\ cache' = {}
    <3> SUFFICES ASSUME reply' = "ok", pc[0] = "release" PROVE ~weights' /\ ~kv' /\ cache' = {}
        OBVIOUS
    <3>1. reply = "none"
      BY <1>4 DEF Serve, HttpInv, HttpTypes
    <3>2. Apply(Head(inbox)) /\ Awaited
      BY <1>4, <3>1 DEF Serve
    <3>3. sent /\ inbox # <<>> /\ Len(inbox) = 1
      BY <1>4, <3>2 DEF Awaited, Serve
    <3>4. Head(inbox) = Request
      BY <2>3, <3>3 DEF HttpInv
    <3> QED BY <2>3, <3>2, <3>4, Applied DEF Request
  <2> QED BY <2>1, <2>5, <2>6, <2>7, <2>8
<1>5. CASE Answered \/ Refused \/ Discarded \/ GiveUp
  <2>1. pc[0] \in EngineOps
    BY <1>5 DEF Answered, Refused, Discarded, GiveUp, HttpInv
  <2>2. UNCHANGED <<gpu, kv, weights, cache, inbox>> /\ reply' = "none"
    BY <1>5 DEF Answered, Refused, Discarded, GiveUp, Settle, memory
  <2>3. \/ pc' = [pc EXCEPT ![0] = "raised"]
        \/ pc[0] = "release" /\ reply = "ok" /\ pc' = [pc EXCEPT ![0] = "restore"]
        \/ pc[0] = "resume_weights" /\ pc' = [pc EXCEPT ![0] = "update"]
        \/ /\ pc[0] \in {"update_weights", "flush", "resume_kv"}
           /\ \E place \in {"update", "flush", "resume_kv", "enter"} : pc' = [pc EXCEPT ![0] = place]
    BY <1>5, <2>1 DEF Answered, Refused, Discarded, GiveUp, Settle, AfterOp,
                      SuccessOps
  <2>4. pc[0] \in {"update_weights", "flush", "resume_kv", "release"} => CacheAwaited
    OBVIOUS
  <2> QED BY <2>1, <2>2, <2>3, <2>4
<1>6. CASE TryAgain
    BY <1>6 DEF TryAgain, memory
<1>7. CASE Compute
    BY <1>7 DEF Compute, Offloaded, memory, http
<1>8. CASE GatherBucket
    BY <1>8 DEF GatherBucket, memory, http
<1>9. CASE Barrier
  <2>1. /\ \A r \in Ranks : pc[r] = "barrier" /\ pc'[r] \in {"release", "restore"}
        /\ pc'[0] = "release" /\ UNCHANGED <<gpu, kv, weights, cache, inbox, reply>>
    BY <1>9 DEF Barrier, memory, http
  <2> QED BY <2>1 DEF HttpInv
<1>10. CASE Generate \/ GenerateRaises
  <2>1. /\ pc[0] = "ready" /\ UNCHANGED <<gpu, kv, weights, inbox, reply>>
        /\ \E place \in {"barrier", "raised"} : pc' = [pc EXCEPT ![0] = place]
    BY <1>10 DEF Generate, GenerateRaises, Sampled, memory, http
  <2> QED BY <2>1
<1>12. CASE GenerateAsync
  <2>1. /\ \A r \in Ranks : pc[r] = "ready" /\ pc'[r] \in {"release", "restore"}
        /\ pc'[0] = "release" /\ UNCHANGED <<gpu, kv, weights, inbox, reply>>
    BY <1>12 DEF GenerateAsync, Sampled, Switches, memory, http
  <2> QED BY <2>1 DEF HttpInv
<1>11. ASSUME NEW r \in Ranks, WorkerStep(r)
       PROVE  SharingInv'
    BY <1>11 DEF WorkerStep, ToGpu, ToCpu, LeaveUpdate, EnterRollout, RestoreTrainer,
                AwaitRankZero, AfterOffload, Offloaded, memory, http, HttpInv
<1> QED BY <1>1, <1>2, <1>3, <1>4, <1>5, <1>6, <1>7, <1>8, <1>9, <1>10, <1>11, <1>12 DEF Next

LEMMA LoadedStep ==
    Basic /\ QueueInv /\ LoadedInv /\ [Next]_vars => LoadedInv'
<1> SUFFICES ASSUME Basic, QueueInv, LoadedInv, [Next]_vars PROVE LoadedInv'
    OBVIOUS
<1>0. UNCHANGED ignored => Heard' = Heard
    BY ConfigFrame DEF Heard, Switches
<1> USE Assumptions DEF Basic, TypeOK, DriverTypes, WorkerTypes, PlaceInv, LoadedInv, UpdatedTo,
        Training, Buckets, Go, TrainerMode, EngineOps
<1>1. CASE NextCall
  <2>1. pc' = [r \in Ranks |-> Entry(stage', r)] /\ stage' # "init" /\ config' = config
    BY <1>1 DEF NextCall, AllDone, Following, Onward, Again, RolloutStages
  <2>2. Entry(stage', 0) \in {"to_gpu", "done"} \/ (Entry(stage', 0) = "ready" /\ ~Switches)
    BY <2>1 DEF Entry
  <2>3. bucket' = 0 /\ pc'[0] = Entry(stage', 0) /\ ignored' = ignored
    BY <1>1, <2>1 DEF NextCall
  <2> QED BY <1>0, <2>2, <2>3 DEF Heard
<1>2. CASE DriverFails \/ GenerateAsyncRaises \/ UNCHANGED vars
    BY <1>0, <1>2 DEF DriverFails, GenerateAsyncRaises, vars, driver, memory, http
<1>3. CASE Send \/ TryAgain
    BY <1>0, <1>3 DEF Send, TryAgain, driver, memory
<1>4. CASE Serve
  <2>1. UNCHANGED <<pc, bucket, trained, ignored>>
    BY <1>4 DEF Serve, driver
  <2>2. UNCHANGED memory \/ Apply(Head(inbox))
    BY <1>4 DEF Serve, memory
  <2>3. /\ Head(inbox) = inbox[1] /\ 1 \in 1 .. Len(inbox)
        /\ Head(inbox) \in Requests
    BY <1>4, HeadIsRequest DEF Serve, HttpTypes
  <2>4. \/ loaded' = loaded
        \/ pc[0] \in {"raised", "release"}
        \/ /\ pc[0] = "update_weights" /\ Head(inbox) = Request
           /\ loaded' = [loaded EXCEPT ![bucket] = trained]
    BY <2>2, <2>3, Applied DEF memory, QueueInv, Request
  <2>5. reply' = "ok" /\ pc[0] = "update_weights" =>
            loaded' = [loaded EXCEPT ![bucket] = trained]
    <3> SUFFICES ASSUME reply' = "ok", pc[0] = "update_weights"
                 PROVE  loaded' = [loaded EXCEPT ![bucket] = trained]
        OBVIOUS
    <3>1. reply = "none"
      BY <1>4 DEF Serve, HttpInv, HttpTypes
    <3>2. Apply(Head(inbox)) /\ Awaited
      BY <1>4, <3>1 DEF Serve
    <3>3. sent /\ inbox # <<>> /\ Len(inbox) = 1
      BY <1>4, <3>2 DEF Awaited, Serve
    <3>4. Head(inbox) = Request
      BY <2>3, <3>3 DEF HttpInv
    <3> QED BY <2>3, <3>2, <3>4, Applied DEF Request
  <2> QED BY <1>0, <2>1, <2>4, <2>5 DEF EngineTypes
<1>5. CASE Answered \/ Refused \/ Discarded \/ GiveUp
  <2>1. pc[0] \in EngineOps
    BY <1>5 DEF Answered, Refused, Discarded, GiveUp, HttpInv
  <2>2. UNCHANGED <<loaded, trained, bucket>> /\ reply' = "none"
    BY <1>5 DEF Answered, Refused, Discarded, GiveUp, Settle, memory, driver
  <2>3. \/ pc' = [pc EXCEPT ![0] = "raised"] /\ ignored' = ignored
        \/ pc[0] = "release" /\ pc' = [pc EXCEPT ![0] = "restore"]
        \/ pc[0] = "resume_weights" /\ pc' = [pc EXCEPT ![0] = "update"]
        \/ /\ pc[0] = "update_weights"
           /\ reply = "ok" \/ ~Heard'
           /\ \/ pc' = [pc EXCEPT ![0] = "update"]
              \/ pc' = [pc EXCEPT ![0] = "flush"] /\ bucket = NumBuckets
        \/ /\ pc[0] \in {"flush", "resume_kv"}
           /\ \E place \in {"resume_kv", "enter"} : pc' = [pc EXCEPT ![0] = place]
    BY <1>5, <2>1 DEF Answered, Refused, Discarded, GiveUp, Settle, AfterOp, Heard
  <2>4. \/ Heard' => Heard
        \/ pc[0] = "update_weights" /\ bucket <= 1
    BY <1>5, <2>1, ConfigFrame DEF Answered, Refused, Discarded, GiveUp, Carried, Heard, Switches
  <2>5. bucket \in 0 .. NumBuckets
    OBVIOUS
  <2>6. CASE pc[0] = "update_weights"
    <3>1. CASE pc'[0] = "raised"
      BY <2>2, <3>1
    <3>2. CASE pc'[0] # "raised"
      <4>1. Heard' => UpdatedTo(bucket - 1) /\ loaded[bucket] = trained
        BY <2>3, <2>4, <2>5, <2>6, <3>2
      <4>2. Heard' => UpdatedTo(bucket)
        BY <4>1, <2>5
      <4> QED BY <2>2, <2>3, <2>5, <2>6, <3>2, <4>2
    <3> QED BY <3>1, <3>2
  <2>7. CASE pc[0] # "update_weights"
    BY <2>1, <2>2, <2>3, <2>4, <2>7
  <2> QED BY <2>6, <2>7
<1>6. CASE Compute \/ Barrier
    BY <1>0, <1>6 DEF Compute, Barrier
<1>7. CASE GatherBucket
    BY <1>0, <1>7 DEF GatherBucket, driver, memory, http, HttpInv
<1>8. CASE Generate \/ GenerateRaises \/ GenerateAsync
    BY <1>0, <1>8 DEF Generate, GenerateRaises, GenerateAsync, Sampled
<1>9. ASSUME NEW r \in Ranks, WorkerStep(r)
      PROVE  LoadedInv'
    BY <1>0, <1>9 DEF WorkerStep, ToGpu, ToCpu, LeaveUpdate, EnterRollout, RestoreTrainer,
                AwaitRankZero, AfterOffload, driver, memory, http
<1> QED BY <1>1, <1>2, <1>3, <1>4, <1>5, <1>6, <1>7, <1>8, <1>9 DEF Next

LEMMA FlushedStep ==
    Basic /\ QueueInv /\ FlushedInv /\ [Next]_vars => FlushedInv'
<1> SUFFICES ASSUME Basic, QueueInv, FlushedInv, [Next]_vars PROVE FlushedInv'
    OBVIOUS
<1>0. UNCHANGED ignored => Flushed' = Flushed
    BY ConfigFrame DEF Flushed, Switches
<1> USE Assumptions DEF Basic, TypeOK, DriverTypes, WorkerTypes, PlaceInv, FlushedInv,
        Go, TrainerMode, EngineOps
<1>1. CASE NextCall
  <2>1. pc' = [r \in Ranks |-> Entry(stage', r)] /\ stage' # "init" /\ config' = config
    BY <1>1 DEF NextCall, AllDone, Following, Onward, Again, RolloutStages
  <2>2. Entry(stage', 0) \in {"to_gpu", "done"} \/ (Entry(stage', 0) = "ready" /\ ~Switches)
    BY <2>1 DEF Entry
  <2>3. pc'[0] = Entry(stage', 0) /\ ignored' = ignored
    BY <1>1, <2>1 DEF NextCall
  <2> QED BY <1>0, <2>2, <2>3 DEF Flushed
<1>2. CASE DriverFails \/ GenerateAsyncRaises \/ UNCHANGED vars
    BY <1>0, <1>2 DEF DriverFails, GenerateAsyncRaises, vars, memory, http
<1>3. CASE Send \/ TryAgain
    BY <1>0, <1>3 DEF Send, TryAgain, memory
<1>4. CASE Serve
  <2>1. UNCHANGED <<pc, ignored>>
    BY <1>4 DEF Serve
  <2>2. UNCHANGED memory \/ Apply(Head(inbox))
    BY <1>4 DEF Serve, memory
  <2>3. /\ Head(inbox) = inbox[1] /\ 1 \in 1 .. Len(inbox)
        /\ Head(inbox) \in Requests
    BY <1>4, HeadIsRequest DEF Serve, HttpTypes
  <2>4. cache' = cache \/ cache' = {}
    BY <2>2, <2>3, Applied DEF memory
  <2>5. reply' = "ok" /\ pc[0] = "flush" => cache' = {}
    <3> SUFFICES ASSUME reply' = "ok", pc[0] = "flush" PROVE cache' = {}
        OBVIOUS
    <3>1. reply = "none"
      BY <1>4 DEF Serve, HttpInv, HttpTypes
    <3>2. Apply(Head(inbox)) /\ Awaited
      BY <1>4, <3>1 DEF Serve
    <3>3. sent /\ inbox # <<>> /\ Len(inbox) = 1
      BY <1>4, <3>2 DEF Awaited, Serve
    <3>4. Head(inbox) = Request
      BY <2>3, <3>3 DEF HttpInv
    <3>5. Head(inbox).op = "flush"
      BY <3>4 DEF Request
    <3> QED BY <3>2, <3>5 DEF Apply
  <2> QED BY <1>0, <2>1, <2>4, <2>5
<1>5. CASE Answered \/ Refused \/ Discarded \/ GiveUp
  <2>1. pc[0] \in EngineOps
    BY <1>5 DEF Answered, Refused, Discarded, GiveUp, HttpInv
  <2>2. cache' = cache /\ reply' = "none"
    BY <1>5 DEF Answered, Refused, Discarded, GiveUp, Settle, memory
  <2>3. \/ pc'[0] \notin {"resume_kv", "enter"}
        \/ pc[0] \in {"flush", "resume_kv"}
    BY <1>5, <2>1 DEF Answered, Refused, Discarded, GiveUp, Settle, AfterOp
  <2>4. pc'[0] # "ready"
    BY <1>5, ExchangeEnds
  <2>5. pc[0] = "resume_kv" => (Flushed' => Flushed)
    BY <1>5, ConfigFrame DEF Answered, Refused, Discarded, GiveUp, Carried, Flushed, Switches
  <2>6. pc[0] = "flush" => \/ reply = "ok"
                           \/ pc'[0] = "raised"
                           \/ "flush" \in ignored'
    BY <1>5 DEF Answered, Refused, Discarded, GiveUp, Settle
  <2> QED BY <2>2, <2>3, <2>4, <2>5, <2>6 DEF Flushed
<1>6. CASE Compute \/ Barrier
    BY <1>0, <1>6 DEF Compute, Barrier
<1>7. CASE GatherBucket
    BY <1>0, <1>7 DEF GatherBucket, memory, http, HttpInv
<1>8. CASE Generate \/ GenerateRaises \/ GenerateAsync
    BY <1>0, <1>8 DEF Generate, GenerateRaises, GenerateAsync, Sampled
<1>9. ASSUME NEW r \in Ranks, WorkerStep(r)
      PROVE  FlushedInv'
    BY <1>0, <1>9 DEF WorkerStep, ToGpu, ToCpu, LeaveUpdate, EnterRollout, RestoreTrainer,
                AwaitRankZero, AfterOffload, memory, http
<1> QED BY <1>1, <1>2, <1>3, <1>4, <1>5, <1>6, <1>7, <1>8, <1>9 DEF Next

\* A rollout samples something, and from the trainer's parameters alone if the
\* engine is not stale.
LEMMA SampledFromTrained ==
    ASSUME Basic, FreedInv, LoadedInv, FlushedInv, pc[0] = "ready", ~Stale
    PROVE  SampledFrom = {trained}
<1>1. cache = {}
  <2>1. CASE config.free_cache_engine
    BY <2>1 DEF FreedInv, SharingInv
  <2>2. CASE ~config.free_cache_engine
    BY <2>2 DEF FlushedInv, Flushed, Stale
  <2> QED BY <2>1, <2>2
<1>2. \A b \in Buckets : loaded[b] = trained
    BY DEF LoadedInv, Heard, Stale, UpdatedTo, Buckets
<1>3. 1 \in Buckets
    BY Assumptions DEF Buckets
<1> QED BY <1>1, <1>2, <1>3 DEF SampledFrom

LEMMA SamplesSomething == SampledFrom # {}
<1>1. 1 \in Buckets
    BY Assumptions DEF Buckets
<1> QED BY <1>1 DEF SampledFrom

LEMMA BatchStep ==
    Basic /\ BatchInv /\ [Next]_vars => BatchInv'
<1> SUFFICES ASSUME Basic, BatchInv, [Next]_vars PROVE BatchInv'
    OBVIOUS
<1> USE Assumptions DEF Basic, TypeOK, WorkerTypes, PlaceInv, BatchInv, Go, TrainerMode, EngineOps,
        RolloutStages, ComputeStages
<1>1. CASE NextCall
  <2>1. pc' = [r \in Ranks |-> Entry(stage', r)] /\ pc[0] = "done"
    BY <1>1 DEF NextCall, AllDone
  <2>2. stage' = "gen" => pc'[0] \in {"to_gpu", "ready"}
    BY <2>1 DEF Entry
  <2>3. /\ stage' # "init"
        /\ stage' = "load" => stage = "init"
        /\ stage' = "logp" => stage = "gen"
        /\ stage' = "train" => stage = "logp"
        /\ stage' \notin RolloutStages => UNCHANGED <<trained, batch>>
    BY <1>1 DEF NextCall, Following, Onward, Again
  <2> QED BY <2>1, <2>2, <2>3
<1>2. CASE DriverFails \/ GenerateAsyncRaises
    BY <1>2 DEF DriverFails, GenerateAsyncRaises
<1>3. CASE Send \/ Serve \/ TryAgain \/ UNCHANGED vars
    BY <1>3 DEF Send, Serve, TryAgain, vars, driver
<1>4. CASE Answered \/ Refused \/ Discarded \/ GiveUp
  <2>1. pc[0] \in EngineOps
    BY <1>4 DEF Answered, Refused, Discarded, GiveUp, HttpInv
  <2>2. UNCHANGED <<stage, trained, batch>>
    BY <1>4 DEF Answered, Refused, Discarded, GiveUp, Settle, driver
  <2>3. \/ pc'[0] \in {"update", "flush", "resume_kv", "enter", "raised"}
        \/ pc[0] = "release" /\ pc'[0] = "restore"
    BY <1>4, ExchangeEnds DEF Basic, TypeOK
  <2> QED BY <2>1, <2>2, <2>3
<1>5. CASE Compute
    BY <1>5 DEF Compute
<1>6. CASE GatherBucket
    BY <1>6 DEF GatherBucket, driver
<1>7. CASE Barrier
    BY <1>7 DEF Barrier, driver
<1>8. CASE Generate \/ GenerateAsync
  <2>1. pc[0] = "ready" /\ batch' # {} /\ UNCHANGED <<stage, trained>>
    BY <1>8, SamplesSomething DEF Generate, GenerateAsync, Sampled
  <2> QED BY <2>1
<1>9. CASE GenerateRaises
    BY <1>9 DEF GenerateRaises, driver
<1>10. ASSUME NEW r \in Ranks, WorkerStep(r)
       PROVE  BatchInv'
    BY <1>10 DEF WorkerStep, ToGpu, ToCpu, LeaveUpdate, EnterRollout, RestoreTrainer,
                AwaitRankZero, AfterOffload, driver
<1> QED BY <1>1, <1>2, <1>3, <1>4, <1>5, <1>6, <1>7, <1>8, <1>9, <1>10 DEF Next

-----------------------------------------------------------------------------
(* The theorems.                                                           *)

LEMMA InitInv == Init => IInv
<1> SUFFICES ASSUME Init PROVE IInv
    OBVIOUS
<1> USE Assumptions DEF Init
<1>1. \A r \in Ranks : /\ pc[r] \in {"release", "restore", "done"}
                       /\ pc[r] = "release" => r = 0
                       /\ ~Switches => pc[r] = "done"
    BY DEF Entry, TrainerMode, ComputeStages, RolloutStages
<1>2. config.free_cache_engine => pc[0] = "release"
    BY DEF Entry, TrainerMode, Switches, ComputeStages, RolloutStages
<1>3. TypeOK
  <2>1. DriverTypes
    BY DEF DriverTypes, Stages
  <2>2. WorkerTypes
    BY <1>1 DEF WorkerTypes, Places, EngineOps
  <2>3. StreamTypes
    BY DEF StreamTypes, State
  <2>4. EngineTypes
    BY DEF EngineTypes, Version, Dummy
  <2>5. HttpTypes
    <3>1. inbox \in Seq(Requests)
      OBVIOUS
    <3>2. attempt \in 0 .. 4 * MaxAttempts
      OBVIOUS
    <3> QED BY <3>1, <3>2 DEF HttpTypes
  <2> QED BY <2>1, <2>2, <2>3, <2>4, <2>5 DEF TypeOK
<1>4. PlaceInv
    BY <1>1 DEF PlaceInv, EngineOps, ComputeStages
<1>5. HttpInv
    BY DEF HttpInv
<1>6. StreamInv
    BY <1>1 DEF StreamInv, Own
<1>7. EngineInv
    BY <1>1 DEF EngineInv, QueueInv, LoadedInv, Training, FlushedInv
<1>8. BatchInv
    BY DEF BatchInv
<1>9. config.free_cache_engine => SharingInv
    BY <1>1, <1>2 DEF SharingInv, Training
<1> QED BY <1>3, <1>4, <1>5, <1>6, <1>7, <1>8, <1>9 DEF IInv, Basic, FreedInv

LEMMA StepInv == IInv /\ [Next]_vars => IInv'
<1> SUFFICES ASSUME IInv, [Next]_vars PROVE IInv'
    OBVIOUS
<1>1. Basic'
    BY TypeStep, PlaceStep, HttpStep DEF IInv, Basic
<1>2. StreamInv'
    BY StreamStep DEF IInv
<1>3. EngineInv'
    BY QueueStep, LoadedStep, FlushedStep DEF IInv, EngineInv
<1>4. BatchInv'
    BY BatchStep DEF IInv
<1>5. FreedInv'
    BY ConfigFrame, SharingStep DEF IInv, EngineInv, FreedInv
<1> QED BY <1>1, <1>2, <1>3, <1>4, <1>5 DEF IInv

\* The inductive invariant of a hybrid-engine replica.
THEOREM HybridInvariant == Spec => []IInv
BY InitInv, StepInv, PTL DEF Spec

\* Types, and the adapter's limit on attempts.
THEOREM TypeCorrect == Spec => []TypeOK
<1>1. IInv => TypeOK
    BY DEF IInv, Basic
<1> QED BY <1>1, HybridInvariant, PTL

\* Generation leaves the trainer's random stream alone, in every configuration.
THEOREM TrainerKeepsStream == Spec => []TrainerStreamKept
<1>1. IInv => TrainerStreamKept
    BY DEF IInv, StreamInv, TrainerStreamKept, Own, Generating
<1> QED BY <1>1, HybridInvariant, PTL

\* Training and generation never hold the GPUs' memory together.
THEOREM MemoryNeverShared == Spec => []MemoryIsShared
<1>1. IInv => MemoryIsShared
  <2> SUFFICES ASSUME IInv, config.free_cache_engine
               PROVE  /\ kv /\ OffloadParam => gpu = {}
                      /\ (\E r \in Ranks : pc[r] = "compute") => ~weights /\ ~kv
      BY DEF MemoryIsShared
  <2>1. SharingInv
    BY DEF IInv, FreedInv
  <2>2. kv /\ OffloadParam => gpu = {}
    BY <2>1 DEF SharingInv, CacheAwaited, IInv, Basic, TypeOK, WorkerTypes
  <2>3. (\E r \in Ranks : pc[r] = "compute") => pc[0] \in Training \cup {"done"}
    BY Assumptions DEF IInv, Basic, PlaceInv, Training
  <2> QED BY <2>1, <2>2, <2>3 DEF SharingInv
<1> QED BY <1>1, HybridInvariant, PTL

\* In every configuration the workers, the adapter and the engine implement the
\* on-policy loop, and only an engine that is stale when it is asked excuses them.
THEOREM HybridIsOnPolicy == Spec => ImplementsOnPolicyLoop
<1>1. Init => Loop!LoopInit
    BY DEF Init, Loop!LoopInit
<1>2. IInv /\ [Next]_vars => [Loop!LoopNext]_(Loop!loopVars)
  <2> SUFFICES ASSUME IInv, [Next]_vars
               PROVE  Loop!LoopNext \/ UNCHANGED <<trained, batch>>
      BY DEF Loop!loopVars
  <2>1. Basic /\ FreedInv /\ LoadedInv /\ FlushedInv /\ BatchInv
    BY DEF IInv, EngineInv
  <2>2. CASE Compute
    <3>1. pc[0] = "compute" /\ stage \in ComputeStages
      BY <2>1, <2>2, Assumptions DEF Compute, Basic, PlaceInv
    <3>2. CASE stage = "load"
      BY <2>1, <2>2, <3>1, <3>2 DEF Compute, BatchInv, Loop!LoopNext, Loop!Resume
    <3>3. CASE stage = "train"
      BY <2>1, <2>2, <3>1, <3>3 DEF Compute, BatchInv, Loop!LoopNext, Loop!Learn
    <3>4. CASE stage \notin {"load", "train"}
      BY <2>2, <3>4 DEF Compute
    <3> QED BY <3>2, <3>3, <3>4
  <2>3. CASE Generate \/ GenerateAsync
    <3>1. pc[0] = "ready" /\ batch' = batch \cup SampledFrom /\ trained' = trained
      BY <2>3, Assumptions DEF Generate, GenerateAsync, Sampled
    <3>2. CASE Stale
      BY <3>1, <3>2 DEF Loop!LoopNext, Loop!Sample
    <3>3. CASE ~Stale
      BY <2>1, <3>1, <3>3, SampledFromTrained DEF Loop!LoopNext, Loop!Sample
    <3> QED BY <3>2, <3>3
  <2>4. CASE NextCall
    <3>1. trained' = trained /\ (batch' = batch \/ batch' = {})
      BY <2>4 DEF NextCall
    <3> QED BY <3>1 DEF Loop!LoopNext, Loop!Discard
  <2>5. CASE DriverFails \/ GenerateAsyncRaises \/ UNCHANGED driver
    BY <2>5 DEF DriverFails, GenerateAsyncRaises, driver
  <2> QED BY <2>2, <2>3, <2>4, <2>5, DriverFrame
<1> QED BY <1>1, <1>2, HybridInvariant, PTL DEF Spec, ImplementsOnPolicyLoop, Loop!LoopSpec
=============================================================================
