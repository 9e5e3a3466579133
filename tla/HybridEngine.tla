---------------------------- MODULE HybridEngine ----------------------------
(***************************************************************************)
(* One replica of the hybrid engine: TP workers whose GPUs the training    *)
(* parameters and the inference engine share (fsdp_workers.py), the engine *)
(* behind its adapter (sglang_rollout.py, http_server_engine.py), and the  *)
(* driver that calls them in turn (ray_trainer.py, agent_loop.py).         *)
(*                                                                         *)
(* Every worker runs rollout_mode and trainer_mode for itself; only rank 0 *)
(* talks to the engine.  The ranks meet where a bucket of parameters is    *)
(* gathered, at the barrier that ends a generation, and in a computation.  *)
(* A version of the parameters is a number, and the engine's weights are   *)
(* the version each bucket was last written with.  An engine in the process*)
(* answers an update and a flush with its success, which the callers drop: *)
(* what it was asked and did not do, unnoticed, is kept in ignored.        *)
(***************************************************************************)
EXTENDS Integers, Sequences

CONSTANTS
    TP,            \* tensor_model_parallel_size: the workers of the replica
    NumBuckets,    \* buckets get_named_tensor_buckets cuts the parameters into
    MaxAttempts,   \* max_attempts of the HTTP adapter
    LastStep,      \* total_training_steps
    FirstUpdate,   \* the first step that updates the actor: critic_warmup, or 1
    Generations,   \* calls of generate_sequences in a stage: two for REMAX's
                   \* step, one for every batch of a validation
    OffloadParam,  \* actor.fsdp_config.param_offload
    Configs        \* the configurations a behaviour may run with

(* async: rollout.mode; free_cache_engine: the option of that name;        *)
(* server: the engine is reached over HTTP and not in the process.         *)
Config == [async : BOOLEAN, free_cache_engine : BOOLEAN, server : BOOLEAN]

ASSUME TPAssumption == TP \in Nat \ {0}
ASSUME NumBucketsAssumption == NumBuckets \in Nat \ {0}
ASSUME MaxAttemptsAssumption == MaxAttempts \in Nat \ {0}
ASSUME LastStepAssumption == LastStep \in Nat \ {0}
ASSUME FirstUpdateAssumption == FirstUpdate \in Nat \ {0}
ASSUME OffloadParamAssumption == OffloadParam \in BOOLEAN
ASSUME ConfigsAssumption == Configs \subseteq Config

Ranks == 0 .. TP - 1
Buckets == 1 .. NumBuckets

Dummy == -1        \* weights of no version: load_format "dummy", or memory just resumed

RolloutStages == {"val", "gen", "test"}
ASSUME GenerationsAssumption == Generations \in [RolloutStages -> Nat \ {0}]

ComputeStages == {"load", "logp", "train", "save"}
Stages == {"init", "done", "failed"} \cup RolloutStages \cup ComputeStages
EngineOps == {"resume_weights", "update_weights", "flush", "resume_kv", "release"}
SuccessOps == {"update_weights", "flush"}     \* answered with a success; the others
                                              \* have no result, they work or raise
Places == {"done", "to_gpu", "compute", "to_cpu", "update", "enter", "ready",
           "barrier", "restore", "raised"} \cup EngineOps

VARIABLES
    config,     \* the configuration of this run
    stage,      \* the call of fit the driver is in
    round,      \* calls made in this stage
    step,       \* global_steps
    updates,    \* updates of the actor in this run
    trained,    \* version of the training parameters
    batch,      \* versions this step's rollouts were sampled from
    pc,         \* where each worker is in the call
    bucket,     \* buckets gathered since the engine was woken
    gpu,        \* ranks whose training parameters are on the GPU
    rng,        \* each worker's random state
    torch_random_states,
    gen_random_states,
    weights,    \* the engine's weights occupy memory
    kv,         \* the engine's KV cache occupies memory
    loaded,     \* version of each bucket of the engine's weights
    cache,      \* versions the prefix cache was computed with
    inbox,      \* requests the engine has not handled, oldest first
    attempt,    \* attempts rank 0 made at the present request
    waiting,    \* rank 0 awaits the answer to its last attempt
    sent,       \* that attempt reached the engine
    reply,      \* the answer on its way to rank 0
    ignored     \* what the engine did not do when last asked, unnoticed

driver == <<config, stage, round, step, updates, trained, batch>>
randomness == <<rng, torch_random_states, gen_random_states>>
memory == <<weights, kv, loaded, cache>>
http == <<inbox, attempt, waiting, sent, reply>>
vars == <<driver, pc, bucket, gpu, randomness, memory, http, ignored>>

-----------------------------------------------------------------------------
(* Where a call starts and goes on.                                        *)

\* trainer_mode releases the engine first, through rank 0.
TrainerMode(r) == IF r = 0 /\ config.free_cache_engine THEN "release" ELSE "restore"

\* The manager wakes the replicas up and puts them to sleep only when the
\* cache is freed; without async the workers always switch by themselves.
Switches == ~config.async \/ config.free_cache_engine

Entry(s, r) ==
    CASE s = "init" -> IF Switches THEN TrainerMode(r) ELSE "done"
      [] s \in ComputeStages -> "to_gpu"
      [] s \in RolloutStages -> IF Switches THEN "to_gpu" ELSE "ready"
      [] OTHER -> "done"

\* After offloading, rank 0 resumes the engine's weights.
AfterOffload(r) ==
    IF r = 0 /\ config.free_cache_engine THEN "resume_weights" ELSE "update"

AfterOp(op) ==
    CASE op = "resume_weights" -> "update"
      [] op = "update_weights" -> IF bucket < NumBuckets THEN "update" ELSE "flush"
      [] op = "flush" -> IF config.free_cache_engine THEN "resume_kv" ELSE "enter"
      [] op = "resume_kv" -> "enter"
      [] op = "release" -> "restore"

Go(r, place) == pc' = [pc EXCEPT ![r] = place]

Limit(op) == IF ~config.server THEN 1
             ELSE IF op = "flush" THEN 4 * MaxAttempts ELSE MaxAttempts

-----------------------------------------------------------------------------
(* The driver.                                                             *)

Init ==
    /\ config \in Configs
    /\ stage = "init" /\ round = 1 /\ step = 0 /\ updates = 0
    /\ trained = 0 /\ batch = {}
    /\ pc = [r \in Ranks |-> Entry("init", r)]
    /\ bucket = 0
    /\ gpu = IF OffloadParam THEN {} ELSE Ranks
    /\ rng = [r \in Ranks |-> [stream |-> "trainer", drawn |-> 0]]
    /\ torch_random_states = rng
    /\ gen_random_states = [r \in Ranks |-> [stream |-> "rollout", drawn |-> 0]]
    /\ weights = TRUE /\ kv = TRUE
    /\ loaded = [b \in Buckets |-> Dummy] /\ cache = {}
    /\ inbox = <<>> /\ attempt = 0 /\ waiting = FALSE /\ sent = FALSE /\ reply = "none"
    /\ ignored = {}

AllDone == \A r \in Ranks : pc[r] = "done"

Onward == IF step < LastStep THEN {"gen"} ELSE {"done"}

\* The stage fit may go on with when the calls of this one returned; a step of
\* the critic's warm-up leaves the actor alone.
Following(s) ==
    CASE s = "init" -> {"load"}
      [] s = "load" -> {"val", "gen"}
      [] s = "val" -> {"gen", "done"}
      [] s = "gen" -> {"logp"}
      [] s = "logp" -> IF step < FirstUpdate THEN {"test", "save"} \cup Onward ELSE {"train"}
      [] s = "train" -> {"test", "save"} \cup Onward
      [] s = "test" -> {"save"} \cup Onward
      [] s = "save" -> Onward
      [] OTHER -> {}

Again == stage \in RolloutStages /\ round < Generations[stage]

\* The driver's call returned on every worker; it makes the next one.  A batch
\* is dropped where the next rollouts begin.
NextCall ==
    /\ AllDone
    /\ IF Again
         THEN stage' = stage /\ round' = round + 1 /\ UNCHANGED <<step, batch>>
         ELSE /\ stage' \in Following(stage) /\ round' = 1
              /\ step' = IF stage' = "gen" THEN step + 1 ELSE step
              /\ batch' = IF stage' \in RolloutStages THEN {} ELSE batch
    /\ pc' = [r \in Ranks |-> Entry(stage', r)]
    /\ bucket' = 0
    /\ UNCHANGED <<config, updates, trained, gpu, randomness, memory, http, ignored>>

\* A slip: the driver waits for every worker before it looks for exceptions.
DriverFailsAfterAll ==
    /\ stage # "failed"
    /\ \E r \in Ranks : pc[r] = "raised"
    /\ \A r \in Ranks : pc[r] \in {"done", "raised"}
    /\ stage' = "failed"
    /\ UNCHANGED <<config, round, step, updates, trained, batch, pc, bucket, gpu,
                   randomness, memory, http, ignored>>

\* ray.get raises as soon as one worker has raised, wherever the others are.
DriverFails ==
    /\ stage # "failed"
    /\ \E r \in Ranks : pc[r] = "raised"
    /\ stage' = "failed"
    /\ UNCHANGED <<config, round, step, updates, trained, batch, pc, bucket, gpu,
                   randomness, memory, http, ignored>>

-----------------------------------------------------------------------------
(* The workers' own steps.                                                 *)

ToGpu(r) ==
    /\ pc[r] = "to_gpu"
    /\ gpu' = gpu \cup {r}
    /\ Go(r, IF stage \in ComputeStages THEN "compute" ELSE "to_cpu")
    /\ UNCHANGED <<driver, bucket, randomness, memory, http, ignored>>

Offloaded(ranks) == IF OffloadParam THEN gpu \ ranks ELSE gpu

\* load_checkpoint, compute_log_prob, update_actor, save_checkpoint: the ranks
\* compute together, each then moves its parameters back to the CPU.
Compute ==
    /\ \A r \in Ranks : pc[r] = "compute"
    /\ CASE stage = "load" -> trained' \in {0, 1} /\ UNCHANGED <<updates, batch, rng>>
         [] stage = "train" -> /\ trained' = trained + 1 /\ updates' = updates + 1 /\ batch' = {}
                               /\ rng' = [r \in Ranks |-> [rng[r] EXCEPT !.drawn = @ + 1]]
         [] OTHER -> UNCHANGED <<trained, updates, batch, rng>>
    /\ gpu' = Offloaded(Ranks)
    /\ pc' = [r \in Ranks |-> "done"]
    /\ UNCHANGED <<config, stage, round, step, bucket, torch_random_states, gen_random_states, memory, http, ignored>>

ToCpu(r) ==
    /\ pc[r] = "to_cpu"
    /\ gpu' = Offloaded({r})
    /\ Go(r, AfterOffload(r))
    /\ UNCHANGED <<driver, bucket, randomness, memory, http, ignored>>

\* The ranks gather the next bucket on rank 0, which sends it to the engine.
GatherBucket ==
    /\ bucket < NumBuckets
    /\ \A r \in Ranks : pc[r] = "update"
    /\ bucket' = bucket + 1
    /\ Go(0, "update_weights")
    /\ UNCHANGED <<driver, gpu, randomness, memory, http, ignored>>

\* A rank other than 0 has nothing to wait for after the last bucket.
LeaveUpdate(r) ==
    /\ r # 0 /\ pc[r] = "update" /\ bucket = NumBuckets
    /\ Go(r, "enter")
    /\ UNCHANGED <<driver, bucket, gpu, randomness, memory, http, ignored>>

\* A slip: the trainer's state is not saved on the way in.
EnterRolloutUnsaved(r) ==
    /\ pc[r] = "enter"
    /\ rng' = [rng EXCEPT ![r] = gen_random_states[r]]
    /\ Go(r, "ready")
    /\ UNCHANGED <<driver, bucket, gpu, torch_random_states, gen_random_states, memory, http, ignored>>

EnterRollout(r) ==
    /\ pc[r] = "enter"
    /\ torch_random_states' = [torch_random_states EXCEPT ![r] = rng[r]]
    /\ rng' = [rng EXCEPT ![r] = gen_random_states[r]]
    /\ Go(r, "ready")
    /\ UNCHANGED <<driver, bucket, gpu, gen_random_states, memory, http, ignored>>

RestoreTrainer(r) ==
    /\ pc[r] = "restore"
    /\ gen_random_states' = [gen_random_states EXCEPT ![r] = rng[r]]
    /\ rng' = [rng EXCEPT ![r] = torch_random_states[r]]
    /\ Go(r, "done")
    /\ UNCHANGED <<driver, bucket, gpu, torch_random_states, memory, http, ignored>>

-----------------------------------------------------------------------------
(* Generation.                                                             *)

\* What the engine samples from: its weights, and prefixes it finds cached.
SampledFrom == {loaded[b] : b \in Buckets} \cup cache

Sampled ==
    /\ batch' = batch \cup SampledFrom
    /\ cache' = cache \cup {loaded[b] : b \in Buckets}
    /\ UNCHANGED <<config, stage, round, step, updates, trained, bucket, gpu, weights, kv,
                   loaded, http, ignored>>

\* sync: rank 0 drives the engine, the others go to the barrier.
Generate ==
    /\ ~config.async /\ pc[0] = "ready"
    /\ Go(0, "barrier")
    /\ Sampled
    /\ UNCHANGED randomness

GenerateRaises ==
    /\ ~config.async /\ pc[0] = "ready"
    /\ Go(0, "raised")
    /\ UNCHANGED <<driver, bucket, gpu, randomness, memory, http, ignored>>

AwaitRankZero(r) ==
    /\ ~config.async /\ r # 0 /\ pc[r] = "ready"
    /\ Go(r, "barrier")
    /\ UNCHANGED <<driver, bucket, gpu, randomness, memory, http, ignored>>

\* dist.barrier, the broadcast of the results, and trainer_mode begins.
Barrier ==
    /\ \A r \in Ranks : pc[r] = "barrier"
    /\ pc' = [r \in Ranks |-> TrainerMode(r)]
    /\ rng' = [r \in Ranks |-> [rng[r] EXCEPT !.drawn = @ + 1]]
    /\ UNCHANGED <<driver, bucket, gpu, torch_random_states, gen_random_states, memory, http, ignored>>

\* async: every worker answered wake_up, the agent loops generate, and the
\* manager puts the replicas to sleep.
GenerateAsync ==
    /\ config.async /\ stage # "failed" /\ \A r \in Ranks : pc[r] = "ready"
    /\ pc' = [r \in Ranks |-> IF Switches THEN TrainerMode(r) ELSE "done"]
    /\ Sampled
    /\ UNCHANGED randomness

GenerateAsyncRaises ==
    /\ config.async /\ stage # "failed" /\ \A r \in Ranks : pc[r] = "ready"
    /\ stage' = "failed"
    /\ UNCHANGED <<config, round, step, updates, trained, batch, pc, bucket, gpu,
                   randomness, memory, http, ignored>>

-----------------------------------------------------------------------------
(* Rank 0 and the engine.                                                  *)

Request == [op |-> pc[0], bucket |-> bucket, version |-> trained]

\* An attempt reaches the engine's queue, or its connection fails.
Send ==
    /\ pc[0] \in EngineOps /\ ~waiting /\ attempt < Limit(pc[0])
    /\ attempt' = attempt + 1 /\ waiting' = TRUE
    /\ \/ sent' = TRUE /\ inbox' = Append(inbox, Request)
       \/ config.server /\ sent' = FALSE /\ UNCHANGED inbox
    /\ UNCHANGED <<driver, pc, bucket, gpu, randomness, memory, reply, ignored>>

Apply(request) ==
    CASE request.op = "resume_weights" -> weights' = TRUE /\ UNCHANGED <<kv, loaded, cache>>
      [] request.op = "update_weights" ->
            /\ loaded' = [loaded EXCEPT ![request.bucket] = request.version]
            /\ UNCHANGED <<weights, kv, cache>>
      [] request.op = "flush" -> cache' = {} /\ UNCHANGED <<weights, kv, loaded>>
      [] request.op = "resume_kv" -> kv' = TRUE /\ UNCHANGED <<weights, loaded, cache>>
      [] request.op = "release" -> /\ weights' = FALSE /\ kv' = FALSE /\ cache' = {}
                                   /\ loaded' = [b \in Buckets |-> Dummy]

\* Is the oldest request the one rank 0 is waiting for, or one it gave up?
Awaited == waiting /\ sent /\ Len(inbox) = 1

\* The engine handles its requests in order: it carries the oldest one out, or
\* answers with an error status.
Serve ==
    /\ inbox # <<>>
    /\ inbox' = Tail(inbox)
    /\ \/ Apply(Head(inbox)) /\ reply' = IF Awaited THEN "ok" ELSE reply
       \/ UNCHANGED memory /\ reply' = IF Awaited THEN "error" ELSE reply
    /\ UNCHANGED <<driver, pc, bucket, gpu, randomness, attempt, waiting, sent, ignored>>

Settle(place) ==
    /\ Go(0, place)
    /\ attempt' = 0 /\ waiting' = FALSE /\ sent' = FALSE /\ reply' = "none"
    /\ UNCHANGED <<driver, bucket, gpu, randomness, memory, inbox>>

\* The engine did as asked; a refused bucket stays refused for this update.
Carried(op) == IF op = "update_weights" /\ bucket > 1 THEN ignored ELSE ignored \ {op}

Answered ==
    /\ reply = "ok" /\ Settle(AfterOp(pc[0]))
    /\ ignored' = Carried(pc[0])

\* A slip: an error status is logged and the switch goes on.
RefusedQuietly ==
    /\ reply = "error" /\ (config.server => pc[0] # "flush")
    /\ Settle(AfterOp(pc[0]))
    /\ UNCHANGED ignored

\* raise_for_status raises at once, and a call in the process may raise too.
Refused ==
    /\ reply = "error" /\ (config.server => pc[0] # "flush")
    /\ Settle("raised")
    /\ UNCHANGED ignored

\* In the process, nobody looks at the success an update or a flush returns.
Discarded ==
    /\ reply = "error" /\ ~config.server /\ pc[0] \in SuccessOps
    /\ Settle(AfterOp(pc[0]))
    /\ ignored' = ignored \cup {pc[0]}

\* flush_cache retries whatever went wrong; every request is retried after a timeout.
TryAgain ==
    /\ config.server
    /\ \/ reply = "error" /\ pc[0] = "flush"
       \/ waiting
    /\ waiting' = FALSE /\ sent' = FALSE /\ reply' = "none"
    /\ UNCHANGED <<driver, pc, bucket, gpu, randomness, memory, inbox, attempt, ignored>>

\* A slip: every request that ran out of attempts is only logged.
GiveUpQuietly ==
    /\ pc[0] \in EngineOps /\ ~waiting /\ attempt = Limit(pc[0])
    /\ Settle(AfterOp(pc[0]))
    /\ UNCHANGED ignored

\* Out of attempts: flush_cache logs it and returns, any other request raises.
GiveUp ==
    /\ pc[0] \in EngineOps /\ ~waiting /\ attempt = Limit(pc[0])
    /\ IF pc[0] = "flush"
         THEN Settle(AfterOp("flush")) /\ ignored' = ignored \cup {"flush"}
         ELSE Settle("raised") /\ UNCHANGED ignored

-----------------------------------------------------------------------------
WorkerStep(r) == \/ ToGpu(r) \/ ToCpu(r) \/ LeaveUpdate(r) \/ EnterRollout(r)
                 \/ RestoreTrainer(r) \/ AwaitRankZero(r)

Next == \/ NextCall \/ DriverFails
        \/ \E r \in Ranks : WorkerStep(r)
        \/ Compute \/ GatherBucket \/ Barrier
        \/ Generate \/ GenerateRaises \/ GenerateAsync \/ GenerateAsyncRaises
        \/ Send \/ Serve \/ Answered \/ Refused \/ Discarded \/ TryAgain \/ GiveUp

Spec == Init /\ [][Next]_vars

\* Every process goes on while it can, every timer runs out: no loop of the
\* code is unbounded, so it is enough that something happens while it can.
FairSpec == Spec /\ WF_vars(Next)

-----------------------------------------------------------------------------
(* Properties.                                                             *)

Version == Nat \cup {Dummy}
State == [stream : {"trainer", "rollout"}, drawn : Nat]
Requests == [op : EngineOps, bucket : 0 .. NumBuckets, version : Nat]

DriverTypes ==
    /\ config \in Configs
    /\ stage \in Stages
    /\ round \in Nat /\ step \in Nat /\ updates \in Nat /\ trained \in Nat
    /\ batch \subseteq Version

WorkerTypes ==
    /\ pc \in [Ranks -> Places]
    /\ bucket \in 0 .. NumBuckets
    /\ gpu \subseteq Ranks

StreamTypes ==
    /\ rng \in [Ranks -> State]
    /\ torch_random_states \in [Ranks -> State]
    /\ gen_random_states \in [Ranks -> State]

EngineTypes ==
    /\ weights \in BOOLEAN /\ kv \in BOOLEAN
    /\ loaded \in [Buckets -> Version]
    /\ cache \subseteq Version

HttpTypes ==
    /\ inbox \in Seq(Requests)
    /\ attempt \in 0 .. 4 * MaxAttempts
    /\ waiting \in BOOLEAN /\ sent \in BOOLEAN
    /\ reply \in {"none", "ok", "error"}
    /\ ignored \subseteq SuccessOps

(* Every variable has its type, and no request is attempted more often than*)
(* the adapter's limit allows.                                             *)
TypeOK == DriverTypes /\ WorkerTypes /\ StreamTypes /\ EngineTypes /\ HttpTypes

(* The GPUs are never asked for more than they hold: the KV cache and the  *)
(* training parameters are not there together, and no worker loads a       *)
(* checkpoint, computes or saves while the engine occupies memory, whatever*)
(* the ranks' pace and the requests that were retried (rollout_mode offloads *)
(* before it updates; trainer_mode releases before it returns).            *)
MemoryIsShared ==
    config.free_cache_engine =>
        /\ kv /\ OffloadParam => gpu = {}
        /\ (\E r \in Ranks : pc[r] = "compute") => ~weights /\ ~kv

(* Generation leaves the trainer's random stream alone: a worker computes  *)
(* with the state its own computations left (rollout_mode and trainer_mode *)
(* swap the two streams on every switch).                                  *)
TrainerStreamKept ==
    \A r \in Ranks :
        pc[r] = "compute" => rng[r] = [stream |-> "trainer", drawn |-> updates]

(* What the engine samples from may be stale: nobody wrote its weights (an *)
(* agent loop that never wakes it up), an engine in the process refused a  *)
(* bucket of this update, or a flush was not carried out and the memory is *)
(* kept, so that prefixes of an older version are cached.                  *)
Stale ==
    \/ ~Switches
    \/ "update_weights" \in ignored
    \/ "flush" \in ignored /\ ~config.free_cache_engine

(* Whatever is retried, raised, given up or late, a step of the trainer    *)
(* learns from rollouts of the parameters it updates, unless the engine was*)
(* stale when it was asked for them: the workers, the adapter and the      *)
(* engine implement the on-policy loop, with a stale engine as its only    *)
(* excuse.  One update later the engine is fresh again.                    *)
Loop == INSTANCE OnPolicyLoop WITH excused <- Stale
ImplementsOnPolicyLoop == Loop!LoopSpec

(* The driver's run ends, with its last update or with the first error a   *)
(* worker raised, and never waits at a barrier for a rank that raised.     *)
JobEnds == <>(stage \in {"done", "failed"})
=============================================================================
