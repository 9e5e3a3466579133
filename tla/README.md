# Specifications of MTSQL-R1

MTSQL-R1 trains a language model to answer text-to-SQL questions over several
turns. The model calls tools (run the query, look into the dialogue's memory),
sees what they answer and corrects itself; a reward scores the last query, and
PPO or GRPO (verl, copied into this repository) updates the model. A supervised
stage goes before it.

This directory holds TLA+ modules of the parts of that program whose control is
hard to get right: rollouts as coroutines on one event loop, GPUs that a trainer
and an inference engine share, a limiter and a reward model shared by threads of
many processes, batches that are cut, permuted and put together again, and
checkpoints that must survive a crash at any moment. TLC checks small instances;
TLAPS proves the safety of every module for every value of its constants, that is,
all invariants and action properties the runs check and the refinements.
`PROJECT.json` lists components, runs, hazards, theorems, and for each
definition the source lines it stands for.

    tlc -workers 2 -config rollout_batch.cfg MCAsyncRollout.tla     # one run
    tlapm AsyncRolloutProofs.tla                                    # one proof module

Source paths below are relative to `src/verl/`.

## 1. Inventory

| Component | State it keeps | Operations | Talks to |
|---|---|---|---|
| Request-level rollout, `workers/rollout/sglang_rollout/sglang_rollout.py` | a coroutine with its turn counters and finish reason per prompt; the collector's count of finished tasks | one turn of the loop on PENDING, RUNNING, TOOL_CALLING, INTERACTING; target reached, cancel, abort, build the batch, flush | engine (async calls), tools and interactions (awaits), trainer (call and return) |
| Rollout request, `workers/rollout/schemas.py` | the token stream, loss mask, prompt and response | add user, assistant, tool messages; generation prompt in and out; finalize and cut | called by the rollout |
| Hybrid engine, `workers/fsdp_workers.py` with `sglang_rollout.py` and `http_server_engine.py` | which parameters are on the GPU, what memory and which weights the engine holds, two random streams per rank, requests under way | rollout_mode, trainer_mode, bucketed weight update, generate, barrier, repeat and give up a request | driver, engine, the other ranks |
| Agent loop, `experimental/agent_loop/tool_agent_loop.py` | a row's stream, mask, log-probabilities, turns; tool instances of its calls | the states of `AgentState`, parallel `_call_tool`, padding of the row | SGLang server, tools, interaction |
| Reward pipeline, `experimental/agent_loop/agent_loop.py` | the batch executor's queue and batch; threads of the reward workers; futures | split a batch over workers, run rows, submit, collect, score, resolve | reward model, agent-loop workers |
| Data protocol and dispatch, `protocol.py`, `single_controller/base/decorator.py` | none (a batch is a value) | chunk, split, repeat, reorder, concat, pad, unpad; dispatch to and collect from data-parallel ranks | everything the driver calls |
| Sequence-length balancing, `utils/seqlen_balancing.py` | none | Karmarkar-Karp partitions, dynamic micro-batches and their undoing | trainer, actor, critic |
| Training step, `trainer/ppo/ray_trainer.py`, `workers/actor/dp_actor.py`, `workers/critic/dp_critic.py` | the batch as it passes through `fit` or `_validate`; what each rank trained on | repeat, generate, union, balance, reward, log-probabilities, values, advantage, mini- and micro-batched updates | the workers, by dispatch |
| Advantages, `trainer/ppo/core_algos.py`, `utils/groupwise.py` | none | eleven estimators | training step |
| Tools, `tools/text2sql_tool.py` | `_instance_dict`, an entry per request | create, execute, calc_reward, release | awaited by the rollout, several at a time |
| Interactions, `interactions/gsm8k_interaction.py` | `_instance_dict` | start, generate_response, finalize | awaited by the rollout |
| Rate limiter, `tools/sandbox_fusion_tools.py`, `tools/search_tool.py` | a semaphore and a counter in one named actor; threads of the execution workers | acquire, release, execute | messages between Ray actors |
| Checkpoint manager, `utils/checkpoint/fsdp_checkpoint_manager.py` | files of every rank; `previous_saved_paths` in rank 0's memory | save (rotate, barrier, write, barrier), load | trainers, file system |
| PPO trainer's checkpoints, `trainer/ppo/ray_trainer.py` | `global_steps`, dataloader state, the tracker file | save actor, critic, data, tracker; resume | manager, through the workers |
| SFT trainers' checkpoints, `trainer/fsdp_sft_trainer.py`, `trainer/sft_trainer.py`, `utils/checkpoint/checkpoint_handler.py` | `global_step`, data files, the tracker file | the same without a driver: every rank runs the loop | manager, barriers |
| Not modelled | see section 7 | | |

How they interact: the driver's `fit` asks the workers for a rollout (hybrid
engine, then request-level rollout or agent loop, with the reward pipeline beside
the latter), balances and scores the batch, sends it to the ranks for
log-probabilities, values and updates (data protocol, balancing, training step),
and saves (checkpoints). Everything the driver calls returns or raises; Ray's
`get` is where a worker's exception reaches it.

What is hard in each, and what makes it correct:

* **Rollout.** Any await is a point where other coroutines run, where
  `cancel()` may arrive and where a tool may raise. It is correct when every call
  of `generate_sequences` ends, each prompt has exactly one row, padding appears
  only once enough trajectories are finished, the call raises only for a rollout
  that failed or a padding that cannot be part of a batch, a rollout fails only for
  what it was given or calls and never for its own bookkeeping, and every tool
  finds its instance however a row is cut off.
* **Request.** Training must see what inference saw. The stream is appended to,
  shortened by its generation prompt and cut at the end, and the mask must follow
  every time; a row must be the beginning of the conversation the engine had.
* **Hybrid engine.** Every rank switches for itself and only rank 0 talks to the
  engine, over requests that may be refused without anybody looking, or time out and
  be carried out all the same. The engine and the training parameters must not be on
  a GPU together, a batch must be sampled from the weights being trained, generation
  must not disturb the trainer's random stream, and an exception on one rank must
  end the job although the others wait at a barrier.
* **Agent loop.** Lengths are accounted for in several places, tool calls outlive
  a row that failed, and prompt, response, mask and log-probabilities are cut and
  padded apart.
* **Reward pipeline.** Answers are handed out by position in a batch made of rows
  of many workers; threads, executor and event loops wait for each other.
* **Training step.** A row's fields are produced by ranks that hold it at
  different places of different permutations.
* **Advantages.** Whatever order the rows are in and whoever wrote a token in
  between, an advantage must compare a response with those of its own prompt and
  credit the tokens of the model.
* **Limiter.** A permit passes through four threads and two messages nobody
  waits for. No permit may get lost, no more functions than the limit may run,
  and every call must end.
* **Checkpoints.** Ranks, a driver and a file system, with a crash between any
  two steps, over the remains of earlier crashes. Whatever the tracker names must
  be complete on disk at every moment, and a restarted job must go on from it.

The hazards are listed line by line in `PROJECT.json` with the properties that
would notice them going wrong.

## 2. Modules

    RolloutRequest --- AsyncRollout --- refines --> BatchRollout
                                                  AsyncRolloutProofs

    HybridEngine --- refines --> OnPolicyLoop     HybridEngineProofs

    ToolAgentLoop                                 ToolAgentLoopProofs

    DataProto --- RewardPipeline                  RewardPipelineProofs
        |
        +-------- TrainStep                       TrainStepProofs
                     |
    SeqlenBalancing -+--- Advantages              (also TrainStepProofs)

    RateLimiter --- refines --> Throttle          RateLimiterProofs

    CheckpointManager --- PPOCheckpoint           PPOCheckpointProofs
                     \
                      SFTCheckpoint --- refines --> ResumableJob
                                                  SFTCheckpointProofs

The modules whose names begin with `MC` only give constants their values. A
definition whose comment calls it a slip is not part of the specification: it is
the plausible mistake that the mutant of the same name puts into the code's
definition, to show that some property notices.

**RolloutRequest.** Operators on a record with `ids` and `loss`, one per method
of `AsyncRolloutRequest`. A token is the part of the chat template it belongs to:
prompt, gen, asst, tool, user. The generation prompt is one token, since the code
tests, appends and removes it as a block. A reply of length 0 stands for tools
that all said nothing: the method returns early.

**AsyncRollout.** `task[r].at` names the await the coroutine of `r` is suspended at;
one action runs it to the next await, through as many branches of the loop as the
code takes (`Continue`, `LeaveLoop`, `Finish`). `asyncio.gather` starts children,
the jobs in `task[r].open`, which run one by one and outlive a parent that failed.
`Faults` says who may raise: tools, the interaction, the engine; `InteractionOf`
whether a request's interaction is configured; `error` why a task failed. `doneQ` is
the queue of `as_completed`, `inflight` the requests the engine works on; `AbortAll`
only sends the abort, and when the engine drops a request is its own affair
(`EngineFinishesOrphan`). `phase` is the collector's: collect, drain and abort after
the target; fail and abort_fail after an exception; assemble, flush, returned,
raised. With `Validate` there is a plain gather and no cancellation.

**BatchRollout.** What the trainer is promised: rows open, completed, padded or
failed; a batch delivered or an exception, for which there must be a failed row or
the padding of one of the rows in `Fixed`, which cannot be replaced. `AsyncRollout`
implements it under the mapping `Slot`, given in the module.

**HybridEngine.** The driver's `stage` is the call of `fit` it is in, `pc[r]` the
place of rank `r` in that call. `rollout_mode` is `ToGpu`, `GatherBucket` (where
the ranks meet once per bucket), `LeaveUpdate`, `EnterRollout`; `trainer_mode` is
a release and `RestoreTrainer`. What rank 0 asks of the engine goes through
`Request`, `Send`, `Serve`, `Settle`: an attempt may not arrive, may be refused,
may be carried out after its time limit, and is repeated up to `MaxAttempts`
times; `flush_cache` has a loop of its own around that and gives up quietly. A
version of the parameters is a number, and the engine's weights are the version
each bucket was written with; the prefix cache remembers the versions it was
computed with. `round` counts the calls of `generate_sequences` in a stage
(REMAX makes two, a validation one for each of its batches), and steps before
`FirstUpdate` only warm the critic up. An engine in the process answers an update
or a flush with its success, which the callers drop; `ignored` holds what it was
asked and did not do. **OnPolicyLoop** is the promise: a batch is sampled from the
parameters the trainer has at that moment, and an update uses such a batch. It has
an excuse, `Stale` under the mapping: an engine that is never woken up, a bucket of
the last update that was refused unnoticed, a flush not carried out where the
memory is kept.

**ToolAgentLoop.** `state` is `AgentState`; one action runs a handler to its next
await. The `_call_tool` coroutines of a gather are the entries of `calls`:
started, holding an instance, returning or failing, settled. `Finish` cuts the
stream into prompt and response, and `Padded` is `_run_agent_loop`'s padding.

**DataProto** and **SeqlenBalancing** have operators only: batches are sequences
of rows. `KarmarkarKarp` is the differencing method with the code's order of ties:
the heap is a set of states, `FirstOf` the state it gives back, and `after` the
heap after each round of the loop. `sorted()` is the order of the places by key
and then by place (`SortOrder`), since Python's sort is stable.

**RewardPipeline.** The manager, a row (idle, looping, waiting for a thread,
queued, in a batch, answered, scored or failed), and the executor's loop with its
three reasons to wait: for a first request, for what is there, and until the batch
divides over the reward model's ranks. `Compute` sends the batch through
`Dispatch` and `Collect` and gives each future the answer at its position.

**TrainStep.** One step of `fit` or one pass of `_validate`, call by call. A row
is its prompt, rollout and computed fields, each named by the rollout it was
computed from; ranks work on the shares `Dispatch` gives them, in dynamic
micro-batches (permuted and restored) or fixed ones. `learned` is what each rank's
actor and critic were trained on, in which order and with which weight: `RowShare`
is the row's part in its micro-batch's loss, which depends on `loss_agg_mode`, and
`Scale` the micro-batch's part in the update.

**Advantages.** The estimators of `core_algos.py` as operators over exact
fractions, applied to a batch that `_balance_batch` has put in another order. The
operators are written as the code computes them (the loop from the last token
backwards, the sums the vectorized variants use); the properties say what the
result should be without them. `TrainStepProofs` has its theorems too, since both
balance with `SeqlenBalancing`; for it to extend both, nothing here has a name that
`TrainStep` has already (`AdvantageSpec`, `call`, `NumRanks`).

**RateLimiter.** `acquire()` has one thread, which blocks on the semaphore;
`release()` has threads of its own; both touch the semaphore and then the
counter, as two actions. A call's release is sent when its stack unwinds and is
not waited for. Executors disagree about the limit; the first one constructed
wins. Executors without the limiter run the function, or fail in the sandbox
tool, which does not test for `None`. `Throttle` is what the calls are promised.

**CheckpointManager.** Each rank's place in `save_checkpoint`, and for each
model, step and rank a file that is absent, torn or whole. It stands for the
rank's three files and is torn while one of them is missing. Rank 0 rotates,
`shutil.rmtree` removes files one at a time, and two barriers separate rotation,
writing and return.

**PPOCheckpoint.** The driver saves actor, critic, dataloader and tracker in
turn. The tracker is opened (emptied) and written in two steps. `Crash` keeps the
disk and loses the memory; `Restart` reads what it finds. A save may happen at
any step, as `should_save_ckpt_esi` decides by the clock.

**SFTCheckpoint.** Both SFT trainers: `ViaHandler` is false for `FSDPSFTTrainer`,
true for `SFTTrainer` with its `CheckpointHandler`. After the manager's save each
rank goes on by itself (`tail`) up to the last barrier; the tracker is renamed
into place in one step. `ResumableJob` is the promise: work, commit, stop, and
resume from the last commit.

## 3. Runs

| Run | Question |
|---|---|
| `rollout_tokens` | one request, two tools, an interaction, every reply and every length that fits: budgets, turn structure, the row for the trainer, and that nothing the engine saw is rewritten |
| `rollout_batch` | three requests, complete at two: one with a prompt beyond the context, one naming an unknown interaction, one without one of the two tools the model may call; two calls in a message; tools, interaction and engine may raise at any call: cancellation at every await, half-created tools, orphans, why rollouts fail, the refinement, and the call always ends |
| `hybrid_engine` | two ranks; synchronous rollout with the engine in the process or behind HTTP, and asynchronous rollout, each with the cache freed or kept; two generations in a stage and a step of critic warm-up: memory, random streams, on-policy (refinement), the job ends |
| `tool_agent` | one trajectory of the agent loop, every length of prompt, answer and reply up to the bounds, up to two calls in parallel: row, lengths, instances, termination |
| `reward_pipeline` | four and six rows over two workers with three threads each and a reward model on three ranks, anything may raise: each row its own score, the call ends |
| `train_step` | a step of four prompts with two rollouts and a validation of three prompts, all lengths out of three, four ranks in pairs, dynamic and fixed micro-batches, a loss averaged over tokens and one over rows: rows stay whole, everything is learned once, with the same weight where the loss is a mean over rows, no partition is refused |
| `advantages` | four responses to one, two or four prompts with all scores and lengths, and dialogues of four tokens with every mask: what eleven estimators make of them |
| `limiter_shared` | two executors with different limits and two threads each, two more without the limiter, five calls: permits, counter, refinement, every call ends, every permit comes back |
| `ppo_restarts` | actor (two kept) and critic (all kept) on two ranks, three runs of the job: what the tracker names is whole, a resume fails only for a torn tracker, the disk is bounded, saves end |
| `sft_restarts` | three ranks, a save every second step and at the end, two kept, three runs: never fails to resume, implements `ResumableJob`, saves return |

Each passing run has, for every property, a mutant of a mapped definition that
the property catches under the same configuration. The type invariants of the
modules with proofs are theorems; the ones of the others can be added to a
configuration by name.

Runs that show where the code departs from what the repository says of it:

| Run | What it shows |
|---|---|
| `finding_tracker` | PPO's tracker is rewritten in place; a crash between open and write leaves it empty and no restart gets past it, although a comment says "for atomic usage" |
| `finding_reward_deadlock` | one worker with three threads, four rows, a reward model on two ranks: three threads wait for the executor, which waits for a fourth row, which waits for a thread; the batch divides over the ranks, as the only check asks, and `generate_sequences` never returns |

Other differences met while modelling, which no run is spent on:

* *Rollout.* With `calculate_log_probs` the padding of a cancelled request has no
  log-probabilities, so the batch raises (`sglang_rollout.py:1233`), and of each
  trajectory one log-probability is kept, since `len()` of a tensor of shape `(1,
  n)` is 1. The padding of a cancelled request is its prompt, and a prompt beyond
  `max_model_len` is only warned about: the assertion at line 1213 then fails a
  batch in which no rollout failed (`Fixed` in `ImplementsBatch`). No path calls
  `finalize_interaction`, so an interaction's sessions pile up. `abort_request` only
  sends the abort, and nobody looks at whether `flush_cache` found the engine idle.
  A cancelled request leaves its entries in the tools' tables;
  `OnlyCancellationLeaks` proves that nothing else does.
* *Hybrid engine.* In asynchronous mode without `free_cache_engine` nothing wakes
  the servers up, so the engine keeps the weights it was started with
  (`agent_loop.py:843`), while `replica.py:41-42` speaks of on-policy training. An
  engine in the process returns `(success, message)` for a weight update
  (`sglang_rollout.py:150-151`), which `update_weights` drops (1517-1525), so that a
  refused bucket goes unnoticed until the next update; only the HTTP adapter
  raises. A flush that was given up (`http_server_engine.py:809`) leaves prefixes
  of the previous weights where the memory is kept. These are the excuses in
  `Stale`; the run reaches each of them, and in all other cases the loop is
  on-policy.
* *Agent loop.* A prompt longer than `prompt_length` is not cut
  (`agent_loop.py:526`), so its row is wider than the others. An empty response
  makes `prompt_ids[-0:]` the whole stream. A tool that raises in `release` while
  another failed leaves its instance. Tool messages are appended twice when the
  reply has media (`tool_agent_loop.py:295`).
* *Reward.* Validation is padded to the number of workers and not to the reward
  model's ranks, so the check at `agent_loop.py:841` may refuse it. In
  `utils/reward_score/text2sql_process.py` a docstring gives a process reward of
  0.5 where the code gives 0.1, and a missing verdict counts as "pass".
* *Balancing.* Karmarkar-Karp balances and does not bound: a dynamic micro-batch
  may exceed `max_token_len`. With fixed micro-batches a last mini-batch that is
  not full weighs its rows differently; `RowsWeighAlike` is about dynamic ones.
  There too a row's weight depends on how it was packed, unless the loss is a mean
  over rows: the default `loss_agg_mode`, `token-mean` (`actor.yaml:72`), divides by
  the micro-batch's tokens (`core_algos.py:787`) and is then scaled by its rows
  (`dp_actor.py:422`), and `seq-mean-token-sum-norm` is not divided by the rows it is
  scaled by. The critic's loss has the same two parts (`dp_critic.py:235-241`).
* *Advantages.* REINFORCE++ resets its running return at every token whose mask is 0
  ("Reset after EOS", `core_algos.py:611`): in a dialogue only the last turn is
  rewarded. Only the vectorized GRPO raises a variance below epsilon to epsilon
  (`groupwise.py:213`), so that groups whose scores differ by very little get other
  advantages from the loop. A reward on a masked last token is lost by GAE and
  ReMax. The two RLOO variants differ on a prompt's only response.
  `norm_adv_by_std_in_grpo` is not passed on to the vectorized GRPO. REMAX with n >
  1 unions n rows per prompt into a batch of one.
* *Checkpoints.* With `max_ckpt_to_keep=1`, which a warning recommends, the only
  checkpoint is removed before the next one is written. `SFTTrainer` discards the
  step `load_checkpoint` returns and starts from 0 (`sft_trainer.py:210`). A
  restarted job never removes checkpoints of earlier runs, as `DiskIsBounded`
  says. A finished PPO job that is started again trains one step more. Through the
  handler rank 0 renames the tracker while other source ranks may still write
  their data file.
* *Limiter.* A test asserts that the count is 0 right after the calls have
  returned (`tests/workers/rollout/test_sglang_async_rollout_sf_tools.py:621`),
  but nobody waits for the releases: `EverythingIsReturned` is eventual.

### Bounds

Integers are small and no width matters: nothing here overflows. The
lengths of `rollout_tokens` are chosen around the budgets, so that an answer can
fill the context exactly, overrun it by the template's token, or stop short of it;
its turns and calls reach every pair of consecutive states of the loop. In
`rollout_batch` each gather of the requests with both tools has two children, so
that one is done, or has raised, while the other is not; three requests let two
finish while one is cancelled, whose padding may be the over-long prompt.
`rollout_tokens` has one request because no property of a stream involves another.

In `hybrid_engine` rank 0 talks to the engine and the other rank runs ahead of it;
two buckets let a weight update be half done; two attempts are one failure and one
repetition, and a flush has eight; three steps, of which the first only warms the
critic up, let the leftovers of one update (a late request, a cached prefix, a
random state, a refused bucket) meet the next. Every stage of rollouts has two
generations, REMAX's in a step and two batches in a validation.

In `tool_agent` the turns have no limit and the lengths end a dialogue: `ResponseLength`
7 is filled exactly, overrun and missed by replies and answers of one to three
tokens; prompts are shorter than, equal to and longer than `PromptLength`; an
answer has up to three calls, of which two are made.

In `reward_pipeline` three ranks divide a batch of six and not one of four, and
either worker can finish first. In `train_step` eight rows over two pairs leave
shares of four and mini-batches of three and one; lengths 2, 3 and 5 with a limit of
5 tokens, which is also a row's padded width, need from two to four micro-batches,
and three prompts over four workers need padding. The rollouts of one prompt are
given in the order of their lengths: nothing tells them apart; so are prompts 1 and
2, 3 and 4, and 1 and 3, which only equal lengths tell apart. In `advantages` groups
have one, two and four members and scores tie or differ by unequal amounts; the
floor of the variance, 1/3, lies above the variance of a group in which one score of
four differs by one, and not above any other. Rewards, values, gamma and lam are
whole numbers there: estimators and properties are polynomials and quotients of
them, and an equation between polynomials that holds for all whole numbers (which is
what the proofs show) holds for all numbers. The discounts of the run, none at all
and the two different factors 2 and 3, tell apart which factor is applied how often.

Two limits, two threads and one release thread make every queue of the limiter
fill. For checkpoints, three steps with one save off schedule, a model that
rotates beside one that does not, and three runs give two generations of
leftovers; `MaxRuns` and `LastStep` are bounds of the model only.

### Fairness

* Rollout: the event loop runs what is ready, the engine answers what it accepted
  and every tool call ends, in a result or an exception. The sandbox and search
  tools put a time limit on what they run. The SQL tool does not: `exec_on_db`
  (`tools/eval/exec_eval.py:394`) has its alarm commented out, and the query runs
  on the event loop itself. That every query ends is therefore an assumption of
  `GenerateEnds`, not something the code sees to; a query that does not end stops
  every rollout of the worker. Nothing is assumed of generations nobody waits for.
* Hybrid engine: `WF(Next)`, that is, as long as something can run something does.
  Requests are repeated a bounded number of times and stages are finite in number,
  so no more is needed, and that the driver notices a failed worker is `ray.get`.
* Agent loop: the row's coroutine and each call of a tool run on; the same
  assumption on tools as above.
* Reward pipeline: the manager, the executor's loop and some row's coroutine or
  thread run while they can.
* Limiter: Ray runs a method when its concurrency group has a free thread and
  delivers what was sent; the functions are requests with a time limit.
* Checkpoints: the processes of a running job progress. Neither a crash nor a
  restart is assumed.

All of it is weak fairness. `train_step` and `advantages` are sequential and have
no liveness property.

### Deadlock

TLC checks for deadlock in the rollout runs; a call that returned or raised
stutters in an action of its own (`Stopped`). In all others the system really
stops (a job is over, a row is padded, a call has returned, a step is done), so
the check is off and `EveryCallEnds`, `SavesEnd`, `SaveReturns`, `JobEnds`,
`LoopEnds` and `GenerateEnds` do its work.

## 4. What is proved

All proofs are for arbitrary constants under the assumptions named in the modules
(`ConfigAssumption`, `RequestAssumption`, `TPAssumption` and its neighbours,
`LoopAssumption`, `LimiterAssumption`, `ManagerAssumption`, `TrainerAssumption`,
`SFTAssumption`, `PipelineAssumption`, `StepAssumption`, `AdvantagesAssumption`). What
a theorem assumes beyond them stands in its statement; those about `Advantages` name
its assumption there, because an instance does not bring it along.

**AsyncRolloutProofs.** `IInv` is inductive: `VarTypes`; for each request
`ReqInv`, which is `Sound` (type, mask, counters), `AtAwait` (what control implies
at each await: a turn is left and the budget holds whenever the engine is called,
the finish reason is one `finalize` supports whenever rewards are computed) and
`Owned` (which tools hold an instance, told from the await and the open jobs);
and `CollectorInv` (the phase matches tasks and engine). `AtAwait` is needed
because a request may run out of turns while a tool call is pending, `Owned`
because a child may finish before or after its parent failed. From it follow
`TypeCorrect`, `LossMaskIsModelOutput`, `EngineBudgetHolds`, `TurnsAreBounded`,
`InstancesLiveAsLongAsNeeded`, `RolloutsFailFromOutside` (`Owned` also says why a
task may have failed) and `OnlyCancellationLeaks`.

The other properties start from a classification of the steps: by `StepKinds` every
step is the collector's or lets one request act, and `Acts` says what that may do to
the request: `Moves` lets it write to the stream in the code's ways, suspend, end,
or start over as a padding row when it is cancelled. Two invariants and one action
property are proved against it. `StreamInv`: the stream is a `Conversation`, whose
model output answers generation prompts, of as many answered prompts as turns (hence
`TurnsFollowPrompts`). `KeepsTransitive` and its neighbours compose what the
branches of a coroutine do between two awaits (hence `SeenTokensAreKept`).
`PromptInv`: the stream starts with the request's prompt, which only the final cut
may shorten (hence `RowsAreTrajectories`, with `Slice`, `RowOfStream` and
`MaskOfRow` on the slices of the row). The last one assumes `SilentCreation`, that
tools say nothing on creation: a tool that does takes the prompt's last token away,
which is one of the hazards, and no tool of the repository does.

The batch needs `BatchInv`: `QueueInv` (the queue holds ended tasks, each once),
`CountInv` (without a failure the collector has counted finished trajectories only,
and enough of them once it stopped to wait), `PaddingInv` (padding appears after
that, or after a failure). Its core is `CountedAreReturned`,
a pigeonhole argument: a target's worth of counted tasks are distinct rows of the
batch. From it follows the refinement `RolloutKeepsItsPromise`
(`ImplementsBatch`), in which every action is a step of `BatchRollout` under the
mapping `Slot`, or a stutter. It needs no assumption: a batch that raises without
a failed rollout has the padding of a request in `Fixed`, that is, one whose prompt
is longer than the context, or any if log-probabilities are calculated.

**HybridEngineProofs.** `IInv` is, for any number of ranks, buckets, attempts and
steps and every configuration: `TypeOK`; `PlaceInv` (which places go with which
call, and that only rank 0 is ever in an engine operation); `HttpInv` (the answer
rank 0 has is the answer to its last attempt, and nothing is queued behind it);
`StreamInv` (which stream a rank draws from, told from its place); `QueueInv` (a
queued request is the one rank 0 is at, or a flush that was given up); `LoadedInv`
(each bucket already gathered is of the trained version, unless the engine sleeps
through or refused one); `FlushedInv` (nothing is cached after a flush that was
carried out); `BatchInv`; and, where the cache is freed, `SharingInv`. `QueueInv` is
the heart of it: a release or resume that timed out may still be carried out, but
the engine answers in order, so an answer to a later attempt comes after it, and it
can be late only while rank 0 is still at that operation or has raised. A flush can
be late, and is harmless. From it follow `MemoryNeverShared`, `TrainerKeepsStream`
and the refinement `HybridIsOnPolicy`, in whose steps `Stale` appears as the excuse
wherever `LoadedInv` or `FlushedInv` says nothing.

**ToolAgentLoopProofs.** `IInv` is `TypeOK`, the three properties below, and what
they need: `StreamInv` (`Aligned`: the stream is the prompt and one token of
somebody for each entry of the mask, 1 exactly on the model's tokens, as are the
log-probabilities), `AnsweredInv` (with log-probabilities a reply never comes
before a token of the model, which matters because `_handle_processing_tools_state`
appends zeros only to a list that is not empty), `LimitInv` (a row that goes on
at its response limit ends with a user's token) and `CallsInv` (outside a gather
every call has settled). The lemmas `AppendExtends`, `FirstNSeq`, `LastNSeq` and
`SlicePadded` say what Python's slices and the padding keep; `FinishNext` composes
them. From it follow `RowHoldsTrajectory`, `InstancesEndWithCalls` and, with
`max_model_len` at least prompt plus response length, `BudgetOverrunByUsers`.

**RateLimiterProofs.** `IInv`: the queue of `acquire()` holds waiting calls once
each; releases under way belong to ended calls; permits and the counter equal the
cardinalities of the sets they stand for. Hence `NoPermitIsLost`, `LimitHolds`,
`CountStaysNearLimit`, and the refinement `LimiterIsThrottle`: every step of the
limiter is a step of `Throttle` or a stutter.

**PPOCheckpointProofs.** `NamedIsWhole` is not inductive: rotation could remove
what the tracker names, and training could rewrite it. `StepInv` (the step in
training is past the tracked one) excludes the second; the first needs `SavedInv`:
`previous_saved_paths` is strictly increasing and ends with the tracked step, or
with the current one once this model has been saved, so that with two or more
kept the rotated paths precede the tracked one (`DoomedInv`). `StageInv` says what
the barriers achieve and `WholeInv` carries "saved" from the ranks to the tracker.
These parts are `BaseInv`, which holds for every `Keep`; `IInv` adds `DoomedInv`
and what follows from it. `TrackerNamesWhole` and `ResumesUnlessTrackerTorn` hold
if no model keeps exactly one checkpoint, and they need this: see the differences
above. `DiskStaysBounded` needs no such assumption. A restarted manager forgets
what the dead job saved, so the bound grows with every start; `DiskInv` therefore
counts apart what earlier jobs left (at most `Keep` each) and what the running job
holds (`Held`: what it saved, what it is removing and, past the first barrier, the
one it writes), of which there are at most `Keep` since room is made before
anything is written.

**RewardPipelineProofs.** First what the operators of `DataProto` compute, without
induction: `ConcatOfChunks` (concatenating the chunks of a batch gives the batch),
`CollectsShares` (the reporting ranks' outputs are the shares in their order) and,
from them, `BatchFnInOrder`. They need that the reporting ranks have data-parallel
ranks 0, 1, 2, ... in the order of the ranks (`MeshInOrder`), which the row-major
(dp, sp) mesh of the workers, with the ranks of sp 0 reporting, gives. Then
`PipelineInv`: queue and batch of the executor list, each once, the rows that are
queued and batched (`Lists`); a batch is computed only when all ranks can share it
out (`WholeInv`); answered rows have their own score. `Lists` is needed because the
i-th future gets the i-th result. It gives `RowsGetTheirOwnScores`.

**SFTCheckpointProofs.** The same argument with `TailInv` for the ranks after the
manager's save, for the trainer that saves by itself and keeps other than one
checkpoint (`ByItself`): `TrackedIsWhole`, `CanAlwaysResume`, and the refinement
`SFTIsResumableJob`.

**TrainStepProofs.** The four invariants of `TrainStep`, for every number of
prompts, rollouts, ranks and workers, all lengths and all sizes of batches. Most
of it is about what the operators compute. What a recursive function computes is
shown by induction over its argument, with the set of numbers for which the
statement holds (`Steps`) in place of an operator.

* *Order.* Keys are in a linear order (`LessIsOrder`), so every place has its own
  number of earlier ones, `SortOrder` is a permutation and `Sorted` keeps the rows.
* *Karmarkar-Karp.* The states of the heap (`IsHeap`) have rows of their own and
  together hold every row once. A round takes two states and puts back one that
  holds the rows of both, so there is one state less and no row less
  (`DifferencedIsHeap`); the state that is left shares out all rows. Two states
  never tie, since their heaviest sets differ in their first rows: this is why
  `FirstOf` finds one. `IsState` says what a state keeps when it is merged: its
  sets come heaviest first; with equal sizes they have equally many rows; otherwise
  the first c of its k sets are not empty if it has c rows. The last holds because
  lengths are positive, so that empty sets come last and a merge joins the empty
  ones of one state with the full ones of the other (`MergeIsState`). From it
  `PartitionsAreSound` follows: if the assertions on the input hold, so do those on
  the result.
* *Permutations.* `FlattenSeq` lists every place of its parts once, so that the
  parts of a partition make a permutation, `ReverseIdx` its inverse, and `Restore`
  gives each row its own output. `MicroPartsShareOut` says so of the micro-batches
  of all ranks, dynamic and fixed; that the number all ranks agree on
  (the greatest any of them wants) is no more than any of them has rows follows
  from the shares having equal sizes and lengths at most `MaxTokenLen`, which the
  assertion on the padded width sees to (`MayRearrange`).
* *Dispatch.* Equal shares go out and the outputs of the ranks that report come
  back in the order of the rows, as in the reward pipeline.
* *The batch.* `StepInv` is, call by call: `StageInv` (which calls a training step
  and a validation make), `GenInv` (what the rollout was asked for), `BatchInv`
  (the batch has `NumRows` rows, with the fields computed so far and each rollout
  once), `ScoredInv` and `LearnedInv` (what the ranks trained on is the batch's
  share of each, mini-batch by mini-batch, with the weights `Scale` and `RowShare`
  give: equal ones, `Alike`, where micro-batches are dynamic and the loss is a mean
  over rows). It is proved as
  `StepInvariant`, and from it follow `FieldsBelongTogether` (`RowsStayWhole`),
  `EveryRowIsTrainedOnce` (`LearnedOnce`), `PackingDoesNotWeigh`
  (`RowsWeighAlike`) and `PartitionsAreNeverRefused` (`NeverRaises`).

Two things are assumed. `MeshInOrder` is what the reward pipeline assumes, and
that all data-parallel groups have as many ranks, which the workers' mesh
(dp, sp) has. `BatchFits` is a condition on the configuration under which no
assertion fails, and the code does raise without it: in training the number of
workers and of ranks divide the rollouts of a batch (`chunk` and the equal
partitions assert it), and a row's padded width fits a dynamic micro-batch
(`seqlen_balancing.py:285`). `validate_config` does not see to all of it:
`utils/config.py:109` is about the ranks only, and is skipped with dynamic batches
(line 89). A validation needs only the width: it is padded, and its padding is
removed.

The end of the module is about `Advantages`, for every batch, groups of every size,
responses of every length, and all rewards, values and discounts. The invariant is
small (`AdvantageInv`: the order is a permutation of the rows, which `SharesOut` and
`FlattenPermutes` give for the balancing, and the advantages are the estimator's on
the rows in that order); the work is in what the operators compute.

* *Sums.* `Summed` is a recursive function, so a sum is the last of a sequence of
  partial sums (`SumRounds`), and any sequence that starts with 0 and adds the
  numbers is that one (`SumIs`). So sums are linear (`SumCombines`), and do not depend
  on the order (`SumPermuted`: take the place of the last number out of the
  permutation, and put there the place the last row came from).
* *Order.* A row's group in the balanced batch is where the rows of its group went
  (`ReorderedBatch`), so that size, total, mean, deviation, the others' scores, the
  weighted lengths and the number of scored rows are the same (`ReorderedGroup`,
  `ReorderedPassK`, `ReorderedOPO`, `ReorderedGPG`). Hence
  `BalancingChangesNoAdvantage` (`BalancingIsHarmless`), with equal fractions and not
  only equivalent ones.
* *Algebra.* `SumOfSquaredDifferences` takes the squares of the differences from the
  mean apart, so that the two deviations agree where the floor does not matter
  (`DeviationsAgree`, `FloorDoesNotMatter`). A variance of 0 is raised too, but then
  every score is the mean (`SumIsAtLeast`, `SumOfSquares`) and the advantage is 0
  whatever it is divided by. With `LeaveOneOut` this gives
  `VariantsOfAnEstimatorAgree` (`EstimatorsAgree`).
* *Tokens.* What GAE's loop holds when it has come to a token is, in closed form,
  the value of the next of the model's tokens and the discounted differences from
  there on (`Estimated`). Skipping a token that is not the model's changes neither,
  and one of the model's adds its difference and one factor to all that follow
  (`NextOfStep`, `DiscountedStep`); so the closed form takes the loop's rounds
  (`GAERoundIs`), and only one function does (`GAEIs`). Without discount the
  differences telescope (`UndiscountedIs`). The running return of REINFORCE++ is reset
  before the end only where a turn ends (`ReturnsOfOneTurn`). Hence
  `TurnsMakeOneEpisode` (`TurnsAreOneEpisode`).

The prover's encoding of sequences for its SMT solver states that a sequence has
length n if and only if its domain is `1..n`, for every n; for a negative n this
contradicts itself. All proof modules were also checked with that axiom limited to
natural numbers; no proof depends on it.

**Only model-checked.** Liveness (`GenerateEnds`, `JobEnds`, `LoopEnds`,
`EveryCallEnds`, `EverythingIsReturned`, `SavesEnd`, `SaveReturns`): fairness and
ENABLED are out of the prover's reach. Everything else the runs expect to hold is a
theorem, some under the assumptions named above.

## 5. Where the code is simplified

* *Rollout.* The coroutines are those of the rank that drives the engine; the
  other ranks and their barrier are in `HybridEngine`. A tool name SGLang's parser
  does not know is dropped by the parser, outside this code. With
  `use_inference_chat_template`, which is off by default, the prompt of each turn is
  rendered from the messages and not taken from the stream (`schemas.py:361-372`);
  that branch is left out. Position ids and multi-modal inputs follow the stream
  and are left out. Tools say nothing on creation (`CreationLens = {0}` in the
  runs), as all tools of the repository do; the proofs allow any length, except
  `RowsAreTrajectories`. Between a
  child's exception and its parent's waking up other callbacks may run; the two
  are one step here, as none of those callbacks looks at either.
* *Hybrid engine.* One replica; FSDP without LoRA; parameters are offloaded or
  not, optimizer state follows them. A worker's computation is one step of all
  ranks. The HTTP server handles requests one at a time, in order.
* *Agent loop.* The messages, which only the interaction reads, rewards of turns
  and tools, and the template of a model that sees images. Which server a request
  goes to does not matter to a row.
* *Reward pipeline.* A row's agent loop is one step that returns or raises; the
  executor's `max_batch_size` is never passed by a caller and left out.
* *Training step.* The computations on a row are named by the row; sequence
  parallelism only multiplies the token limit. Critic warm-up, which decides whether
  the actor is updated, is a matter of `HybridEngine`. The resampling of the batch by
  `use_pf_ppo` after GAE (`ray_trainer.py:223-228`), off by default, is left out. How
  many tokens of a row a loss counts depends on its length only (`LossTokens`).
* *Advantages.* Exact numbers for floats, squares for standard deviations, no
  whitening; the epsilon that is added to a deviation is left out, the one a variance
  is raised to is `VarianceFloor`; `uid`s are labels, whatever `as_torch_index` makes of
  them. A row's length is that of its response and one token of prompt. Rewards, values
  and discounts are whole numbers, which loses nothing (section 3, Bounds).
* *Limiter.* Actors do not die; Ray would end the job with them. The counter's `+=`
  and `-=` are steps of their own and atomic, as they are on the interpreters the
  project asks for (CPython 3.10 and later), although nothing locks them; nothing but
  an observer reads the counter.
* *Checkpoints.* Only `resume_mode` "auto", one shared file system whose calls
  succeed, and crashes of all processes at once. HDFS copies and the Hugging Face
  export are left out. What the stateful dataloader replays is not modelled;
  `NoMoreData` may end an SFT job at any step, which covers every amount of data
  left.

## 6. Reading a counterexample

In a rollout trace, follow `task[r].at` and `phase`; `doneQ` and `consumed` show
what the collector still has to see. In a hybrid-engine trace, `stage` and `pc`
say who is where, `inbox` and `attempt` what the engine has yet to do, `loaded`
and `cache` which weights it has. In `tool_agent`, `calls` beside `state`. In
`train_step` a row tells by its fields which rollouts got mixed. In a checkpoint
trace, `stage` and `phase` say who is where, `shard` and `data` are the disk, and
everything but the disk and the tracker is lost at `Restart`.

## 7. Not modelled

`PROJECT.json` gives the reason beside each component. In short:

* numerical code without control: the policy losses, KL control, whitening,
  models, kernels, optimizers; their values are real numbers and their bugs are
  not orderings;
* pure functions of text or tables: the text-to-SQL reward, SQL comparison (with
  random permutations of columns), tool parsers, chat templates;
* the Megatron workers, their checkpoint manager and vLLM's rollout: other
  implementations of what is modelled for FSDP and SGLang, around libraries that
  are not in this repository;
* input and output: logging, tracking, profiling, the model merger, dataset
  preparation, launch scripts;
* third-party and example code, and the tests.

What would come next: the handler's race between the tracker and other ranks' data
files as a property of its own; the load balancing and session stickiness of
`AsyncLLMServerManager`; colocated and standalone replicas; rounding, which the exact
numbers of `Advantages` leave out.
