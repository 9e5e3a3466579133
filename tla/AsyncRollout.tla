---------------------------- MODULE AsyncRollout ----------------------------
(***************************************************************************)
(* The request-level, multi-turn rollout of SGLangRollout                  *)
(* (verl/workers/rollout/sglang_rollout/sglang_rollout.py) on the rank     *)
(* that drives the engine: one asyncio event loop on which one coroutine   *)
(* per request (_async_rollout_a_request) and one collecting coroutine     *)
(* (run_with_cancellation, in _req_level_generate_sequences) take turns.   *)
(*                                                                         *)
(* The event loop switches coroutines at awaits only, so an action is one  *)
(* run of a coroutine from the await it was suspended at to the next one;  *)
(* task[r].at names that await.  asyncio.gather starts child tasks; they   *)
(* are the jobs in task[r].open and each of them is an action of its own.  *)
(***************************************************************************)
EXTENDS Integers, Sequences, FiniteSets, RolloutRequest

CONSTANTS
    Reqs,               \* the requests of the batch
    Tools,              \* the names in _tool_map
    ToolsOf,            \* [Reqs -> SUBSET Tools], the keys of tools_kwargs
    PromptLen,          \* [Reqs -> Nat], tokens of prompt_ids
    PromptLength,       \* config.prompt_length
    ResponseLength,     \* config.response_length
    MaxModelLen,        \* config.max_model_len
    MaxAssistantTurns,  \* config.multi_turn.max_assistant_turns
    MaxUserTurns,       \* config.multi_turn.max_user_turns
    Target,             \* target_completion
    Validate,           \* meta_info["validate"]
    InteractionOf,      \* [Reqs -> {"none", "known", "missing"}], see below
    CalculateLogProbs,  \* config.calculate_log_probs
    Faults,             \* who may raise: of "tool", "interaction" and "engine"
    TemplateTokens,     \* tokens the chat template may add to the engine's text
    ContentLens,        \* lengths of an assistant message, a subset of Nat
    ReplyLens,          \* lengths of a tool's or a user's reply
    CreationLens,       \* lengths of what the tools say on creation
    MaxCalls            \* tool calls in one assistant message

ASSUME ConfigAssumption ==
    /\ PromptLength \in Nat \ {0} /\ ResponseLength \in Nat \ {0}
    /\ MaxModelLen \in Nat /\ MaxModelLen >= PromptLength + ResponseLength
    /\ MaxAssistantTurns \in Nat \ {0} /\ MaxUserTurns \in Nat
    /\ Target \in Nat /\ MaxCalls \in Nat /\ TemplateTokens \in Nat

\* InteractionOf[r] is "none" when interaction_kwargs or interaction_map is
\* empty, else it says whether the name in interaction_kwargs is in the map.
ASSUME RequestAssumption ==
    /\ IsFiniteSet(Reqs) /\ Reqs # {} /\ Target <= Cardinality(Reqs)
    /\ ToolsOf \in [Reqs -> SUBSET Tools]
    /\ InteractionOf \in [Reqs -> {"none", "known", "missing"}]
    /\ PromptLen \in [Reqs -> Nat \ {0}]
    /\ ContentLens \subseteq Nat \ {0}
    /\ ReplyLens \subseteq Nat /\ CreationLens \subseteq Nat
    /\ {Validate, CalculateLogProbs} \subseteq BOOLEAN
    /\ Faults \subseteq {"tool", "interaction", "engine"}

VARIABLES
    task,       \* the coroutine of each request
    instances,  \* [Tools -> SUBSET Reqs], each tool's _instance_dict
    sessions,   \* the interaction's _instance_dict
    inflight,   \* requests the engine is generating for
    doneQ,      \* as_completed's queue: finished tasks in order of completion
    cancelled,  \* tasks whose cancel() was called
    consumed,   \* how many finished tasks the collector has taken
    phase       \* where the collector is

vars == <<task, instances, sessions, inflight, doneQ, cancelled, consumed, phase>>

-----------------------------------------------------------------------------
Running  == {"spawned", "create", "start", "engine", "tools", "user", "reward", "logprob"}
Finished == {"returned", "padded", "failed"}
States   == {"pending", "running", "tool_calling", "interacting", "completed"}
Reasons  == {"none", "stop", "length", "tool_calls"}
Errors   == {"none", "tool", "no_instance", "interaction", "no_interaction", "no_session",
             "engine", "finish_reason"}
Phases   == {"collect", "drain", "abort", "fail", "abort_fail", "assemble", "flush",
             "returned", "raised"}

Job == [op : {"create", "execute", "reward"}, index : 0..MaxCalls, tool : Tools]

\* error says why a task failed; the code has the exception.
Task == [at : Running \cup Finished, state : States, finish : Reasons, error : Errors,
         ids : Seq(Kinds), loss : Seq({0, 1}),
         turns : Nat, userTurns : Nat, open : SUBSET Job]

Jobs(op, r) == [op : {op}, index : {0}, tool : ToolsOf[r]]

\* max_model_len of the request, set by _preprocess_prompt_to_async_rollout_requests.
StreamCap == IF MaxModelLen < PromptLength + ResponseLength
             THEN MaxModelLen ELSE PromptLength + ResponseLength

\* max_new_tokens of _handle_engine_generate.
Budget(q) == IF ResponseLength < MaxModelLen - Len(q.ids) - 1
             THEN ResponseLength ELSE MaxModelLen - Len(q.ids) - 1

\* The loop condition, `while current_turns < max_assistant_turns`.
TurnsLeft(q) == q.turns < MaxAssistantTurns

\* len(_req.input_ids): the tensor has shape (1, n), so len() is 1, whatever n.
BatchDim == 1

FreshTask(r) ==
    [at |-> "spawned", state |-> "pending", finish |-> "none", error |-> "none",
     ids |-> InitialStream(PromptLen[r]).ids, loss |-> InitialStream(PromptLen[r]).loss,
     turns |-> 0, userTurns |-> 0, open |-> {}]

\* _create_padding_request copies the request as it was before the rollout.
PaddingTask(r) == [FreshTask(r) EXCEPT !.at = "padded", !.state = "completed"]

-----------------------------------------------------------------------------
(* The coroutine between two awaits.  Each operator takes the task q as it *)
(* is at some point of the code and returns it at its next await.          *)

\* An exception is raised; the coroutine handles none and ends.
Failed(q, e) == [q EXCEPT !.at = "failed", !.error = e]

\* After the rewards: finalize, then calculate_log_probs.
Finish(q) ==
    LET f == [Finalized(q, StreamCap) EXCEPT !.state = "completed"]
    IN  CASE q.finish \notin {"stop", "length"} -> Failed(f, "finish_reason")
          [] q.finish \in {"stop", "length"} ->
                [f EXCEPT !.at = IF CalculateLogProbs THEN "logprob" ELSE "returned"]

\* A rollout that used up its turns stops, whatever it was about to do.
ReasonKept(q) == q.finish
FinishReason(q) == IF TurnsLeft(q) THEN q.finish ELSE "stop"

\* The code after the while loop, up to the gather of the tool rewards.  The
\* gather of no coroutine does not suspend.
LeaveLoop(r, q) ==
    LET s == [q EXCEPT !.finish = FinishReason(q), !.open = Jobs("reward", r)]
    IN  IF s.open = {} THEN Finish(s) ELSE [s EXCEPT !.at = "reward"]

\* Too long for a token and the end of sequence to fit.
PromptTooLongWithoutEos(q) == Len(q.ids) >= MaxModelLen
PromptTooLong(q) == Len(q.ids) + 1 >= MaxModelLen

\* The RUNNING branch up to the engine call.
CallEngine(r, q) ==
    IF PromptTooLong(q)
    THEN LeaveLoop(r, [q EXCEPT !.finish = "length"])
    ELSE [q EXCEPT !.at = "engine"]

\* The INTERACTING branch up to the interaction's answer.
CallUser(r, q) ==
    IF InteractionOf[r] = "known" THEN [q EXCEPT !.at = "user"]
                                  ELSE Failed(q, "no_interaction")

\* One evaluation of the loop condition and the branch on the state.
Continue(r, q) ==
    IF ~TurnsLeft(q) THEN LeaveLoop(r, q)
    ELSE CASE q.state = "tool_calling" -> [q EXCEPT !.at = "tools"]
           [] q.state = "interacting"  -> CallUser(r, [q EXCEPT !.userTurns = @ + 1])
           [] q.state = "running"      -> CallEngine(r, WithGenerationPrompt(q))

\* The length check after a tool's or a user's reply, which compares len() of
\* the two-dimensional tensor.
ContinueUnlessTooLong(r, q) ==
    IF BatchDim >= MaxModelLen
    THEN LeaveLoop(r, [q EXCEPT !.finish = "stop"])
    ELSE Continue(r, [q EXCEPT !.state = "running"])

\* The rest of _handle_pending_state once the tools exist.
AfterCreation(r, q) ==
    CASE InteractionOf[r] = "none"    -> Continue(r, [q EXCEPT !.state = "running"])
      [] InteractionOf[r] = "known"   -> [q EXCEPT !.at = "start"]
      [] InteractionOf[r] = "missing" -> Failed(q, "no_interaction")

\* Request r's coroutine has run up to q's await.
Suspend(r, q) ==
    /\ task' = [task EXCEPT ![r] = q]
    /\ inflight' = IF q.at \in {"engine", "logprob"} THEN inflight \cup {r}
                                                     ELSE inflight \ {r}
    /\ doneQ' = IF q.at \in Finished THEN Append(doneQ, r) ELSE doneQ

\* The event loop runs, r is suspended at this await and was not cancelled.
Resumes(r, await) ==
    /\ phase \in {"collect", "drain", "fail"}
    /\ task[r].at = await
    /\ r \notin cancelled

Collector == <<cancelled, consumed, phase>>

-----------------------------------------------------------------------------
(* Steps of one request.                                                   *)

StartTask(r) ==
    /\ Resumes(r, "spawned")
    /\ Suspend(r, IF ToolsOf[r] = {}
                  THEN AfterCreation(r, task[r])
                  ELSE [task[r] EXCEPT !.at = "create", !.open = Jobs("create", r)])
    /\ UNCHANGED <<instances, sessions>> /\ UNCHANGED Collector

ToolsCreated(r) ==
    /\ Resumes(r, "create")
    /\ task[r].open = {}
    /\ \E n \in CreationLens :
          Suspend(r, AfterCreation(r, AddToolResponseMessages(task[r], n)))
    /\ UNCHANGED <<instances, sessions>> /\ UNCHANGED Collector

InteractionStarted(r) ==
    /\ Resumes(r, "start")
    /\ sessions' = sessions \cup {r}
    /\ Suspend(r, Continue(r, [task[r] EXCEPT !.state = "running"]))
    /\ UNCHANGED instances /\ UNCHANGED Collector

\* start_interaction or generate_response raises: on its own account, or since
\* generate_response looks the request up and does not find it.
InteractionRaises(r) ==
    /\ \/ Resumes(r, "start") /\ "interaction" \in Faults
       \/ Resumes(r, "user") /\ ("interaction" \in Faults \/ r \notin sessions)
    /\ Suspend(r, Failed(task[r], IF task[r].at = "start" \/ r \in sessions
                                  THEN "interaction" ELSE "no_session"))
    /\ UNCHANGED <<instances, sessions>> /\ UNCHANGED Collector

\* The engine stops within its budget; a message that is tokenized again from
\* its text gets the template's closing tokens on top.
MessageLens(r) == {n \in ContentLens : n <= Budget(task[r]) + TemplateTokens}

\* The engine answers with n tokens: what the four replies below share.
Answered(r, n) == [AddAssistantMessage(task[r], n) EXCEPT !.turns = @ + 1]

EngineAnswers(r) ==
    /\ Resumes(r, "engine")
    /\ r \in inflight
    /\ UNCHANGED <<instances, sessions>> /\ UNCHANGED Collector

\* async_generate raises, or ends for a reason that FinishReasonTypeEnum does
\* not know ("abort").
EngineRaises(r) ==
    /\ Resumes(r, "engine") \/ Resumes(r, "logprob")
    /\ r \in inflight
    /\ "engine" \in Faults
    /\ Suspend(r, Failed(task[r], "engine"))
    /\ UNCHANGED <<instances, sessions>> /\ UNCHANGED Collector

\* finish_reason "length".
ReplyCutOff(r) ==
    /\ EngineAnswers(r)
    /\ \E n \in MessageLens(r) :
          Suspend(r, LeaveLoop(r, [Answered(r, n) EXCEPT !.finish = "length"]))

\* A tool call marker, and at least one call that parses.
ReplyToolCalls(r) ==
    /\ EngineAnswers(r)
    /\ \E n \in MessageLens(r), k \in 1..MaxCalls : \E calls \in [1..k -> Tools] :
          Suspend(r, Continue(r,
              [Answered(r, n) EXCEPT
                  !.finish = "tool_calls", !.state = "tool_calling",
                  !.open = {[op |-> "execute", index |-> i, tool |-> calls[i]] : i \in 1..k}]))

\* A tool call marker, but every call is dropped for a decode error.
ReplyUndecodable(r) ==
    /\ EngineAnswers(r)
    /\ \E n \in MessageLens(r) :
          Suspend(r, LeaveLoop(r, [Answered(r, n) EXCEPT
                                      !.finish = "stop", !.state = "completed"]))

\* Plain text: over to the interaction if there is one and it has turns left.
ReplyText(r) ==
    /\ EngineAnswers(r)
    /\ \E n \in MessageLens(r) :
          LET q == [Answered(r, n) EXCEPT !.finish = "stop"]
          IN  Suspend(r, IF /\ InteractionOf[r] # "none"
                            /\ q.userTurns < MaxUserTurns
                            /\ TurnsLeft(q)
                         THEN Continue(r, [q EXCEPT !.state = "interacting"])
                         ELSE LeaveLoop(r, [q EXCEPT !.state = "completed"]))

ToolsExecuted(r) ==
    /\ Resumes(r, "tools")
    /\ task[r].open = {}
    /\ \E n \in ReplyLens :
          Suspend(r, ContinueUnlessTooLong(r, AddToolResponseMessages(task[r], n)))
    /\ UNCHANGED <<instances, sessions>> /\ UNCHANGED Collector

\* generate_response returned; terminate is its should_terminate_sequence.
UserReplied(r) ==
    /\ Resumes(r, "user")
    /\ r \in sessions
    /\ \E terminate \in BOOLEAN, n \in ReplyLens \ {0} :
          Suspend(r, IF \/ terminate
                        \/ task[r].userTurns > MaxUserTurns
                        \/ task[r].turns > MaxAssistantTurns
                     THEN LeaveLoop(r, [task[r] EXCEPT !.finish = "stop", !.state = "completed"])
                     ELSE ContinueUnlessTooLong(r, AddUserMessage(task[r], n)))
    /\ UNCHANGED <<instances, sessions>> /\ UNCHANGED Collector

RewardsCalculated(r) ==
    /\ Resumes(r, "reward")
    /\ task[r].open = {}
    /\ Suspend(r, Finish(task[r]))
    /\ UNCHANGED <<instances, sessions>> /\ UNCHANGED Collector

LogProbsCalculated(r) ==
    /\ Resumes(r, "logprob")
    /\ r \in inflight
    /\ Suspend(r, [task[r] EXCEPT !.at = "returned"])
    /\ UNCHANGED <<instances, sessions>> /\ UNCHANGED Collector

-----------------------------------------------------------------------------
(* Child tasks of the gathers.  A request that failed leaves its remaining *)
(* children behind: gather does not cancel them.                           *)

JobRuns(r, j) ==
    /\ phase \in {"collect", "drain", "fail"}
    /\ r \notin cancelled
    /\ j \in task[r].open

\* The instance a job looks up in _instance_dict.
HasInstance(r, j) == r \in instances[j.tool]

\* create; execute; calc_reward followed by release, which deletes the entry.
InstancesNeverReleased(r, j) ==
    IF j.op = "create" THEN [instances EXCEPT ![j.tool] = @ \cup {r}] ELSE instances
InstancesAfter(r, j) ==
    CASE j.op = "create"  -> [instances EXCEPT ![j.tool] = @ \cup {r}]
      [] j.op = "execute" -> instances
      [] j.op = "reward"  -> [instances EXCEPT ![j.tool] = @ \ {r}]

JobSucceeds(r, j) ==
    /\ JobRuns(r, j)
    /\ j.op \in {"execute", "reward"} => HasInstance(r, j)
    /\ task' = [task EXCEPT ![r].open = @ \ {j}]
    /\ instances' = InstancesAfter(r, j)
    /\ UNCHANGED <<sessions, inflight, doneQ>> /\ UNCHANGED Collector

\* What a job may raise: the tool's own exception, or a KeyError for a missing
\* entry.
Raised(r, j) ==
    {e \in {"tool"} : "tool" \in Faults}
    \cup {e \in {"no_instance"} : j.op \in {"execute", "reward"} /\ ~HasInstance(r, j)}

\* The first exception of a gather is raised in the request's coroutine; the
\* later ones reach nobody.
JobRaises(r, j) ==
    /\ JobRuns(r, j)
    /\ \E e \in Raised(r, j) :
          LET q == [task[r] EXCEPT !.open = @ \ {j}]
          IN  IF q.at = "failed"
              THEN task' = [task EXCEPT ![r] = q] /\ UNCHANGED <<inflight, doneQ>>
              ELSE Suspend(r, Failed(q, e))
    /\ UNCHANGED <<instances, sessions>> /\ UNCHANGED Collector

-----------------------------------------------------------------------------
(* Cancellation and the engine's side of it.                               *)

\* CancelledError is raised at the await, whatever the await was about to
\* return; gather has cancelled its children; the wrapper returns padding.
\* Neither a tool's entry nor the engine's request is cleaned up here.
DeliverCancel(r) ==
    /\ phase \in {"drain", "fail"}
    /\ r \in cancelled
    /\ task[r].at \in Running
    /\ task' = [task EXCEPT ![r] = PaddingTask(r)]
    /\ doneQ' = Append(doneQ, r)
    /\ UNCHANGED <<instances, sessions, inflight>> /\ UNCHANGED Collector

\* The engine finishes, or after abort_request drops, a request nobody waits
\* for any more.
EngineFinishesOrphan(r) ==
    /\ r \in inflight
    /\ task[r].at \in Finished
    /\ inflight' = inflight \ {r}
    /\ UNCHANGED <<task, instances, sessions, doneQ>> /\ UNCHANGED Collector

-----------------------------------------------------------------------------
(* The collecting coroutine.                                               *)

Unfinished == {r \in Reqs : task[r].at \in Running}
With(at) == {r \in Reqs : task[r].at = at}

Environment == <<task, instances, sessions, inflight, doneQ>>

\* completed_count += 1, and a way to get it wrong.
Uncounted    == consumed
OneMore      == consumed + 1

\* The next task as_completed yields.  All tasks were scheduled before the
\* collector could be woken, so none of them is still unstarted.
NextDone ==
    /\ ~Validate
    /\ phase = "collect"
    /\ With("spawned") = {}
    /\ consumed < Len(doneQ)
    /\ consumed' = OneMore
    /\ UNCHANGED Environment

TargetReachedEarly(n) == n + 1 >= Target
TargetReached(n)      == n >= Target

\* completed_count is still below the target: go on waiting.
CountCompletion ==
    /\ NextDone
    /\ task[doneQ[consumed + 1]].at # "failed"
    /\ ~TargetReached(consumed')
    /\ UNCHANGED <<cancelled, phase>>

\* The target is reached: break, and the finally block cancels the rest.
ReachTarget ==
    /\ NextDone
    /\ task[doneQ[consumed + 1]].at # "failed"
    /\ TargetReached(consumed')
    /\ cancelled' = Unfinished
    /\ phase' = "drain"

\* The awaited task raises: the finally block cancels the rest all the same.
CollectFailure ==
    /\ NextDone
    /\ task[doneQ[consumed + 1]].at = "failed"
    /\ cancelled' = Unfinished
    /\ phase' = "fail"

\* The gather of all tasks, exceptions included as results.
Drained ==
    /\ phase \in {"drain", "fail"}
    /\ Unfinished = {}
    /\ phase' = IF phase = "drain" THEN "abort" ELSE "abort_fail"
    /\ UNCHANGED Environment /\ UNCHANGED <<cancelled, consumed>>

\* abort_request(abort_all=True), then the results, or the pending exception.
\* The abort is only sent: the engine drops the requests in its own time.
AbortAll ==
    /\ phase \in {"abort", "abort_fail"}
    /\ phase' = IF phase = "abort" THEN "assemble" ELSE "raised"
    /\ UNCHANGED Environment /\ UNCHANGED <<cancelled, consumed>>

\* Validation: one gather, no cancellation.
ValidationDone ==
    /\ Validate
    /\ phase = "collect"
    /\ With("returned") = Reqs
    /\ phase' = "assemble"
    /\ UNCHANGED Environment /\ UNCHANGED <<cancelled, consumed>>

\* The first exception leaves run_until_complete; the other tasks stay behind,
\* suspended.
PhaseAfterFailure == "raised"

ValidationFails ==
    /\ Validate
    /\ phase = "collect"
    /\ With("failed") # {}
    /\ phase' = PhaseAfterFailure
    /\ UNCHANGED Environment /\ UNCHANGED <<cancelled, consumed>>

\* What makes the batch construction raise: an exception among the results has
\* no batch_data_id to sort by; padding has rollout_log_probs = None, which
\* cannot be sliced; and a row's stream may not be longer than the context,
\* which finalize sees to and padding, a copy of the prompt, does not.
CannotAssemble ==
    \/ With("failed") # {}
    \/ CalculateLogProbs /\ With("padded") # {}
    \/ \E r \in With("returned") \cup With("padded") : Len(task[r].ids) > MaxModelLen

AssembleBatch ==
    /\ phase = "assemble"
    /\ phase' = IF CannotAssemble THEN "raised" ELSE "flush"
    /\ UNCHANGED Environment /\ UNCHANGED <<cancelled, consumed>>

\* flush_cache, whose answer is not looked at (the engine refuses while it still
\* has requests), then the DataProto is returned.
FlushCache ==
    /\ phase = "flush"
    /\ phase' = "returned"
    /\ UNCHANGED Environment /\ UNCHANGED <<cancelled, consumed>>

-----------------------------------------------------------------------------
Init ==
    /\ task = [r \in Reqs |-> FreshTask(r)]
    /\ instances = [t \in Tools |-> {}]
    /\ sessions = {}
    /\ inflight = {}
    /\ doneQ = <<>>
    /\ cancelled = {}
    /\ consumed = 0
    /\ phase = "collect"

RequestStep(r) ==
    \/ StartTask(r) \/ ToolsCreated(r) \/ InteractionStarted(r)
    \/ InteractionRaises(r) \/ EngineRaises(r)
    \/ ReplyCutOff(r) \/ ReplyToolCalls(r) \/ ReplyUndecodable(r) \/ ReplyText(r)
    \/ ToolsExecuted(r) \/ UserReplied(r) \/ RewardsCalculated(r) \/ LogProbsCalculated(r)
    \/ DeliverCancel(r)

JobStep(r) == \E j \in Job : JobSucceeds(r, j) \/ JobRaises(r, j)

CollectorStep ==
    \/ CountCompletion \/ ReachTarget \/ CollectFailure \/ Drained \/ AbortAll
    \/ ValidationDone \/ ValidationFails \/ AssembleBatch \/ FlushCache

\* generate_sequences has returned or raised.
Stopped == phase \in {"returned", "raised"} /\ UNCHANGED vars

Next ==
    \/ \E r \in Reqs : RequestStep(r) \/ JobStep(r) \/ EngineFinishesOrphan(r)
    \/ CollectorStep
    \/ Stopped

Spec == Init /\ [][Next]_vars

\* The event loop runs every callback that is ready, the engine answers every
\* request it accepted and every tool call ends: an assumption on the queries
\* the SQL tool executes, whose time limit is commented out in exec_on_db.
\* Nothing is assumed of EngineFinishesOrphan, which nobody waits for.
Fairness ==
    /\ \A r \in Reqs : WF_vars(RequestStep(r)) /\ WF_vars(JobStep(r))
    /\ WF_vars(CollectorStep)

FairSpec == Spec /\ Fairness
-----------------------------------------------------------------------------
(* Properties.                                                             *)

\* Every variable stays within its type.
TypeOK ==
    /\ task \in [Reqs -> Task]
    /\ instances \in [Tools -> SUBSET Reqs]
    /\ sessions \subseteq Reqs /\ inflight \subseteq Reqs /\ cancelled \subseteq Reqs
    /\ doneQ \in Seq(Reqs)
    /\ consumed \in 0..Len(doneQ)
    /\ phase \in Phases

\* The loss mask selects exactly the tokens the model produced, through every
\* append, removal and cut.
LossMarksModelOutput ==
    \A r \in Reqs :
        /\ Len(task[r].loss) = Len(task[r].ids)
        /\ \A i \in 1..Len(task[r].ids) :
              task[r].loss[i] = 1 <=> task[r].ids[i] = "asst"

\* The engine is asked only when the stream ends with a generation prompt and
\* leaves room for a token and the end of sequence: max_new_tokens is never 0
\* or negative and prompt plus answer stay below max_model_len.
EngineBudget ==
    \A r \in With("engine") :
        /\ EndsWithGenerationPrompt(task[r])
        /\ Budget(task[r]) >= 1
        /\ Len(task[r].ids) + Budget(task[r]) < MaxModelLen

\* Assistant turns and user turns stay within their configured bounds, and
\* every user turn is the reply to an assistant turn of its own.
TurnsBounded ==
    \A r \in Reqs :
        /\ task[r].turns <= MaxAssistantTurns
        /\ task[r].userTurns <= MaxUserTurns
        /\ task[r].userTurns <= task[r].turns

\* Every stretch of model output answers exactly one generation prompt, every
\* generation prompt but a trailing one was answered, and there are as many as
\* the assistant turns counted.  finalize may cut the stream short.
TurnDiscipline ==
    \A r \in Reqs :
        LET s == task[r].ids
            answered == {i \in 1..Len(s) - 1 : s[i] = "gen"}
        IN  /\ \A i \in 1..Len(s) : s[i] = "asst" => i > 1 /\ s[i - 1] \in {"gen", "asst"}
            /\ \A i \in answered : s[i + 1] = "asst"
            /\ task[r].state # "completed" => Cardinality(answered) = task[r].turns

\* What of a stream the model has seen or written: up to the last token of its
\* output, and all of it while the engine works on it.
Seen(q) ==
    IF q.at = "engine" THEN q.ids
    ELSE LET outputs == {i \in 1..Len(q.ids) : q.ids[i] = "asst"}
         IN  IF outputs = {} THEN <<>>
             ELSE SubSeq(q.ids, 1, CHOOSE i \in outputs : \A j \in outputs : j <= i)

\* Training sees the tokens inference saw: no step rewrites what the model has
\* seen, up to the final cut; only cancellation starts over from the prompt.
SeenIsKept ==
    [][\A r \in Reqs : task'[r].at # "padded" =>
          LET kept == FirstN(Seen(task[r]), StreamCap)
          IN  kept = FirstN(task'[r].ids, Len(kept))]_vars

\* The row handed to the trainer, prompts followed by responses, is the
\* beginning of the conversation the engine had, and its mask marks the
\* model's part of it.
RowIsTrajectory ==
    \A r \in With("returned") :
        LET row == PromptIds(PromptLen[r])
                   \o Response(task[r], PromptLen[r], ResponseLength)
            n   == IF Len(row) < Len(task[r].ids) THEN Len(row) ELSE Len(task[r].ids)
            mask == ResponseLossMask(task[r], PromptLen[r], ResponseLength)
        IN  /\ FirstN(row, n) = FirstN(task[r].ids, n)
            /\ \A i \in 1..Len(mask) : mask[i] = 1 <=> row[PromptLen[r] + i] = "asst"

\* Whatever is cut off, fails or is left behind half-way: a create in progress
\* is the only one for its instance, every execute and reward in progress still
\* finds its instance, a rollout that is under way has all of its tools, and a
\* row that was finished, or was not started, has none.
InstanceLifecycle ==
    \A r \in Reqs : \A t \in Tools :
        /\ r \in instances[t] => /\ t \in ToolsOf[r]
                                 /\ task[r].at \notin {"spawned", "logprob", "returned"}
        /\ \A j \in task[r].open : j.tool = t /\ t \in ToolsOf[r] =>
              (j.op = "create" <=> r \notin instances[t])
        /\ task[r].at \in {"start", "engine", "tools", "user"} /\ t \in ToolsOf[r] =>
              r \in instances[t]

\* The errors that are not the rollout's own: a tool, an interaction or the
\* engine raised, the model called a tool the request was not given, or the
\* interaction's name is unknown.
Outside(r) ==
    Faults \cup (IF ToolsOf[r] = Tools THEN {} ELSE {"no_instance"})
           \cup (IF InteractionOf[r] = "missing" THEN {"no_interaction"} ELSE {})

\* A rollout fails only for what it was given or what it calls, and never for
\* its own bookkeeping: a reason finalize does not support, the entry of a tool
\* it was given, or the session of its interaction.
FailuresComeFromOutside == \A r \in With("failed") : task[r].error \in Outside(r)

\* After a batch was built, only requests that were cut off still hold tool
\* instances.
LeaksOnlyByCancellation ==
    phase \in {"flush", "returned"} =>
        \A t \in Tools : instances[t] \subseteq With("padded")

\* Every call of generate_sequences returns or raises.
GenerateEnds == <>(phase \in {"returned", "raised"})

\* The batch a caller sees: an implementation of BatchRollout.
Slot(r) == IF task[r].at = "returned" THEN "completed"
           ELSE IF task[r].at \in {"padded", "failed"} THEN task[r].at ELSE "open"

Batch == INSTANCE BatchRollout WITH
            slot    <- [r \in Reqs |-> Slot(r)],
            outcome <- IF phase = "returned" THEN "delivered"
                       ELSE IF phase = "raised" THEN "raised" ELSE "running",
            Quota   <- IF Target = 0 THEN 1 ELSE Target,
            Fixed   <- IF CalculateLogProbs THEN Reqs
                       ELSE {r \in Reqs : PromptLen[r] > MaxModelLen}

\* The rollout implements what it promises the trainer.
ImplementsBatch == Batch!Spec
=============================================================================
