---------------------------- MODULE ToolAgentLoop ----------------------------
(***************************************************************************)
(* One row of the experimental agent loop: ToolAgentLoop.run               *)
(* (verl/experimental/agent_loop/tool_agent_loop.py), the asynchronous     *)
(* SGLang server that answers it, and the padding of its output by         *)
(* AgentLoopWorker._run_agent_loop.                                        *)
(*                                                                         *)
(* The row is one coroutine; an action is what it does between two awaits. *)
(* asyncio.gather runs one _call_tool coroutine per tool call beside it,   *)
(* and does not wait for the others when one of them raises: they go on    *)
(* after the row has failed.                                               *)
(*                                                                         *)
(* A token is its kind, that is who wrote it.  Left out: the messages,     *)
(* which only the interaction reads, the rewards of turns and tools, and   *)
(* the template of a model with a processor for images.                    *)
(***************************************************************************)
EXTENDS Integers, Sequences, FiniteSets

CONSTANTS
    PromptLens,         \* lengths of the templated raw_prompt
    PromptLength,       \* config.prompt_length
    ResponseLength,     \* config.response_length
    MaxModelLen,        \* config.max_model_len
    MaxUserTurns,       \* multi_turn.max_user_turns, 0: no limit
    MaxAssistantTurns,  \* multi_turn.max_assistant_turns, 0: no limit
    MaxParallelCalls,   \* multi_turn.max_parallel_calls
    MaxCalls,           \* bound on the tool calls of one answer
    ReplyLens,          \* tokens a tool's or a user's reply renders to
    Faults              \* may interactions raise, releases raise, tools send media?

ASSUME LoopAssumption ==
    /\ PromptLens \subseteq Nat \ {0} /\ ReplyLens \subseteq Nat \ {0}
    /\ {PromptLength, ResponseLength, MaxParallelCalls} \subseteq Nat \ {0}
    /\ {MaxUserTurns, MaxAssistantTurns, MaxCalls} \subseteq Nat
    /\ MaxModelLen \in Nat /\ MaxModelLen >= PromptLength + ResponseLength
    /\ Faults \in BOOLEAN

VARIABLES
    state,           \* AgentState, then how run() ended
    conf,            \* the row's prompt length and the run's two switches
    stream,          \* agent_data.prompt_ids
    mask,            \* agent_data.response_mask
    logprobs,        \* agent_data.response_logprobs
    userTurns,       \* agent_data.user_turns
    assistantTurns,  \* agent_data.assistant_turns
    calls,           \* the _call_tool coroutines of the last gather
    instances,       \* the tools' _instance_dict entries of this row
    session,         \* the interaction has a session for this row
    row              \* the padded output

tokens == <<conf, stream, mask, logprobs>>
turns == <<userTurns, assistantTurns>>
vars == <<state, conf, stream, mask, logprobs, userTurns, assistantTurns,
          calls, instances, session, row>>

-----------------------------------------------------------------------------
Kinds == {"prompt", "model", "tool", "user"}
States == {"start", "pending", "generating", "processing_tools", "interacting",
           "terminated", "returned", "raised"}
Settled == {"answered", "rejected", "raised"}
CallStates == {"started", "holding", "returning", "failing"} \cup Settled
Holding == {"holding", "returning", "failing", "raised"}

\* interaction: interaction_config_file is set; logprobs: calculate_log_probs.
Confs == [promptLen : PromptLens, interaction : BOOLEAN, logprobs : BOOLEAN]

Copies(n, x) == [i \in 1..n |-> x]
Lesser(a, b) == IF a < b THEN a ELSE b
FirstN(s, n) == SubSeq(s, 1, Lesser(n, Len(s)))

\* Python's s[-n:], which is all of s when n is 0.
LastN(s, n) == IF n = 0 THEN s ELSE SubSeq(s, Len(s) - n + 1, Len(s))

\* max_new_tokens of the request the stream would be sent with.
Budget == Lesser(ResponseLength, MaxModelLen - Len(stream) - 1)

\* The engine answers with at least one token when it may; asked for none, it
\* may still return the one its prefill samples.
AnswerLens == IF Budget = 0 THEN {0, 1} ELSE 1..Budget

\* How many calls the parser finds in an answer of n tokens.
ToolCalls(n) == 0..Lesser(MaxCalls, n)

NoRow == [prompt |-> <<>>, response |-> <<>>, mask |-> <<>>, logprobs |-> <<>>]

Init == /\ state = "start"
        /\ conf \in Confs
        /\ stream = <<>> /\ mask = <<>> /\ logprobs = <<>>
        /\ userTurns = 0 /\ assistantTurns = 0
        /\ calls = <<>> /\ instances = {}
        /\ session = FALSE
        /\ row = NoRow

\* run() up to its loop: the interaction's session.
Start == /\ state = "start"
         /\ \/ state' = "pending" /\ session' = conf.interaction
            \/ Faults /\ conf.interaction /\ state' = "raised" /\ UNCHANGED session
         /\ UNCHANGED <<tokens, turns, calls, instances, row>>

HandlePending ==
    /\ state = "pending"
    /\ state' = "generating"
    /\ stream' = Copies(conf.promptLen, "prompt")
    /\ UNCHANGED <<conf, mask, logprobs, turns, calls, instances, session, row>>

\* A reply of n tokens that the model did not write is appended to the row.
Append0(kind, n) ==
    /\ stream' = stream \o Copies(n, kind)
    /\ mask' = mask \o Copies(n, 0)
    /\ logprobs' = IF logprobs = <<>> THEN logprobs ELSE logprobs \o Copies(n, "zero")

\* The conditions that end the row after an answer.
Exhausted(newMask, newTurns) ==
    \/ Len(newMask) >= ResponseLength
    \/ MaxAssistantTurns # 0 /\ newTurns >= MaxAssistantTurns
    \/ MaxUserTurns # 0 /\ userTurns >= MaxUserTurns

AfterAnswer(newMask, newTurns, k) ==
    IF Exhausted(newMask, newTurns) THEN "terminated"
    ELSE IF k > 0 THEN "processing_tools"
    ELSE IF conf.interaction THEN "interacting"
    ELSE "terminated"

\* The server refuses a negative budget.
Refused == /\ state = "generating" /\ Budget < 0
           /\ state' = "raised"
           /\ UNCHANGED <<tokens, turns, calls, instances, session, row>>

\* An empty answer has no pairs to unzip into log-probabilities and tokens.
EmptyAnswer == /\ state = "generating" /\ Budget = 0 /\ conf.logprobs
               /\ state' = "raised"
               /\ UNCHANGED <<tokens, turns, calls, instances, session, row>>

Generated ==
    /\ state = "generating" /\ Budget >= 0
    /\ \E n \in AnswerLens :
        /\ ~(conf.logprobs /\ n = 0)
        /\ stream' = stream \o Copies(n, "model")
        /\ mask' = mask \o Copies(n, 1)
        /\ logprobs' = IF conf.logprobs THEN logprobs \o Copies(n, "sampled") ELSE logprobs
        /\ assistantTurns' = assistantTurns + 1
        /\ \E k \in ToolCalls(n) :
            /\ state' = AfterAnswer(mask', assistantTurns', k)
            /\ calls' = IF state' = "processing_tools"
                        THEN Copies(Lesser(k, MaxParallelCalls), "started") ELSE <<>>
    /\ UNCHANGED <<conf, userTurns, instances, session, row>>

-----------------------------------------------------------------------------
\* _call_tool, from await to await.  A call whose name is unknown, whose
\* arguments are not JSON or whose create() raises is answered with the error.
Instance(i) == <<assistantTurns, i>>

Becomes(i, s) == calls' = [calls EXCEPT ![i] = s]

CallRejected(i) == /\ calls[i] = "started" /\ Becomes(i, "rejected")
                   /\ UNCHANGED instances

Created(i) == /\ calls[i] = "started" /\ Becomes(i, "holding")
              /\ instances' = instances \cup {Instance(i)}

\* A slip: a call that raises is answered without the finally clause.
ExecutedPastRelease(i) == /\ calls[i] = "holding"
                          /\ Becomes(i, "returning") \/ Becomes(i, "rejected")
                          /\ UNCHANGED instances

Executed(i) == /\ calls[i] = "holding"
               /\ Becomes(i, "returning") \/ Becomes(i, "failing")
               /\ UNCHANGED instances

Released(i) == /\ calls[i] \in {"returning", "failing"}
               /\ Becomes(i, IF calls[i] = "returning" THEN "answered" ELSE "rejected")
               /\ instances' = instances \ {Instance(i)}

ReleaseRaises(i) == /\ Faults
                    /\ calls[i] \in {"returning", "failing"} /\ Becomes(i, "raised")
                    /\ UNCHANGED instances

CallStep(i) == /\ CallRejected(i) \/ Created(i) \/ Executed(i) \/ Released(i)
                    \/ ReleaseRaises(i)
               /\ UNCHANGED <<state, tokens, turns, session, row>>

-----------------------------------------------------------------------------
\* A slip: a call that failed is waited for as if it had not answered.
AllSucceeded == \A i \in DOMAIN calls : calls[i] = "answered"

AllAnswered == \A i \in DOMAIN calls : calls[i] \in {"answered", "rejected"}

\* gather raises what the first failing call raised.
GatherRaises ==
    /\ state = "processing_tools"
    /\ \E i \in DOMAIN calls : calls[i] = "raised"
    /\ state' = "raised"
    /\ UNCHANGED <<tokens, turns, calls, instances, session, row>>

\* Media in a tool's answer: there is no processor for it.
MediaRaises ==
    /\ state = "processing_tools" /\ AllAnswered /\ Faults
    /\ \E i \in DOMAIN calls : calls[i] = "answered"
    /\ state' = "raised"
    /\ UNCHANGED <<tokens, turns, calls, instances, session, row>>

\* A slip: the reply's own length is forgotten.
ReplyFitsBefore(n) == Len(mask) < ResponseLength

ReplyFits(n) == Len(mask) + n < ResponseLength

\* The tools' answers, rendered to n tokens, are appended or end the row.
ToolsAnswered ==
    /\ state = "processing_tools" /\ AllAnswered
    /\ \E n \in ReplyLens :
        IF ReplyFits(n)
        THEN /\ Append0("tool", n)
             /\ userTurns' = userTurns + 1
             /\ state' = "generating"
        ELSE /\ state' = "terminated"
             /\ UNCHANGED <<stream, mask, logprobs, userTurns>>
    /\ UNCHANGED <<conf, assistantTurns, calls, instances, session, row>>

HandleInteracting ==
    /\ state = "interacting"
    /\ \E n \in ReplyLens, stop \in BOOLEAN :
        /\ Append0("user", n)
        /\ userTurns' = userTurns + 1
        /\ state' = IF stop THEN "terminated" ELSE "generating"
    /\ UNCHANGED <<conf, assistantTurns, calls, instances, session, row>>

InteractionRaises ==
    /\ state = "interacting" /\ Faults
    /\ state' = "raised"
    /\ UNCHANGED <<tokens, turns, calls, instances, session, row>>

-----------------------------------------------------------------------------
PadLeft(s, n) == Copies(IF Len(s) < n THEN n - Len(s) ELSE 0, "pad") \o s
PadRight(s, n, x) == s \o Copies(IF Len(s) < n THEN n - Len(s) ELSE 0, x)

\* A slip: the response is cut from the end of the prompt.
ResponseIdsAfterPromptLength == FirstN(LastN(stream, Len(mask) + 1), ResponseLength)

ResponseIds == FirstN(LastN(stream, Len(mask)), ResponseLength)

\* run() cuts the stream into prompt and response, _run_agent_loop pads both;
\* the mask is multiplied by the response's attention mask.
Padded ==
    LET response == PadRight(ResponseIds, ResponseLength, "pad")
        ones == PadRight(FirstN(mask, ResponseLength), ResponseLength, 0)
    IN  [prompt |-> PadLeft(FirstN(stream, Len(stream) - Len(mask)), PromptLength),
         response |-> response,
         mask |-> [i \in 1..ResponseLength |-> IF response[i] = "pad" THEN 0 ELSE ones[i]],
         logprobs |-> IF logprobs = <<>> THEN <<>>
                      ELSE PadRight(FirstN(logprobs, ResponseLength), ResponseLength, "zero")]

Finish == /\ state = "terminated"
          /\ state' = "returned"
          /\ row' = Padded
          /\ UNCHANGED <<tokens, turns, calls, instances, session>>

RowStep == \/ Start \/ HandlePending \/ Refused \/ EmptyAnswer \/ Generated
           \/ GatherRaises \/ MediaRaises \/ ToolsAnswered
           \/ HandleInteracting \/ InteractionRaises \/ Finish

Next == RowStep \/ \E i \in DOMAIN calls : CallStep(i)

Spec == Init /\ [][Next]_vars

\* The event loop runs every ready coroutine; the server, the tools and the
\* interaction answer each call.
FairSpec == /\ Spec
            /\ WF_vars(RowStep)
            /\ \A i \in 1..MaxCalls : WF_vars(i \in DOMAIN calls /\ CallStep(i))

-----------------------------------------------------------------------------
\* The state is of its type.  The mask is as long as what follows the prompt,
\* and the log-probabilities, when they are kept, as long as the mask.
TypeOK ==
    /\ state \in States
    /\ conf \in Confs
    /\ stream \in Seq(Kinds) /\ mask \in Seq({0, 1}) /\ logprobs \in Seq({"sampled", "zero"})
    /\ Len(stream) = Len(mask) + IF stream = <<>> THEN 0 ELSE conf.promptLen
    /\ Len(logprobs) = IF conf.logprobs THEN Len(mask) ELSE 0
    /\ userTurns \in Nat /\ assistantTurns \in Nat
    /\ calls \in Seq(CallStates) /\ Len(calls) <= MaxParallelCalls
    /\ instances \subseteq Nat \X Nat
    /\ session \in BOOLEAN
    /\ row.mask \in Seq({0, 1}) /\ row.logprobs \in Seq({"sampled", "zero"})
    /\ {row.prompt, row.response} \subseteq Seq(Kinds \cup {"pad"})

Ended == state \in {"returned", "raised"}
PromptFits == conf.promptLen <= PromptLength

\* The row given to the trainer is the trajectory: prompt and response are the
\* stream up to response_length tokens, the mask is 1 on exactly the tokens the
\* model wrote, its log-probabilities stand exactly there, and the row is as
\* wide as every other row of the batch.  Two cases are outside: a response
\* without tokens, for which s[-0:] is the whole prompt, and a prompt that is
\* longer than prompt_length, which the tokenizer does not cut.
RowIsTrajectory ==
    state = "returned" /\ mask # <<>> /\ PromptFits =>
        LET kept == Lesser(Len(mask), ResponseLength)
        IN  /\ row.prompt = PadLeft(Copies(conf.promptLen, "prompt"), PromptLength)
            /\ row.response = PadRight(SubSeq(stream, conf.promptLen + 1,
                                              conf.promptLen + kept), ResponseLength, "pad")
            /\ Len(row.mask) = ResponseLength
            /\ \A i \in 1..ResponseLength :
                  (row.mask[i] = 1) <=> (row.response[i] = "model")
            /\ conf.logprobs => /\ Len(row.logprobs) = ResponseLength
                           /\ \A i \in 1..ResponseLength :
                                 (row.logprobs[i] = "sampled") <=> (row.mask[i] = 1)

\* The server is never asked for a negative number of tokens, unless a user's
\* reply, which nobody measures, has just overrun the context or the prompt
\* was too long from the start.
OnlyUsersOverrun ==
    state = "generating" /\ Budget < 0 /\ PromptFits => stream[Len(stream)] = "user"

\* A tool's instance lives no longer than its call, whether the call succeeds,
\* fails or outlives the row's own failure; only a release that raises leaves
\* one behind.
InstancesLiveWithCalls ==
    /\ instances = {Instance(i) : i \in {j \in DOMAIN calls : calls[j] \in Holding}}
    /\ state \notin {"processing_tools", "raised"} => instances = {}

\* Every row ends, even without a limit on turns, and so does every call that
\* a failing row has left behind.
LoopEnds == <>[](Ended /\ \A i \in DOMAIN calls : calls[i] \in Settled)
=============================================================================
