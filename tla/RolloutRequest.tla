--------------------------- MODULE RolloutRequest ---------------------------
(***************************************************************************)
(* The token stream of an AsyncRolloutRequest                              *)
(* (verl/workers/rollout/schemas.py).  A request carries the tokens of its *)
(* conversation, input_ids, and a parallel loss_mask.  A token is          *)
(* abstracted to the part of the chat template it belongs to:              *)
(*                                                                         *)
(*   "prompt"  the initial messages (without generation prompt)            *)
(*   "gen"     the generation prompt ("<|im_start|>assistant\n")           *)
(*   "asst"    what the model produced                                     *)
(*   "tool"    a tool response                                             *)
(*   "user"    an interaction's reply                                      *)
(*                                                                         *)
(* The generation prompt is one token here: the code tests, appends and    *)
(* removes it only as a block.  attention_mask is 1 wherever a token was   *)
(* appended and is not modelled.  position_ids is the distance from the    *)
(* start of the stream and is not modelled either.                         *)
(*                                                                         *)
(* With use_inference_chat_template, which is off by default, the engine   *)
(* is not sent the stream but the conversation tokenized once more         *)
(* (schemas.py:361-372); what may be generated is then bounded by the      *)
(* length of that.  The stream itself is the same.  That branch is left    *)
(* out: the engine is always sent the stream.                              *)
(*                                                                         *)
(* Every operator works on any record with fields ids and loss.            *)
(***************************************************************************)
EXTENDS Integers, Sequences

Kinds == {"prompt", "gen", "asst", "tool", "user"}

\* n copies of x.
Copies(n, x) == [i \in 1..n |-> x]

\* The first n elements of s (all of s when it is shorter): s[..., :n].
FirstN(s, n) == SubSeq(s, 1, IF n < Len(s) THEN n ELSE Len(s))

\* initialize_request tokenizes the messages with the generation prompt at the
\* end; input_ids and prompt_ids are the same tensor, and no token is learned.
PromptIds(len) == Append(Copies(len - 1, "prompt"), "gen")

InitialStream(len) == [ids |-> PromptIds(len), loss |-> Copies(len, 0)]

\* Both tensors grow by the same n tokens (_update_input_ids).
UpdateInputIds(q, kind, n, learned) ==
    [q EXCEPT !.ids  = @ \o Copies(n, kind),
              !.loss = @ \o Copies(n, learned)]

EndsWithGenerationPrompt(q) == q.ids # <<>> /\ q.ids[Len(q.ids)] = "gen"

\* The side effect of get_generation_prompt_ids: the generation prompt is
\* appended, outside the loss, unless the stream already ends with it.  The
\* stream is what it returns (use_inference_chat_template is off).
WithAnotherGenerationPrompt(q) == UpdateInputIds(q, "gen", 1, 0)
WithGenerationPrompt(q) ==
    IF EndsWithGenerationPrompt(q) THEN q ELSE UpdateInputIds(q, "gen", 1, 0)

\* _remove_generation_prompt_ids_if_present.
WithoutGenerationPrompt(q) ==
    IF EndsWithGenerationPrompt(q)
    THEN [q EXCEPT !.ids  = SubSeq(@, 1, Len(@) - 1),
                   !.loss = SubSeq(@, 1, Len(@) - 1)]
    ELSE q

AddUserMessage(q, n) == UpdateInputIds(q, "user", n, 0)

AddAssistantMessageInPlaceOfPrompt(q, n) ==
    UpdateInputIds(WithoutGenerationPrompt(q), "asst", n, 1)
AddAssistantMessage(q, n) == UpdateInputIds(q, "asst", n, 1)

\* n = 0 stands for responses that are all empty: the method returns early and
\* the stream, generation prompt included, is left alone.
AddToolResponseMessages(q, n) ==
    IF n = 0 THEN q
    ELSE UpdateInputIds(WithoutGenerationPrompt(q), "tool", n, 0)

\* finalize + truncate_output_ids: a dangling generation prompt is dropped and
\* the stream is cut at the request's max_model_len.
Finalized(q, cap) ==
    LET w == WithoutGenerationPrompt(q)
    IN  [w EXCEPT !.ids = FirstN(@, cap), !.loss = FirstN(@, cap)]

\* What truncate_output_ids cuts out as the response of a finalized stream.
ResponseWithPromptEnd(q, promptLen, maxResponse) ==
    FirstN(SubSeq(q.ids, promptLen, Len(q.ids)), maxResponse)
Response(q, promptLen, maxResponse) ==
    FirstN(SubSeq(q.ids, promptLen + 1, Len(q.ids)), maxResponse)

ResponseLossMask(q, promptLen, maxResponse) ==
    FirstN(SubSeq(q.loss, promptLen + 1, Len(q.loss)), maxResponse)
=============================================================================
