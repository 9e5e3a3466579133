------------------------ MODULE ToolAgentLoopProofs -------------------------
(***************************************************************************)
(* The safety of the agent loop's row for all lengths, limits and faults:  *)
(* its type, the padded row, the budget of a request, the tools' instances.*)
(***************************************************************************)
EXTENDS ToolAgentLoop, SequenceTheorems, TLAPS

\* Everything after the prompt was written by someone.
Writers == {"model", "tool", "user"}

\* The stream is the prompt and what was written after it; the mask and the
\* log-probabilities, when they are kept, mark what the model wrote.
Aligned ==
    /\ Len(stream) = conf.promptLen + Len(mask)
    /\ \A i \in 1..conf.promptLen : stream[i] = "prompt"
    /\ \A i \in 1..Len(mask) :
          /\ stream[conf.promptLen + i] \in Writers
          /\ mask[i] = 1 <=> stream[conf.promptLen + i] = "model"
          /\ conf.logprobs => (logprobs[i] = "sampled" <=> mask[i] = 1)

\* Before HandlePending there is nothing; afterwards stream and mask agree.
StreamInv ==
    /\ stream = <<>> => mask = <<>>
    /\ state \in {"start", "pending"} => stream = <<>>
    /\ state \notin {"start", "pending", "raised"} => stream # <<>>
    /\ stream # <<>> => Aligned

\* With log-probabilities a reply is never the first thing in a response.
AnsweredInv ==
    state \in {"processing_tools", "interacting"} /\ conf.logprobs => mask # <<>>

\* Only a user's reply has brought a row that goes on to its limit.
LimitInv ==
    state = "generating" /\ Len(mask) >= ResponseLength =>
        stream[Len(stream)] = "user"

\* Outside of a gather nothing of the tool calls is left to run.
CallsInv ==
    state \notin {"processing_tools", "raised"} =>
        \A i \in DOMAIN calls : calls[i] \in {"answered", "rejected"}

IInv == /\ TypeOK /\ StreamInv /\ AnsweredInv /\ LimitInv
        /\ CallsInv /\ InstancesLiveWithCalls /\ RowIsTrajectory

-----------------------------------------------------------------------------
\* A block of n equal tokens is a sequence of length n.
LEMMA CopiesSeq ==
    ASSUME NEW S, NEW x \in S, NEW n \in Nat
    PROVE  /\ Copies(n, x) \in Seq(S)
           /\ Len(Copies(n, x)) = n
           /\ \A i \in 1..n : Copies(n, x)[i] = x
  BY DEF Copies

\* t is s with n elements x of S behind it.
Extended(t, s, n, x, S) ==
    /\ t \in Seq(S) /\ Len(t) = Len(s) + n
    /\ \A i \in 1..Len(s) : t[i] = s[i]
    /\ \A i \in Len(s) + 1..Len(s) + n : t[i] = x

LEMMA AppendExtends ==
    ASSUME NEW S, NEW s \in Seq(S), NEW x \in S, NEW n \in Nat
    PROVE  Extended(s \o Copies(n, x), s, n, x, S)
  <1> DEFINE c == Copies(n, x)
  <1>1. c \in Seq(S) /\ Len(c) = n /\ \A i \in 1..n : c[i] = x
    BY CopiesSeq
  <1> HIDE DEF c
  <1>2. /\ s \o c \in Seq(S) /\ Len(s \o c) = Len(s) + n
        /\ \A i \in 1..Len(s) + n :
            (s \o c)[i] = IF i <= Len(s) THEN s[i] ELSE c[i - Len(s)]
    BY <1>1, ConcatProperties
  <1>3. Extended(s \o c, s, n, x, S)
    BY <1>1, <1>2 DEF Extended
  <1> QED BY <1>3 DEF c

\* A slice [:n] keeps the first elements.
LEMMA FirstNSeq ==
    ASSUME NEW S, NEW s \in Seq(S), NEW n \in Nat
    PROVE  /\ FirstN(s, n) \in Seq(S)
           /\ Len(FirstN(s, n)) = Lesser(n, Len(s))
           /\ \A i \in 1..Lesser(n, Len(s)) : FirstN(s, n)[i] = s[i]
  BY DEF FirstN, Lesser

\* Padding on the right fills up with x.
LEMMA PadRightExtends ==
    ASSUME NEW S, NEW s \in Seq(S), NEW x \in S, NEW n \in Nat
    PROVE  Extended(PadRight(s, n, x), s, IF Len(s) < n THEN n - Len(s) ELSE 0, x, S)
  <1>1. (IF Len(s) < n THEN n - Len(s) ELSE 0) \in Nat OBVIOUS
  <1> QED BY <1>1, AppendExtends DEF PadRight

\* Padding on the left gives a sequence.
LEMMA PadLeftSeq ==
    ASSUME NEW S, NEW s \in Seq(S), "pad" \in S, NEW n \in Nat
    PROVE  PadLeft(s, n) \in Seq(S)
  <1>1. PICK k \in Nat : k = IF Len(s) < n THEN n - Len(s) ELSE 0
    <2>1. (IF Len(s) < n THEN n - Len(s) ELSE 0) \in Nat OBVIOUS
    <2> QED BY <2>1
  <1>2. PadLeft(s, n) = Copies(k, "pad") \o s BY <1>1 DEF PadLeft
  <1>3. Copies(k, "pad") \in Seq(S) BY CopiesSeq
  <1> QED BY <1>2, <1>3, ConcatProperties

-----------------------------------------------------------------------------
Tokens == {"sampled", "zero"}

\* A block of one writer's tokens, appended to stream, mask and, when they are
\* kept, log-probabilities, leaves the three aligned.
LEMMA Appended ==
    ASSUME TypeOK, Aligned, stream # <<>>,
           NEW kind \in Writers, NEW b \in {0, 1}, b = 1 <=> kind = "model",
           NEW p \in Tokens, p = "sampled" <=> b = 1, NEW n \in Nat,
           conf' = conf,
           stream' = stream \o Copies(n, kind),
           mask' = mask \o Copies(n, b),
           logprobs' = IF conf.logprobs THEN logprobs \o Copies(n, p) ELSE logprobs
    PROVE  /\ stream' \in Seq(Kinds) /\ mask' \in Seq({0, 1}) /\ logprobs' \in Seq(Tokens)
           /\ Len(mask') = Len(mask) + n
           /\ Len(logprobs') = IF conf.logprobs THEN Len(mask') ELSE 0
           /\ stream' # <<>> /\ Aligned'
           /\ n > 0 => stream'[Len(stream')] = kind
  <1>1. /\ stream \in Seq(Kinds) /\ mask \in Seq({0, 1}) /\ logprobs \in Seq(Tokens)
        /\ conf.promptLen \in Nat \ {0} /\ conf.logprobs \in BOOLEAN
        /\ Len(logprobs) = IF conf.logprobs THEN Len(mask) ELSE 0
        /\ kind \in Kinds
    BY LoopAssumption DEF TypeOK, Confs, Tokens, Kinds, Writers
  <1>2. Extended(stream', stream, n, kind, Kinds)
    BY <1>1, AppendExtends
  <1>3. Extended(mask', mask, n, b, {0, 1})
    BY <1>1, AppendExtends
  <1>4. Len(stream') = conf'.promptLen + Len(mask')
    BY <1>1, <1>2, <1>3 DEF Aligned, Extended
  <1>5. \A i \in 1..conf'.promptLen : stream'[i] = "prompt"
    BY <1>1, <1>2 DEF Aligned, Extended
  <1>6. ASSUME NEW i \in 1..Len(mask')
        PROVE  /\ stream'[conf'.promptLen + i] \in Writers
               /\ mask'[i] = 1 <=> stream'[conf'.promptLen + i] = "model"
               /\ i <= Len(mask) => mask'[i] = mask[i]
               /\ i > Len(mask) => mask'[i] = b
    <2>1. CASE i <= Len(mask)
      <3>1. mask'[i] = mask[i] BY <2>1, <1>1, <1>3 DEF Extended
      <3>2. conf.promptLen + i \in 1..Len(stream)
        <4>1. Len(stream) = conf.promptLen + Len(mask) BY DEF Aligned
        <4>2. i \in Nat /\ i > 0 /\ Len(mask) \in Nat /\ conf.promptLen \in Nat BY <1>1
        <4> HIDE <1>1
        <4> QED BY <4>1, <4>2, <2>1
      <3>3. stream'[conf.promptLen + i] = stream[conf.promptLen + i]
        BY <3>2, <1>2 DEF Extended
      <3>4. /\ stream[conf.promptLen + i] \in Writers
            /\ mask[i] = 1 <=> stream[conf.promptLen + i] = "model"
        BY <2>1, <1>1 DEF Aligned
      <3>5. ~(i > Len(mask)) BY <2>1, <1>1
      <3> QED BY <3>1, <3>3, <3>4, <3>5
    <2>2. CASE i > Len(mask)
      <3>1. mask'[i] = b BY <2>2, <1>1, <1>3 DEF Extended
      <3>2. conf.promptLen + i \in Len(stream) + 1..Len(stream) + n
        <4>1. Len(mask') = Len(mask) + n BY <1>3 DEF Extended
        <4>2. Len(stream) = conf.promptLen + Len(mask) BY DEF Aligned
        <4>3. i <= Len(mask) + n BY <4>1
        <4>4. i \in Nat /\ Len(mask) \in Nat /\ conf.promptLen \in Nat BY <1>1
        <4> HIDE <1>1
        <4> QED BY <4>2, <4>3, <4>4, <2>2
      <3>3. stream'[conf.promptLen + i] = kind
        BY <3>2, <1>2 DEF Extended
      <3>4. ~(i <= Len(mask)) BY <2>2, <1>1
      <3> QED BY <3>1, <3>3, <3>4
    <2>3. i <= Len(mask) \/ i > Len(mask) BY <1>1
    <2> QED BY <2>1, <2>2, <2>3
  <1>7. /\ logprobs' \in Seq(Tokens)
        /\ Len(logprobs') = IF conf.logprobs THEN Len(mask') ELSE 0
        /\ conf.logprobs => \A i \in 1..Len(mask') : logprobs'[i] = "sampled" <=> mask'[i] = 1
    <2>1. CASE conf.logprobs
      <3>1. Extended(logprobs', logprobs, n, p, Tokens)
        BY <1>1, <2>1, AppendExtends
      <3>2. logprobs' \in Seq(Tokens) /\ Len(logprobs') = Len(mask')
        BY <1>1, <1>3, <2>1, <3>1 DEF Extended
      <3>3. ASSUME NEW i \in 1..Len(mask') PROVE logprobs'[i] = "sampled" <=> mask'[i] = 1
        <4>1. CASE i <= Len(mask)
          <5>1. logprobs'[i] = logprobs[i] BY <1>1, <2>1, <3>1, <4>1 DEF Extended
          <5> QED BY <5>1, <4>1, <2>1, <1>6, <1>1 DEF Aligned
        <4>2. CASE i > Len(mask)
          <5>1. logprobs'[i] = p BY <1>1, <1>3, <2>1, <3>1, <4>2 DEF Extended
          <5> QED BY <5>1, <4>2, <1>6
        <4>3. i <= Len(mask) \/ i > Len(mask) BY <1>1
        <4> QED BY <4>1, <4>2, <4>3
      <3> QED BY <2>1, <3>2, <3>3
    <2>2. CASE ~conf.logprobs
      BY <1>1, <2>2
    <2> QED BY <2>1, <2>2
  <1>8. Aligned'
    BY <1>4, <1>5, <1>6, <1>7 DEF Aligned
  <1>9. /\ stream' \in Seq(Kinds) /\ mask' \in Seq({0, 1})
        /\ Len(mask') = Len(mask) + n /\ Len(stream') = Len(stream) + n
        /\ n > 0 => stream'[Len(stream')] = kind
    <2>1. stream' \in Seq(Kinds) /\ Len(stream') = Len(stream) + n
      BY <1>2 DEF Extended
    <2>2. mask' \in Seq({0, 1}) /\ Len(mask') = Len(mask) + n
      BY <1>3 DEF Extended
    <2>3. n > 0 => Len(stream) + n \in Len(stream) + 1..Len(stream) + n
      BY <1>1
    <2>4. n > 0 => stream'[Len(stream) + n] = kind
      BY <2>3, <1>2 DEF Extended
    <2> QED BY <2>1, <2>2, <2>4
  <1>10. stream' # <<>>
    BY <1>1, <1>4, <1>9
  <1> QED BY <1>7, <1>8, <1>9, <1>10

-----------------------------------------------------------------------------
LEMMA InitInv == ASSUME Init PROVE IInv
  <1>1. TypeOK
    <2>1. row.prompt = <<>> /\ row.response = <<>> /\ row.mask = <<>> /\ row.logprobs = <<>>
      BY DEF Init, NoRow
    <2>2. conf \in Confs /\ conf.logprobs \in BOOLEAN /\ MaxParallelCalls \in Nat
      BY LoopAssumption DEF Init, Confs
    <2>3. /\ stream \in Seq(Kinds) /\ mask \in Seq({0, 1}) /\ logprobs \in Seq({"sampled", "zero"})
          /\ calls \in Seq(CallStates) /\ stream = <<>>
          /\ Len(stream) = 0 /\ Len(mask) = 0 /\ Len(logprobs) = 0 /\ Len(calls) = 0
      BY DEF Init
    <2>4. /\ row.mask \in Seq({0, 1}) /\ row.logprobs \in Seq({"sampled", "zero"})
          /\ {row.prompt, row.response} \subseteq Seq(Kinds \cup {"pad"})
      BY <2>1
    <2>5. state \in States /\ session \in BOOLEAN /\ instances = {}
          /\ userTurns = 0 /\ assistantTurns = 0
      BY DEF Init, States
    <2> QED BY <2>2, <2>3, <2>4, <2>5 DEF TypeOK
  <1>2. InstancesLiveWithCalls
    BY DEF Init, InstancesLiveWithCalls
  <1> QED BY <1>1, <1>2 DEF Init, IInv, StreamInv, AnsweredInv, LimitInv, CallsInv, RowIsTrajectory

\* The steps that neither touch the stream nor return: the interaction's
\* session, and everything that raises.
Raising == Refused \/ EmptyAnswer \/ GatherRaises \/ MediaRaises \/ InteractionRaises

LEMMA RaisingNext == ASSUME IInv, Raising PROVE IInv'
  <1>1. /\ state' = "raised" /\ UNCHANGED <<tokens, turns, calls, instances, session, row>>
        /\ state \notin {"start", "pending", "returned"}
    BY DEF Raising, Refused, EmptyAnswer, GatherRaises, MediaRaises, InteractionRaises
  <1>2. TypeOK'
    BY <1>1 DEF IInv, TypeOK, tokens, turns, States
  <1>3. StreamInv'
    BY <1>1 DEF IInv, StreamInv, Aligned, tokens
  <1>4. InstancesLiveWithCalls'
    BY <1>1 DEF IInv, InstancesLiveWithCalls, turns, Instance
  <1> QED BY <1>1, <1>2, <1>3, <1>4 DEF IInv, AnsweredInv, LimitInv, CallsInv, RowIsTrajectory

LEMMA StartNext == ASSUME IInv, Start PROVE IInv'
  <1>1. /\ state = "start" /\ state' \in {"pending", "raised"} /\ session' \in BOOLEAN
        /\ UNCHANGED <<tokens, turns, calls, instances, row>>
    BY DEF Start, IInv, TypeOK, Confs
  <1>2. TypeOK'
    BY <1>1 DEF IInv, TypeOK, tokens, turns, States
  <1>3. StreamInv'
    BY <1>1 DEF IInv, StreamInv, Aligned, tokens
  <1>4. InstancesLiveWithCalls' /\ CallsInv'
    BY <1>1 DEF IInv, InstancesLiveWithCalls, CallsInv, turns, Instance
  <1> QED BY <1>1, <1>2, <1>3, <1>4 DEF IInv, AnsweredInv, LimitInv, RowIsTrajectory

LEMMA HandlePendingNext == ASSUME IInv, HandlePending PROVE IInv'
  <1>1. conf.promptLen \in Nat \ {0} /\ "prompt" \in Kinds /\ stream = <<>> /\ mask = <<>>
    BY LoopAssumption DEF IInv, TypeOK, Confs, StreamInv, HandlePending, Kinds
  <1>2. /\ stream' \in Seq(Kinds) /\ Len(stream') = conf.promptLen
        /\ \A i \in 1..conf.promptLen : stream'[i] = "prompt"
    <2>1. stream' = Copies(conf.promptLen, "prompt") /\ conf.promptLen \in Nat
      BY <1>1 DEF HandlePending
    <2> DEFINE c == Copies(conf.promptLen, "prompt")
    <2>2. c \in Seq(Kinds) /\ Len(c) = conf.promptLen
          /\ \A i \in 1..conf.promptLen : c[i] = "prompt"
      BY <1>1, <2>1, CopiesSeq
    <2> QED BY <2>1, <2>2
  <1>3. stream' # <<>> BY <1>1, <1>2
  <1>4. /\ state = "pending" /\ state' = "generating"
        /\ UNCHANGED <<conf, mask, logprobs, turns, calls, instances, session, row>>
    BY DEF HandlePending
  <1>5. TypeOK'
    BY <1>1, <1>2, <1>3, <1>4 DEF IInv, TypeOK, turns, States
  <1>6. StreamInv'
    BY <1>1, <1>2, <1>3, <1>4 DEF StreamInv, Aligned
  <1>7. LimitInv' /\ AnsweredInv'
    BY <1>1, <1>4, LoopAssumption DEF LimitInv, AnsweredInv
  <1>8. InstancesLiveWithCalls' /\ CallsInv'
    BY <1>4 DEF IInv, InstancesLiveWithCalls, CallsInv, turns, Instance
  <1> QED BY <1>4, <1>5, <1>6, <1>7, <1>8 DEF IInv, RowIsTrajectory

\* A model's answer, with or without tool calls.
LEMMA GeneratedNext == ASSUME IInv, Generated PROVE IInv'
  <1>1. PICK n \in AnswerLens :
          /\ ~(conf.logprobs /\ n = 0)
          /\ stream' = stream \o Copies(n, "model")
          /\ mask' = mask \o Copies(n, 1)
          /\ logprobs' = IF conf.logprobs THEN logprobs \o Copies(n, "sampled") ELSE logprobs
          /\ assistantTurns' = assistantTurns + 1
          /\ \E k \in ToolCalls(n) :
                /\ state' = AfterAnswer(mask', assistantTurns', k)
                /\ calls' = IF state' = "processing_tools"
                            THEN Copies(Lesser(k, MaxParallelCalls), "started") ELSE <<>>
    BY DEF Generated
  <1>2. PICK k \in ToolCalls(n) :
          /\ state' = AfterAnswer(mask', assistantTurns', k)
          /\ calls' = IF state' = "processing_tools"
                      THEN Copies(Lesser(k, MaxParallelCalls), "started") ELSE <<>>
    BY <1>1
  <1>3. /\ state = "generating" /\ conf' = conf
        /\ UNCHANGED <<userTurns, instances, session, row>>
    BY DEF Generated
  <1>4. n \in Nat /\ k \in Nat
    <2>1. stream \in Seq(Kinds) /\ MaxModelLen \in Nat /\ ResponseLength \in Nat /\ MaxCalls \in Nat
      BY LoopAssumption DEF IInv, TypeOK
    <2>2. Budget \in Int BY <2>1 DEF Budget, Lesser
    <2>3. n \in Nat BY <2>2 DEF AnswerLens
    <2> QED BY <2>1, <2>3 DEF ToolCalls, Lesser
  <1>5. Aligned /\ stream # <<>>
    BY <1>3 DEF IInv, StreamInv
  <1>6. /\ stream' \in Seq(Kinds) /\ mask' \in Seq({0, 1}) /\ logprobs' \in Seq(Tokens)
        /\ Len(mask') = Len(mask) + n
        /\ Len(logprobs') = IF conf.logprobs THEN Len(mask') ELSE 0
        /\ stream' # <<>> /\ Aligned'
    <2>1. "model" \in Writers /\ 1 \in {0, 1} /\ "sampled" \in Tokens
      BY DEF Writers, Tokens
    <2> QED BY <1>1, <1>3, <1>4, <1>5, <2>1, Appended DEF IInv
  <1>7. /\ state' \in {"terminated", "processing_tools", "interacting"}
        /\ calls' \in Seq(CallStates) /\ Len(calls') <= MaxParallelCalls
        /\ \A i \in DOMAIN calls' : calls'[i] = "started"
        /\ state' # "processing_tools" => calls' = <<>>
    <2>1. state' \in {"terminated", "processing_tools", "interacting"}
      BY <1>2 DEF AfterAnswer
    <2>2. MaxParallelCalls \in Nat BY LoopAssumption
    <2>3. Lesser(k, MaxParallelCalls) \in Nat /\ Lesser(k, MaxParallelCalls) <= MaxParallelCalls
      BY <1>4, <2>2 DEF Lesser
    <2> DEFINE c == Copies(Lesser(k, MaxParallelCalls), "started")
    <2>4. "started" \in CallStates BY DEF CallStates
    <2>5. /\ c \in Seq(CallStates) /\ Len(c) <= MaxParallelCalls
          /\ \A i \in 1..Len(c) : c[i] = "started"
      BY <2>3, <2>4, CopiesSeq
    <2> HIDE DEF c
    <2>6. CASE state' = "processing_tools"
      <3>1. calls' = c BY <1>2, <2>6 DEF c
      <3> QED BY <2>1, <2>5, <2>6, <3>1
    <2>7. CASE state' # "processing_tools"
      <3>1. calls' = <<>> BY <1>2, <2>7
      <3> QED BY <2>1, <2>2, <2>7, <3>1
    <2> QED BY <2>6, <2>7
  <1>8. TypeOK'
    <2>1. Len(stream') = Len(mask') + conf'.promptLen
      <3>1. Len(stream') = conf'.promptLen + Len(mask') BY <1>6 DEF Aligned
      <3>2. Len(mask') \in Nat BY <1>6
      <3>3. conf'.promptLen \in Nat BY <1>3, LoopAssumption DEF IInv, TypeOK, Confs
      <3> HIDE <1>6
      <3> QED BY <3>1, <3>2, <3>3
    <2>2. userTurns' \in Nat /\ assistantTurns' \in Nat
      BY <1>1, <1>3 DEF IInv, TypeOK
    <2>3. state' \in States BY <1>7 DEF States
    <2> QED BY <1>3, <1>6, <1>7, <2>1, <2>2, <2>3 DEF IInv, TypeOK, Tokens
  <1>9. StreamInv'
    BY <1>6, <1>7 DEF StreamInv
  <1>10. AnsweredInv'
    <2>1. conf.logprobs => n > 0 BY <1>1, <1>4
    <2>2. Len(mask) \in Nat BY DEF IInv, TypeOK
    <2>3. conf.logprobs => Len(mask') > 0 BY <2>1, <2>2, <1>4, <1>6
    <2> QED BY <2>3, <1>3 DEF AnsweredInv
  <1>11. LimitInv' /\ CallsInv'
    BY <1>7 DEF LimitInv, CallsInv
  <1>12. InstancesLiveWithCalls'
    <2>1. instances' = {} BY <1>3 DEF IInv, InstancesLiveWithCalls
    <2>2. {j \in DOMAIN calls' : calls'[j] \in Holding} = {}
      BY <1>7 DEF Holding
    <2> QED BY <2>1, <2>2 DEF InstancesLiveWithCalls
  <1>13. RowIsTrajectory'
    BY <1>7 DEF RowIsTrajectory
  <1> QED BY <1>8, <1>9, <1>10, <1>11, <1>12, <1>13 DEF IInv

-----------------------------------------------------------------------------
\* One call of the gather, which may outlive the row's failure.
LEMMA CallStepNext == ASSUME IInv, NEW i \in DOMAIN calls, CallStep(i) PROVE IInv'
  <1>1. UNCHANGED <<state, tokens, turns, session, row>>
    BY DEF CallStep
  <1>2. calls[i] \notin {"answered", "rejected"}
    BY DEF CallStep, CallRejected, Created, Executed, Released, ReleaseRaises
  <1>3. state \in {"processing_tools", "raised"}
    BY <1>2 DEF IInv, CallsInv
  <1>4. PICK s \in CallStates :
          /\ calls' = [calls EXCEPT ![i] = s]
          /\ instances' = IF s \in Holding THEN instances \cup {Instance(i)}
                          ELSE instances \ {Instance(i)}
    <2>1. /\ i \in Nat /\ calls \in Seq(CallStates)
          /\ instances = {Instance(j) : j \in {m \in DOMAIN calls : calls[m] \in Holding}}
      BY DEF IInv, TypeOK, InstancesLiveWithCalls
    <2>2. CASE CallRejected(i)
      <3>1. "rejected" \in CallStates /\ "rejected" \notin Holding /\ calls[i] \notin Holding
        BY <2>2 DEF CallStates, Settled, Holding, CallRejected
      <3>2. Instance(i) \notin instances
        BY <2>1, <3>1 DEF Instance
      <3> QED BY <3>1, <3>2, <2>2 DEF CallRejected, Becomes
    <2>3. CASE Created(i)
      <3>1. "holding" \in CallStates /\ "holding" \in Holding
        BY DEF CallStates, Holding
      <3> QED BY <3>1, <2>3 DEF Created, Becomes
    <2>4. CASE Executed(i)
      <3>1. {"returning", "failing"} \subseteq CallStates \cap Holding /\ calls[i] \in Holding
        BY <2>4 DEF CallStates, Holding, Executed
      <3>2. instances = instances \cup {Instance(i)}
        BY <2>1, <3>1
      <3> QED BY <3>1, <3>2, <2>4 DEF Executed, Becomes
    <2>5. CASE Released(i)
      <3>1. /\ {"answered", "rejected"} \subseteq CallStates
            /\ "answered" \notin Holding /\ "rejected" \notin Holding
        BY DEF CallStates, Settled, Holding
      <3> QED BY <3>1, <2>5 DEF Released, Becomes
    <2>6. CASE ReleaseRaises(i)
      <3>1. "raised" \in CallStates \cap Holding /\ calls[i] \in Holding
        BY <2>6 DEF CallStates, Settled, Holding, ReleaseRaises
      <3>2. instances = instances \cup {Instance(i)}
        BY <2>1, <3>1
      <3> QED BY <3>1, <3>2, <2>6 DEF ReleaseRaises, Becomes
    <2> QED BY <2>2, <2>3, <2>4, <2>5, <2>6 DEF CallStep
  <1>5. /\ calls \in Seq(CallStates) /\ Len(calls) <= MaxParallelCalls
        /\ assistantTurns \in Nat /\ i \in Nat /\ instances \subseteq Nat \X Nat
    BY DEF IInv, TypeOK
  <1>6. /\ calls' \in Seq(CallStates) /\ Len(calls') = Len(calls)
        /\ DOMAIN calls' = DOMAIN calls
        /\ \A j \in DOMAIN calls : calls'[j] = IF j = i THEN s ELSE calls[j]
    BY <1>4, <1>5
  <1>7. TypeOK'
    <2>1. instances' \subseteq Nat \X Nat
      BY <1>4, <1>5 DEF Instance
    <2> QED BY <1>1, <1>5, <1>6, <2>1 DEF IInv, TypeOK, tokens, turns
  <1>8. InstancesLiveWithCalls'
    <2>1. instances = {Instance(j) : j \in {m \in DOMAIN calls : calls[m] \in Holding}}
      BY DEF IInv, InstancesLiveWithCalls
    <2>2. \A j, m \in DOMAIN calls : Instance(j) = Instance(m) => j = m
      BY DEF Instance
    <2>3. instances' = {Instance(j) : j \in {m \in DOMAIN calls : calls'[m] \in Holding}}
      BY <1>4, <1>6, <2>1, <2>2
    <2>4. \A j : Instance(j)' = Instance(j)
      BY <1>1 DEF Instance, turns
    <2>5. {Instance(j) : j \in {m \in DOMAIN calls : calls'[m] \in Holding}}
            = {Instance(j)' : j \in {m \in DOMAIN calls' : calls'[m] \in Holding}}
      BY <1>6, <2>4
    <2> QED BY <1>1, <1>3, <2>3, <2>5 DEF InstancesLiveWithCalls
  <1>9. StreamInv' /\ AnsweredInv' /\ LimitInv' /\ RowIsTrajectory'
    BY <1>1, <1>3 DEF IInv, StreamInv, AnsweredInv, LimitInv, RowIsTrajectory, Aligned, tokens
  <1>10. CallsInv'
    BY <1>1, <1>3 DEF CallsInv
  <1> QED BY <1>7, <1>8, <1>9, <1>10 DEF IInv

\* A reply that the model did not write, appended.
LEMMA Replied ==
    ASSUME IInv, state \in {"processing_tools", "interacting"},
           NEW kind \in {"tool", "user"}, NEW n \in ReplyLens, Append0(kind, n),
           UNCHANGED conf
    PROVE  /\ stream' \in Seq(Kinds) /\ mask' \in Seq({0, 1}) /\ logprobs' \in Seq(Tokens)
           /\ Len(mask') = Len(mask) + n
           /\ Len(stream') = Len(mask') + conf'.promptLen
           /\ Len(logprobs') = IF conf.logprobs THEN Len(mask') ELSE 0
           /\ stream' # <<>> /\ Aligned'
           /\ stream'[Len(stream')] = kind
  <1>1. Aligned /\ stream # <<>> /\ TypeOK
    BY DEF IInv, StreamInv
  <1>2. n \in Nat /\ n > 0
    BY LoopAssumption
  <1>3. logprobs = <<>> <=> ~conf.logprobs
    <2>1. CASE conf.logprobs
      <3>1. mask # <<>> /\ mask \in Seq({0, 1}) /\ Len(logprobs) = Len(mask)
        BY <2>1 DEF IInv, AnsweredInv, TypeOK
      <3>2. Len(mask) # 0
        BY <3>1, EmptySeq
      <3> QED BY <2>1, <3>1, <3>2
    <2>2. CASE ~conf.logprobs
      <3>1. logprobs \in Seq(Tokens) /\ Len(logprobs) = 0
        BY <2>2 DEF IInv, TypeOK, Tokens
      <3> QED BY <2>2, <3>1, EmptySeq
    <2> QED BY <2>1, <2>2
  <1>4. /\ stream' = stream \o Copies(n, kind)
        /\ mask' = mask \o Copies(n, 0)
        /\ logprobs' = IF conf.logprobs THEN logprobs \o Copies(n, "zero") ELSE logprobs
    BY <1>3 DEF Append0
  <1>5. kind \in Writers /\ 0 \in {0, 1} /\ "zero" \in Tokens
        /\ (0 = 1 <=> kind = "model") /\ ("zero" = "sampled" <=> 0 = 1)
    BY DEF Writers, Tokens
  <1>6. /\ stream' \in Seq(Kinds) /\ mask' \in Seq({0, 1}) /\ logprobs' \in Seq(Tokens)
        /\ Len(mask') = Len(mask) + n
        /\ Len(logprobs') = IF conf.logprobs THEN Len(mask') ELSE 0
        /\ stream' # <<>> /\ Aligned'
        /\ n > 0 => stream'[Len(stream')] = kind
    BY <1>1, <1>2, <1>4, <1>5, Appended
  <1>7. Len(stream') = Len(mask') + conf'.promptLen
    <2>1. Len(stream') = conf'.promptLen + Len(mask') BY <1>6 DEF Aligned
    <2>2. Len(mask') \in Nat BY <1>6
    <2>3. conf'.promptLen \in Nat BY LoopAssumption DEF IInv, TypeOK, Confs
    <2> HIDE <1>6
    <2> QED BY <2>1, <2>2, <2>3
  <1> QED BY <1>2, <1>6, <1>7

\* All calls have answered: none holds an instance.
LEMMA AnsweredHoldNone == ASSUME IInv, AllAnswered PROVE instances = {}
  BY DEF IInv, InstancesLiveWithCalls, AllAnswered, Holding

LEMMA ToolsAnsweredNext == ASSUME IInv, ToolsAnswered PROVE IInv'
  <1>1. /\ state = "processing_tools" /\ AllAnswered
        /\ UNCHANGED <<conf, assistantTurns, calls, instances, session, row>>
    BY DEF ToolsAnswered
  <1>2. instances' = {} /\ AllAnswered'
    BY <1>1, AnsweredHoldNone DEF AllAnswered
  <1>3. CallsInv' /\ InstancesLiveWithCalls'
    BY <1>2 DEF CallsInv, AllAnswered, InstancesLiveWithCalls, Holding
  <1>4. PICK n \in ReplyLens :
          IF ReplyFits(n)
          THEN /\ Append0("tool", n)
               /\ userTurns' = userTurns + 1
               /\ state' = "generating"
          ELSE /\ state' = "terminated"
               /\ UNCHANGED <<stream, mask, logprobs, userTurns>>
    BY DEF ToolsAnswered
  <1>5. CASE ReplyFits(n)
    <2>1. /\ stream' \in Seq(Kinds) /\ mask' \in Seq({0, 1}) /\ logprobs' \in Seq(Tokens)
          /\ Len(mask') = Len(mask) + n
          /\ Len(stream') = Len(mask') + conf'.promptLen
          /\ Len(logprobs') = IF conf.logprobs THEN Len(mask') ELSE 0
          /\ stream' # <<>> /\ Aligned'
      BY <1>1, <1>4, <1>5, Replied
    <2>2. TypeOK'
      BY <1>1, <1>4, <1>5, <2>1 DEF IInv, TypeOK, States, Tokens
    <2>3. StreamInv' /\ AnsweredInv' /\ RowIsTrajectory'
      BY <1>4, <1>5, <2>1 DEF StreamInv, AnsweredInv, RowIsTrajectory
    <2>4. LimitInv'
      <3>1. Len(mask) + n < ResponseLength BY <1>5 DEF ReplyFits
      <3>2. Len(mask') < ResponseLength /\ Len(mask') \in Nat /\ ResponseLength \in Nat
        BY <3>1, <2>1, LoopAssumption
      <3> HIDE <2>1
      <3> QED BY <3>2 DEF LimitInv
    <2> QED BY <1>3, <2>2, <2>3, <2>4 DEF IInv
  <1>6. CASE ~ReplyFits(n)
    <2>1. state' = "terminated" /\ UNCHANGED <<stream, mask, logprobs, userTurns>>
      BY <1>4, <1>6
    <2>2. TypeOK'
      BY <1>1, <2>1 DEF IInv, TypeOK, States
    <2>3. StreamInv'
      BY <1>1, <2>1 DEF IInv, StreamInv, Aligned
    <2> QED BY <1>3, <2>1, <2>2, <2>3 DEF IInv, AnsweredInv, LimitInv, RowIsTrajectory
  <1> QED BY <1>5, <1>6

LEMMA HandleInteractingNext == ASSUME IInv, HandleInteracting PROVE IInv'
  <1>1. /\ state = "interacting" /\ state' \in {"terminated", "generating"}
        /\ UNCHANGED <<conf, assistantTurns, calls, instances, session, row>>
        /\ userTurns' = userTurns + 1
    BY DEF HandleInteracting
  <1>2. PICK n \in ReplyLens : Append0("user", n)
    BY DEF HandleInteracting
  <1>3. /\ stream' \in Seq(Kinds) /\ mask' \in Seq({0, 1}) /\ logprobs' \in Seq(Tokens)
        /\ Len(stream') = Len(mask') + conf'.promptLen
        /\ Len(logprobs') = IF conf.logprobs THEN Len(mask') ELSE 0
        /\ stream' # <<>> /\ Aligned'
        /\ stream'[Len(stream')] = "user"
    BY <1>1, <1>2, Replied
  <1>4. TypeOK'
    BY <1>1, <1>3 DEF IInv, TypeOK, States, Tokens
  <1>5. StreamInv' /\ LimitInv' /\ AnsweredInv' /\ RowIsTrajectory'
    BY <1>1, <1>3 DEF StreamInv, LimitInv, AnsweredInv, RowIsTrajectory
  <1>6. CallsInv' /\ InstancesLiveWithCalls'
    BY <1>1 DEF IInv, CallsInv, InstancesLiveWithCalls, Instance
  <1> QED BY <1>4, <1>5, <1>6 DEF IInv

-----------------------------------------------------------------------------
\* A slice [:n], padded on the right to n elements.
PaddedSlice(r, s, n, x, S) ==
    /\ r \in Seq(S) /\ Len(r) = n
    /\ \A i \in 1..n : r[i] = IF i <= Lesser(n, Len(s)) THEN s[i] ELSE x

LEMMA SlicePadded ==
    ASSUME NEW S, NEW s \in Seq(S), NEW x \in S, NEW n \in Nat
    PROVE  PaddedSlice(PadRight(FirstN(s, n), n, x), s, n, x, S)
  <1> DEFINE f == FirstN(s, n)
             k == IF Len(f) < n THEN n - Len(f) ELSE 0
             r == PadRight(f, n, x)
  <1>1. /\ f \in Seq(S) /\ Len(f) = Lesser(n, Len(s))
        /\ \A i \in 1..Lesser(n, Len(s)) : f[i] = s[i]
    BY FirstNSeq
  <1> HIDE DEF f
  <1>2. Extended(r, f, k, x, S)
    BY <1>1, PadRightExtends
  <1> HIDE DEF r
  <1>3. Len(f) \in Nat /\ Len(f) <= n
    <2>1. Len(s) \in Nat /\ Len(f) = Lesser(n, Len(s)) BY <1>1
    <2> HIDE <1>1
    <2> QED BY <2>1 DEF Lesser
  <1>4. k \in Nat /\ Len(f) + k = n
    <2>1. PICK l \in Nat : l = Len(f) BY <1>3
    <2>2. l <= n BY <2>1, <1>3
    <2>3. k = IF l < n THEN n - l ELSE 0 BY <2>1
    <2> HIDE <1>1, <1>2, <1>3 DEF k
    <2>4. k = n - l BY <2>2, <2>3
    <2> QED BY <2>1, <2>2, <2>4
  <1> HIDE DEF k
  <1>5. /\ r \in Seq(S) /\ Len(r) = n
        /\ \A i \in 1..Len(f) : r[i] = f[i]
        /\ \A i \in Len(f) + 1..n : r[i] = x
    BY <1>2, <1>4 DEF Extended
  <1>6. ASSUME NEW i \in 1..n
        PROVE  r[i] = IF i <= Lesser(n, Len(s)) THEN s[i] ELSE x
    <2>1. CASE i <= Len(f)
      <3>1. i \in 1..Len(f) BY <2>1, <1>3
      <3> QED BY <3>1, <2>1, <1>1, <1>5
    <2>2. CASE i > Len(f)
      <3>1. i \in Len(f) + 1..n BY <2>2, <1>3
      <3>2. ~(i <= Lesser(n, Len(s))) BY <2>2, <1>1, <1>3
      <3> QED BY <3>1, <3>2, <1>5
    <2>3. i <= Len(f) \/ i > Len(f) BY <1>3
    <2> QED BY <2>1, <2>2, <2>3
  <1>7. PaddedSlice(r, s, n, x, S)
    BY <1>5, <1>6 DEF PaddedSlice
  <1> QED BY <1>7 DEF f, r

\* A slice of k # 0 elements from the middle of a sequence.
LEMMA SliceSeq ==
    ASSUME NEW S, NEW s \in Seq(S), NEW p \in Nat, NEW k \in Nat \ {0}, p + k <= Len(s)
    PROVE  /\ SubSeq(s, p + 1, p + k) \in Seq(S) /\ Len(SubSeq(s, p + 1, p + k)) = k
           /\ \A i \in 1..k : SubSeq(s, p + 1, p + k)[i] = s[p + i]
  <1>1. \A i \in p + 1..p + k : s[i] \in S
    <2>1. \A i \in p + 1..p + k : i \in 1..Len(s) OBVIOUS
    <2> QED BY <2>1, ElementOfSeq
  <1> DEFINE q == SubSeq(s, p + 1, p + k)
  <1>2. /\ q \in Seq(S)
        /\ Len(q) = IF p + 1 <= p + k THEN p + k - (p + 1) + 1 ELSE 0
        /\ \A i \in 1..p + k - (p + 1) + 1 : q[i] = s[p + 1 + i - 1]
    <2>1. p + 1 \in Int /\ p + k \in Int OBVIOUS
    <2> QED BY <1>1, <2>1, SubSeqProperties
  <1> HIDE DEF q
  <1>3. /\ p + k - (p + 1) + 1 = k /\ p + 1 <= p + k
        /\ \A i \in 1..k : p + 1 + i - 1 = p + i
    OBVIOUS
  <1>4. q \in Seq(S) /\ Len(q) = k /\ \A i \in 1..k : q[i] = s[p + i]
    BY <1>2, <1>3
  <1> QED BY <1>4 DEF q

\* A slice [-m:] with m # 0 keeps the last m elements.
LEMMA LastNSeq ==
    ASSUME NEW S, NEW s \in Seq(S), NEW p \in Nat, NEW m \in Nat \ {0}, Len(s) = p + m
    PROVE  /\ LastN(s, m) \in Seq(S) /\ Len(LastN(s, m)) = m
           /\ \A i \in 1..m : LastN(s, m)[i] = s[p + i]
  <1>1. LastN(s, m) = SubSeq(s, p + 1, p + m)
    <2>1. Len(s) - m + 1 = p + 1 OBVIOUS
    <2> QED BY <2>1 DEF LastN
  <1>2. p + m <= Len(s) OBVIOUS
  <1> QED BY <1>1, <1>2, SliceSeq

\* What run() returns as the response begins right after the prompt.
LEMMA ResponseTail ==
    ASSUME TypeOK, Aligned
    PROVE  /\ LastN(stream, Len(mask)) \in Seq(Kinds)
           /\ mask # <<>> =>
                /\ Len(LastN(stream, Len(mask))) = Len(mask)
                /\ \A i \in 1..Len(mask) :
                      LastN(stream, Len(mask))[i] = stream[conf.promptLen + i]
  <1>1. /\ stream \in Seq(Kinds) /\ Len(mask) \in Nat /\ conf.promptLen \in Nat
        /\ Len(stream) = conf.promptLen + Len(mask)
        /\ mask # <<>> => Len(mask) # 0
    <2>1. stream \in Seq(Kinds) /\ mask \in Seq({0, 1}) BY DEF TypeOK
    <2>2. conf.promptLen \in Nat BY LoopAssumption DEF TypeOK, Confs
    <2>3. mask # <<>> => Len(mask) # 0 BY <2>1, EmptySeq
    <2> QED BY <2>1, <2>2, <2>3 DEF Aligned
  <1>2. CASE Len(mask) = 0
    BY <1>1, <1>2 DEF LastN
  <1>3. CASE Len(mask) # 0
    <2>1. PICK m \in Nat \ {0}, p \in Nat : m = Len(mask) /\ p = conf.promptLen
      BY <1>1, <1>3
    <2>2. Len(stream) = p + m BY <1>1, <2>1
    <2>3. /\ LastN(stream, m) \in Seq(Kinds) /\ Len(LastN(stream, m)) = m
          /\ \A i \in 1..m : LastN(stream, m)[i] = stream[p + i]
      <3>1. stream \in Seq(Kinds) BY <1>1
      <3> HIDE <1>1, <2>1
      <3> QED BY <3>1, <2>2, LastNSeq
    <2> QED BY <2>1, <2>3
  <1> QED BY <1>2, <1>3

\* Finish in terms of the stream: what run() cuts and _run_agent_loop pads.
LEMMA FinishNext == ASSUME IInv, Finish PROVE IInv'
  <1> DEFINE p == conf.promptLen
             R == ResponseLength
             q == LastN(stream, Len(mask))
             m == Len(mask)
             T == Kinds \cup {"pad"}
             response == PadRight(ResponseIds, R, "pad")
             ones == PadRight(FirstN(mask, R), R, 0)
             probs == PadRight(FirstN(logprobs, R), R, "zero")
             prompt == FirstN(stream, Len(stream) - Len(mask))
  <1>1. /\ state = "terminated" /\ state' = "returned" /\ row' = Padded
        /\ UNCHANGED <<tokens, turns, calls, instances, session>>
    BY DEF Finish
  <1>2. TypeOK /\ Aligned /\ stream # <<>>
    BY <1>1 DEF IInv, StreamInv
  <1>3. /\ p \in Nat /\ R \in Nat \ {0} /\ PromptLength \in Nat /\ m \in Nat
        /\ stream \in Seq(Kinds) /\ stream \in Seq(T)
        /\ mask \in Seq({0, 1}) /\ logprobs \in Seq(Tokens)
        /\ Len(stream) = p + m
        /\ Len(logprobs) = IF conf.logprobs THEN m ELSE 0
    <2>1. /\ stream \in Seq(Kinds) /\ mask \in Seq({0, 1}) /\ logprobs \in Seq(Tokens)
          /\ Len(logprobs) = IF conf.logprobs THEN m ELSE 0
      BY <1>2 DEF TypeOK, Tokens
    <2>2. p \in Nat /\ R \in Nat \ {0} /\ PromptLength \in Nat
      BY <1>2, LoopAssumption DEF TypeOK, Confs
    <2>3. stream \in Seq(T) BY <2>1
    <2> QED BY <1>2, <2>1, <2>2, <2>3 DEF Aligned
  <1>4. PaddedSlice(response, q, R, "pad", T)
    <2>1. q \in Seq(Kinds) BY <1>2, ResponseTail
    <2> HIDE DEF q
    <2>2. q \in Seq(T) BY <2>1
    <2>3. PaddedSlice(PadRight(FirstN(q, R), R, "pad"), q, R, "pad", T)
      BY <1>3, <2>2, SlicePadded
    <2> QED BY <2>3 DEF ResponseIds, q
  <1>5. PaddedSlice(ones, mask, R, 0, {0, 1})
    BY <1>3, SlicePadded
  <1>6. PaddedSlice(probs, logprobs, R, "zero", Tokens)
    <2>1. "zero" \in Tokens BY DEF Tokens
    <2> QED BY <1>3, <2>1, SlicePadded
  <1>7. prompt = Copies(p, "prompt")
    <2>1. Len(stream) - Len(mask) = p /\ Lesser(p, Len(stream)) = p
      BY <1>3 DEF Lesser
    <2>2. /\ FirstN(stream, p) \in Seq(Kinds) /\ Len(FirstN(stream, p)) = p
          /\ \A i \in 1..p : FirstN(stream, p)[i] = stream[i]
      BY <1>3, <2>1, FirstNSeq
    <2>3. "prompt" \in Kinds BY DEF Kinds
    <2> DEFINE c == Copies(p, "prompt")
               f == FirstN(stream, p)
    <2>4. c \in Seq(Kinds) /\ Len(c) = p /\ \A i \in 1..p : c[i] = "prompt"
      BY <1>3, <2>3, CopiesSeq
    <2> HIDE DEF c, f
    <2>5. f \in Seq(Kinds) /\ Len(f) = Len(c) /\ \A i \in 1..Len(f) : f[i] = c[i]
      <3>1. f \in Seq(Kinds) /\ Len(f) = p /\ \A i \in 1..p : f[i] = stream[i]
        BY <2>2 DEF f
      <3>2. \A i \in 1..p : stream[i] = "prompt" BY <1>2 DEF Aligned
      <3> QED BY <3>1, <3>2, <2>4
    <2>6. f = c BY <2>4, <2>5, SeqEqual
    <2> QED BY <2>1, <2>6 DEF f, c
  <1>8. /\ row'.prompt = PadLeft(Copies(p, "prompt"), PromptLength)
        /\ row'.response = response
        /\ row'.mask = [i \in 1..R |-> IF response[i] = "pad" THEN 0 ELSE ones[i]]
        /\ row'.logprobs = IF logprobs = <<>> THEN <<>> ELSE probs
    BY <1>1, <1>7 DEF Padded
  <1> HIDE DEF response, ones, probs, prompt
  <1>9. TypeOK'
    <2>1. row'.mask \in Seq({0, 1})
      BY <1>3, <1>5, <1>8 DEF PaddedSlice
    <2>2. row'.logprobs \in Seq({"sampled", "zero"})
      BY <1>6, <1>8 DEF PaddedSlice, Tokens
    <2>3. row'.response \in Seq(T)
      BY <1>4, <1>8 DEF PaddedSlice
    <2>4. row'.prompt \in Seq(T)
      <3>1. "prompt" \in T /\ "pad" \in T BY DEF Kinds
      <3>2. Copies(p, "prompt") \in Seq(T) BY <1>3, <3>1, CopiesSeq
      <3>3. PadLeft(Copies(p, "prompt"), PromptLength) \in Seq(T)
        BY <1>3, <3>1, <3>2, PadLeftSeq
      <3> QED BY <1>8, <3>3
    <2> QED BY <1>1, <1>2, <2>1, <2>2, <2>3, <2>4 DEF TypeOK, tokens, turns, States
  <1>10. /\ StreamInv' /\ AnsweredInv' /\ LimitInv' /\ CallsInv'
    BY <1>1 DEF IInv, StreamInv, AnsweredInv, LimitInv, CallsInv, Aligned, tokens
  <1>11. InstancesLiveWithCalls'
    BY <1>1 DEF IInv, InstancesLiveWithCalls, Instance, turns
  <1>12. RowIsTrajectory'
    <2>0. SUFFICES ASSUME mask # <<>>
                   PROVE  RowIsTrajectory'
      BY <1>1 DEF RowIsTrajectory, tokens
    <2> DEFINE k == Lesser(m, R)
    <2>1. /\ q \in Seq(Kinds) /\ Len(q) = m
          /\ \A i \in 1..m : q[i] = stream[p + i]
      BY <2>0, <1>2, ResponseTail
    <2>2. m # 0
      BY <2>0, <1>3, EmptySeq
    <2>3. /\ k \in Nat \ {0} /\ k <= m /\ k <= R /\ k = Lesser(R, m)
      <3> HIDE DEF q, m, p
      <3> QED BY <1>3, <2>2 DEF Lesser
    <2> HIDE DEF q, k
    <2>4. ResponseIds = SubSeq(stream, p + 1, p + k)
      <3> DEFINE f == FirstN(q, R)
                 t == SubSeq(stream, p + 1, p + k)
      <3>1. f \in Seq(Kinds) /\ Len(f) = k /\ \A i \in 1..k : f[i] = q[i]
        <4>1. q \in Seq(Kinds) /\ R \in Nat /\ Lesser(R, Len(q)) = k BY <1>3, <2>1, <2>3
        <4> HIDE <1>3, <2>1, <2>3 DEF f
        <4>2. /\ FirstN(q, R) \in Seq(Kinds) /\ Len(FirstN(q, R)) = Lesser(R, Len(q))
              /\ \A i \in 1..Lesser(R, Len(q)) : FirstN(q, R)[i] = q[i]
          BY <4>1, FirstNSeq
        <4> QED BY <4>1, <4>2 DEF f
      <3>2. t \in Seq(Kinds) /\ Len(t) = k /\ \A i \in 1..k : t[i] = stream[p + i]
        <4>1. p + k <= Len(stream) BY <1>3, <2>3
        <4>2. stream \in Seq(Kinds) /\ p \in Nat /\ k \in Nat \ {0} BY <1>3, <2>3
        <4> HIDE <1>3, <2>3 DEF p
        <4> QED BY <4>1, <4>2, SliceSeq
      <3>3. \A i \in 1..k : i \in 1..m BY <1>3, <2>3
      <3> HIDE DEF f, t
      <3>4. \A i \in 1..Len(f) : f[i] = t[i]
        BY <2>1, <3>1, <3>2, <3>3
      <3>5. f = t BY <3>1, <3>2, <3>4, SeqEqual
      <3> QED BY <3>5 DEF f, t, ResponseIds, q
    <2>5. row'.response = PadRight(SubSeq(stream, p + 1, p + k), R, "pad")
      BY <1>8, <2>4 DEF response
    <2>6. DOMAIN row'.mask = 1..R /\ Len(row'.mask) = R
      BY <1>8, <1>3
    <2>7. conf.logprobs => row'.logprobs = probs /\ Len(probs) = R
      <3>1. conf.logprobs => logprobs # <<>> BY <1>3, <2>2
      <3> QED BY <3>1, <1>6, <1>8 DEF PaddedSlice
    <2>8. ASSUME NEW i \in 1..R
          PROVE  /\ (row'.mask[i] = 1) <=> (row'.response[i] = "model")
                 /\ conf.logprobs => (probs[i] = "sampled" <=> row'.mask[i] = 1)
      <3>1. row'.mask[i] = IF response[i] = "pad" THEN 0 ELSE ones[i]
        BY <1>8
      <3>2. CASE i <= k
        <4>1. i \in 1..m BY <3>2, <2>3, <1>3
        <4>2. response[i] = stream[p + i]
          BY <3>2, <4>1, <1>4, <2>1, <2>3 DEF PaddedSlice
        <4>3. ones[i] = mask[i]
          BY <3>2, <1>5, <2>3 DEF PaddedSlice
        <4>4. conf.logprobs => probs[i] = logprobs[i]
          BY <3>2, <1>3, <1>6, <2>3 DEF PaddedSlice
        <4>5. /\ stream[p + i] \in Writers
              /\ mask[i] = 1 <=> stream[p + i] = "model"
              /\ conf.logprobs => (logprobs[i] = "sampled" <=> mask[i] = 1)
          BY <4>1, <1>2 DEF Aligned
        <4>6. response[i] # "pad" BY <4>2, <4>5 DEF Writers
        <4> QED BY <3>1, <4>2, <4>3, <4>4, <4>5, <4>6, <1>8
      <3>3. CASE ~(i <= k)
        <4>1. response[i] = "pad"
          BY <3>3, <1>4, <2>1, <2>3 DEF PaddedSlice
        <4>2. conf.logprobs => probs[i] = "zero"
          BY <3>3, <1>3, <1>6, <2>3 DEF PaddedSlice
        <4> QED BY <3>1, <4>1, <4>2, <1>8
      <3> QED BY <3>2, <3>3
    <2>9. /\ row'.prompt = PadLeft(Copies(conf'.promptLen, "prompt"), PromptLength)
          /\ row'.response = PadRight(SubSeq(stream', conf'.promptLen + 1,
                                      conf'.promptLen + Lesser(Len(mask'), ResponseLength)),
                                      ResponseLength, "pad")
          /\ Len(row'.mask) = ResponseLength
      BY <1>1, <1>8, <2>5, <2>6 DEF tokens, k
    <2>10. \A i \in 1..ResponseLength :
             (row'.mask[i] = 1) <=> (row'.response[i] = "model")
      BY <2>8
    <2>11. conf'.logprobs => /\ Len(row'.logprobs) = ResponseLength
                             /\ \A i \in 1..ResponseLength :
                                  (row'.logprobs[i] = "sampled") <=> (row'.mask[i] = 1)
      BY <1>1, <2>7, <2>8 DEF tokens
    <2> QED BY <2>9, <2>10, <2>11 DEF RowIsTrajectory
  <1> QED BY <1>9, <1>10, <1>11, <1>12 DEF IInv

-----------------------------------------------------------------------------
LEMMA Inductive == ASSUME IInv, [Next]_vars PROVE IInv'
  <1>1. CASE RowStep
    BY <1>1, StartNext, HandlePendingNext, RaisingNext, GeneratedNext, ToolsAnsweredNext,
       HandleInteractingNext, FinishNext DEF RowStep, Raising
  <1>2. CASE \E i \in DOMAIN calls : CallStep(i)
    BY <1>2, CallStepNext
  <1>3. CASE UNCHANGED vars
    BY <1>3 DEF IInv, vars, TypeOK, StreamInv, Aligned, AnsweredInv, LimitInv, CallsInv,
                InstancesLiveWithCalls, Instance, RowIsTrajectory, PromptFits
  <1> QED BY <1>1, <1>2, <1>3 DEF Next

\* The inductive invariant holds in every state of run() and its calls.
THEOREM LoopInvariant == Spec => []IInv
  BY InitInv, Inductive, PTL DEF Spec

\* run() keeps its type: the mask stays as long as what follows the prompt and
\* the log-probabilities as long as the mask, over every turn, tool and user.
THEOREM LoopTypeCorrect == Spec => []TypeOK
  <1>1. IInv => TypeOK BY DEF IInv
  <1> QED BY <1>1, LoopInvariant, PTL

\* The row _run_agent_loop pads is the trajectory run() went through, for all
\* lengths, limits and replies, and however the tool calls interleaved.
THEOREM RowHoldsTrajectory == Spec => []RowIsTrajectory
  <1>1. IInv => RowIsTrajectory BY DEF IInv
  <1> QED BY <1>1, LoopInvariant, PTL

\* _call_tool's finally clause: whatever the row does, an instance lives no
\* longer than its call, except behind a release that raised.
THEOREM InstancesEndWithCalls == Spec => []InstancesLiveWithCalls
  <1>1. IInv => InstancesLiveWithCalls BY DEF IInv
  <1> QED BY <1>1, LoopInvariant, PTL

\* Only a user's reply makes run() ask the server for a negative number of
\* tokens: the tools' answers are measured against response_length, and
\* max_model_len has room for a whole prompt and response.
THEOREM BudgetOverrunByUsers == Spec => []OnlyUsersOverrun
  <1>1. IInv => OnlyUsersOverrun
    <2>1. SUFFICES ASSUME IInv, state = "generating", Budget < 0, PromptFits
                   PROVE  stream[Len(stream)] = "user"
      BY DEF OnlyUsersOverrun
    <2>2. PICK m, p, R, P, M \in Nat :
            /\ m = Len(mask) /\ p = conf.promptLen /\ R = ResponseLength
            /\ P = PromptLength /\ M = MaxModelLen
      <3>1. Len(mask) \in Nat /\ conf.promptLen \in Nat
        <4>1. Len(mask) \in Nat BY <2>1 DEF IInv, TypeOK
        <4>2. conf.promptLen \in Nat BY <2>1, LoopAssumption DEF IInv, TypeOK, Confs
        <4> QED BY <4>1, <4>2
      <3>2. ResponseLength \in Nat /\ PromptLength \in Nat /\ MaxModelLen \in Nat
        BY LoopAssumption
      <3> HIDE <2>1
      <3> QED BY <3>1, <3>2
    <2>3. Len(stream) = p + m
      BY <2>1, <2>2 DEF IInv, StreamInv, Aligned
    <2>4. Lesser(R, M - (p + m) - 1) < 0 /\ p <= P /\ M >= P + R
      BY <2>1, <2>2, <2>3, LoopAssumption DEF Budget, PromptFits
    <2>5. m >= R
      <3> HIDE <2>1, <2>2
      <3> QED BY <2>4 DEF Lesser
    <2> QED BY <2>1, <2>2, <2>5 DEF IInv, LimitInv
  <1> QED BY <1>1, LoopInvariant, PTL

=============================================================================
