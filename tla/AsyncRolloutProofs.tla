------------------------- MODULE AsyncRolloutProofs -------------------------
(***************************************************************************)
(* Safety of AsyncRollout for every batch, every set of tools and every    *)
(* configuration that satisfies its assumptions.                           *)
(***************************************************************************)
EXTENDS AsyncRollout, SequenceTheorems, FiniteSetTheorems,
        WellFoundedInduction, TLAPS

-----------------------------------------------------------------------------
(* What the operators of RolloutRequest preserve: the tokens and the loss  *)
(* mask stay sequences of the same length, the mask marks exactly the      *)
(* model's output, and a stream is the conversation it was built from.     *)

\* loss is the mask of ids that selects the model's output.
Masks(loss, ids) ==
    /\ ids \in Seq(Kinds) /\ loss \in Seq({0, 1})
    /\ Len(loss) = Len(ids)
    /\ \A i \in 1..Len(ids) : loss[i] = 1 <=> ids[i] = "asst"

\* A block of n equal tokens is a sequence of length n.
LEMMA CopiesSeq ==
    ASSUME NEW S, NEW x \in S, NEW n \in Nat
    PROVE  /\ Copies(n, x) \in Seq(S)
           /\ Len(Copies(n, x)) = n
           /\ \A i \in 1..n : Copies(n, x)[i] = x
  BY DEF Copies

\* Cutting a sequence to its first n elements (a slice [:n]) keeps a prefix.
LEMMA FirstNSeq ==
    ASSUME NEW S, NEW s \in Seq(S), NEW n \in Nat
    PROVE  /\ FirstN(s, n) \in Seq(S)
           /\ Len(FirstN(s, n)) = IF n < Len(s) THEN n ELSE Len(s)
           /\ \A i \in 1..Len(FirstN(s, n)) : FirstN(s, n)[i] = s[i]
  BY DEF FirstN

\* Appending a block of one kind keeps the mask right if the block is learned
\* exactly when it is model output (_update_input_ids).
LEMMA MasksAppend ==
    ASSUME NEW ids, NEW loss, Masks(loss, ids),
           NEW kind \in Kinds, NEW n \in Nat, NEW learned \in {0, 1},
           learned = 1 <=> kind = "asst"
    PROVE  Masks(loss \o Copies(n, learned), ids \o Copies(n, kind))
  <1>1. /\ Copies(n, kind) \in Seq(Kinds) /\ Copies(n, learned) \in Seq({0, 1})
        /\ Len(Copies(n, kind)) = n /\ Len(Copies(n, learned)) = n
        /\ \A i \in 1..n : Copies(n, kind)[i] = kind /\ Copies(n, learned)[i] = learned
    BY CopiesSeq
  <1> DEFINE a == Copies(n, kind)
             b == Copies(n, learned)
  <1> HIDE DEF a, b
  <1>2. a \in Seq(Kinds) /\ b \in Seq({0, 1}) /\ Len(a) = n /\ Len(b) = n
    BY <1>1 DEF a, b
  <1>3. /\ ids \o a \in Seq(Kinds) /\ loss \o b \in Seq({0, 1})
        /\ Len(ids \o a) = Len(ids) + n /\ Len(loss \o b) = Len(loss) + n
    <2>1. ids \in Seq(Kinds) /\ loss \in Seq({0, 1})
      BY DEF Masks
    <2>2. ids \o a \in Seq(Kinds) /\ Len(ids \o a) = Len(ids) + Len(a)
      BY <2>1, <1>2, ConcatProperties
    <2>3. loss \o b \in Seq({0, 1}) /\ Len(loss \o b) = Len(loss) + Len(b)
      BY <2>1, <1>2, ConcatProperties
    <2> QED BY <2>2, <2>3, <1>2
  <1>4. ASSUME NEW i \in 1..Len(ids \o a)
        PROVE  (loss \o b)[i] = 1 <=> (ids \o a)[i] = "asst"
    <2>1. CASE i <= Len(ids)
      BY <1>1, <1>3, <2>1 DEF Masks, a, b
    <2>2. CASE i > Len(ids)
      <3>1. i - Len(ids) \in 1..n
        BY <1>3, <2>2 DEF Masks
      <3>2. (ids \o a)[i] = kind /\ (loss \o b)[i] = learned
        BY <1>1, <1>3, <2>2, <3>1 DEF Masks, a, b
      <3> QED BY <3>2
    <2> QED BY <2>1, <2>2, <1>3 DEF Masks
  <1> QED BY <1>3, <1>4 DEF Masks, a, b

\* A common prefix of both keeps the mask right.
LEMMA MasksPrefix ==
    ASSUME NEW ids, NEW loss, Masks(loss, ids), NEW n \in 0..Len(ids)
    PROVE  Masks(SubSeq(loss, 1, n), SubSeq(ids, 1, n))
  BY DEF Masks

\* truncate_output_ids cuts both at the same place.
LEMMA MasksFirstN ==
    ASSUME NEW ids, NEW loss, Masks(loss, ids), NEW n \in Nat
    PROVE  Masks(FirstN(loss, n), FirstN(ids, n))
  BY MasksPrefix DEF FirstN, Masks

\* A fresh request has no learned token.
LEMMA MasksInitial ==
    ASSUME NEW len \in Nat \ {0}
    PROVE  Masks(InitialStream(len).loss, InitialStream(len).ids)
  BY DEF Masks, InitialStream, PromptIds, Copies, Kinds

-----------------------------------------------------------------------------
(* The conversation a stream holds.                                        *)

\* Model output answers a generation prompt, and every generation prompt but a
\* trailing one was answered.
Conversation(s) ==
    /\ \A i \in 1..Len(s) : s[i] = "asst" => i > 1 /\ s[i - 1] \in {"gen", "asst"}
    /\ \A i \in 1..Len(s) - 1 : s[i] = "gen" => s[i + 1] = "asst"

AnsweredPrompts(s) == {i \in 1..Len(s) - 1 : s[i] = "gen"}

EndsWith(s, kind) == s # <<>> /\ s[Len(s)] = kind

\* t is s with n tokens of one kind behind it.
Extended(t, s, n, kind) ==
    /\ t \in Seq(Kinds) /\ Len(t) = Len(s) + n
    /\ \A i \in 1..Len(s) : t[i] = s[i]
    /\ \A i \in Len(s) + 1..Len(s) + n : t[i] = kind

\* What _update_input_ids appends.
LEMMA AppendExtends ==
    ASSUME NEW s \in Seq(Kinds), NEW kind \in Kinds, NEW n \in Nat
    PROVE  Extended(s \o Copies(n, kind), s, n, kind)
  <1> DEFINE c == Copies(n, kind)
  <1>1. c \in Seq(Kinds) /\ Len(c) = n /\ \A i \in 1..n : c[i] = kind
    BY CopiesSeq
  <1> HIDE DEF c
  <1>2. /\ s \o c \in Seq(Kinds) /\ Len(s \o c) = Len(s) + n
        /\ \A i \in 1..Len(s) + n :
            (s \o c)[i] = IF i <= Len(s) THEN s[i] ELSE c[i - Len(s)]
    BY <1>1, ConcatProperties
  <1>3. Extended(s \o c, s, n, kind)
    BY <1>1, <1>2 DEF Extended
  <1> QED BY <1>3 DEF c

\* The length of a stream, and what it means that it is not empty.
LEMMA StreamLength ==
    ASSUME NEW s \in Seq(Kinds)
    PROVE  Len(s) \in Nat /\ (s # <<>> <=> Len(s) > 0)
  BY EmptySeq

\* The beginning of a stream.
LEMMA BeginningSeq ==
    ASSUME NEW S, NEW s \in Seq(S), NEW n \in 0..Len(s)
    PROVE  /\ SubSeq(s, 1, n) \in Seq(S) /\ Len(SubSeq(s, 1, n)) = n
           /\ \A i \in 1..n : SubSeq(s, 1, n)[i] = s[i]
  OBVIOUS

\* A beginning of a conversation is one.
LEMMA ConversationPrefix ==
    ASSUME NEW s \in Seq(Kinds), Conversation(s), NEW t \in Seq(Kinds),
           Len(t) <= Len(s), \A i \in 1..Len(t) : t[i] = s[i]
    PROVE  Conversation(t)
  <1>1. Len(s) \in Nat /\ Len(t) \in Nat
    OBVIOUS
  <1>2. ASSUME NEW i \in 1..Len(t), t[i] = "asst"
        PROVE  i > 1 /\ t[i - 1] \in {"gen", "asst"}
    <2>1. i \in 1..Len(s) /\ s[i] = "asst" BY <1>1, <1>2
    <2>2. i > 1 /\ s[i - 1] \in {"gen", "asst"} BY <2>1 DEF Conversation
    <2>3. i - 1 \in 1..Len(t) BY <1>1, <2>2
    <2> QED BY <2>2, <2>3
  <1>3. ASSUME NEW i \in 1..Len(t) - 1, t[i] = "gen"
        PROVE  t[i + 1] = "asst"
    <2>1. i \in 1..Len(t) /\ i + 1 \in 1..Len(t) /\ i \in 1..Len(s) - 1 BY <1>1
    <2>2. s[i] = "gen" BY <1>3, <2>1
    <2>3. s[i + 1] = "asst" BY <2>1, <2>2 DEF Conversation
    <2> QED BY <2>1, <2>3
  <1> QED BY <1>2, <1>3 DEF Conversation

\* A reply, or a generation prompt, after a stream that does not wait for the
\* model continues the conversation and answers no prompt.
LEMMA ConversationGoesOn ==
    ASSUME NEW s \in Seq(Kinds), Conversation(s), ~EndsWith(s, "gen"),
           NEW kind \in Kinds \ {"asst"}, NEW n \in Nat, kind = "gen" => n <= 1,
           NEW t, Extended(t, s, n, kind)
    PROVE  Conversation(t) /\ AnsweredPrompts(t) = AnsweredPrompts(s)
  <1>1. /\ Len(s) \in Nat /\ Len(t) = Len(s) + n /\ t \in Seq(Kinds)
        /\ \A i \in 1..Len(s) : t[i] = s[i]
        /\ \A i \in Len(s) + 1..Len(s) + n : t[i] = kind
    BY DEF Extended
  <1>2. ASSUME NEW i \in 1..Len(t), t[i] = "asst"
        PROVE  i > 1 /\ t[i - 1] \in {"gen", "asst"}
    <2>1. i \in 1..Len(s)
      <3>1. i <= Len(s) \/ i \in Len(s) + 1..Len(s) + n BY <1>1
      <3> QED BY <3>1, <1>1, <1>2
    <2>2. s[i] = "asst" BY <2>1, <1>1, <1>2
    <2>3. i > 1 /\ s[i - 1] \in {"gen", "asst"} BY <2>1, <2>2 DEF Conversation
    <2>4. i - 1 \in 1..Len(s) BY <1>1, <2>1, <2>3
    <2> QED BY <1>1, <2>3, <2>4
  <1>3. ASSUME NEW i \in 1..Len(t) - 1, t[i] = "gen"
        PROVE  i \in 1..Len(s) - 1 /\ s[i] = "gen"
    <2>1. CASE i >= Len(s) + 1
      <3>1. i \in Len(s) + 1..Len(s) + n BY <1>1, <2>1
      <3>2. kind = "gen" /\ n <= 1 BY <3>1, <1>1, <1>3
      <3> QED BY <3>2, <2>1, <1>1
    <2>2. CASE i = Len(s)
      <3>1. i \in 1..Len(s) /\ s # <<>> BY <2>2, <1>1
      <3>2. s[Len(s)] = "gen" BY <3>1, <2>2, <1>1, <1>3
      <3> QED BY <3>1, <3>2 DEF EndsWith
    <2>3. CASE i < Len(s)
      <3>1. i \in 1..Len(s) /\ i \in 1..Len(s) - 1 BY <2>3, <1>1
      <3> QED BY <3>1, <1>1, <1>3
    <2> QED BY <1>1, <2>1, <2>2, <2>3
  <1>4. ASSUME NEW i \in 1..Len(s) - 1, s[i] = "gen"
        PROVE  i \in 1..Len(t) - 1 /\ t[i] = "gen" /\ t[i + 1] = "asst"
    <2>1. i \in 1..Len(t) - 1 /\ i \in 1..Len(s) /\ i + 1 \in 1..Len(s) BY <1>1
    <2>2. s[i + 1] = "asst" BY <1>4 DEF Conversation
    <2> QED BY <1>1, <1>4, <2>1, <2>2
  <1>5. Conversation(t)
    BY <1>2, <1>3, <1>4 DEF Conversation
  <1>6. AnsweredPrompts(t) = AnsweredPrompts(s)
    BY <1>3, <1>4 DEF AnsweredPrompts
  <1> QED BY <1>5, <1>6

\* The model's answer to a trailing generation prompt answers that one.
LEMMA ConversationAnswered ==
    ASSUME NEW s \in Seq(Kinds), Conversation(s), EndsWith(s, "gen"),
           NEW n \in Nat \ {0}, NEW t, Extended(t, s, n, "asst")
    PROVE  /\ Conversation(t) /\ EndsWith(t, "asst")
           /\ AnsweredPrompts(t) = AnsweredPrompts(s) \cup {Len(s)}
           /\ Len(s) \notin AnsweredPrompts(s)
  <1>1. /\ Len(s) \in Nat /\ Len(t) = Len(s) + n /\ t \in Seq(Kinds)
        /\ \A i \in 1..Len(s) : t[i] = s[i]
        /\ \A i \in Len(s) + 1..Len(s) + n : t[i] = "asst"
    BY DEF Extended
  <1>2. Len(s) > 0 /\ s[Len(s)] = "gen"
    BY StreamLength DEF EndsWith
  <1>3. ASSUME NEW i \in 1..Len(t), t[i] = "asst"
        PROVE  i > 1 /\ t[i - 1] \in {"gen", "asst"}
    <2>1. CASE i <= Len(s)
      <3>1. i \in 1..Len(s) BY <2>1, <1>1
      <3>2. s[i] = "asst" BY <3>1, <1>1, <1>3
      <3>3. i > 1 /\ s[i - 1] \in {"gen", "asst"} BY <3>1, <3>2 DEF Conversation
      <3>4. i - 1 \in 1..Len(s) BY <1>1, <3>1, <3>3
      <3> QED BY <1>1, <3>3, <3>4
    <2>2. CASE i = Len(s) + 1
      <3>1. i > 1 /\ i - 1 = Len(s) /\ i - 1 \in 1..Len(s) BY <2>2, <1>1, <1>2
      <3> QED BY <3>1, <1>1, <1>2
    <2>3. CASE i > Len(s) + 1
      <3>1. i > 1 /\ i - 1 \in Len(s) + 1..Len(s) + n BY <2>3, <1>1
      <3> QED BY <3>1, <1>1
    <2> QED BY <1>1, <2>1, <2>2, <2>3
  <1>4. ASSUME NEW i \in 1..Len(t) - 1, t[i] = "gen"
        PROVE  i = Len(s) \/ (i \in 1..Len(s) - 1 /\ s[i] = "gen")
    <2>1. CASE i >= Len(s) + 1
      <3>1. i \in Len(s) + 1..Len(s) + n BY <1>1, <2>1
      <3> QED BY <3>1, <1>1, <1>4
    <2>2. CASE i < Len(s)
      <3>1. i \in 1..Len(s) /\ i \in 1..Len(s) - 1 BY <2>2, <1>1
      <3> QED BY <3>1, <1>1, <1>4
    <2> QED BY <1>1, <2>1, <2>2
  <1>5. ASSUME NEW i \in 1..Len(s) - 1, s[i] = "gen"
        PROVE  i \in 1..Len(t) - 1 /\ t[i] = "gen" /\ t[i + 1] = "asst"
    <2>1. i \in 1..Len(t) - 1 /\ i \in 1..Len(s) /\ i + 1 \in 1..Len(s) BY <1>1
    <2>2. s[i + 1] = "asst" BY <1>5 DEF Conversation
    <2> QED BY <1>1, <1>5, <2>1, <2>2
  <1>6. Len(s) \in 1..Len(t) - 1 /\ t[Len(s)] = "gen" /\ t[Len(s) + 1] = "asst"
    <2>1. Len(s) \in 1..Len(t) - 1 /\ Len(s) \in 1..Len(s)
          /\ Len(s) + 1 \in Len(s) + 1..Len(s) + n
      BY <1>1, <1>2
    <2> QED BY <2>1, <1>1, <1>2
  <1>7. Conversation(t)
    BY <1>3, <1>4, <1>5, <1>6 DEF Conversation
  <1>8. EndsWith(t, "asst")
    <2>1. Len(t) > 0 /\ Len(t) \in Len(s) + 1..Len(s) + n BY <1>1
    <2> QED BY <2>1, <1>1, StreamLength DEF EndsWith
  <1>9. AnsweredPrompts(t) = AnsweredPrompts(s) \cup {Len(s)}
    BY <1>4, <1>5, <1>6 DEF AnsweredPrompts
  <1>10. Len(s) \notin AnsweredPrompts(s)
    BY <1>1 DEF AnsweredPrompts
  <1> QED BY <1>7, <1>8, <1>9, <1>10

\* Without its trailing generation prompt the conversation waits for nobody.
LEMMA ConversationUnprompted ==
    ASSUME NEW s \in Seq(Kinds), Conversation(s), EndsWith(s, "gen")
    PROVE  LET t == SubSeq(s, 1, Len(s) - 1)
           IN  /\ t \in Seq(Kinds) /\ Len(t) = Len(s) - 1
               /\ \A i \in 1..Len(t) : t[i] = s[i]
               /\ Conversation(t) /\ ~EndsWith(t, "gen")
               /\ AnsweredPrompts(t) = AnsweredPrompts(s)
  <1> DEFINE t == SubSeq(s, 1, Len(s) - 1)
  <1>1. Len(s) \in Nat /\ Len(s) > 0 /\ s[Len(s)] = "gen"
    BY StreamLength DEF EndsWith
  <1>2. t \in Seq(Kinds) /\ Len(t) = Len(s) - 1 /\ \A i \in 1..Len(t) : t[i] = s[i]
    <2>1. Len(s) - 1 \in 0..Len(s) BY <1>1
    <2> QED BY <2>1, BeginningSeq
  <1> HIDE DEF t
  <1>3. Conversation(t)
    BY <1>1, <1>2, ConversationPrefix
  <1>4. ASSUME Len(s) > 1, s[Len(s) - 1] = "gen" PROVE FALSE
    <2>1. Len(s) - 1 \in 1..Len(s) - 1 /\ Len(s) - 1 + 1 = Len(s) BY <1>1, <1>4
    <2>2. s[Len(s) - 1 + 1] = "asst" BY <2>1, <1>4 DEF Conversation
    <2> QED BY <2>1, <2>2, <1>1
  <1>5. ~EndsWith(t, "gen")
    <2>1. SUFFICES ASSUME EndsWith(t, "gen") PROVE FALSE OBVIOUS
    <2>2. Len(t) > 0 /\ t[Len(t)] = "gen" BY <2>1, <1>2, StreamLength DEF EndsWith
    <2>3. Len(s) > 1 /\ Len(t) \in 1..Len(t) BY <2>2, <1>1, <1>2
    <2>4. s[Len(s) - 1] = "gen" BY <2>2, <2>3, <1>2
    <2> QED BY <2>3, <2>4, <1>4
  <1>6. ASSUME NEW i \in 1..Len(s) - 1, s[i] = "gen" PROVE i \in 1..Len(t) - 1
    <2>1. i # Len(s) - 1 BY <1>4, <1>6, <1>1
    <2> QED BY <2>1, <1>1, <1>2
  <1>7. AnsweredPrompts(t) = AnsweredPrompts(s)
    BY <1>1, <1>2, <1>6 DEF AnsweredPrompts
  <1> QED BY <1>2, <1>3, <1>5, <1>7 DEF t

-----------------------------------------------------------------------------
(* The operators, as they act on the stream alone.                         *)

\* With and without a generation prompt at the end, with a tool's reply behind
\* it, and cut at the end of a rollout.
Prompted(s)   == IF EndsWith(s, "gen") THEN s ELSE s \o Copies(1, "gen")
Unprompted(s) == IF EndsWith(s, "gen") THEN SubSeq(s, 1, Len(s) - 1) ELSE s
Replied(s, n) == IF n = 0 THEN s ELSE Unprompted(s) \o Copies(n, "tool")
Cut(s, cap)   == FirstN(Unprompted(s), cap)

\* t begins with s.
Extends(t, s) == Len(s) <= Len(t) /\ \A i \in 1..Len(s) : t[i] = s[i]

\* t has the first m tokens of s.
Keeps(s, t, m) == m <= Len(t) /\ \A i \in 1..m : t[i] = s[i]

\* The first m tokens of s are followed by others or end with model output.
Settled(s, m) == m \in 0..Len(s) /\ (m = 0 \/ m < Len(s) \/ s[m] = "asst")

\* Appending extends a stream.
LEMMA AppendingExtends ==
    ASSUME NEW s \in Seq(Kinds), NEW kind \in Kinds, NEW n \in Nat
    PROVE  s \o Copies(n, kind) \in Seq(Kinds) /\ Extends(s \o Copies(n, kind), s)
  <1> DEFINE t == s \o Copies(n, kind)
  <1>1. Extended(t, s, n, kind)
    BY AppendExtends
  <1> HIDE DEF t
  <1>2. t \in Seq(Kinds) /\ Extends(t, s)
    BY <1>1 DEF Extended, Extends
  <1> QED BY <1>2 DEF t

\* Extending is transitive.
LEMMA ExtendsTransitive ==
    ASSUME NEW s \in Seq(Kinds), NEW t \in Seq(Kinds), NEW u \in Seq(Kinds),
           Extends(t, s), Extends(u, t)
    PROVE  Extends(u, s)
  <1>1. Len(s) <= Len(t) /\ Len(t) <= Len(u) /\ Len(s) \in Nat /\ Len(t) \in Nat /\ Len(u) \in Nat
    BY DEF Extends
  <1>2. ASSUME NEW i \in 1..Len(s) PROVE u[i] = s[i]
    <2>1. i \in 1..Len(t) BY <1>1
    <2> QED BY <2>1 DEF Extends
  <1> QED BY <1>1, <1>2 DEF Extends

\* What is settled in a stream is settled in any that extends it.
LEMMA ExtendsSettled ==
    ASSUME NEW s \in Seq(Kinds), NEW t \in Seq(Kinds), Extends(t, s),
           NEW m, Settled(s, m)
    PROVE  Settled(t, m) /\ Keeps(s, t, m)
  <1>1. m \in 0..Len(s) /\ Len(s) \in Nat /\ Len(t) \in Nat /\ Len(s) <= Len(t)
    BY DEF Settled, Extends
  <1>2. ASSUME NEW i \in 1..m PROVE t[i] = s[i]
    <2>1. i \in 1..Len(s) BY <1>1
    <2> QED BY <2>1 DEF Extends
  <1>3. m = 0 \/ m \in 1..m
    BY <1>1
  <1>4. m < Len(s) => m < Len(t)
    BY <1>1
  <1> QED BY <1>1, <1>2, <1>3, <1>4 DEF Settled, Keeps

\* A generation prompt at the end.
LEMMA PromptedStream ==
    ASSUME NEW s \in Seq(Kinds)
    PROVE  Prompted(s) \in Seq(Kinds) /\ Extends(Prompted(s), s)
  <1>1. CASE EndsWith(s, "gen")
    BY <1>1 DEF Prompted, Extends
  <1>2. CASE ~EndsWith(s, "gen")
    <2>1. Prompted(s) = s \o Copies(1, "gen") /\ "gen" \in Kinds
      BY <1>2 DEF Prompted, Kinds
    <2> QED BY <2>1, AppendingExtends
  <1> QED BY <1>1, <1>2

\* Dropping the generation prompt at the end keeps what is settled.
LEMMA UnpromptedStream ==
    ASSUME NEW s \in Seq(Kinds)
    PROVE  /\ Unprompted(s) \in Seq(Kinds) /\ Len(Unprompted(s)) <= Len(s)
           /\ \A i \in 1..Len(Unprompted(s)) : Unprompted(s)[i] = s[i]
           /\ \A m : Settled(s, m) => Keeps(s, Unprompted(s), m)
  <1>0. Len(s) \in Nat
    OBVIOUS
  <1>1. CASE EndsWith(s, "gen")
    <2> DEFINE u == SubSeq(s, 1, Len(s) - 1)
    <2>1. Len(s) > 0 /\ s[Len(s)] = "gen"
      BY <1>1, StreamLength DEF EndsWith
    <2>2. Len(s) - 1 \in 0..Len(s)
      BY <1>0, <2>1
    <2>3. u \in Seq(Kinds) /\ Len(u) = Len(s) - 1 /\ \A i \in 1..Len(s) - 1 : u[i] = s[i]
      BY <2>2, BeginningSeq
    <2>4. Unprompted(s) = u
      BY <1>1 DEF Unprompted
    <2> HIDE DEF u
    <2>5. ASSUME NEW m, Settled(s, m) PROVE Keeps(s, u, m)
      <3>1. m \in 0..Len(s) - 1
        BY <1>0, <2>1, <2>5 DEF Settled
      <3>2. \A i \in 1..m : i \in 1..Len(s) - 1
        BY <1>0, <3>1
      <3> QED BY <1>0, <2>3, <3>1, <3>2 DEF Keeps
    <2> QED BY <1>0, <2>3, <2>4, <2>5
  <1>2. CASE ~EndsWith(s, "gen")
    <2>1. Unprompted(s) = s
      BY <1>2 DEF Unprompted
    <2> QED BY <1>0, <2>1 DEF Settled, Keeps
  <1> QED BY <1>1, <1>2

\* The cut at the end keeps what is settled, up to the cap.
LEMMA CutStream ==
    ASSUME NEW s \in Seq(Kinds), NEW cap \in Nat
    PROVE  /\ Cut(s, cap) \in Seq(Kinds) /\ Len(Cut(s, cap)) <= Len(s)
           /\ \A i \in 1..Len(Cut(s, cap)) : Cut(s, cap)[i] = s[i]
           /\ \A m : Settled(s, m) =>
                Keeps(s, Cut(s, cap), IF cap < m THEN cap ELSE m)
  <1> DEFINE u == Unprompted(s)
  <1>1. /\ u \in Seq(Kinds) /\ Len(u) <= Len(s) /\ \A i \in 1..Len(u) : u[i] = s[i]
        /\ \A m : Settled(s, m) => Keeps(s, u, m)
    BY UnpromptedStream
  <1> HIDE DEF u
  <1> DEFINE c == FirstN(u, cap)
  <1>2. /\ c \in Seq(Kinds) /\ Len(c) = (IF cap < Len(u) THEN cap ELSE Len(u))
        /\ \A i \in 1..Len(c) : c[i] = u[i]
    BY <1>1, FirstNSeq
  <1> HIDE DEF c
  <1>3. Len(u) \in Nat /\ Len(s) \in Nat /\ Len(c) \in Nat
    BY <1>1, <1>2
  <1>4. \A i \in 1..Len(c) : c[i] = s[i]
    <2>1. \A i \in 1..Len(c) : i \in 1..Len(u)
      BY <1>2, <1>3
    <2> QED BY <1>1, <1>2, <2>1
  <1>5. ASSUME NEW m, Settled(s, m)
        PROVE  Keeps(s, c, IF cap < m THEN cap ELSE m)
    <2> DEFINE k == IF cap < m THEN cap ELSE m
    <2>1. m \in Nat /\ m <= Len(u)
      BY <1>1, <1>3, <1>5 DEF Settled, Keeps
    <2>2. k \in Nat /\ k <= Len(c)
      BY <1>2, <1>3, <2>1
    <2> HIDE DEF k
    <2>3. \A i \in 1..k : i \in 1..Len(c)
      BY <1>3, <2>2
    <2>4. Keeps(s, c, k)
      BY <1>4, <2>2, <2>3 DEF Keeps
    <2> QED BY <2>4 DEF k
  <1>6. Cut(s, cap) = c
    BY DEF Cut, c, u
  <1> QED BY <1>1, <1>2, <1>3, <1>4, <1>5, <1>6

\* A reply of the tools keeps what is settled.
LEMMA RepliedStream ==
    ASSUME NEW s \in Seq(Kinds), NEW n \in Nat
    PROVE  /\ Replied(s, n) \in Seq(Kinds)
           /\ \A m : Settled(s, m) => Keeps(s, Replied(s, n), m)
           /\ \A m : Settled(s, m) /\ (m = 0 \/ s[m] = "asst") => Settled(Replied(s, n), m)
           /\ ~EndsWith(s, "gen") => Extends(Replied(s, n), s)
  <1> DEFINE u == Unprompted(s)
             t == u \o Copies(n, "tool")
  <1>1. CASE n = 0
    <2>1. Replied(s, n) = s /\ Len(s) \in Nat
      BY <1>1 DEF Replied
    <2> QED BY <2>1 DEF Extends, Settled, Keeps
  <1>2. CASE n # 0
    <2>1. u \in Seq(Kinds) /\ \A m : Settled(s, m) => Keeps(s, u, m)
      BY UnpromptedStream
    <2>2. ~EndsWith(s, "gen") => u = s
      BY DEF Unprompted
    <2> HIDE DEF u
    <2>3. t \in Seq(Kinds) /\ Extends(t, u)
      BY <2>1, AppendingExtends DEF Kinds
    <2>4. Replied(s, n) = t
      BY <1>2 DEF Replied, u
    <2> HIDE DEF t
    <2>5. Len(u) \in Nat /\ Len(t) \in Nat /\ Len(u) <= Len(t)
      BY <2>1, <2>3 DEF Extends
    <2>6. ASSUME NEW m, Settled(s, m) PROVE Keeps(s, t, m) /\ m \in 0..Len(t)
      <3>1. m \in Nat /\ m <= Len(u) /\ \A i \in 1..m : u[i] = s[i]
        BY <2>1, <2>6 DEF Keeps, Settled
      <3>2. \A i \in 1..m : i \in 1..Len(u)
        BY <2>5, <3>1
      <3>3. \A i \in 1..m : t[i] = s[i]
        BY <2>3, <3>1, <3>2 DEF Extends
      <3> QED BY <2>5, <3>1, <3>3 DEF Keeps
    <2>7. ASSUME NEW m, Settled(s, m), m = 0 \/ s[m] = "asst" PROVE Settled(t, m)
      <3>1. Keeps(s, t, m) /\ m \in 0..Len(t)
        BY <2>6, <2>7
      <3>2. m = 0 \/ m \in 1..m
        BY <3>1
      <3> QED BY <2>7, <3>1, <3>2 DEF Keeps, Settled
    <2> QED BY <2>2, <2>3, <2>4, <2>6, <2>7
  <1> QED BY <1>1, <1>2

\* A generation prompt at the end answers nothing and breaks no conversation.
LEMMA ConversationPrompted ==
    ASSUME NEW s \in Seq(Kinds), Conversation(s)
    PROVE  Conversation(Prompted(s)) /\ AnsweredPrompts(Prompted(s)) = AnsweredPrompts(s)
  <1>1. CASE EndsWith(s, "gen")
    BY <1>1 DEF Prompted
  <1>2. CASE ~EndsWith(s, "gen")
    <2> DEFINE t == s \o Copies(1, "gen")
    <2>1. Extended(t, s, 1, "gen") /\ "gen" \in Kinds \ {"asst"}
      BY AppendExtends DEF Kinds
    <2>2. Prompted(s) = t
      BY <1>2 DEF Prompted
    <2> HIDE DEF t
    <2> QED BY <1>2, <2>1, <2>2, ConversationGoesOn
  <1> QED BY <1>1, <1>2

\* Nor does a reply of the tools.
LEMMA ConversationReplied ==
    ASSUME NEW s \in Seq(Kinds), Conversation(s), NEW n \in Nat
    PROVE  Conversation(Replied(s, n)) /\ AnsweredPrompts(Replied(s, n)) = AnsweredPrompts(s)
  <1> DEFINE u == Unprompted(s)
             t == u \o Copies(n, "tool")
  <1>1. CASE n = 0
    BY <1>1 DEF Replied
  <1>2. CASE n # 0
    <2>1. /\ u \in Seq(Kinds) /\ Conversation(u) /\ ~EndsWith(u, "gen")
          /\ AnsweredPrompts(u) = AnsweredPrompts(s)
      <3>1. CASE EndsWith(s, "gen")
        BY <3>1, ConversationUnprompted DEF Unprompted
      <3>2. CASE ~EndsWith(s, "gen")
        BY <3>2 DEF Unprompted
      <3> QED BY <3>1, <3>2
    <2> HIDE DEF u
    <2>2. Extended(t, u, n, "tool") /\ "tool" \in Kinds \ {"asst"}
      BY <2>1, AppendExtends DEF Kinds
    <2>3. Replied(s, n) = t
      BY <1>2 DEF Replied, u
    <2> HIDE DEF t
    <2> QED BY <2>1, <2>2, <2>3, ConversationGoesOn
  <1> QED BY <1>1, <1>2

\* The cut leaves a beginning of the conversation.
LEMMA ConversationCut ==
    ASSUME NEW s \in Seq(Kinds), Conversation(s), NEW cap \in Nat
    PROVE  Conversation(Cut(s, cap))
  BY CutStream, ConversationPrefix

\* The answered prompts of a stream can be counted.
LEMMA AnsweredPromptsFinite ==
    ASSUME NEW s \in Seq(Kinds)
    PROVE  IsFiniteSet(AnsweredPrompts(s))
  <1>1. IsFiniteSet(1..Len(s))
    BY FS_Interval
  <1>2. AnsweredPrompts(s) \subseteq 1..Len(s)
    BY DEF AnsweredPrompts
  <1> QED BY <1>1, <1>2, FS_Subset

\* Keeping is transitive.
LEMMA KeepsTransitive ==
    ASSUME NEW s \in Seq(Kinds), NEW t \in Seq(Kinds), NEW u \in Seq(Kinds),
           NEW m \in Nat, NEW k \in Nat, k <= m, Keeps(s, t, m), Keeps(t, u, k)
    PROVE  Keeps(s, u, k)
  <1>1. \A i \in 1..k : i \in 1..m
    OBVIOUS
  <1> QED BY <1>1 DEF Keeps

\* At most n elements of s behind its first m, and how many these are of len.
Slice(s, m, n) == FirstN(SubSeq(s, m + 1, Len(s)), n)
SliceLen(len, m, n) == IF len <= m THEN 0 ELSE IF n < len - m THEN n ELSE len - m

\* There are as many as there are to be had.
LEMMA SliceLenBounds ==
    ASSUME NEW len \in Nat, NEW m \in Nat, NEW n \in Nat
    PROVE  /\ SliceLen(len, m, n) \in Nat
           /\ SliceLen(len, m, n) = 0 \/ m + SliceLen(len, m, n) <= len
  BY DEF SliceLen

\* What truncate_output_ids cuts out of a sequence behind its first m elements.
LEMMA SliceSeq ==
    ASSUME NEW S, NEW s \in Seq(S), NEW m \in Nat, NEW n \in Nat
    PROVE  /\ Slice(s, m, n) \in Seq(S)
           /\ Len(Slice(s, m, n)) = SliceLen(Len(s), m, n)
           /\ \A i \in 1..SliceLen(Len(s), m, n) : Slice(s, m, n)[i] = s[m + i]
  <1> DEFINE u == SubSeq(s, m + 1, Len(s))
             t == FirstN(u, n)
  <1>1. Len(s) \in Nat
    OBVIOUS
  <1>2. /\ u \in Seq(S) /\ Len(u) = (IF Len(s) <= m THEN 0 ELSE Len(s) - m)
        /\ \A i \in 1..Len(u) : u[i] = s[m + i]
    <2>1. CASE Len(s) <= m
      BY <1>1, <2>1
    <2>2. CASE Len(s) > m
      BY <1>1, <2>2
    <2> QED BY <1>1, <2>1, <2>2
  <1> HIDE DEF u
  <1>3. /\ t \in Seq(S) /\ Len(t) = (IF n < Len(u) THEN n ELSE Len(u))
        /\ \A i \in 1..Len(t) : t[i] = u[i]
    BY <1>2, FirstNSeq
  <1> HIDE DEF t
  <1>4. Len(t) = SliceLen(Len(s), m, n)
    BY <1>1, <1>2, <1>3 DEF SliceLen
  <1>5. ASSUME NEW i \in 1..Len(t) PROVE t[i] = s[m + i]
    <2>1. i \in 1..Len(u)
      BY <1>1, <1>2, <1>3
    <2> QED BY <1>2, <1>3, <2>1
  <1> QED BY <1>3, <1>4, <1>5 DEF Slice, t, u

\* A non-empty set of positions has a last one.
LEMMA LastPosition ==
    ASSUME NEW n \in Nat, NEW P \in SUBSET (1..n), P # {}
    PROVE  \E i \in P : \A j \in P : j <= i
  <1> DEFINE D == {n - i : i \in P}
  <1>1. D \in SUBSET Nat /\ D # {}
    <2>1. \A i \in P : n - i \in Nat
      OBVIOUS
    <2>2. PICK i \in P : TRUE
      OBVIOUS
    <2>3. n - i \in D
      BY <2>2
    <2> QED BY <2>1, <2>3
  <1>2. PICK d \in D : \A e \in D : d <= e
    <2> DEFINE R == OpToRel(<, Nat)
    <2>1. \A x, y \in Nat : <<x, y>> \in R <=> x < y
      BY Zenon DEF OpToRel
    <2>2. IsWellFoundedOn(R, Nat)
      BY NatLessThanWellFounded, Zenon
    <2> HIDE DEF D, R
    <2>3. \E d \in D : \A e \in D : ~(<<e, d>> \in R)
      BY <1>1, <2>2, WFMin, Zenon
    <2>4. PICK d \in D : \A e \in D : ~(<<e, d>> \in R)
      BY <2>3
    <2>5. ASSUME NEW e \in D PROVE d <= e
      <3>1. e \in Nat /\ d \in Nat /\ <<e, d>> \notin R
        BY <1>1, <2>4
      <3>2. ~(e < d)
        BY <2>1, <3>1
      <3> QED BY <3>1, <3>2
    <2> QED BY <2>5
  <1>3. PICK i \in P : d = n - i
    BY <1>2
  <1>4. ASSUME NEW j \in P PROVE j <= i
    <2>1. n - j \in D
      OBVIOUS
    <2>2. d <= n - j
      BY <1>2, <2>1
    <2> QED BY <1>3, <2>2
  <1> QED BY <1>4

\* Two streams that agree up to the end of the shorter one.
Agree(s, t) == \A i \in 1..Len(s) : i <= Len(t) => s[i] = t[i]

\* The row made of a prompt u and what is cut out of a stream s that starts with
\* it, to the width w.
LEMMA RowOfStream ==
    ASSUME NEW u \in Seq(Kinds), NEW s \in Seq(Kinds), NEW w \in Nat, Agree(u, s)
    PROVE  LET row == u \o Slice(s, Len(u), w)
           IN  /\ row \in Seq(Kinds) /\ Len(row) = Len(u) + SliceLen(Len(s), Len(u), w)
               /\ Agree(row, s)
  <1> DEFINE resp == Slice(s, Len(u), w)
             row  == u \o resp
  <1>1. PICK m \in Nat, l \in Nat, n \in Nat :
            m = Len(u) /\ l = Len(s) /\ n = SliceLen(l, m, w)
    <2>1. Len(u) \in Nat /\ Len(s) \in Nat
      BY StreamLength
    <2>2. SliceLen(Len(s), Len(u), w) \in Nat
      BY <2>1, SliceLenBounds
    <2> QED BY <2>1, <2>2
  <1>3. resp \in Seq(Kinds) /\ Len(resp) = n /\ \A i \in 1..n : resp[i] = s[m + i]
    <2>1. /\ Slice(s, m, w) \in Seq(Kinds)
          /\ Len(Slice(s, m, w)) = SliceLen(Len(s), m, w)
          /\ \A i \in 1..SliceLen(Len(s), m, w) : Slice(s, m, w)[i] = s[m + i]
      BY SliceSeq
    <2> QED BY <1>1, <2>1
  <1> HIDE DEF resp
  <1>4. /\ row \in Seq(Kinds) /\ Len(row) = m + n
        /\ \A i \in 1..m + n : row[i] = IF i <= m THEN u[i] ELSE resp[i - m]
    <2>1. /\ row \in Seq(Kinds) /\ Len(row) = Len(u) + Len(resp)
          /\ \A i \in 1..Len(u) + Len(resp) :
                row[i] = IF i <= Len(u) THEN u[i] ELSE resp[i - Len(u)]
      BY <1>3, ConcatProperties
    <2> HIDE DEF row
    <2> QED BY <1>1, <1>3, <2>1
  <1> HIDE DEF row
  <1>5. ASSUME NEW i \in 1..m + n, i <= l PROVE row[i] = s[i]
    <2>1. CASE i <= m
      <3>1. i \in 1..m
        BY <2>1
      <3>2. u[i] = s[i]
        BY <1>1, <1>5, <3>1 DEF Agree
      <3> QED BY <1>4, <2>1, <3>2
    <2>2. CASE i > m
      <3>1. i - m \in 1..n /\ m + (i - m) = i /\ ~(i <= m)
        BY <2>2
      <3>2. row[i] = resp[i - m] /\ resp[i - m] = s[m + (i - m)]
        BY <1>3, <1>4, <3>1
      <3> QED BY <3>1, <3>2
    <2> QED BY <2>1, <2>2
  <1>6. Agree(row, s)
    BY <1>1, <1>4, <1>5 DEF Agree
  <1> QED BY <1>1, <1>4, <1>6 DEF row, resp

\* The mask cut out at the same place marks the model's tokens of the row.
LEMMA MaskOfRow ==
    ASSUME NEW s, NEW loss, Masks(loss, s), NEW m \in Nat, NEW w \in Nat, 
           NEW row, Len(row) = m + SliceLen(Len(s), m, w), Agree(row, s)
    PROVE  \A i \in 1..Len(Slice(loss, m, w)) :
              Slice(loss, m, w)[i] = 1 <=> row[m + i] = "asst"
  <1> DEFINE mask == Slice(loss, m, w)
  <1>1. /\ s \in Seq(Kinds) /\ loss \in Seq({0, 1}) /\ Len(loss) = Len(s)
        /\ \A i \in 1..Len(s) : loss[i] = 1 <=> s[i] = "asst"
    BY DEF Masks
  <1>2. PICK l \in Nat, n \in Nat : l = Len(s) /\ n = SliceLen(l, m, w)
    <2>1. Len(s) \in Nat
      BY <1>1, StreamLength
    <2>2. SliceLen(Len(s), m, w) \in Nat
      BY <2>1, SliceLenBounds
    <2> QED BY <2>1, <2>2
  <1>3. \A i \in 1..n : m + i \in 1..l /\ m + i \in 1..m + n
    <2>1. n = 0 \/ m + n <= l
      BY <1>2, SliceLenBounds
    <2> QED BY <2>1
  <1>4. Len(mask) = n /\ \A i \in 1..n : mask[i] = loss[m + i]
    <2>1. loss \in Seq({0, 1})
      BY <1>1
    <2>2. /\ Len(mask) = SliceLen(Len(loss), m, w)
          /\ \A i \in 1..SliceLen(Len(loss), m, w) : mask[i] = loss[m + i]
      BY <2>1, SliceSeq
    <2> HIDE DEF mask
    <2> QED BY <1>1, <1>2, <2>2
  <1> HIDE DEF mask
  <1>5. ASSUME NEW i \in 1..n PROVE mask[i] = 1 <=> row[m + i] = "asst"
    <2>1. m + i \in 1..l /\ m + i \in 1..m + n /\ m + i <= l
      BY <1>3
    <2>2. row[m + i] = s[m + i]
      BY <1>2, <2>1 DEF Agree
    <2>3. loss[m + i] = 1 <=> s[m + i] = "asst"
      BY <1>1, <1>2, <2>1
    <2> QED BY <1>4, <2>2, <2>3
  <1> QED BY <1>4, <1>5 DEF mask

\* Two streams that agree have a beginning in common.
LEMMA CommonBeginning ==
    ASSUME NEW s \in Seq(Kinds), NEW t \in Seq(Kinds), Agree(s, t)
    PROVE  LET n == IF Len(s) < Len(t) THEN Len(s) ELSE Len(t)
           IN  FirstN(s, n) = FirstN(t, n)
  <1> DEFINE n == IF Len(s) < Len(t) THEN Len(s) ELSE Len(t)
             a == FirstN(s, n)
             b == FirstN(t, n)
  <1>1. n \in Nat /\ n <= Len(s) /\ n <= Len(t) /\ Len(s) \in Nat /\ Len(t) \in Nat
    OBVIOUS
  <1> HIDE DEF n
  <1>2. a \in Seq(Kinds) /\ Len(a) = n /\ \A i \in 1..n : a[i] = s[i]
    BY <1>1, FirstNSeq
  <1>3. b \in Seq(Kinds) /\ Len(b) = n /\ \A i \in 1..n : b[i] = t[i]
    BY <1>1, FirstNSeq
  <1> HIDE DEF a, b
  <1>4. \A i \in 1..n : i \in 1..Len(s) /\ i <= Len(t)
    BY <1>1
  <1>5. \A i \in 1..n : a[i] = b[i]
    BY <1>2, <1>3, <1>4 DEF Agree
  <1>6. a = b
    BY <1>2, <1>3, <1>5, SeqEqual
  <1> QED BY <1>6 DEF a, b, n

\* The prompt of a request as initialize_request leaves it.
LEMMA PromptStream ==
    ASSUME NEW n \in Nat \ {0}
    PROVE  /\ PromptIds(n) \in Seq(Kinds) /\ Len(PromptIds(n)) = n
           /\ Conversation(PromptIds(n)) /\ AnsweredPrompts(PromptIds(n)) = {}
  <1> DEFINE c == Copies(n - 1, "prompt")
             s == Append(c, "gen")
  <1>1. n - 1 \in Nat /\ "prompt" \in Kinds /\ "gen" \in Kinds
    BY DEF Kinds
  <1>2. c \in Seq(Kinds) /\ Len(c) = n - 1 /\ \A i \in 1..n - 1 : c[i] = "prompt"
    BY <1>1, CopiesSeq
  <1> HIDE DEF c
  <1>3. s \in Seq(Kinds) /\ Len(s) = n /\ s[n] = "gen" /\ \A i \in 1..n - 1 : s[i] = c[i]
    BY <1>1, <1>2
  <1> HIDE DEF s
  <1>4. \A i \in 1..n - 1 : s[i] = "prompt"
    BY <1>2, <1>3
  <1>5. \A i \in 1..n : s[i] # "asst"
    <2>1. \A i \in 1..n : i = n \/ i \in 1..n - 1
      OBVIOUS
    <2> QED BY <1>3, <1>4, <2>1
  <1>6. Conversation(s) /\ AnsweredPrompts(s) = {}
    BY <1>3, <1>4, <1>5 DEF Conversation, AnsweredPrompts
  <1>7. PromptIds(n) = s
    BY DEF PromptIds, s, c
  <1> QED BY <1>3, <1>6, <1>7

-----------------------------------------------------------------------------
(* The inductive invariant, one request at a time.                         *)

\* A task whose stream and turn counters are in order.
Sound(q) ==
    /\ q \in Task
    /\ Masks(q.loss, q.ids)
    /\ q.turns <= MaxAssistantTurns
    /\ q.userTurns <= MaxUserTurns
    /\ q.userTurns <= q.turns

\* What holds of a task at the await it is suspended at.
AtAwait(q) ==
    /\ q.at \in {"engine", "tools", "user"} => TurnsLeft(q)
    /\ q.at = "engine" => EndsWithGenerationPrompt(q) /\ ~PromptTooLong(q)
    /\ q.at = "reward" => q.finish \in {"stop", "length"}
    /\ q.at \in {"spawned", "create"} => q.state = "pending"
    /\ q.at = "tools" => q.state = "tool_calling"
    /\ q.at \in {"logprob", "returned"} => Len(q.ids) <= MaxModelLen

\* The invariant of one task.
TaskInv(q) == Sound(q) /\ AtAwait(q)

\* Two tasks that differ in their streams only.
SameControl(p, q) ==
    /\ p.at = q.at /\ p.state = q.state /\ p.finish = q.finish
    /\ p.turns = q.turns /\ p.userTurns = q.userTurns /\ p.open = q.open

\* What the loop has done to task q when it suspends request r as p.
SuspendedFrom(r, q, p) ==
    /\ TaskInv(p)
    /\ p.at \in {"engine", "tools", "user", "reward", "logprob", "returned"}
    /\ p.at \in {"engine", "tools", "user"} => p.open = q.open
    /\ p.at = "tools" => q.state = "tool_calling"
    /\ p.at \in {"engine", "user"} => q.state # "tool_calling"
    /\ p.at = "user" => InteractionOf[r] = "known"
    /\ p.at \notin {"engine", "tools", "user"} => p.open = Jobs("reward", r)
    /\ p.at \in {"logprob", "returned"} => ToolsOf[r] = {}

-----------------------------------------------------------------------------
(* The operators on streams, applied to a task.                            *)

\* Appending tokens that are learned exactly if the model wrote them.
LEMMA UpdateSound ==
    ASSUME NEW q, Sound(q), NEW kind \in Kinds, NEW n \in Nat, NEW learned \in {0, 1},
           learned = 1 <=> kind = "asst"
    PROVE  LET p == UpdateInputIds(q, kind, n, learned)
           IN  Sound(p) /\ SameControl(p, q) /\ p.ids = q.ids \o Copies(n, kind)
  <1> DEFINE p == UpdateInputIds(q, kind, n, learned)
  <1>1. Masks(q.loss \o Copies(n, learned), q.ids \o Copies(n, kind))
    BY MasksAppend DEF Sound
  <1>2. /\ p.ids = q.ids \o Copies(n, kind) /\ p.loss = q.loss \o Copies(n, learned)
        /\ SameControl(p, q)
    BY DEF Sound, Task, UpdateInputIds, SameControl
  <1>3. p \in Task
    BY <1>1 DEF Sound, Task, UpdateInputIds, Masks
  <1> QED BY <1>1, <1>2, <1>3 DEF Sound, SameControl

\* Replacing stream and mask by a pair that still matches.
LEMMA CutSound ==
    ASSUME NEW q, Sound(q), NEW ids, NEW loss, Masks(loss, ids)
    PROVE  LET p == [q EXCEPT !.ids = ids, !.loss = loss]
           IN  Sound(p) /\ SameControl(p, q)
  BY DEF Sound, Task, Masks, SameControl

\* Removing a dangling generation prompt.
LEMMA WithoutGenerationPromptSound ==
    ASSUME NEW q, Sound(q)
    PROVE  LET p == WithoutGenerationPrompt(q)
           IN  Sound(p) /\ SameControl(p, q)
  <1>1. CASE EndsWithGenerationPrompt(q)
    <2>1. Len(q.ids) - 1 \in 0..Len(q.ids) /\ Len(q.loss) = Len(q.ids)
      BY <1>1 DEF Sound, Masks, EndsWithGenerationPrompt
    <2>2. Masks(SubSeq(q.loss, 1, Len(q.loss) - 1), SubSeq(q.ids, 1, Len(q.ids) - 1))
      BY <2>1, MasksPrefix DEF Sound
    <2> QED BY <1>1, <2>2, CutSound DEF WithoutGenerationPrompt
  <1>2. CASE ~EndsWithGenerationPrompt(q)
    BY <1>2 DEF WithoutGenerationPrompt, SameControl
  <1> QED BY <1>1, <1>2

\* What a sequence of length 1 adds to another.
LEMMA OneMoreAtEnd ==
    ASSUME NEW S, NEW s \in Seq(S), NEW t \in Seq(S), Len(t) = 1
    PROVE  Len(s \o t) = Len(s) + 1 /\ (s \o t)[Len(s) + 1] = t[1]
  <1>1. /\ Len(s \o t) = Len(s) + Len(t)
        /\ \A i \in 1 .. Len(s) + Len(t) : (s \o t)[i] = IF i <= Len(s) THEN s[i] ELSE t[i - Len(s)]
    BY ConcatProperties
  <1>2. Len(s) \in Nat
    OBVIOUS
  <1> QED BY <1>1, <1>2

\* Appending the generation prompt makes it the stream's end.
LEMMA WithGenerationPromptSound ==
    ASSUME NEW q, Sound(q)
    PROVE  LET p == WithGenerationPrompt(q)
           IN  Sound(p) /\ SameControl(p, q) /\ EndsWithGenerationPrompt(p)
  <1> DEFINE p == UpdateInputIds(q, "gen", 1, 0)
  <1>1. CASE EndsWithGenerationPrompt(q)
    BY <1>1 DEF WithGenerationPrompt, SameControl
  <1>2. CASE ~EndsWithGenerationPrompt(q)
    <2>0. "gen" \in Kinds
      BY DEF Kinds
    <2>1. Sound(p) /\ SameControl(p, q) /\ p.ids = q.ids \o Copies(1, "gen")
      BY <2>0, UpdateSound
    <2>2. /\ Copies(1, "gen") \in Seq(Kinds) /\ Len(Copies(1, "gen")) = 1
          /\ Copies(1, "gen")[1] = "gen"
      BY <2>0 DEF Copies
    <2>3. q.ids \in Seq(Kinds)
      BY DEF Sound, Masks
    <2>4. Len(p.ids) = Len(q.ids) + 1 /\ p.ids[Len(q.ids) + 1] = "gen"
      <3> DEFINE g == Copies(1, "gen")
      <3>1. g \in Seq(Kinds) /\ Len(g) = 1 /\ g[1] = "gen"
        BY <2>2
      <3> HIDE DEF g
      <3>2. q.ids \in Seq(Kinds) => Len(q.ids \o g) = Len(q.ids) + 1 /\ (q.ids \o g)[Len(q.ids) + 1] = "gen"
        BY <3>1, OneMoreAtEnd, Zenon
      <3> QED BY <2>1, <2>3, <3>2 DEF g
    <2> QED BY <1>2, <2>1, <2>3, <2>4 DEF WithGenerationPrompt, EndsWithGenerationPrompt
  <1> QED BY <1>1, <1>2

\* Appending the tools' answers.
LEMMA AddToolResponseMessagesSound ==
    ASSUME NEW q, Sound(q), NEW n \in Nat
    PROVE  LET p == AddToolResponseMessages(q, n)
           IN  Sound(p) /\ SameControl(p, q)
  <1> DEFINE w == WithoutGenerationPrompt(q)
  <1>1. Sound(w) /\ SameControl(w, q)
    BY WithoutGenerationPromptSound
  <1>2. Sound(UpdateInputIds(w, "tool", n, 0)) /\ SameControl(UpdateInputIds(w, "tool", n, 0), w)
    BY <1>1, UpdateSound DEF Kinds
  <1> QED BY <1>1, <1>2 DEF AddToolResponseMessages, SameControl

\* The cut that ends a trajectory.
LEMMA FinalizedSound ==
    ASSUME NEW q, Sound(q)
    PROVE  LET p == Finalized(q, StreamCap)
           IN  Sound(p) /\ SameControl(p, q) /\ Len(p.ids) <= MaxModelLen
  <1> DEFINE w == WithoutGenerationPrompt(q)
  <1>1. Sound(w) /\ SameControl(w, q)
    BY WithoutGenerationPromptSound
  <1>2. Masks(FirstN(w.loss, StreamCap), FirstN(w.ids, StreamCap))
    BY <1>1, MasksFirstN, ConfigAssumption DEF Sound, StreamCap
  <1>2a. Len(FirstN(w.ids, StreamCap)) <= MaxModelLen
    <2>1. w.ids \in Seq(Kinds) /\ StreamCap \in Nat /\ StreamCap <= MaxModelLen
      BY <1>1, ConfigAssumption DEF Sound, Masks, StreamCap
    <2> HIDE DEF w
    <2>2. Len(FirstN(w.ids, StreamCap)) <= StreamCap /\ Len(FirstN(w.ids, StreamCap)) \in Nat
      BY <2>1, FirstNSeq
    <2> QED BY <2>1, <2>2, ConfigAssumption
  <1> HIDE DEF w
  <1>3. LET p == [w EXCEPT !.ids = FirstN(w.ids, StreamCap), !.loss = FirstN(w.loss, StreamCap)]
        IN  Sound(p) /\ SameControl(p, w) /\ p.ids = FirstN(w.ids, StreamCap)
    BY <1>1, <1>2, CutSound DEF Sound, Task
  <1> QED BY <1>1, <1>2a, <1>3 DEF Finalized, SameControl, w

-----------------------------------------------------------------------------
(* The operators on control.                                               *)

\* finalize, with a reason it supports, leaves a task that waits for nothing
\* but its log-probabilities.
LEMMA FinishSound ==
    ASSUME NEW q, Sound(q), q.finish \in {"stop", "length"}
    PROVE  LET p == Finish(q)
           IN  TaskInv(p) /\ p.at \in {"logprob", "returned"} /\ p.open = q.open
  <1> DEFINE f == Finalized(q, StreamCap)
             g == [f EXCEPT !.state = "completed"]
             at == IF CalculateLogProbs THEN "logprob" ELSE "returned"
  <1>1. Sound(f) /\ SameControl(f, q) /\ Len(f.ids) <= MaxModelLen
    BY FinalizedSound
  <1>2. Finish(q) = [g EXCEPT !.at = at]
    BY DEF Finish
  <1> HIDE DEF f
  <1>3. Sound([g EXCEPT !.at = at])
    BY <1>1 DEF Sound, Task, States, Running, Finished
  <1>4. /\ [g EXCEPT !.at = at].at = at /\ [g EXCEPT !.at = at].open = q.open
        /\ [g EXCEPT !.at = at].ids = f.ids
    BY <1>1 DEF Sound, Task, SameControl
  <1> QED BY <1>1, <1>2, <1>3, <1>4 DEF TaskInv, AtAwait

\* Without children to wait for there are no tools.
LEMMA NoJobsNoTools ==
    ASSUME NEW r, NEW op, Jobs(op, r) = {}
    PROVE  ToolsOf[r] = {}
  <1> SUFFICES ASSUME NEW t \in ToolsOf[r] PROVE FALSE
    OBVIOUS
  <1>1. [op |-> op, index |-> 0, tool |-> t] \in Jobs(op, r)
    BY DEF Jobs
  <1> QED BY <1>1

\* The children of a gather are jobs.
LEMMA JobsType ==
    ASSUME NEW r \in Reqs, NEW op \in {"create", "execute", "reward"}
    PROVE  Jobs(op, r) \subseteq Job
  BY RequestAssumption, ConfigAssumption DEF Jobs, Job

\* Leaving the loop starts the rewards, or ends the task when there are none.
LEMMA LeaveLoopSound ==
    ASSUME NEW r \in Reqs, NEW q, Sound(q),
           ~TurnsLeft(q) \/ q.finish \in {"stop", "length"}
    PROVE  SuspendedFrom(r, q, LeaveLoop(r, q))
  <1> DEFINE s == [q EXCEPT !.finish = FinishReason(q), !.open = Jobs("reward", r)]
  <1>1. FinishReason(q) \in {"stop", "length"}
    BY DEF FinishReason
  <1>2. Sound(s) /\ s.finish \in {"stop", "length"} /\ s.open = Jobs("reward", r)
    BY <1>1, JobsType DEF Sound, Task, Reasons
  <1>3. CASE s.open = {}
    <2>1. LeaveLoop(r, q) = Finish(s)
      BY <1>3 DEF LeaveLoop
    <2>2. ToolsOf[r] = {}
      BY <1>2, <1>3, NoJobsNoTools
    <2> HIDE DEF s
    <2> QED BY <1>2, <2>1, <2>2, FinishSound DEF SuspendedFrom
  <1>4. CASE s.open # {}
    <2>1. LeaveLoop(r, q) = [s EXCEPT !.at = "reward"]
      BY <1>4 DEF LeaveLoop
    <2> HIDE DEF s
    <2>2. Sound([s EXCEPT !.at = "reward"])
      BY <1>2 DEF Sound, Task, Running
    <2>3. /\ [s EXCEPT !.at = "reward"].at = "reward"
          /\ [s EXCEPT !.at = "reward"].finish \in {"stop", "length"}
          /\ [s EXCEPT !.at = "reward"].open = Jobs("reward", r)
      BY <1>2 DEF Sound, Task
    <2> QED BY <2>1, <2>2, <2>3 DEF SuspendedFrom, TaskInv, AtAwait
  <1> QED BY <1>3, <1>4

\* A task that is not out of turns asks the engine within its budget or leaves.
LEMMA CallEngineSound ==
    ASSUME NEW r \in Reqs, NEW q, Sound(q), TurnsLeft(q), EndsWithGenerationPrompt(q),
           q.state # "tool_calling"
    PROVE  SuspendedFrom(r, q, CallEngine(r, q))
  <1>1. CASE PromptTooLong(q)
    <2> DEFINE l == [q EXCEPT !.finish = "length"]
    <2>1. Sound(l) /\ l.finish = "length" /\ l.state = q.state /\ l.open = q.open
      BY DEF Sound, Task, Reasons
    <2>2. CallEngine(r, q) = LeaveLoop(r, l)
      BY <1>1 DEF CallEngine
    <2> HIDE DEF l
    <2>3. SuspendedFrom(r, l, LeaveLoop(r, l))
      BY <2>1, LeaveLoopSound
    <2> QED BY <2>1, <2>2, <2>3 DEF SuspendedFrom
  <1>2. CASE ~PromptTooLong(q)
    <2> DEFINE e == [q EXCEPT !.at = "engine"]
    <2>1. CallEngine(r, q) = e
      BY <1>2 DEF CallEngine
    <2>2. Sound(e) /\ e.at = "engine" /\ e.open = q.open
      BY DEF Sound, Task, Running
    <2>3. TurnsLeft(e) /\ EndsWithGenerationPrompt(e) /\ ~PromptTooLong(e)
      BY <1>2 DEF Sound, Task, TurnsLeft, EndsWithGenerationPrompt, PromptTooLong
    <2> QED BY <2>1, <2>2, <2>3 DEF SuspendedFrom, TaskInv, AtAwait
  <1> QED BY <1>1, <1>2

\* One more turn of the loop ends at an await that suits the task's state.
LEMMA ContinueSound ==
    ASSUME NEW r \in Reqs, NEW q, Sound(q),
           q.state \in {"running", "tool_calling", "interacting"},
           q.state = "interacting" => /\ q.userTurns < MaxUserTurns /\ q.userTurns < q.turns
                                      /\ InteractionOf[r] = "known"
    PROVE  SuspendedFrom(r, q, Continue(r, q))
  <1>1. CASE ~TurnsLeft(q)
    BY <1>1, LeaveLoopSound DEF Continue
  <1>2. CASE TurnsLeft(q) /\ q.state = "tool_calling"
    <2> DEFINE p == [q EXCEPT !.at = "tools"]
    <2>1. Continue(r, q) = p
      BY <1>2 DEF Continue
    <2>2. Sound(p) /\ p.at = "tools" /\ p.open = q.open /\ TurnsLeft(p)
      BY <1>2 DEF Sound, Task, Running, TurnsLeft
    <2> QED BY <1>2, <2>1, <2>2 DEF SuspendedFrom, TaskInv, AtAwait
  <1>3. CASE TurnsLeft(q) /\ q.state = "interacting"
    <2> DEFINE p == [q EXCEPT !.at = "user", !.userTurns = @ + 1]
    <2>1. Continue(r, q) = p
      BY <1>3 DEF Continue, CallUser
    <2>2. /\ p.at = "user" /\ p.open = q.open /\ p.turns = q.turns
          /\ p.userTurns = q.userTurns + 1 /\ p.ids = q.ids /\ p.loss = q.loss
      BY DEF Sound, Task
    <2>3. p \in Task
      <3> DEFINE n == q.userTurns + 1
      <3>1. n \in Nat
        BY DEF Sound, Task
      <3> HIDE DEF n
      <3>2. [q EXCEPT !.at = "user", !.userTurns = n] \in Task
        BY <3>1 DEF Sound, Task, Running
      <3> QED BY <3>2 DEF n
    <2>4. p.userTurns <= MaxUserTurns /\ p.userTurns <= p.turns
      BY <1>3, <2>2, ConfigAssumption DEF Sound, Task
    <2>5. Sound(p) /\ TurnsLeft(p)
      BY <1>3, <2>2, <2>3, <2>4 DEF Sound, TurnsLeft
    <2> QED BY <1>3, <2>1, <2>2, <2>5 DEF SuspendedFrom, TaskInv, AtAwait
  <1>4. CASE TurnsLeft(q) /\ q.state = "running"
    <2> DEFINE g == WithGenerationPrompt(q)
    <2>1. Sound(g) /\ SameControl(g, q) /\ EndsWithGenerationPrompt(g)
      BY WithGenerationPromptSound
    <2>2. Continue(r, q) = CallEngine(r, g)
      BY <1>4 DEF Continue
    <2> HIDE DEF g
    <2>3. SuspendedFrom(r, g, CallEngine(r, g))
      BY <1>4, <2>1, CallEngineSound DEF SameControl, TurnsLeft
    <2> QED BY <2>1, <2>2, <2>3 DEF SuspendedFrom, SameControl
  <1> QED BY <1>1, <1>2, <1>3, <1>4
-----------------------------------------------------------------------------
(* The inductive invariant.                                                *)

\* One request, its task q and the tools' instances: the jobs still open are
\* those of the gather it waits for, or that it failed in, and a tool has an
\* instance of it exactly from the job that creates it to the job that releases
\* it.
Owned(r, q, inst) ==
    /\ \A t \in Tools : r \in inst[t] => t \in ToolsOf[r]
    /\ \A i, j \in q.open : i.op = j.op
    /\ \A j \in q.open :
          /\ j.op # "execute" => j \in Jobs(j.op, r)
          /\ j.tool \in ToolsOf[r] => (j.op = "create" <=> r \notin inst[j.tool])
    /\ q.at = "spawned" => \A t \in Tools : r \notin inst[t]
    /\ q.at = "create" =>
          /\ \A j \in q.open : j.op = "create"
          /\ \A t \in ToolsOf[r] :
                r \in inst[t] \/ [op |-> "create", index |-> 0, tool |-> t] \in q.open
    /\ q.at \in {"start", "engine", "tools", "user"} =>
          /\ \A t \in ToolsOf[r] : r \in inst[t]
          /\ InteractionOf[r] # "missing"
    /\ q.at = "user" => InteractionOf[r] = "known"
    /\ q.at \in {"spawned", "start", "engine", "user", "logprob", "returned", "padded"}
          => q.open = {}
    /\ q.at = "tools" => \A j \in q.open : j.op = "execute"
    /\ q.at = "reward" =>
          /\ \A j \in q.open : j.op = "reward"
          /\ \A t \in ToolsOf[r] :
                r \in inst[t] => [op |-> "reward", index |-> 0, tool |-> t] \in q.open
    /\ q.at \in {"logprob", "returned"} => \A t \in Tools : r \notin inst[t]
    /\ q.at = "failed" => q.error \in Outside(r)
    /\ q.at = "padded" => Len(q.ids) = PromptLen[r]

\* A request that talks to an interaction has a session there from the first
\* turn on.
HasSession(r, q, sess) ==
    q.at \in {"engine", "tools", "user"} /\ InteractionOf[r] = "known" => r \in sess

ReqInv(r, q, inst) == TaskInv(q) /\ Owned(r, q, inst)

VarTypes ==
    /\ task \in [Reqs -> Task]
    /\ instances \in [Tools -> SUBSET Reqs]
    /\ sessions \subseteq Reqs /\ inflight \subseteq Reqs /\ cancelled \subseteq Reqs
    /\ doneQ \in Seq(Reqs)
    /\ consumed \in 0..Len(doneQ)
    /\ phase \in Phases

\* What the collector's phase says of the tasks.
CollectorInv ==
    /\ Validate =>
          /\ cancelled = {}
          /\ phase \in {"collect", "assemble", "flush", "returned", "raised"}
    /\ phase \in {"abort", "abort_fail", "assemble", "flush", "returned"} => Unfinished = {}
    /\ phase \in {"flush", "returned"} => ~CannotAssemble
    /\ phase \in {"fail", "abort_fail"} => With("failed") # {}

IInv ==
    /\ VarTypes
    /\ \A r \in Reqs : ReqInv(r, task[r], instances)
    /\ \A r \in Reqs : HasSession(r, task[r], sessions)
    /\ CollectorInv

-----------------------------------------------------------------------------
(* Steps that suspend a request at its next await.                         *)

\* A task that has not begun, and the padding of a cancelled one.
LEMMA FreshReqInv ==
    ASSUME NEW r \in Reqs, NEW inst, \A t \in Tools : r \in inst[t] => t \in ToolsOf[r]
    PROVE  ReqInv(r, PaddingTask(r), inst) /\ Sound(FreshTask(r)) /\ AtAwait(FreshTask(r))
  <1> DEFINE ids == InitialStream(PromptLen[r]).ids
             loss == InitialStream(PromptLen[r]).loss
  <1>1. Masks(loss, ids)
    BY MasksInitial, RequestAssumption
  <1>1a. Len(ids) = PromptLen[r]
    BY PromptStream, RequestAssumption DEF InitialStream
  <1> HIDE DEF ids, loss
  <1>2. FreshTask(r) =
          [at |-> "spawned", state |-> "pending", finish |-> "none", error |-> "none",
           ids |-> ids, loss |-> loss, turns |-> 0, userTurns |-> 0, open |-> {}]
    BY DEF FreshTask, ids, loss
  <1>3. Sound(FreshTask(r)) /\ AtAwait(FreshTask(r))
    BY <1>1, <1>2, ConfigAssumption
       DEF Sound, AtAwait, Task, Running, Finished, States, Reasons, Errors, Masks
  <1>4. LET p == PaddingTask(r)
        IN  /\ p.at = "padded" /\ p.open = {} /\ p.turns = 0 /\ p.userTurns = 0
            /\ p.ids = ids /\ p.loss = loss /\ p \in Task
    <2> DEFINE f == FreshTask(r)
    <2>1. /\ f \in Task /\ f.open = {} /\ f.turns = 0 /\ f.userTurns = 0
          /\ f.ids = ids /\ f.loss = loss
      BY <1>2, <1>3 DEF Sound
    <2>2. PaddingTask(r) = [f EXCEPT !.at = "padded", !.state = "completed"]
      BY DEF PaddingTask
    <2> HIDE DEF f
    <2> QED BY <2>1, <2>2 DEF Task, Finished, States
  <1>5. TaskInv(PaddingTask(r))
    BY <1>1, <1>4, ConfigAssumption DEF TaskInv, Sound, AtAwait
  <1>6. Owned(r, PaddingTask(r), inst)
    BY <1>1a, <1>4 DEF Owned
  <1> QED BY <1>3, <1>5, <1>6 DEF ReqInv

\* Suspending a request in a sound state disturbs no other request.
LEMMA SuspendStep ==
    ASSUME IInv, NEW r \in Reqs, NEW q, Suspend(r, q), ReqInv(r, q, instances),
           HasSession(r, q, sessions'), sessions \subseteq sessions', sessions' \subseteq Reqs,
           task[r].at \in Running, phase \in {"collect", "drain", "fail"},
           UNCHANGED instances, UNCHANGED Collector
    PROVE  IInv'
  <1>1. q \in Task /\ task' = [task EXCEPT ![r] = q] /\ task' \in [Reqs -> Task]
    BY DEF IInv, VarTypes, Suspend, ReqInv, TaskInv, Sound
  <1>2. /\ inflight' \subseteq Reqs /\ doneQ' \in Seq(Reqs)
        /\ Len(doneQ') \in Nat /\ Len(doneQ) <= Len(doneQ')
    BY DEF IInv, VarTypes, Suspend
  <1>3. VarTypes'
    BY <1>1, <1>2 DEF IInv, VarTypes, Collector
  <1>4. ASSUME NEW s \in Reqs PROVE ReqInv(s, task'[s], instances')
    BY <1>1 DEF IInv, VarTypes
  <1>5. ASSUME NEW s \in Reqs PROVE HasSession(s, task'[s], sessions')
    BY <1>1 DEF IInv, VarTypes, HasSession
  <1>6. CollectorInv'
    <2>1. /\ phase' = phase /\ cancelled' = cancelled
          /\ phase' \notin {"abort", "abort_fail", "assemble", "flush", "returned", "raised"}
      BY DEF Collector
    <2>2. With("failed") # {} => With("failed")' # {}
      <3>1. task[r].at # "failed"
        BY DEF Running
      <3> QED BY <1>1, <3>1 DEF With, IInv, VarTypes
    <2> QED BY <2>1, <2>2 DEF IInv, CollectorInv
  <1> QED BY <1>3, <1>4, <1>5, <1>6 DEF IInv

\* While a request talks it keeps its session.
LEMMA SessionKept ==
    ASSUME IInv, NEW r \in Reqs, task[r].at \in {"engine", "tools", "user"},
           UNCHANGED sessions, NEW q
    PROVE  /\ HasSession(r, q, sessions')
           /\ sessions \subseteq sessions' /\ sessions' \subseteq Reqs
  BY DEF IInv, VarTypes, HasSession

\* An exception that is not the rollout's own ends a task.
LEMMA FailedReqInv ==
    ASSUME NEW r \in Reqs, NEW q, NEW inst, ReqInv(r, q, inst), NEW e \in Errors,
           e \in Outside(r)
    PROVE  ReqInv(r, Failed(q, e), inst) /\ Failed(q, e).at = "failed"
  <1> DEFINE f == Failed(q, e)
  <1>1. /\ f \in Task /\ f.at = "failed" /\ f.error = e /\ f.open = q.open
        /\ f.ids = q.ids /\ f.loss = q.loss /\ f.turns = q.turns /\ f.userTurns = q.userTurns
    BY DEF Failed, ReqInv, TaskInv, Sound, Task, Finished
  <1> HIDE DEF f
  <1>2. TaskInv(f)
    BY <1>1 DEF ReqInv, TaskInv, Sound, AtAwait
  <1>3. Owned(r, f, inst)
    BY <1>1 DEF ReqInv, Owned
  <1> QED BY <1>1, <1>2, <1>3 DEF ReqInv, f

\* The loop has run from q to its next await, while the tools kept their
\* instances of the request.
LEMMA SuspendedOwned ==
    ASSUME NEW r \in Reqs, NEW q, NEW p, NEW inst, SuspendedFrom(r, q, p),
           \A t \in Tools : r \in inst[t] <=> t \in ToolsOf[r],
           q.state # "tool_calling" => q.open = {},
           \A j \in q.open : j.op = "execute", InteractionOf[r] # "missing"
    PROVE  ReqInv(r, p, inst)
  <1>1. TaskInv(p) /\ ToolsOf[r] \subseteq Tools
    BY RequestAssumption DEF SuspendedFrom
  <1>2. CASE p.at \in {"engine", "user"}
    BY <1>1, <1>2 DEF SuspendedFrom, ReqInv, Owned
  <1>3. CASE p.at = "tools"
    BY <1>1, <1>3 DEF SuspendedFrom, ReqInv, Owned
  <1>4. CASE p.at = "reward"
    <2>1. p.open = Jobs("reward", r)
      BY <1>4 DEF SuspendedFrom
    <2>2. /\ \A j \in p.open : j.op = "reward" /\ j.tool \in ToolsOf[r]
          /\ \A t \in ToolsOf[r] : [op |-> "reward", index |-> 0, tool |-> t] \in p.open
      BY <2>1 DEF Jobs
    <2> QED BY <1>1, <1>4, <2>1, <2>2 DEF ReqInv, Owned
  <1>5. CASE p.at \in {"logprob", "returned"}
    <2>1. ToolsOf[r] = {} /\ p.open = Jobs("reward", r)
      BY <1>5 DEF SuspendedFrom
    <2>2. p.open = {}
      BY <2>1 DEF Jobs
    <2> QED BY <1>1, <1>5, <2>1, <2>2 DEF ReqInv, Owned
  <1> QED BY <1>2, <1>3, <1>4, <1>5 DEF SuspendedFrom

\* The loop runs on in state "running" with no job open.
LEMMA RunOn ==
    ASSUME NEW r \in Reqs, NEW q, Sound(q), q.open = {}, NEW inst,
           InteractionOf[r] # "missing",
           \A t \in Tools : r \in inst[t] <=> t \in ToolsOf[r]
    PROVE  ReqInv(r, Continue(r, [q EXCEPT !.state = "running"]), inst)
  <1> DEFINE p == [q EXCEPT !.state = "running"]
  <1>1. Sound(p) /\ p.state = "running" /\ p.open = {}
    BY DEF Sound, Task, States
  <1> HIDE DEF p
  <1>2. SuspendedFrom(r, p, Continue(r, p))
    BY <1>1, ContinueSound
  <1>3. ReqInv(r, Continue(r, p), inst)
    BY <1>1, <1>2, SuspendedOwned
  <1> QED BY <1>3 DEF p

\* What follows the creation of the tools.  A request that goes straight on has
\* no interaction.
LEMMA AfterCreationReqInv ==
    ASSUME NEW r \in Reqs, NEW q, Sound(q), q.open = {}, NEW inst,
           \A t \in Tools : r \in inst[t] <=> t \in ToolsOf[r]
    PROVE  /\ ReqInv(r, AfterCreation(r, q), inst)
           /\ \A sess : HasSession(r, AfterCreation(r, q), sess)
  <1>1. CASE InteractionOf[r] = "known"
    <2> DEFINE p == [q EXCEPT !.at = "start"]
    <2>1. AfterCreation(r, q) = p
      BY <1>1 DEF AfterCreation
    <2>2. Sound(p) /\ p.at = "start" /\ p.open = {}
      BY DEF Sound, Task, Running
    <2>3. ToolsOf[r] \subseteq Tools
      BY RequestAssumption
    <2> QED BY <1>1, <2>1, <2>2, <2>3 DEF ReqInv, TaskInv, AtAwait, Owned, HasSession
  <1>2. CASE InteractionOf[r] = "none"
    <2>1. AfterCreation(r, q) = Continue(r, [q EXCEPT !.state = "running"])
      BY <1>2 DEF AfterCreation
    <2> QED BY <1>2, <2>1, RunOn DEF HasSession
  <1>3. CASE InteractionOf[r] = "missing"
    <2> DEFINE p == Failed(q, "no_interaction")
    <2>1. AfterCreation(r, q) = p
      BY <1>3 DEF AfterCreation
    <2>2. Sound(p) /\ p.at = "failed" /\ p.open = {} /\ p.error = "no_interaction"
      BY DEF Sound, Task, Finished, Errors, Failed
    <2>3. "no_interaction" \in Outside(r)
      BY <1>3 DEF Outside
    <2> QED BY <2>1, <2>2, <2>3 DEF ReqInv, TaskInv, AtAwait, Owned, HasSession
  <1> QED BY <1>1, <1>2, <1>3, RequestAssumption

\* A reply to the engine call: the stream grows by an assistant message.
LEMMA AnsweredSound ==
    ASSUME IInv, NEW r \in Reqs, task[r].at = "engine", NEW n \in MessageLens(r)
    PROVE  /\ Sound(Answered(r, n)) /\ Answered(r, n).open = {}
           /\ Answered(r, n).userTurns < Answered(r, n).turns
  <1> DEFINE q == AddAssistantMessage(task[r], n)
             k == q.turns + 1
  <1>1. Sound(task[r]) /\ TurnsLeft(task[r]) /\ task[r].open = {}
    BY DEF IInv, ReqInv, TaskInv, AtAwait, Owned
  <1>2. n \in Nat
    BY RequestAssumption DEF MessageLens
  <1>3. Sound(q) /\ SameControl(q, task[r])
    BY <1>1, <1>2, UpdateSound DEF AddAssistantMessage, Kinds
  <1>4. Answered(r, n) = [q EXCEPT !.turns = k]
    BY DEF Answered
  <1>5. k \in Nat /\ k <= MaxAssistantTurns /\ q.userTurns < k /\ q.userTurns <= k
    BY <1>1, <1>3, ConfigAssumption DEF Sound, Task, SameControl, TurnsLeft
  <1> HIDE DEF q, k
  <1> DEFINE p == [q EXCEPT !.turns = k]
  <1>6. q \in Task
    BY <1>3 DEF Sound
  <1>7. /\ p \in Task /\ p.open = q.open /\ p.turns = k /\ p.userTurns = q.userTurns
        /\ p.ids = q.ids /\ p.loss = q.loss
    BY <1>5, <1>6 DEF Task
  <1> HIDE DEF p
  <1>8. Sound(p)
    BY <1>3, <1>5, <1>7 DEF Sound
  <1> QED BY <1>1, <1>3, <1>4, <1>5, <1>7, <1>8 DEF SameControl, p

\* While a request waits at one of these awaits, exactly its tools have an
\* instance of it.
LEMMA ToolsAreThere ==
    ASSUME IInv, NEW r \in Reqs,
           \/ task[r].at \in {"start", "engine", "tools", "user"}
           \/ task[r].at = "create" /\ task[r].open = {}
    PROVE  /\ \A t \in Tools : r \in instances[t] <=> t \in ToolsOf[r]
           /\ task[r].at # "create" => InteractionOf[r] # "missing"
  BY DEF IInv, ReqInv, Owned

-----------------------------------------------------------------------------
(* One lemma per action.                                                   *)

\* The coroutine begins and creates its tools.
LEMMA StartTaskInv ==
    ASSUME IInv, NEW r \in Reqs, StartTask(r) PROVE IInv'
  <1> DEFINE q == IF ToolsOf[r] = {} THEN AfterCreation(r, task[r])
                  ELSE [task[r] EXCEPT !.at = "create", !.open = Jobs("create", r)]
  <1>1. /\ Sound(task[r]) /\ task[r].at = "spawned" /\ task[r].open = {}
        /\ task[r].state = "pending"
        /\ \A t \in Tools : r \notin instances[t]
    BY DEF IInv, ReqInv, TaskInv, AtAwait, Owned, StartTask, Resumes
  <1>2. ReqInv(r, q, instances) /\ HasSession(r, q, sessions)
    <2>1. CASE ToolsOf[r] = {}
      BY <1>1, <2>1, AfterCreationReqInv
    <2>2. CASE ToolsOf[r] # {}
      <3>1. q = [task[r] EXCEPT !.at = "create", !.open = Jobs("create", r)]
        BY <2>2
      <3>2. /\ Sound(q) /\ q.at = "create" /\ q.open = Jobs("create", r)
            /\ q.state = "pending"
        BY <1>1, <3>1, JobsType DEF Sound, Task, Running
      <3> HIDE DEF q
      <3>3. /\ \A j \in q.open : j.op = "create" /\ j.tool \in ToolsOf[r]
            /\ \A t \in ToolsOf[r] : [op |-> "create", index |-> 0, tool |-> t] \in q.open
            /\ ToolsOf[r] \subseteq Tools
        BY <3>2, RequestAssumption DEF Jobs
      <3> QED BY <1>1, <3>2, <3>3 DEF ReqInv, TaskInv, AtAwait, Owned, HasSession
    <2> QED BY <2>1, <2>2
  <1>3. Suspend(r, q)
    BY DEF StartTask
  <1> HIDE DEF q
  <1> QED BY <1>1, <1>2, <1>3, SuspendStep
          DEF StartTask, Resumes, Running, Collector, IInv, VarTypes

\* Every tool has an instance.
LEMMA ToolsCreatedInv ==
    ASSUME IInv, NEW r \in Reqs, ToolsCreated(r) PROVE IInv'
  <1>1. PICK n \in CreationLens :
            Suspend(r, AfterCreation(r, AddToolResponseMessages(task[r], n)))
    BY DEF ToolsCreated
  <1> DEFINE p == AddToolResponseMessages(task[r], n)
  <1>2. Sound(task[r]) /\ task[r].at = "create" /\ task[r].open = {} /\ n \in Nat
    BY RequestAssumption DEF IInv, ReqInv, TaskInv, ToolsCreated, Resumes
  <1>3. Sound(p) /\ p.open = {}
    BY <1>2, AddToolResponseMessagesSound DEF SameControl
  <1> HIDE DEF p
  <1>4. ReqInv(r, AfterCreation(r, p), instances) /\ HasSession(r, AfterCreation(r, p), sessions)
    BY <1>2, <1>3, ToolsAreThere, AfterCreationReqInv
  <1>5. Suspend(r, AfterCreation(r, p))
    BY <1>1 DEF p
  <1> QED BY <1>2, <1>4, <1>5, SuspendStep
          DEF ToolsCreated, Resumes, Running, Collector, IInv, VarTypes

\* The interaction has its session.
LEMMA InteractionStartedInv ==
    ASSUME IInv, NEW r \in Reqs, InteractionStarted(r) PROVE IInv'
  <1>1. Sound(task[r]) /\ task[r].at = "start" /\ task[r].open = {}
    BY DEF IInv, ReqInv, TaskInv, Owned, InteractionStarted, Resumes
  <1>2. ReqInv(r, Continue(r, [task[r] EXCEPT !.state = "running"]), instances)
    BY <1>1, ToolsAreThere, RunOn
  <1>3. sessions' \subseteq Reqs /\ sessions \subseteq sessions' /\ r \in sessions'
    BY DEF InteractionStarted, IInv, VarTypes
  <1> DEFINE p == Continue(r, [task[r] EXCEPT !.state = "running"])
  <1>4. HasSession(r, p, sessions')
    BY <1>3 DEF HasSession
  <1>5. Suspend(r, p)
    BY DEF InteractionStarted
  <1> HIDE DEF p
  <1> QED BY <1>1, <1>2, <1>3, <1>4, <1>5, SuspendStep
          DEF InteractionStarted, Resumes, Running, Collector, p

\* The interaction raises: on its own account, for it finds its session.
LEMMA InteractionRaisesInv ==
    ASSUME IInv, NEW r \in Reqs, InteractionRaises(r) PROVE IInv'
  <1> DEFINE e == IF task[r].at = "start" \/ r \in sessions THEN "interaction" ELSE "no_session"
             p == Failed(task[r], e)
  <1>1. /\ ReqInv(r, task[r], instances) /\ HasSession(r, task[r], sessions)
        /\ task[r].at \in {"start", "user"}
    BY DEF IInv, InteractionRaises, Resumes
  <1>2. task[r].at = "user" => r \in sessions
    BY <1>1 DEF ReqInv, Owned, HasSession
  <1>3. e = "interaction" /\ "interaction" \in Faults
    BY <1>1, <1>2 DEF InteractionRaises, Resumes
  <1>4. e \in Errors /\ e \in Outside(r)
    BY <1>3 DEF Errors, Outside
  <1>5. Suspend(r, p)
    BY DEF InteractionRaises
  <1> HIDE DEF e
  <1>6. ReqInv(r, p, instances) /\ p.at = "failed"
    BY <1>1, <1>4, FailedReqInv
  <1> HIDE DEF p
  <1>7. HasSession(r, p, sessions')
    BY <1>6 DEF HasSession
  <1> QED BY <1>1, <1>5, <1>6, <1>7, SuspendStep
          DEF InteractionRaises, Resumes, Running, Collector, IInv, VarTypes

\* The engine raises.
LEMMA EngineRaisesInv ==
    ASSUME IInv, NEW r \in Reqs, EngineRaises(r) PROVE IInv'
  <1> DEFINE p == Failed(task[r], "engine")
  <1>1. ReqInv(r, task[r], instances) /\ task[r].at \in {"engine", "logprob"}
    BY DEF IInv, EngineRaises, Resumes
  <1>2. "engine" \in Errors /\ "engine" \in Outside(r)
    BY DEF Errors, Outside, EngineRaises
  <1>3. Suspend(r, p)
    BY DEF EngineRaises
  <1>4. ReqInv(r, p, instances) /\ p.at = "failed"
    BY <1>1, <1>2, FailedReqInv
  <1> HIDE DEF p
  <1>5. HasSession(r, p, sessions')
    BY <1>4 DEF HasSession
  <1> QED BY <1>1, <1>3, <1>4, <1>5, SuspendStep
          DEF EngineRaises, Resumes, Running, Collector, IInv, VarTypes

\* All replies of the engine suspend the request in a state that keeps the
\* invariant.
LEMMA EngineAnswersInv ==
    ASSUME IInv, NEW r \in Reqs, EngineAnswers(r),
           NEW q, Suspend(r, q), ReqInv(r, q, instances)
    PROVE  IInv'
  <1>1. /\ task[r].at = "engine" /\ UNCHANGED <<instances, sessions>> /\ UNCHANGED Collector
        /\ phase \in {"collect", "drain", "fail"}
    BY DEF EngineAnswers, Resumes
  <1>2. /\ HasSession(r, q, sessions')
        /\ sessions \subseteq sessions' /\ sessions' \subseteq Reqs
    BY <1>1, SessionKept
  <1> QED BY <1>1, <1>2, SuspendStep DEF Running

\* The engine stopped at the token limit.
LEMMA ReplyCutOffInv ==
    ASSUME IInv, NEW r \in Reqs, ReplyCutOff(r) PROVE IInv'
  <1>1. task[r].at = "engine" /\ EngineAnswers(r)
    BY DEF ReplyCutOff, EngineAnswers, Resumes
  <1>2. PICK n \in MessageLens(r) :
            Suspend(r, LeaveLoop(r, [Answered(r, n) EXCEPT !.finish = "length"]))
    BY DEF ReplyCutOff
  <1> DEFINE p == [Answered(r, n) EXCEPT !.finish = "length"]
  <1>3. Sound(p) /\ p.finish = "length" /\ p.open = {}
    BY <1>1, AnsweredSound DEF Sound, Task, Reasons
  <1>4. Suspend(r, LeaveLoop(r, p))
    BY <1>2
  <1> HIDE DEF p
  <1>5. ReqInv(r, LeaveLoop(r, p), instances)
    BY <1>1, <1>3, LeaveLoopSound, SuspendedOwned, ToolsAreThere
  <1> QED BY <1>1, <1>4, <1>5, EngineAnswersInv

\* The engine's answer has a tool call that cannot be parsed.
LEMMA ReplyUndecodableInv ==
    ASSUME IInv, NEW r \in Reqs, ReplyUndecodable(r) PROVE IInv'
  <1>1. task[r].at = "engine" /\ EngineAnswers(r)
    BY DEF ReplyUndecodable, EngineAnswers, Resumes
  <1>2. PICK n \in MessageLens(r) :
            Suspend(r, LeaveLoop(r, [Answered(r, n) EXCEPT !.finish = "stop",
                                                           !.state = "completed"]))
    BY DEF ReplyUndecodable
  <1> DEFINE p == [Answered(r, n) EXCEPT !.finish = "stop", !.state = "completed"]
  <1>3. Sound(p) /\ p.finish = "stop" /\ p.open = {}
    BY <1>1, AnsweredSound DEF Sound, Task, Reasons, States
  <1>4. Suspend(r, LeaveLoop(r, p))
    BY <1>2
  <1> HIDE DEF p
  <1>5. ReqInv(r, LeaveLoop(r, p), instances)
    BY <1>1, <1>3, LeaveLoopSound, SuspendedOwned, ToolsAreThere
  <1> QED BY <1>1, <1>4, <1>5, EngineAnswersInv

\* The engine's answer calls tools.
LEMMA ReplyToolCallsInv ==
    ASSUME IInv, NEW r \in Reqs, ReplyToolCalls(r) PROVE IInv'
  <1>1. task[r].at = "engine" /\ EngineAnswers(r)
    BY DEF ReplyToolCalls, EngineAnswers, Resumes
  <1>2. PICK n \in MessageLens(r), k \in 1..MaxCalls : \E calls \in [1..k -> Tools] :
            Suspend(r, Continue(r,
              [Answered(r, n) EXCEPT
                  !.finish = "tool_calls", !.state = "tool_calling",
                  !.open = {[op |-> "execute", index |-> i, tool |-> calls[i]] : i \in 1..k}]))
    BY DEF ReplyToolCalls
  <1>3. PICK calls \in [1..k -> Tools] :
            Suspend(r, Continue(r,
              [Answered(r, n) EXCEPT
                  !.finish = "tool_calls", !.state = "tool_calling",
                  !.open = {[op |-> "execute", index |-> i, tool |-> calls[i]] : i \in 1..k}]))
    BY <1>2
  <1> DEFINE jobs == {[op |-> "execute", index |-> i, tool |-> calls[i]] : i \in 1..k}
             p == [Answered(r, n) EXCEPT
                     !.finish = "tool_calls", !.state = "tool_calling", !.open = jobs]
  <1>4. Suspend(r, Continue(r, p))
    BY <1>3
  <1>5. jobs \subseteq Job /\ \A j \in jobs : j.op = "execute"
    BY ConfigAssumption DEF Job
  <1> HIDE DEF jobs
  <1>6. Sound(p) /\ p.state = "tool_calling" /\ p.open = jobs
    BY <1>1, <1>5, AnsweredSound DEF Sound, Task, Reasons, States
  <1> HIDE DEF p
  <1>7. SuspendedFrom(r, p, Continue(r, p))
    BY <1>6, ContinueSound
  <1>8. ReqInv(r, Continue(r, p), instances)
    BY <1>1, <1>5, <1>6, <1>7, SuspendedOwned, ToolsAreThere
  <1> QED BY <1>1, <1>4, <1>8, EngineAnswersInv

\* The engine's answer is text.
LEMMA ReplyTextInv ==
    ASSUME IInv, NEW r \in Reqs, ReplyText(r) PROVE IInv'
  <1>1. task[r].at = "engine" /\ EngineAnswers(r)
    BY DEF ReplyText, EngineAnswers, Resumes
  <1> DEFINE q(n) == [Answered(r, n) EXCEPT !.finish = "stop"]
             talks(n) == InteractionOf[r] # "none" /\ q(n).userTurns < MaxUserTurns /\ TurnsLeft(q(n))
  <1>2. PICK n \in MessageLens(r) :
            Suspend(r, IF talks(n) THEN Continue(r, [q(n) EXCEPT !.state = "interacting"])
                                   ELSE LeaveLoop(r, [q(n) EXCEPT !.state = "completed"]))
    BY DEF ReplyText
  <1>3. /\ Sound(q(n)) /\ q(n).finish = "stop" /\ q(n).open = {}
        /\ q(n).userTurns < q(n).turns
    BY <1>1, AnsweredSound DEF Sound, Task, Reasons
  <1>4. CASE talks(n)
    <2> DEFINE p == [q(n) EXCEPT !.state = "interacting"]
    <2>1. Suspend(r, Continue(r, p))
      BY <1>2, <1>4
    <2>2. q(n).userTurns < MaxUserTurns /\ InteractionOf[r] = "known"
      BY <1>1, <1>4, ToolsAreThere, RequestAssumption
    <2> HIDE DEF q
    <2>3. /\ Sound(p) /\ p.state = "interacting" /\ p.open = {}
          /\ p.userTurns < MaxUserTurns /\ p.userTurns < p.turns
      BY <1>3, <2>2 DEF Sound, Task, States
    <2> HIDE DEF p
    <2>4. SuspendedFrom(r, p, Continue(r, p))
      BY <2>2, <2>3, ContinueSound
    <2>5. ReqInv(r, Continue(r, p), instances)
      BY <1>1, <2>3, <2>4, SuspendedOwned, ToolsAreThere
    <2> QED BY <1>1, <2>1, <2>5, EngineAnswersInv
  <1>5. CASE ~talks(n)
    <2> DEFINE p == [q(n) EXCEPT !.state = "completed"]
    <2>1. Suspend(r, LeaveLoop(r, p))
      BY <1>2, <1>5
    <2> HIDE DEF q
    <2>2. Sound(p) /\ p.finish = "stop" /\ p.open = {}
      BY <1>3 DEF Sound, Task, States
    <2> HIDE DEF p
    <2>3. ReqInv(r, LeaveLoop(r, p), instances)
      BY <1>1, <2>2, LeaveLoopSound, SuspendedOwned, ToolsAreThere
    <2> QED BY <1>1, <2>1, <2>3, EngineAnswersInv
  <1> QED BY <1>4, <1>5

\* Going on after a reply, or leaving when the batch dimension says so.
LEMMA TooLongReqInv ==
    ASSUME NEW r \in Reqs, NEW q, Sound(q), q.open = {}, NEW inst,
           InteractionOf[r] # "missing",
           \A t \in Tools : r \in inst[t] <=> t \in ToolsOf[r]
    PROVE  ReqInv(r, ContinueUnlessTooLong(r, q), inst)
  <1>1. CASE BatchDim >= MaxModelLen
    <2> DEFINE p == [q EXCEPT !.finish = "stop"]
    <2>1. Sound(p) /\ p.finish = "stop" /\ p.open = {}
      BY DEF Sound, Task, Reasons
    <2>2. ContinueUnlessTooLong(r, q) = LeaveLoop(r, p)
      BY <1>1 DEF ContinueUnlessTooLong
    <2> HIDE DEF p
    <2> QED BY <2>1, <2>2, LeaveLoopSound, SuspendedOwned
  <1>2. CASE ~(BatchDim >= MaxModelLen)
    BY <1>2, RunOn DEF ContinueUnlessTooLong
  <1> QED BY <1>1, <1>2

\* The tools' answers are appended.
LEMMA ToolsExecutedInv ==
    ASSUME IInv, NEW r \in Reqs, ToolsExecuted(r) PROVE IInv'
  <1>1. PICK n \in ReplyLens :
            Suspend(r, ContinueUnlessTooLong(r, AddToolResponseMessages(task[r], n)))
    BY DEF ToolsExecuted
  <1> DEFINE p == AddToolResponseMessages(task[r], n)
  <1>2. Sound(task[r]) /\ task[r].at = "tools" /\ task[r].open = {} /\ n \in Nat
    BY RequestAssumption DEF IInv, ReqInv, TaskInv, ToolsExecuted, Resumes
  <1>3. Sound(p) /\ p.open = {}
    BY <1>2, AddToolResponseMessagesSound DEF SameControl
  <1>4. Suspend(r, ContinueUnlessTooLong(r, p))
    BY <1>1
  <1> HIDE DEF p
  <1>5. ReqInv(r, ContinueUnlessTooLong(r, p), instances)
    BY <1>2, <1>3, ToolsAreThere, TooLongReqInv
  <1>6. UNCHANGED sessions /\ task[r].at \in {"engine", "tools", "user"}
    BY <1>2 DEF ToolsExecuted
  <1> QED BY <1>2, <1>4, <1>5, <1>6, SessionKept, SuspendStep
          DEF ToolsExecuted, Resumes, Running, Collector, IInv, VarTypes

\* The interaction answered.
LEMMA UserRepliedInv ==
    ASSUME IInv, NEW r \in Reqs, UserReplied(r) PROVE IInv'
  <1> DEFINE p == [task[r] EXCEPT !.finish = "stop", !.state = "completed"]
             u(n) == AddUserMessage(task[r], n)
  <1>1. PICK n \in ReplyLens :
            \/ Suspend(r, LeaveLoop(r, p))
            \/ Suspend(r, ContinueUnlessTooLong(r, u(n)))
    BY DEF UserReplied
  <1>2. Sound(task[r]) /\ task[r].at = "user" /\ task[r].open = {} /\ n \in Nat
    BY RequestAssumption DEF IInv, ReqInv, TaskInv, Owned, UserReplied, Resumes
  <1>3. ReqInv(r, LeaveLoop(r, p), instances)
    <2>1. Sound(p) /\ p.finish = "stop" /\ p.open = {}
      BY <1>2 DEF Sound, Task, Reasons, States
    <2> HIDE DEF p
    <2> QED BY <1>2, <2>1, LeaveLoopSound, SuspendedOwned, ToolsAreThere
  <1>4. ReqInv(r, ContinueUnlessTooLong(r, u(n)), instances)
    <2>1. "user" \in Kinds
      BY DEF Kinds
    <2>2. Sound(u(n)) /\ u(n).open = {}
      BY <1>2, <2>1, UpdateSound DEF AddUserMessage, SameControl
    <2> HIDE DEF u
    <2> QED BY <1>2, <2>2, ToolsAreThere, TooLongReqInv
  <1> HIDE DEF p, u
  <1>5. UNCHANGED sessions /\ task[r].at \in {"engine", "tools", "user"}
    BY <1>2 DEF UserReplied
  <1> QED BY <1>1, <1>2, <1>3, <1>4, <1>5, SessionKept, SuspendStep
          DEF UserReplied, Resumes, Running, Collector, IInv, VarTypes

\* Every tool has given its reward and released its instance.
LEMMA RewardsCalculatedInv ==
    ASSUME IInv, NEW r \in Reqs, RewardsCalculated(r) PROVE IInv'
  <1>1. /\ Sound(task[r]) /\ task[r].at = "reward" /\ task[r].open = {}
        /\ task[r].finish \in {"stop", "length"}
        /\ \A t \in Tools : r \notin instances[t]
    BY RequestAssumption DEF IInv, ReqInv, TaskInv, AtAwait, Owned, RewardsCalculated, Resumes
  <1> DEFINE p == Finish(task[r])
  <1>2. TaskInv(p) /\ p.at \in {"logprob", "returned"} /\ p.open = {}
    BY <1>1, FinishSound
  <1>3. Suspend(r, p)
    BY DEF RewardsCalculated
  <1> HIDE DEF p
  <1>4. ReqInv(r, p, instances) /\ HasSession(r, p, sessions)
    BY <1>1, <1>2 DEF ReqInv, Owned, HasSession
  <1> QED BY <1>1, <1>3, <1>4, SuspendStep
          DEF RewardsCalculated, Resumes, Running, Collector, IInv, VarTypes

\* The engine returned the log-probabilities.
LEMMA LogProbsCalculatedInv ==
    ASSUME IInv, NEW r \in Reqs, LogProbsCalculated(r) PROVE IInv'
  <1> DEFINE p == [task[r] EXCEPT !.at = "returned"]
  <1>1. /\ Sound(task[r]) /\ task[r].at = "logprob" /\ task[r].open = {}
        /\ Len(task[r].ids) <= MaxModelLen
        /\ \A t \in Tools : r \notin instances[t]
    BY DEF IInv, ReqInv, TaskInv, AtAwait, Owned, LogProbsCalculated, Resumes
  <1>2. Sound(p) /\ p.at = "returned" /\ p.open = {} /\ Len(p.ids) <= MaxModelLen
    BY <1>1 DEF Sound, Task, Finished
  <1>3. Suspend(r, p)
    BY DEF LogProbsCalculated
  <1> HIDE DEF p
  <1>4. ReqInv(r, p, instances) /\ HasSession(r, p, sessions)
    BY <1>1, <1>2 DEF ReqInv, TaskInv, AtAwait, Owned, HasSession
  <1> QED BY <1>1, <1>3, <1>4, SuspendStep
          DEF LogProbsCalculated, Resumes, Running, Collector, IInv, VarTypes

\* The jobs of different requests and tools are told apart by their fields.
LEMMA JobIs ==
    ASSUME NEW r, NEW op, NEW j \in Jobs(op, r)
    PROVE  j = [op |-> op, index |-> 0, tool |-> j.tool] /\ j.tool \in ToolsOf[r]
  BY DEF Jobs

\* The end of a job: it leaves the open jobs, and creates or releases the
\* request's instance in its own tool.
LEMMA JobEndsOwned ==
    ASSUME IInv, NEW r \in Reqs, NEW j \in task[r].open,
           j.op \in {"execute", "reward"} => HasInstance(r, j)
    PROVE  ReqInv(r, [task[r] EXCEPT !.open = @ \ {j}], InstancesAfter(r, j))
  <1> DEFINE q == task[r]
             o == q.open \ {j}
             p == [q EXCEPT !.open = o]
             inst == InstancesAfter(r, j)
  <1>1. q \in Task /\ instances \in [Tools -> SUBSET Reqs] /\ ReqInv(r, q, instances)
    BY DEF IInv, VarTypes
  <1>2. j \in Job /\ j.op \in {"create", "execute", "reward"} /\ j.tool \in Tools
    BY <1>1 DEF Task, Job
  <1>3. o \in SUBSET Job
    BY <1>1 DEF Task
  <1> HIDE DEF q, o
  <1>4. /\ Sound(p) /\ p.open = o /\ p.at = q.at /\ p.finish = q.finish
        /\ p.ids = q.ids /\ p.turns = q.turns /\ p.error = q.error /\ p.state = q.state
    BY <1>1, <1>3 DEF ReqInv, TaskInv, Sound, Task
  <1>5. TaskInv(p)
    BY <1>1, <1>4 DEF ReqInv, TaskInv, AtAwait, TurnsLeft, EndsWithGenerationPrompt, PromptTooLong
  <1>6. /\ j.op = "create" => \A t \in Tools : r \in inst[t] <=> r \in instances[t] \/ t = j.tool
        /\ j.op = "execute" => inst = instances
        /\ j.op = "reward" => \A t \in Tools : r \in inst[t] <=> r \in instances[t] /\ t # j.tool
    BY <1>1, <1>2 DEF InstancesAfter
  <1>7. Owned(r, p, inst)
    <2>0. ToolsOf[r] \subseteq Tools /\ j \in q.open /\ o = q.open \ {j} /\ q.open \subseteq Job
      BY <1>1, RequestAssumption DEF q, o, Task
    <2>1. /\ \A i \in q.open : i.op = j.op
          /\ j.op # "execute" =>
                /\ j = [op |-> j.op, index |-> 0, tool |-> j.tool] /\ j.tool \in ToolsOf[r]
                /\ \A i \in q.open : i = [op |-> j.op, index |-> 0, tool |-> i.tool]
      BY <1>1, <2>0, JobIs DEF ReqInv, Owned
    <2>2. q.at \notin {"spawned", "start", "engine", "user", "logprob", "returned", "padded"}
      BY <1>1, <2>0 DEF ReqInv, Owned
    <2> HIDE DEF p, inst
    <2>3. CASE j.op = "create"
      <3>1. q.at \notin {"tools", "reward"}
        BY <1>1, <2>0, <2>3 DEF ReqInv, Owned
      <3>2. \A i \in o : i.tool # j.tool
        BY <2>0, <2>1, <2>3
      <3>3. ASSUME q.at = "create", NEW t \in ToolsOf[r]
            PROVE  r \in inst[t] \/ [op |-> "create", index |-> 0, tool |-> t] \in o
        BY <1>1, <1>6, <2>0, <2>3, <3>3 DEF ReqInv, Owned
      <3>4. ASSUME NEW i \in o, i.tool \in ToolsOf[r]
            PROVE  i.op = "create" <=> r \notin inst[i.tool]
        BY <1>1, <1>6, <2>0, <2>3, <3>2, <3>4 DEF ReqInv, Owned
      <3> QED BY <1>1, <1>4, <1>6, <2>0, <2>1, <2>2, <2>3, <3>1, <3>3, <3>4 DEF ReqInv, Owned
    <2>4. CASE j.op = "execute"
      <3>1. q.at \notin {"create", "reward"}
        BY <1>1, <2>0, <2>4 DEF ReqInv, Owned
      <3> QED BY <1>1, <1>4, <1>6, <2>0, <2>1, <2>2, <2>4, <3>1 DEF ReqInv, Owned
    <2>5. CASE j.op = "reward"
      <3>1. q.at \notin {"tools", "create"}
        BY <1>1, <2>0, <2>5 DEF ReqInv, Owned
      <3>2. \A i \in o : i.tool # j.tool
        BY <2>0, <2>1, <2>5
      <3>3. ASSUME q.at = "reward", NEW t \in ToolsOf[r], r \in inst[t]
            PROVE  [op |-> "reward", index |-> 0, tool |-> t] \in o
        <4>1. [op |-> "reward", index |-> 0, tool |-> t] # j
          BY <1>6, <2>0, <2>5, <3>3
        <4> QED BY <1>1, <1>6, <2>0, <2>5, <3>3, <4>1 DEF ReqInv, Owned
      <3>4. ASSUME NEW i \in o, i.tool \in ToolsOf[r]
            PROVE  i.op = "create" <=> r \notin inst[i.tool]
        BY <1>1, <1>6, <2>0, <2>5, <3>2, <3>4 DEF ReqInv, Owned
      <3> QED BY <1>1, <1>4, <1>6, <2>0, <2>1, <2>2, <2>5, <3>1, <3>3, <3>4 DEF ReqInv, Owned
    <2> QED BY <1>2, <2>3, <2>4, <2>5
  <1> QED BY <1>5, <1>7 DEF ReqInv, q, o

\* A step that keeps every task's await keeps what the collector knows.
LEMMA SameAwaits ==
    ASSUME CollectorInv, \A r \in Reqs : task'[r].at = task[r].at,
           phase \in {"collect", "drain", "fail"}, UNCHANGED Collector
    PROVE  CollectorInv'
  <1>1. Unfinished' = Unfinished /\ With("failed")' = With("failed")
    BY DEF Unfinished, With
  <1> QED BY <1>1 DEF CollectorInv, Collector

\* A child ends with a result.
LEMMA JobSucceedsInv ==
    ASSUME IInv, NEW r \in Reqs, NEW j, JobSucceeds(r, j) PROVE IInv'
  <1> DEFINE p == [task[r] EXCEPT !.open = @ \ {j}]
  <1>1. /\ j \in task[r].open /\ task \in [Reqs -> Task] /\ instances \in [Tools -> SUBSET Reqs]
        /\ j.op \in {"execute", "reward"} => HasInstance(r, j)
        /\ task' = [task EXCEPT ![r].open = @ \ {j}] /\ instances' = InstancesAfter(r, j)
    BY DEF JobSucceeds, JobRuns, IInv, VarTypes
  <1>2. j.op \in {"create", "execute", "reward"} /\ j.tool \in Tools
    BY <1>1 DEF Task, Job
  <1>3. ReqInv(r, p, instances')
    BY <1>1, JobEndsOwned
  <1>4. p \in Task /\ p.at = task[r].at
    BY <1>1, <1>3 DEF ReqInv, TaskInv, Sound, Task
  <1>5. task' = [task EXCEPT ![r] = p]
    BY <1>1
  <1> HIDE DEF p
  <1>6. /\ instances' \in [Tools -> SUBSET Reqs]
        /\ \A s \in Reqs \ {r}, t \in Tools : s \in instances'[t] <=> s \in instances[t]
    BY <1>1, <1>2 DEF InstancesAfter
  <1>7. task' \in [Reqs -> Task] /\ \A s \in Reqs : task'[s].at = task[s].at
    BY <1>1, <1>4, <1>5
  <1>8. VarTypes'
    BY <1>6, <1>7 DEF IInv, VarTypes, JobSucceeds, Collector
  <1>9. ASSUME NEW s \in Reqs PROVE ReqInv(s, task'[s], instances')
    <2>1. CASE s = r
      BY <1>1, <1>3, <1>5, <2>1
    <2>2. CASE s # r
      <3>1. task'[s] = task[s] /\ ReqInv(s, task[s], instances) /\ ToolsOf[s] \subseteq Tools
        BY <1>1, <1>5, <2>2, RequestAssumption DEF IInv
      <3> QED BY <1>6, <2>2, <3>1 DEF ReqInv, Owned
    <2> QED BY <2>1, <2>2
  <1>10. CollectorInv'
    BY <1>7, SameAwaits DEF IInv, JobSucceeds, JobRuns
  <1>11. \A s \in Reqs : HasSession(s, task'[s], sessions')
    BY <1>7 DEF IInv, HasSession, JobSucceeds
  <1> QED BY <1>8, <1>9, <1>10, <1>11 DEF IInv

\* A job that is left out of the open ones changes nothing else.
LEMMA JobDropped ==
    ASSUME IInv, NEW r \in Reqs, NEW j \in task[r].open
    PROVE  LET q == [task[r] EXCEPT !.open = @ \ {j}]
           IN  /\ task[r].at # "create" /\ task[r].at # "reward" => ReqInv(r, q, instances)
               /\ Sound(q) /\ q.at = task[r].at /\ q.state = task[r].state
               /\ q.open = task[r].open \ {j} /\ q.ids = task[r].ids
               /\ q.turns = task[r].turns /\ q.error = task[r].error
               /\ AtAwait(q)
  <1> DEFINE o == task[r].open \ {j}
             q == [task[r] EXCEPT !.open = o]
  <1>1. Sound(task[r]) /\ AtAwait(task[r]) /\ Owned(r, task[r], instances)
    BY DEF IInv, ReqInv, TaskInv
  <1>2. o \in SUBSET Job /\ o \subseteq task[r].open
    BY <1>1 DEF Sound, Task
  <1> HIDE DEF o
  <1>3. /\ Sound(q) /\ q.at = task[r].at /\ q.open = o /\ q.state = task[r].state
        /\ q.finish = task[r].finish /\ q.ids = task[r].ids
        /\ q.turns = task[r].turns /\ q.error = task[r].error
    BY <1>1, <1>2 DEF Sound, Task
  <1> HIDE DEF q
  <1>4. AtAwait(q)
    BY <1>1, <1>3 DEF AtAwait, TurnsLeft, EndsWithGenerationPrompt, PromptTooLong
  <1>5. task[r].at # "create" /\ task[r].at # "reward" => ReqInv(r, q, instances)
    BY <1>1, <1>2, <1>3, <1>4 DEF ReqInv, TaskInv, Owned
  <1> QED BY <1>3, <1>4, <1>5 DEF q, o

\* What a job raises is not the rollout's own error: it finds the instance of
\* every tool the request was given.
LEMMA RaisedOutside ==
    ASSUME IInv, NEW r \in Reqs, NEW j \in task[r].open, NEW e \in Raised(r, j)
    PROVE  e \in Errors /\ e \in Outside(r)
  <1>1. Owned(r, task[r], instances) /\ j \in Job
    BY DEF IInv, VarTypes, ReqInv, Task
  <1>2. CASE e = "tool" /\ "tool" \in Faults
    BY <1>2 DEF Outside, Errors
  <1>3. CASE e = "no_instance" /\ j.op \in {"execute", "reward"} /\ ~HasInstance(r, j)
    <2>1. j.tool \notin ToolsOf[r] /\ j.tool \in Tools
      BY <1>1, <1>3 DEF Owned, HasInstance, Job
    <2> QED BY <1>3, <2>1 DEF Outside, Errors
  <1> QED BY <1>2, <1>3 DEF Raised

\* A task that fails with a child leaves the others behind.
LEMMA FailedWithJob ==
    ASSUME IInv, NEW r \in Reqs, NEW j \in task[r].open, NEW e \in Raised(r, j)
    PROVE  LET f == Failed([task[r] EXCEPT !.open = @ \ {j}], e)
           IN  ReqInv(r, f, instances) /\ f.at = "failed"
  <1> DEFINE q == [task[r] EXCEPT !.open = @ \ {j}]
             f == Failed(q, e)
  <1>1. /\ Sound(q) /\ q.open = task[r].open \ {j} /\ AtAwait(q)
        /\ Owned(r, task[r], instances)
    BY JobDropped DEF IInv, ReqInv
  <1> HIDE DEF q
  <1>2. /\ f \in Task /\ f.at = "failed" /\ f.error = e /\ f.open = q.open
        /\ f.ids = q.ids /\ f.loss = q.loss /\ f.turns = q.turns /\ f.userTurns = q.userTurns
    BY <1>1, RaisedOutside DEF Failed, Sound, Task, Finished
  <1> HIDE DEF f
  <1>3. TaskInv(f)
    BY <1>1, <1>2 DEF TaskInv, Sound, AtAwait
  <1>4. Owned(r, f, instances)
    BY <1>1, <1>2, RaisedOutside DEF Owned
  <1> QED BY <1>2, <1>3, <1>4 DEF ReqInv, f, q

\* A child raises, with its parent or after it.
LEMMA JobRaisesInv ==
    ASSUME IInv, NEW r \in Reqs, NEW j, JobRaises(r, j) PROVE IInv'
  <1> DEFINE q == [task[r] EXCEPT !.open = @ \ {j}]
  <1>1. /\ j \in task[r].open /\ task \in [Reqs -> Task]
        /\ phase \in {"collect", "drain", "fail"} /\ UNCHANGED Collector
        /\ UNCHANGED <<instances, sessions>>
    BY DEF IInv, VarTypes, JobRaises, JobRuns
  <1>2. PICK e \in Raised(r, j) :
            IF q.at = "failed" THEN task' = [task EXCEPT ![r] = q] /\ UNCHANGED <<inflight, doneQ>>
                               ELSE Suspend(r, Failed(q, e))
    BY DEF JobRaises
  <1> DEFINE f == Failed(q, e)
  <1>3. /\ Sound(q) /\ q.at = task[r].at
        /\ task[r].at # "create" /\ task[r].at # "reward" => ReqInv(r, q, instances)
    BY <1>1, JobDropped
  <1>4. ReqInv(r, f, instances) /\ f.at = "failed"
    BY <1>1, FailedWithJob
  <1>5. CASE q.at = "failed"
    <2>1. ReqInv(r, q, instances) /\ q \in Task
      BY <1>3, <1>5 DEF Sound
    <2>2. task' = [task EXCEPT ![r] = q] /\ UNCHANGED <<inflight, doneQ>>
      BY <1>2, <1>5
    <2> HIDE DEF q
    <2>3. task' \in [Reqs -> Task] /\ \A s \in Reqs : task'[s].at = task[s].at
      BY <1>1, <1>3, <2>1, <2>2
    <2>4. VarTypes'
      BY <1>1, <2>2, <2>3 DEF IInv, VarTypes, Collector
    <2>5. \A s \in Reqs : ReqInv(s, task'[s], instances')
      BY <1>1, <2>1, <2>2 DEF IInv
    <2>6. \A s \in Reqs : HasSession(s, task'[s], sessions')
      BY <1>1, <2>3 DEF IInv, HasSession
    <2>7. CollectorInv'
      BY <1>1, <2>3, SameAwaits DEF IInv
    <2> QED BY <2>4, <2>5, <2>6, <2>7 DEF IInv
  <1>6. CASE q.at # "failed"
    <2>1. task[r].at \in Running
      BY <1>1, <1>3, <1>6 DEF IInv, ReqInv, Owned, Task, Finished
    <2>2. Suspend(r, f)
      BY <1>2, <1>6
    <2> HIDE DEF f, q
    <2>3. HasSession(r, f, sessions')
      BY <1>4 DEF HasSession
    <2> QED BY <1>1, <1>4, <2>1, <2>2, <2>3, SuspendStep DEF IInv, VarTypes
  <1> QED BY <1>5, <1>6

\* A cancelled task turns into padding.
LEMMA DeliverCancelInv ==
    ASSUME IInv, NEW r \in Reqs, DeliverCancel(r) PROVE IInv'
  <1> DEFINE p == PaddingTask(r)
  <1>1. ReqInv(r, p, instances)
    BY FreshReqInv DEF IInv, ReqInv, Owned
  <1>2. p.at = "padded"
    BY DEF PaddingTask, FreshTask
  <1>3. task' = [task EXCEPT ![r] = p] /\ task \in [Reqs -> Task] /\ p \in Task
    BY <1>1 DEF DeliverCancel, IInv, VarTypes, ReqInv, TaskInv, Sound
  <1>4. task[r].at # "failed" /\ ~Validate
    BY DEF DeliverCancel, Running, IInv, CollectorInv
  <1> HIDE DEF p
  <1>5. task' \in [Reqs -> Task] /\ doneQ' \in Seq(Reqs) /\ Len(doneQ) <= Len(doneQ')
    BY <1>3 DEF DeliverCancel, IInv, VarTypes
  <1>6. VarTypes'
    BY <1>5 DEF DeliverCancel, IInv, VarTypes, Collector
  <1>7. \A s \in Reqs : ReqInv(s, task'[s], instances')
    BY <1>1, <1>3 DEF DeliverCancel, IInv
  <1>8. With("failed") # {} => With("failed")' # {}
    BY <1>3, <1>4 DEF With
  <1>9. CollectorInv'
    BY <1>4, <1>8 DEF DeliverCancel, IInv, CollectorInv, Collector
  <1>10. \A s \in Reqs : HasSession(s, task'[s], sessions')
    BY <1>2, <1>3 DEF DeliverCancel, IInv, HasSession
  <1> QED BY <1>6, <1>7, <1>9, <1>10 DEF IInv

\* The engine ends what nobody waits for.
LEMMA EngineFinishesOrphanInv ==
    ASSUME IInv, NEW r \in Reqs, EngineFinishesOrphan(r) PROVE IInv'
  <1>1. UNCHANGED task /\ UNCHANGED Collector /\ inflight' \subseteq inflight
    BY DEF EngineFinishesOrphan
  <1>2. VarTypes'
    BY <1>1 DEF EngineFinishesOrphan, IInv, VarTypes, Collector
  <1>3. CollectorInv'
    BY <1>1 DEF IInv, CollectorInv, Collector, CannotAssemble, Unfinished, With
  <1> QED BY <1>1, <1>2, <1>3 DEF IInv, EngineFinishesOrphan

\* The collector touches no task and no instance.
LEMMA CollectorOnly ==
    ASSUME IInv, UNCHANGED <<task, instances, sessions, doneQ>>,
           inflight' \subseteq Reqs, cancelled' \subseteq Reqs,
           consumed' \in 0..Len(doneQ), phase' \in Phases, CollectorInv'
    PROVE  IInv'
  BY DEF IInv, VarTypes

\* The sets of tasks depend on the tasks alone.
LEMMA SameTasks ==
    ASSUME UNCHANGED task
    PROVE  /\ Unfinished' = Unfinished /\ \A at : With(at)' = With(at)
           /\ CannotAssemble' = CannotAssemble
  BY DEF Unfinished, With, CannotAssemble

\* The tasks the collector takes are counted one by one.
LEMMA NextDoneInv ==
    ASSUME IInv, NextDone
    PROVE  /\ consumed' \in 0..Len(doneQ) /\ UNCHANGED Environment /\ ~Validate
           /\ phase = "collect"
  BY DEF NextDone, OneMore, IInv, VarTypes

\* The collector counts a finished task.
LEMMA CountCompletionInv ==
    ASSUME IInv, CountCompletion PROVE IInv'
  BY NextDoneInv, SameTasks, CollectorOnly
     DEF CountCompletion, Environment, IInv, VarTypes, CollectorInv

\* The collector has enough tasks and cancels the others.
LEMMA ReachTargetInv ==
    ASSUME IInv, ReachTarget PROVE IInv'
  BY NextDoneInv, SameTasks, CollectorOnly
     DEF ReachTarget, Environment, IInv, VarTypes, CollectorInv, Unfinished, Phases

\* The collector meets a task that raised.
LEMMA CollectFailureInv ==
    ASSUME IInv, CollectFailure PROVE IInv'
  <1>1. doneQ[consumed + 1] \in Reqs
    BY DEF CollectFailure, NextDone, IInv, VarTypes
  <1>2. With("failed") # {}
    BY <1>1 DEF CollectFailure, With
  <1>3. Unfinished \subseteq Reqs /\ With("failed")' # {} /\ ~Validate
    BY <1>2, NextDoneInv, SameTasks DEF Unfinished, CollectFailure, Environment
  <1> QED BY <1>3, NextDoneInv, SameTasks, CollectorOnly
          DEF CollectFailure, Environment, IInv, VarTypes, CollectorInv, Phases

\* Every task has ended.
LEMMA DrainedInv ==
    ASSUME IInv, Drained PROVE IInv'
  BY SameTasks, CollectorOnly DEF Drained, Environment, IInv, VarTypes, CollectorInv, Phases

\* The engine is told to drop what is in flight.
LEMMA AbortAllInv ==
    ASSUME IInv, AbortAll PROVE IInv'
  BY SameTasks, CollectorOnly DEF AbortAll, Environment, IInv, VarTypes, CollectorInv, Phases

\* All tasks of a validation returned.
LEMMA ValidationDoneInv ==
    ASSUME IInv, ValidationDone PROVE IInv'
  <1>1. Unfinished = {}
    BY DEF ValidationDone, Unfinished, With, Running
  <1> QED BY <1>1, SameTasks, CollectorOnly
          DEF ValidationDone, Environment, IInv, VarTypes, CollectorInv, Phases

\* A task of a validation raised.
LEMMA ValidationFailsInv ==
    ASSUME IInv, ValidationFails PROVE IInv'
  BY SameTasks, CollectorOnly
     DEF ValidationFails, PhaseAfterFailure, Environment, IInv, VarTypes, CollectorInv, Phases

\* The batch is built or cannot be.
LEMMA AssembleBatchInv ==
    ASSUME IInv, AssembleBatch PROVE IInv'
  BY SameTasks, CollectorOnly
     DEF AssembleBatch, Environment, IInv, VarTypes, CollectorInv, Phases

\* The cache is flushed and the batch returned.
LEMMA FlushCacheInv ==
    ASSUME IInv, FlushCache PROVE IInv'
  BY SameTasks, CollectorOnly
     DEF FlushCache, Environment, IInv, VarTypes, CollectorInv, Phases

\* The initial states satisfy the invariant.
LEMMA InitInv == Init => IInv
  <1> SUFFICES ASSUME Init PROVE IInv
    OBVIOUS
  <1>1. ASSUME NEW r \in Reqs
        PROVE  /\ ReqInv(r, task[r], instances) /\ task[r] \in Task /\ task[r].at = "spawned"
    <2>1. \A t \in Tools : r \notin instances[t]
      BY DEF Init
    <2>2. Sound(FreshTask(r)) /\ AtAwait(FreshTask(r)) /\ task[r] = FreshTask(r)
      BY <2>1, FreshReqInv DEF Init
    <2>3. FreshTask(r).at = "spawned" /\ FreshTask(r).open = {}
      BY DEF FreshTask
    <2>4. Owned(r, FreshTask(r), instances)
      BY <2>1, <2>3 DEF Owned
    <2> QED BY <2>2, <2>3, <2>4 DEF ReqInv, TaskInv, Sound
  <1>2. VarTypes
    BY <1>1 DEF Init, VarTypes, Phases
  <1>3. CollectorInv
    BY DEF Init, CollectorInv
  <1>4. \A r \in Reqs : HasSession(r, task[r], sessions)
    BY <1>1 DEF HasSession
  <1> QED BY <1>1, <1>2, <1>3, <1>4 DEF IInv

-----------------------------------------------------------------------------
(* Every step keeps the invariant.                                         *)

\* Every step keeps it.
LEMMA NextInv == IInv /\ [Next]_vars => IInv'
  <1> SUFFICES ASSUME IInv, [Next]_vars PROVE IInv'
    OBVIOUS
  <1>1. CASE UNCHANGED vars
    BY <1>1, SameTasks DEF vars, IInv, VarTypes, CollectorInv
  <1>2. ASSUME NEW r \in Reqs, RequestStep(r) PROVE IInv'
    BY <1>2, StartTaskInv, ToolsCreatedInv, InteractionStartedInv, InteractionRaisesInv,
       EngineRaisesInv, ReplyCutOffInv,
       ReplyToolCallsInv, ReplyUndecodableInv, ReplyTextInv, ToolsExecutedInv,
       UserRepliedInv, RewardsCalculatedInv, LogProbsCalculatedInv, DeliverCancelInv
       DEF RequestStep
  <1>3. ASSUME NEW r \in Reqs, JobStep(r) PROVE IInv'
    BY <1>3, JobSucceedsInv, JobRaisesInv DEF JobStep
  <1>4. ASSUME CollectorStep PROVE IInv'
    BY <1>4, CountCompletionInv, ReachTargetInv, CollectFailureInv, DrainedInv, AbortAllInv,
       ValidationDoneInv, ValidationFailsInv, AssembleBatchInv, FlushCacheInv
       DEF CollectorStep
  <1> QED BY <1>1, <1>2, <1>3, <1>4, EngineFinishesOrphanInv DEF Next, Stopped

\* Every reachable state satisfies the inductive invariant: the loop's control
\* state, the tools' instance tables and the collector's phase agree.
THEOREM InductiveInvariant == Spec => []IInv
  <1>1. Init => IInv
    BY InitInv
  <1>2. IInv /\ [Next]_vars => IInv'
    BY NextInv
  <1> QED BY <1>1, <1>2, PTL DEF Spec

\* Every variable stays within its type, for every batch and configuration: the
\* tasks of _async_rollout_a_request, the instance tables, the completion queue
\* and the collector.
THEOREM TypeCorrect == Spec => []TypeOK
  <1>1. IInv => TypeOK
    BY DEF IInv, VarTypes, TypeOK
  <1> QED BY <1>1, InductiveInvariant, PTL

\* The loss mask of every request selects exactly the model's own tokens, after
\* any number of turns, tool replies and cuts (schemas.py, _update_input_ids to
\* truncate_output_ids).
THEOREM LossMaskIsModelOutput == Spec => []LossMarksModelOutput
  <1>1. IInv => LossMarksModelOutput
    BY DEF IInv, ReqInv, TaskInv, Sound, Masks, LossMarksModelOutput
  <1> QED BY <1>1, InductiveInvariant, PTL

\* The engine is never asked for less than one token, nor for more than fits
\* (the check before _handle_engine_call and the budget inside it).
THEOREM EngineBudgetHolds == Spec => []EngineBudget
  <1>1. ASSUME IInv, NEW r \in With("engine")
        PROVE  /\ EndsWithGenerationPrompt(task[r]) /\ Budget(task[r]) >= 1
               /\ Len(task[r].ids) + Budget(task[r]) < MaxModelLen
    <2>1. /\ EndsWithGenerationPrompt(task[r]) /\ ~PromptTooLong(task[r])
          /\ Len(task[r].ids) \in Nat
      BY <1>1 DEF With, IInv, ReqInv, TaskInv, AtAwait, Sound, Task
    <2>2. /\ MaxModelLen \in Nat /\ ResponseLength \in Nat /\ ResponseLength >= 1
      BY ConfigAssumption
    <2> DEFINE n == Len(task[r].ids)
    <2>3. n \in Nat /\ n + 1 < MaxModelLen
      BY <2>1, <2>2 DEF PromptTooLong
    <2>4. Budget(task[r]) = IF ResponseLength < MaxModelLen - n - 1
                            THEN ResponseLength ELSE MaxModelLen - n - 1
      BY DEF Budget
    <2> HIDE DEF n
    <2>5. Budget(task[r]) >= 1 /\ n + Budget(task[r]) < MaxModelLen
      BY <2>2, <2>3, <2>4
    <2> QED BY <2>1, <2>5 DEF n
  <1>2. IInv => EngineBudget
    BY <1>1 DEF EngineBudget
  <1> QED BY <1>2, InductiveInvariant, PTL

\* No conversation runs past its configured turns, and every user turn follows
\* an assistant turn of its own (the while loop of _async_rollout_a_request).
THEOREM TurnsAreBounded == Spec => []TurnsBounded
  <1>1. IInv => TurnsBounded
    BY DEF IInv, ReqInv, TaskInv, Sound, TurnsBounded
  <1> QED BY <1>1, InductiveInvariant, PTL

\* Whatever is cut off, fails or is left behind half-way (_handle_pending_state,
\* the gathers of _async_rollout_a_request and the handler of CancelledError): a
\* create in progress is the only one for its instance, and every execute and
\* reward in progress still finds its instance, also when the request they
\* belong to has failed.
THEOREM InstancesLiveAsLongAsNeeded == Spec => []InstanceLifecycle
  <1>1. ASSUME IInv, NEW r \in Reqs, NEW t \in Tools
        PROVE  /\ r \in instances[t] => /\ t \in ToolsOf[r]
                                        /\ task[r].at \notin {"spawned", "logprob", "returned"}
               /\ \A j \in task[r].open : j.tool = t /\ t \in ToolsOf[r] =>
                     (j.op = "create" <=> r \notin instances[t])
               /\ task[r].at \in {"start", "engine", "tools", "user"} /\ t \in ToolsOf[r] =>
                     r \in instances[t]
    <2>1. Owned(r, task[r], instances)
      BY <1>1 DEF IInv, ReqInv
    <2> QED BY <2>1 DEF Owned
  <1>2. IInv => InstanceLifecycle
    BY <1>1 DEF InstanceLifecycle
  <1> QED BY <1>2, InductiveInvariant, PTL

\* A rollout fails only for what it was given or calls: a tool, an interaction or
\* the engine that raised, a call of a tool it was not given, or the unknown name
\* of an interaction; never for a reason finalize rejects, for an instance of its
\* own tools, or for its session with the interaction.
THEOREM RolloutsFailFromOutside == Spec => []FailuresComeFromOutside
  <1>1. IInv => FailuresComeFromOutside
    BY DEF IInv, ReqInv, Owned, With, FailuresComeFromOutside
  <1> QED BY <1>1, InductiveInvariant, PTL

\* A batch that is returned leaves tool instances behind for cancelled requests
\* only.
THEOREM OnlyCancellationLeaks == Spec => []LeaksOnlyByCancellation
  <1>1. ASSUME IInv, phase \in {"flush", "returned"}, NEW t \in Tools, NEW r \in instances[t]
        PROVE  r \in With("padded")
    <2>1. r \in Reqs
      BY <1>1 DEF IInv, VarTypes
    <2>2. task[r].at \in Running \cup Finished /\ task[r].at # "returned"
      BY <1>1, <2>1 DEF IInv, VarTypes, Task, ReqInv, Owned
    <2>3. Unfinished = {} /\ With("failed") = {}
      BY <1>1 DEF IInv, CollectorInv, CannotAssemble
    <2> QED BY <2>1, <2>2, <2>3 DEF Unfinished, With, Finished
  <1>2. IInv => LeaksOnlyByCancellation
    BY <1>1 DEF LeaksOnlyByCancellation
  <1> QED BY <1>2, InductiveInvariant, PTL

-----------------------------------------------------------------------------
(* What one step does to a stream.                                         *)

\* A state that neither calls tools nor talks to the interaction.
Calm(q) == q.state \notin {"tool_calling", "interacting"}

\* The stream s, after k turns of the model, is where p rests: at an await,
\* failed on the way there, or cut and completed.
Rests(s, k, p) ==
    /\ p.turns = k
    /\ \/ p.ids = s /\ p.at \in {"start", "engine", "tools", "user", "reward", "failed"}
       \/ p.ids = Cut(s, StreamCap) /\ p.at \in {"logprob", "returned"} /\ p.state = "completed"

\* The coroutine runs from q to its next await, p.
RunsTo(q, p) ==
    /\ Rests(q.ids, q.turns, p) \/ Rests(Prompted(q.ids), q.turns, p)
    /\ p.at \in {"tools", "user"} => p.ids = q.ids /\ ~Calm(q)

\* What a coroutine that waited as t has when its await returns.
Heard(t, q) ==
    /\ q.ids \in Seq(Kinds)
    /\ \/ /\ t.at \in {"spawned", "start", "user"} /\ Calm(q)
          /\ q.ids = t.ids /\ q.turns = t.turns
       \/ /\ t.at = "create" /\ Calm(q) /\ q.turns = t.turns
          /\ \E n \in CreationLens : q.ids = Replied(t.ids, n)
       \/ /\ t.at = "tools" /\ Calm(q) /\ q.turns = t.turns
          /\ \E n \in Nat : q.ids = Replied(t.ids, n)
       \/ /\ t.at = "user" /\ Calm(q) /\ q.turns = t.turns
          /\ \E n \in Nat : q.ids = t.ids \o Copies(n, "user")
       \/ /\ t.at = "engine" /\ q.turns = t.turns + 1
          /\ \E n \in Nat \ {0} : q.ids = t.ids \o Copies(n, "asst")

\* The awaits that one step leads to without touching the stream.
QuietMove(from, to) ==
    \/ to = from
    \/ from = "spawned" /\ to = "create"
    \/ from \in Running /\ to = "failed"
    \/ from = "logprob" /\ to = "returned"

\* One step of the coroutine or of a child takes request r from t to p.
Moves(r, t, p) ==
    \/ /\ p.ids = t.ids /\ p.turns = t.turns /\ p.state = t.state
       /\ QuietMove(t.at, p.at)
    \/ t.at = "reward" /\ Rests(t.ids, t.turns, p) /\ p.at \in {"logprob", "returned"}
    \/ p = PaddingTask(r) /\ t.at \in Running
    \/ \E q : Heard(t, q) /\ RunsTo(q, p)

\* A step of request r, which leaves the other requests and the collector alone
\* and queues r when it ends.
Acts(r) ==
    /\ phase \in {"collect", "drain", "fail"} /\ UNCHANGED Collector
    /\ \E p \in Task :
          /\ task' = [task EXCEPT ![r] = p]
          /\ Moves(r, task[r], p)
          /\ p.at = "padded" /\ task[r].at # "padded" => phase \in {"drain", "fail"}
          /\ doneQ' = IF task[r].at \in Running /\ p.at \in Finished
                      THEN Append(doneQ, r) ELSE doneQ

\* The operators of RolloutRequest act on the stream as their counterparts do.
LEMMA OperatorsOnStreams ==
    ASSUME NEW q \in Task
    PROVE  /\ WithoutGenerationPrompt(q).ids = Unprompted(q.ids)
           /\ WithGenerationPrompt(q).ids = Prompted(q.ids)
           /\ Finalized(q, StreamCap).ids = Cut(q.ids, StreamCap)
           /\ \A n : AddToolResponseMessages(q, n).ids = Replied(q.ids, n)
  <1>1. EndsWithGenerationPrompt(q) <=> EndsWith(q.ids, "gen")
    BY DEF EndsWithGenerationPrompt, EndsWith
  <1>2. WithGenerationPrompt(q).ids = Prompted(q.ids)
    BY <1>1 DEF WithGenerationPrompt, Prompted, UpdateInputIds, Task
  <1> DEFINE w == WithoutGenerationPrompt(q)
  <1>3. w.ids = Unprompted(q.ids) /\ w = [w EXCEPT !.turns = @]
        /\ \A ids, loss : [w EXCEPT !.ids = ids, !.loss = loss].ids = ids
    BY <1>1 DEF WithoutGenerationPrompt, Unprompted, Task
  <1> HIDE DEF w
  <1>4. Finalized(q, StreamCap).ids = Cut(q.ids, StreamCap)
    BY <1>3 DEF Finalized, Cut, w
  <1>5. ASSUME NEW n PROVE AddToolResponseMessages(q, n).ids = Replied(q.ids, n)
    BY <1>3 DEF AddToolResponseMessages, Replied, UpdateInputIds, w
  <1> QED BY <1>2, <1>3, <1>4, <1>5 DEF w

\* finalize cuts the stream and completes the request.
LEMMA FinishRests ==
    ASSUME NEW q, Sound(q), q.finish \in {"stop", "length"}
    PROVE  Rests(q.ids, q.turns, Finish(q)) /\ Finish(q).at \in {"logprob", "returned"}
  <1> DEFINE f == Finalized(q, StreamCap)
             g == [f EXCEPT !.state = "completed"]
             at == IF CalculateLogProbs THEN "logprob" ELSE "returned"
  <1>1. Sound(f) /\ SameControl(f, q) /\ f.ids = Cut(q.ids, StreamCap)
    BY FinalizedSound, OperatorsOnStreams DEF Sound
  <1>2. Finish(q) = [g EXCEPT !.at = at]
    BY DEF Finish
  <1> HIDE DEF f
  <1>3. LET p == [g EXCEPT !.at = at]
        IN  p.at = at /\ p.state = "completed" /\ p.ids = f.ids /\ p.turns = f.turns
    BY <1>1 DEF Sound, Task
  <1> QED BY <1>1, <1>2, <1>3 DEF Rests, SameControl

\* So does the end of the loop, at once or after the rewards.
LEMMA LeaveLoopRests ==
    ASSUME NEW r \in Reqs, NEW q, Sound(q),
           ~TurnsLeft(q) \/ q.finish \in {"stop", "length"}
    PROVE  /\ Rests(q.ids, q.turns, LeaveLoop(r, q))
           /\ LeaveLoop(r, q).at \in {"reward", "logprob", "returned"}
  <1> DEFINE s == [q EXCEPT !.finish = FinishReason(q), !.open = Jobs("reward", r)]
  <1>1. FinishReason(q) \in {"stop", "length"}
    BY DEF FinishReason
  <1>2. Sound(s) /\ s.finish \in {"stop", "length"} /\ s.ids = q.ids /\ s.turns = q.turns
    BY <1>1, JobsType DEF Sound, Task, Reasons
  <1>3. LeaveLoop(r, q) = IF s.open = {} THEN Finish(s) ELSE [s EXCEPT !.at = "reward"]
    BY DEF LeaveLoop
  <1> HIDE DEF s
  <1>4. LET p == [s EXCEPT !.at = "reward"]
        IN  p.at = "reward" /\ p.ids = s.ids /\ p.turns = s.turns
    BY <1>2 DEF Sound, Task
  <1> QED BY <1>2, <1>3, <1>4, FinishRests DEF Rests

\* Asking the engine leaves the prompted stream as it is.
LEMMA CallEngineRests ==
    ASSUME NEW r \in Reqs, NEW q, Sound(q)
    PROVE  /\ Rests(q.ids, q.turns, CallEngine(r, q))
           /\ CallEngine(r, q).at \in {"engine", "reward", "logprob", "returned"}
  <1>1. CASE PromptTooLong(q)
    <2> DEFINE l == [q EXCEPT !.finish = "length"]
    <2>1. Sound(l) /\ l.finish = "length" /\ l.ids = q.ids /\ l.turns = q.turns
      BY DEF Sound, Task, Reasons
    <2>2. CallEngine(r, q) = LeaveLoop(r, l)
      BY <1>1 DEF CallEngine
    <2> HIDE DEF l
    <2> QED BY <2>1, <2>2, LeaveLoopRests
  <1>2. CASE ~PromptTooLong(q)
    <2>1. CallEngine(r, q) = [q EXCEPT !.at = "engine"]
      BY <1>2 DEF CallEngine
    <2> QED BY <2>1 DEF Sound, Task, Rests
  <1> QED BY <1>1, <1>2

\* One evaluation of the loop condition.
LEMMA ContinueRunsTo ==
    ASSUME NEW r \in Reqs, NEW q, Sound(q),
           q.state \in {"running", "tool_calling", "interacting"}
    PROVE  RunsTo(q, Continue(r, q))
  <1>1. CASE ~TurnsLeft(q)
    <2>1. Continue(r, q) = LeaveLoop(r, q)
      BY <1>1 DEF Continue
    <2> QED BY <1>1, <2>1, LeaveLoopRests DEF RunsTo
  <1>2. CASE TurnsLeft(q) /\ q.state \in {"tool_calling", "interacting"}
    <2> DEFINE u == [q EXCEPT !.userTurns = @ + 1]
    <2>1. \/ Continue(r, q) = [q EXCEPT !.at = "tools"]
          \/ Continue(r, q) = [u EXCEPT !.at = "user"]
          \/ Continue(r, q) = [u EXCEPT !.at = "failed", !.error = "no_interaction"]
      BY <1>2 DEF Continue, CallUser, Failed
    <2> QED BY <1>2, <2>1 DEF RunsTo, Rests, Calm, Sound, Task
  <1>3. CASE TurnsLeft(q) /\ q.state = "running"
    <2> DEFINE g == WithGenerationPrompt(q)
    <2>1. Sound(g) /\ SameControl(g, q) /\ g.ids = Prompted(q.ids)
      BY WithGenerationPromptSound, OperatorsOnStreams DEF Sound
    <2>2. Continue(r, q) = CallEngine(r, g)
      BY <1>3 DEF Continue
    <2> HIDE DEF g
    <2> QED BY <2>1, <2>2, CallEngineRests DEF RunsTo, SameControl
  <1> QED BY <1>1, <1>2, <1>3

\* Running on in state "running".
LEMMA RunOnRunsTo ==
    ASSUME NEW r \in Reqs, NEW q, Sound(q)
    PROVE  LET c == [q EXCEPT !.state = "running"]
           IN  /\ RunsTo(c, Continue(r, c))
               /\ Calm(c) /\ c.ids = q.ids /\ c.turns = q.turns
  <1> DEFINE c == [q EXCEPT !.state = "running"]
  <1>1. Sound(c) /\ c.state = "running" /\ c.ids = q.ids /\ c.turns = q.turns
    BY DEF Sound, Task, States
  <1> HIDE DEF c
  <1>2. RunsTo(c, Continue(r, c)) /\ Calm(c)
    BY <1>1, ContinueRunsTo DEF Calm
  <1> QED BY <1>1, <1>2 DEF c

\* The coroutine runs on from the stream and the turns of q, in a calm state.
RunsCalmly(q, p) ==
    \E c : c.ids = q.ids /\ c.turns = q.turns /\ Calm(c) /\ RunsTo(c, p)

\* What follows the creation of the tools.
LEMMA AfterCreationRuns ==
    ASSUME NEW r \in Reqs, NEW q, Sound(q), Calm(q)
    PROVE  RunsCalmly(q, AfterCreation(r, q))
  <1>1. CASE InteractionOf[r] \in {"known", "missing"}
    <2>1. \/ AfterCreation(r, q) = [q EXCEPT !.at = "start"]
          \/ AfterCreation(r, q) = [q EXCEPT !.at = "failed", !.error = "no_interaction"]
      BY <1>1 DEF AfterCreation, Failed
    <2>2. RunsTo(q, AfterCreation(r, q))
      BY <2>1 DEF RunsTo, Rests, Sound, Task
    <2> QED BY <2>2 DEF RunsCalmly
  <1>2. CASE InteractionOf[r] = "none"
    BY <1>2, RunOnRunsTo DEF AfterCreation, RunsCalmly
  <1> QED BY <1>1, <1>2, RequestAssumption

\* What follows a reply.
LEMMA ContinueUnlessTooLongRuns ==
    ASSUME NEW r \in Reqs, NEW q, Sound(q)
    PROVE  RunsCalmly(q, ContinueUnlessTooLong(r, q))
  <1>1. CASE BatchDim >= MaxModelLen
    <2> DEFINE l == [q EXCEPT !.finish = "stop"]
               c == [q EXCEPT !.state = "running"]
    <2>1. Sound(l) /\ l.finish = "stop" /\ l.ids = q.ids /\ l.turns = q.turns
      BY DEF Sound, Task, Reasons
    <2>2. ContinueUnlessTooLong(r, q) = LeaveLoop(r, l)
      BY <1>1 DEF ContinueUnlessTooLong
    <2>3. c.ids = q.ids /\ c.turns = q.turns /\ Calm(c)
      BY DEF Sound, Task, Calm
    <2> HIDE DEF l, c
    <2>4. RunsTo(c, LeaveLoop(r, l))
      BY <2>1, <2>3, LeaveLoopRests DEF RunsTo
    <2> QED BY <2>2, <2>3, <2>4 DEF RunsCalmly
  <1>2. CASE ~(BatchDim >= MaxModelLen)
    BY <1>2, RunOnRunsTo DEF ContinueUnlessTooLong, RunsCalmly
  <1> QED BY <1>1, <1>2

\* A request suspended at its next await has made a step.
LEMMA SuspendActs ==
    ASSUME IInv, IInv', NEW r \in Reqs, NEW p, Suspend(r, p), Moves(r, task[r], p),
           task[r].at \in Running, p.at # "padded",
           phase \in {"collect", "drain", "fail"}, UNCHANGED Collector
    PROVE  Acts(r)
  <1>1. /\ task' = [task EXCEPT ![r] = p]
        /\ doneQ' = IF p.at \in Finished THEN Append(doneQ, r) ELSE doneQ
    BY DEF Suspend
  <1>2. p \in Task
    BY <1>1 DEF IInv, VarTypes
  <1> QED BY <1>1, <1>2 DEF Acts

\* In particular one whose await returned and whose coroutine ran on.
LEMMA HeardActs ==
    ASSUME IInv, IInv', NEW r \in Reqs, NEW p, NEW q, Suspend(r, p),
           Heard(task[r], q), RunsTo(q, p),
           phase \in {"collect", "drain", "fail"}, UNCHANGED Collector
    PROVE  Acts(r)
  <1>1. task[r].at \in Running /\ p.at # "padded"
    BY DEF Heard, RunsTo, Rests, Running
  <1>2. Moves(r, task[r], p)
    BY DEF Moves
  <1> QED BY <1>1, <1>2, SuspendActs

\* The coroutine begins.
LEMMA StartTaskActs ==
    ASSUME IInv, IInv', NEW r \in Reqs, StartTask(r) PROVE Acts(r)
  <1>1. /\ Sound(task[r]) /\ task[r].at = "spawned" /\ task[r].state = "pending"
        /\ phase \in {"collect", "drain", "fail"} /\ UNCHANGED Collector
    BY DEF IInv, ReqInv, TaskInv, AtAwait, StartTask, Resumes
  <1>2. CASE ToolsOf[r] = {}
    <2>1. Suspend(r, AfterCreation(r, task[r]))
      BY <1>2 DEF StartTask
    <2>2. PICK c : /\ c.ids = task[r].ids /\ c.turns = task[r].turns /\ Calm(c)
                   /\ RunsTo(c, AfterCreation(r, task[r]))
      BY <1>1, AfterCreationRuns DEF RunsCalmly, Calm
    <2>3. Heard(task[r], c)
      BY <1>1, <2>2 DEF Heard, Sound, Task
    <2> QED BY <1>1, <2>1, <2>2, <2>3, HeardActs
  <1>3. CASE ToolsOf[r] # {}
    <2> DEFINE p == [task[r] EXCEPT !.at = "create", !.open = Jobs("create", r)]
    <2>1. Suspend(r, p)
      BY <1>3 DEF StartTask
    <2>2. /\ p.at = "create" /\ p.ids = task[r].ids /\ p.turns = task[r].turns
          /\ p.state = task[r].state
      BY <1>1 DEF Sound, Task
    <2> HIDE DEF p
    <2>3. Moves(r, task[r], p)
      BY <1>1, <2>2 DEF Moves, QuietMove
    <2> QED BY <1>1, <2>1, <2>2, <2>3, SuspendActs DEF Running
  <1> QED BY <1>2, <1>3

\* Every tool has an instance.
LEMMA ToolsCreatedActs ==
    ASSUME IInv, IInv', NEW r \in Reqs, ToolsCreated(r) PROVE Acts(r)
  <1>1. PICK n \in CreationLens :
            Suspend(r, AfterCreation(r, AddToolResponseMessages(task[r], n)))
    BY DEF ToolsCreated
  <1>2. /\ Sound(task[r]) /\ task[r].at = "create" /\ task[r].state = "pending" /\ n \in Nat
        /\ phase \in {"collect", "drain", "fail"} /\ UNCHANGED Collector
    BY RequestAssumption DEF IInv, ReqInv, TaskInv, AtAwait, ToolsCreated, Resumes
  <1> DEFINE p == AddToolResponseMessages(task[r], n)
  <1>3. Sound(p) /\ SameControl(p, task[r]) /\ p.ids = Replied(task[r].ids, n)
    BY <1>2, AddToolResponseMessagesSound, OperatorsOnStreams DEF Sound
  <1>4. Suspend(r, AfterCreation(r, p))
    BY <1>1
  <1> HIDE DEF p
  <1>5. PICK c : /\ c.ids = p.ids /\ c.turns = p.turns /\ Calm(c)
                 /\ RunsTo(c, AfterCreation(r, p))
    BY <1>2, <1>3, AfterCreationRuns DEF RunsCalmly, Calm, SameControl
  <1>6. Heard(task[r], c)
    BY <1>2, <1>3, <1>5 DEF Heard, Sound, Task, SameControl
  <1> QED BY <1>2, <1>4, <1>5, <1>6, HeardActs

\* The interaction has its session.
LEMMA InteractionStartedActs ==
    ASSUME IInv, IInv', NEW r \in Reqs, InteractionStarted(r) PROVE Acts(r)
  <1> DEFINE c == [task[r] EXCEPT !.state = "running"]
  <1>1. /\ Sound(task[r]) /\ task[r].at = "start"
        /\ phase \in {"collect", "drain", "fail"} /\ UNCHANGED Collector
    BY DEF IInv, ReqInv, TaskInv, InteractionStarted, Resumes
  <1>2. Suspend(r, Continue(r, c))
    BY DEF InteractionStarted
  <1>3. RunsTo(c, Continue(r, c)) /\ Calm(c) /\ c.ids = task[r].ids /\ c.turns = task[r].turns
    BY <1>1, RunOnRunsTo
  <1> HIDE DEF c
  <1>4. Heard(task[r], c)
    BY <1>1, <1>3 DEF Heard, Sound, Task
  <1> QED BY <1>1, <1>2, <1>3, <1>4, HeardActs

\* An exception of the interaction or the engine leaves the stream alone.
LEMMA RaisesActs ==
    ASSUME IInv, IInv', NEW r \in Reqs, InteractionRaises(r) \/ EngineRaises(r) PROVE Acts(r)
  <1>1. PICK e : Suspend(r, Failed(task[r], e))
    BY DEF InteractionRaises, EngineRaises
  <1> DEFINE p == Failed(task[r], e)
  <1>2. /\ Sound(task[r]) /\ task[r].at \in {"start", "user", "engine", "logprob"}
        /\ phase \in {"collect", "drain", "fail"} /\ UNCHANGED Collector
    BY DEF IInv, ReqInv, TaskInv, InteractionRaises, EngineRaises, Resumes
  <1>3. /\ p.at = "failed" /\ p.ids = task[r].ids /\ p.turns = task[r].turns
        /\ p.state = task[r].state
    BY <1>2 DEF Failed, Sound, Task
  <1>4. Suspend(r, p)
    BY <1>1
  <1> HIDE DEF p
  <1>5. Moves(r, task[r], p)
    BY <1>2, <1>3 DEF Moves, QuietMove, Running
  <1> QED BY <1>2, <1>3, <1>4, <1>5, SuspendActs DEF Running

\* What the engine wrote is one more turn.
LEMMA AnsweredHeard ==
    ASSUME IInv, NEW r \in Reqs, EngineAnswers(r), NEW n \in MessageLens(r)
    PROVE  /\ Sound(Answered(r, n)) /\ Heard(task[r], Answered(r, n))
           /\ phase \in {"collect", "drain", "fail"} /\ UNCHANGED Collector
  <1> DEFINE q == AddAssistantMessage(task[r], n)
             k == q.turns + 1
  <1>1. /\ Sound(task[r]) /\ task[r].at = "engine"
        /\ phase \in {"collect", "drain", "fail"} /\ UNCHANGED Collector
    BY DEF IInv, ReqInv, TaskInv, EngineAnswers, Resumes
  <1>2. n \in Nat \ {0} /\ "asst" \in Kinds
    BY RequestAssumption DEF MessageLens, Kinds
  <1>3. Sound(q) /\ SameControl(q, task[r]) /\ q.ids = task[r].ids \o Copies(n, "asst")
    BY <1>1, <1>2, UpdateSound DEF AddAssistantMessage
  <1>4. Answered(r, n) = [q EXCEPT !.turns = k]
    BY DEF Answered
  <1>5. k = task[r].turns + 1
    BY <1>3 DEF SameControl
  <1> HIDE DEF q, k
  <1>6. LET a == [q EXCEPT !.turns = k] IN a.turns = k /\ a.ids = q.ids
    BY <1>3 DEF Sound, Task
  <1>7. q.ids \in Seq(Kinds)
    BY <1>3 DEF Sound, Task
  <1>8. Heard(task[r], Answered(r, n))
    BY <1>1, <1>2, <1>3, <1>4, <1>5, <1>6, <1>7 DEF Heard
  <1>9. Sound(Answered(r, n))
    BY <1>1, AnsweredSound
  <1> QED BY <1>1, <1>8, <1>9

\* The coroutine runs on from the engine's answer.
LEMMA AnsweredActs ==
    ASSUME IInv, IInv', NEW r \in Reqs, EngineAnswers(r), NEW n \in MessageLens(r),
           NEW q, q.ids = Answered(r, n).ids, q.turns = Answered(r, n).turns,
           NEW p, Suspend(r, p), RunsTo(q, p)
    PROVE  Acts(r)
  <1> DEFINE a == Answered(r, n)
  <1>1. Heard(task[r], a) /\ phase \in {"collect", "drain", "fail"} /\ UNCHANGED Collector
    BY AnsweredHeard
  <1>2. task[r].at = "engine"
    BY DEF EngineAnswers, Resumes
  <1> HIDE DEF a
  <1>3. Heard(task[r], q)
    BY <1>1, <1>2 DEF Heard, a
  <1> QED BY <1>1, <1>3, HeardActs

\* The engine stopped at the token limit.
LEMMA ReplyCutOffActs ==
    ASSUME IInv, IInv', NEW r \in Reqs, ReplyCutOff(r) PROVE Acts(r)
  <1>1. EngineAnswers(r)
    BY DEF ReplyCutOff
  <1>2. PICK n \in MessageLens(r) :
            Suspend(r, LeaveLoop(r, [Answered(r, n) EXCEPT !.finish = "length"]))
    BY DEF ReplyCutOff
  <1> DEFINE a == Answered(r, n)
             q == [a EXCEPT !.finish = "length"]
  <1>3. Sound(a)
    BY <1>1, AnsweredHeard
  <1>4. Suspend(r, LeaveLoop(r, q))
    BY <1>2
  <1> HIDE DEF a
  <1>5. Sound(q) /\ q.finish = "length" /\ q.ids = a.ids /\ q.turns = a.turns
    BY <1>3 DEF Sound, Task, Reasons
  <1> HIDE DEF q
  <1>6. RunsTo(q, LeaveLoop(r, q))
    BY <1>5, LeaveLoopRests DEF RunsTo
  <1> QED BY <1>1, <1>4, <1>5, <1>6, AnsweredActs DEF a

\* The engine's answer has a tool call that cannot be parsed.
LEMMA ReplyUndecodableActs ==
    ASSUME IInv, IInv', NEW r \in Reqs, ReplyUndecodable(r) PROVE Acts(r)
  <1>1. EngineAnswers(r)
    BY DEF ReplyUndecodable
  <1>2. PICK n \in MessageLens(r) :
            Suspend(r, LeaveLoop(r, [Answered(r, n) EXCEPT !.finish = "stop",
                                                           !.state = "completed"]))
    BY DEF ReplyUndecodable
  <1> DEFINE a == Answered(r, n)
             q == [a EXCEPT !.finish = "stop", !.state = "completed"]
  <1>3. Sound(a)
    BY <1>1, AnsweredHeard
  <1>4. Suspend(r, LeaveLoop(r, q))
    BY <1>2
  <1> HIDE DEF a
  <1>5. Sound(q) /\ q.finish = "stop" /\ q.ids = a.ids /\ q.turns = a.turns
    BY <1>3 DEF Sound, Task, Reasons, States
  <1> HIDE DEF q
  <1>6. RunsTo(q, LeaveLoop(r, q))
    BY <1>5, LeaveLoopRests DEF RunsTo
  <1> QED BY <1>1, <1>4, <1>5, <1>6, AnsweredActs DEF a

\* The engine's answer calls tools.
LEMMA ReplyToolCallsActs ==
    ASSUME IInv, IInv', NEW r \in Reqs, ReplyToolCalls(r) PROVE Acts(r)
  <1>1. EngineAnswers(r)
    BY DEF ReplyToolCalls
  <1>2. PICK n \in MessageLens(r), k \in 1..MaxCalls : \E calls \in [1..k -> Tools] :
            Suspend(r, Continue(r,
              [Answered(r, n) EXCEPT
                  !.finish = "tool_calls", !.state = "tool_calling",
                  !.open = {[op |-> "execute", index |-> i, tool |-> calls[i]] : i \in 1..k}]))
    BY DEF ReplyToolCalls
  <1>3. PICK calls \in [1..k -> Tools] :
            Suspend(r, Continue(r,
              [Answered(r, n) EXCEPT
                  !.finish = "tool_calls", !.state = "tool_calling",
                  !.open = {[op |-> "execute", index |-> i, tool |-> calls[i]] : i \in 1..k}]))
    BY <1>2
  <1> DEFINE jobs == {[op |-> "execute", index |-> i, tool |-> calls[i]] : i \in 1..k}
             a == Answered(r, n)
             q == [a EXCEPT !.finish = "tool_calls", !.state = "tool_calling", !.open = jobs]
  <1>4. Suspend(r, Continue(r, q))
    BY <1>3
  <1>5. jobs \subseteq Job
    BY ConfigAssumption DEF Job
  <1>6. Sound(a)
    BY <1>1, AnsweredHeard
  <1> HIDE DEF jobs, a
  <1>7. Sound(q) /\ q.state = "tool_calling" /\ q.ids = a.ids /\ q.turns = a.turns
    BY <1>5, <1>6 DEF Sound, Task, Reasons, States
  <1> HIDE DEF q
  <1>8. RunsTo(q, Continue(r, q))
    BY <1>7, ContinueRunsTo
  <1> QED BY <1>1, <1>4, <1>7, <1>8, AnsweredActs DEF a

\* The engine's answer is text.
LEMMA ReplyTextActs ==
    ASSUME IInv, IInv', NEW r \in Reqs, ReplyText(r) PROVE Acts(r)
  <1>1. EngineAnswers(r)
    BY DEF ReplyText
  <1> DEFINE f(n) == [Answered(r, n) EXCEPT !.finish = "stop"]
  <1>2. PICK n \in MessageLens(r) :
            \/ Suspend(r, Continue(r, [f(n) EXCEPT !.state = "interacting"]))
            \/ Suspend(r, LeaveLoop(r, [f(n) EXCEPT !.state = "completed"]))
    BY DEF ReplyText
  <1> DEFINE a == Answered(r, n)
             g == f(n)
             i == [g EXCEPT !.state = "interacting"]
             c == [g EXCEPT !.state = "completed"]
  <1>3. Sound(a)
    BY <1>1, AnsweredHeard
  <1>4. Suspend(r, Continue(r, i)) \/ Suspend(r, LeaveLoop(r, c))
    BY <1>2
  <1> HIDE DEF a
  <1>5. Sound(g) /\ g.finish = "stop" /\ g.ids = a.ids /\ g.turns = a.turns
    BY <1>3 DEF Sound, Task, Reasons, a
  <1> HIDE DEF g
  <1>6. Sound(i) /\ i.state = "interacting" /\ i.ids = a.ids /\ i.turns = a.turns
    BY <1>5 DEF Sound, Task, States
  <1>7. Sound(c) /\ c.finish = "stop" /\ c.ids = a.ids /\ c.turns = a.turns
    BY <1>5 DEF Sound, Task, States
  <1> HIDE DEF i, c
  <1>8. RunsTo(i, Continue(r, i)) /\ RunsTo(c, LeaveLoop(r, c))
    BY <1>6, <1>7, ContinueRunsTo, LeaveLoopRests DEF RunsTo
  <1> QED BY <1>1, <1>4, <1>6, <1>7, <1>8, AnsweredActs DEF a

\* The tools' answers are appended.
LEMMA ToolsExecutedActs ==
    ASSUME IInv, IInv', NEW r \in Reqs, ToolsExecuted(r) PROVE Acts(r)
  <1>1. PICK n \in ReplyLens :
            Suspend(r, ContinueUnlessTooLong(r, AddToolResponseMessages(task[r], n)))
    BY DEF ToolsExecuted
  <1>2. /\ Sound(task[r]) /\ task[r].at = "tools" /\ n \in Nat
        /\ phase \in {"collect", "drain", "fail"} /\ UNCHANGED Collector
    BY RequestAssumption DEF IInv, ReqInv, TaskInv, ToolsExecuted, Resumes
  <1> DEFINE p == AddToolResponseMessages(task[r], n)
  <1>3. Sound(p) /\ SameControl(p, task[r]) /\ p.ids = Replied(task[r].ids, n)
    BY <1>2, AddToolResponseMessagesSound, OperatorsOnStreams DEF Sound
  <1>4. Suspend(r, ContinueUnlessTooLong(r, p))
    BY <1>1
  <1> HIDE DEF p
  <1>5. PICK c : /\ c.ids = p.ids /\ c.turns = p.turns /\ Calm(c)
                 /\ RunsTo(c, ContinueUnlessTooLong(r, p))
    BY <1>3, ContinueUnlessTooLongRuns DEF RunsCalmly
  <1>6. Heard(task[r], c)
    BY <1>2, <1>3, <1>5 DEF Heard, Sound, Task, SameControl
  <1> QED BY <1>2, <1>4, <1>5, <1>6, HeardActs

\* The interaction answered, or ends the conversation.
LEMMA UserRepliedActs ==
    ASSUME IInv, IInv', NEW r \in Reqs, UserReplied(r) PROVE Acts(r)
  <1> DEFINE c == [task[r] EXCEPT !.finish = "stop", !.state = "completed"]
             u(n) == AddUserMessage(task[r], n)
  <1>1. PICK n \in ReplyLens :
            \/ Suspend(r, LeaveLoop(r, c))
            \/ Suspend(r, ContinueUnlessTooLong(r, u(n)))
    BY DEF UserReplied
  <1>2. /\ Sound(task[r]) /\ task[r].at = "user" /\ n \in Nat /\ "user" \in Kinds
        /\ phase \in {"collect", "drain", "fail"} /\ UNCHANGED Collector
    BY RequestAssumption DEF IInv, ReqInv, TaskInv, UserReplied, Resumes, Kinds
  <1>3. CASE Suspend(r, LeaveLoop(r, c))
    <2>1. /\ Sound(c) /\ c.finish = "stop" /\ c.state = "completed"
          /\ c.ids = task[r].ids /\ c.turns = task[r].turns
      BY <1>2 DEF Sound, Task, Reasons, States
    <2> HIDE DEF c
    <2>2. RunsTo(c, LeaveLoop(r, c))
      BY <2>1, LeaveLoopRests DEF RunsTo
    <2>3. Heard(task[r], c)
      BY <1>2, <2>1 DEF Heard, Calm, Sound, Task
    <2> QED BY <1>2, <1>3, <2>2, <2>3, HeardActs
  <1>4. CASE Suspend(r, ContinueUnlessTooLong(r, u(n)))
    <2> DEFINE p == u(n)
    <2>1. Sound(p) /\ SameControl(p, task[r]) /\ p.ids = task[r].ids \o Copies(n, "user")
      <3> DEFINE t == task[r]
      <3>1. Sound(t) /\ n \in Nat /\ "user" \in Kinds
        BY <1>2
      <3> HIDE DEF t
      <3>2. LET w == UpdateInputIds(t, "user", n, 0)
            IN  Sound(w) /\ SameControl(w, t) /\ w.ids = t.ids \o Copies(n, "user")
        BY <3>1, UpdateSound
      <3> QED BY <3>2 DEF AddUserMessage, t
    <2>2. Suspend(r, ContinueUnlessTooLong(r, p))
      BY <1>4
    <2> HIDE DEF p
    <2>3. PICK d : /\ d.ids = p.ids /\ d.turns = p.turns /\ Calm(d)
                   /\ RunsTo(d, ContinueUnlessTooLong(r, p))
      BY <2>1, ContinueUnlessTooLongRuns DEF RunsCalmly
    <2>4. d.ids \in Seq(Kinds)
      BY <2>1, <2>3 DEF Sound, Task
    <2>5. Heard(task[r], d)
      BY <1>2, <2>1, <2>3, <2>4 DEF Heard, SameControl
    <2> QED BY <1>2, <2>2, <2>3, <2>5, HeardActs
  <1> QED BY <1>1, <1>3, <1>4

\* Every tool has given its reward.
LEMMA RewardsCalculatedActs ==
    ASSUME IInv, IInv', NEW r \in Reqs, RewardsCalculated(r) PROVE Acts(r)
  <1>1. /\ Sound(task[r]) /\ task[r].at = "reward" /\ task[r].finish \in {"stop", "length"}
        /\ phase \in {"collect", "drain", "fail"} /\ UNCHANGED Collector
        /\ Suspend(r, Finish(task[r]))
    BY DEF IInv, ReqInv, TaskInv, AtAwait, RewardsCalculated, Resumes
  <1> DEFINE p == Finish(task[r])
  <1>2. Rests(task[r].ids, task[r].turns, p) /\ p.at \in {"logprob", "returned"}
    BY <1>1, FinishRests
  <1>3. Suspend(r, p)
    BY <1>1
  <1> HIDE DEF p
  <1>4. Moves(r, task[r], p)
    BY <1>1, <1>2 DEF Moves
  <1> QED BY <1>1, <1>2, <1>3, <1>4, SuspendActs DEF Running

\* The engine returned the log-probabilities.
LEMMA LogProbsCalculatedActs ==
    ASSUME IInv, IInv', NEW r \in Reqs, LogProbsCalculated(r) PROVE Acts(r)
  <1> DEFINE p == [task[r] EXCEPT !.at = "returned"]
  <1>1. /\ Sound(task[r]) /\ task[r].at = "logprob"
        /\ phase \in {"collect", "drain", "fail"} /\ UNCHANGED Collector
        /\ Suspend(r, p)
    BY DEF IInv, ReqInv, TaskInv, LogProbsCalculated, Resumes
  <1>2. /\ p.at = "returned" /\ p.ids = task[r].ids /\ p.turns = task[r].turns
        /\ p.state = task[r].state
    BY <1>1 DEF Sound, Task
  <1> HIDE DEF p
  <1>3. Moves(r, task[r], p)
    BY <1>1, <1>2 DEF Moves, QuietMove
  <1> QED BY <1>1, <1>2, <1>3, SuspendActs DEF Running

\* A cancelled task turns into padding.
LEMMA DeliverCancelActs ==
    ASSUME IInv, IInv', NEW r \in Reqs, DeliverCancel(r) PROVE Acts(r)
  <1> DEFINE p == PaddingTask(r)
  <1>1. /\ phase \in {"drain", "fail"} /\ task[r].at \in Running /\ UNCHANGED Collector
        /\ task' = [task EXCEPT ![r] = p] /\ doneQ' = Append(doneQ, r)
        /\ Moves(r, task[r], p)
    BY DEF DeliverCancel, Moves
  <1>2. p.at \in Finished
    BY DEF PaddingTask, FreshTask, Finished
  <1> HIDE DEF p
  <1>3. p \in Task
    BY <1>1 DEF IInv, VarTypes
  <1> QED BY <1>1, <1>2, <1>3 DEF Acts

\* A child ends, well or not.
LEMMA JobStepActs ==
    ASSUME IInv, IInv', NEW r \in Reqs, JobStep(r) PROVE Acts(r)
  <1>1. PICK j \in Job : JobSucceeds(r, j) \/ JobRaises(r, j)
    BY DEF JobStep
  <1> DEFINE o == task[r].open \ {j}
             q == [task[r] EXCEPT !.open = o]
             f(e) == Failed(q, e)
  <1>2. /\ Sound(task[r]) /\ Owned(r, task[r], instances) /\ j \in task[r].open
        /\ phase \in {"collect", "drain", "fail"} /\ UNCHANGED Collector
        /\ task \in [Reqs -> Task]
    BY <1>1 DEF IInv, VarTypes, ReqInv, TaskInv, JobSucceeds, JobRaises, JobRuns
  <1>3. /\ q.at = task[r].at /\ q.ids = task[r].ids /\ q.turns = task[r].turns
        /\ q.state = task[r].state
        /\ \A e : /\ f(e).at = "failed" /\ f(e).ids = task[r].ids
                  /\ f(e).turns = task[r].turns /\ f(e).state = task[r].state
    BY <1>2 DEF Sound, Task, Failed
  <1>4. \/ task' = [task EXCEPT ![r] = q] /\ UNCHANGED doneQ
        \/ task[r].at # "failed" /\ \E e : Suspend(r, f(e))
    BY <1>1, <1>2, <1>3 DEF JobSucceeds, JobRaises
  <1> HIDE DEF o
  <1>5. CASE task' = [task EXCEPT ![r] = q] /\ UNCHANGED doneQ
    <2> HIDE DEF q
    <2>1. q \in Task
      BY <1>2, <1>5 DEF IInv, VarTypes
    <2>2. Moves(r, task[r], q)
      BY <1>3 DEF Moves, QuietMove
    <2>3. ~(task[r].at \in Running /\ q.at \in Finished)
      BY <1>3 DEF Running, Finished
    <2> QED BY <1>2, <1>3, <1>5, <2>1, <2>2, <2>3 DEF Acts
  <1>6. ASSUME task[r].at # "failed", NEW e, Suspend(r, f(e)) PROVE Acts(r)
    <2>1. task[r].at \in Running
      BY <1>2, <1>6 DEF Sound, Task, Finished, Owned
    <2> DEFINE p == f(e)
    <2>2. /\ p.at = "failed" /\ p.ids = task[r].ids /\ p.turns = task[r].turns
          /\ p.state = task[r].state /\ Suspend(r, p)
      BY <1>3, <1>6
    <2> HIDE DEF p
    <2>3. Moves(r, task[r], p)
      BY <2>1, <2>2 DEF Moves, QuietMove
    <2> QED BY <1>2, <2>1, <2>2, <2>3, SuspendActs
  <1> QED BY <1>4, <1>5, <1>6

\* Every step is a request's, the collector's, or touches neither a request nor
\* the queue.
LEMMA StepKinds ==
    ASSUME IInv, [Next]_vars
    PROVE  \/ \E r \in Reqs : Acts(r)
           \/ UNCHANGED <<task, doneQ>> /\ (CollectorStep \/ UNCHANGED Collector)
  <1>1. IInv'
    BY NextInv
  <1>2. ASSUME NEW r \in Reqs, RequestStep(r) PROVE Acts(r)
    BY <1>1, <1>2, StartTaskActs, ToolsCreatedActs, InteractionStartedActs, RaisesActs,
       ReplyCutOffActs,
       ReplyToolCallsActs, ReplyUndecodableActs, ReplyTextActs, ToolsExecutedActs,
       UserRepliedActs, RewardsCalculatedActs, LogProbsCalculatedActs, DeliverCancelActs
       DEF RequestStep
  <1>3. ASSUME NEW r \in Reqs, JobStep(r) PROVE Acts(r)
    BY <1>1, <1>3, JobStepActs
  <1>4. ASSUME NEW r \in Reqs, EngineFinishesOrphan(r)
        PROVE  UNCHANGED <<task, doneQ>> /\ UNCHANGED Collector
    BY <1>4 DEF EngineFinishesOrphan, Collector
  <1>5. ASSUME CollectorStep PROVE UNCHANGED <<task, doneQ>>
    BY <1>5 DEF CollectorStep, CountCompletion, ReachTarget, CollectFailure, NextDone, Drained,
       AbortAll, ValidationDone, ValidationFails, AssembleBatch, FlushCache, Environment
  <1>6. CASE UNCHANGED vars
    BY <1>6 DEF vars, Collector
  <1> QED BY <1>2, <1>3, <1>4, <1>5, <1>6 DEF Next, Stopped

-----------------------------------------------------------------------------
(* The conversation of every request.                                      *)

\* The awaits behind finalize, and padding.
Ended == {"logprob", "returned", "padded"}

\* finalize has not cut the stream, for a task that failed as far as its state
\* tells.
Uncut(q) == q.at \notin Ended /\ (q.at = "failed" => q.state # "completed")

\* The stream of a task is a conversation of as many answered prompts as turns,
\* until finalize may cut it; tools and interaction reply to model output.
StreamInv(q) ==
    /\ Conversation(q.ids)
    /\ q.at \in Ended => q.state = "completed"
    /\ Uncut(q) => Cardinality(AnsweredPrompts(q.ids)) = q.turns
    /\ q.at \in {"tools", "user"} => EndsWith(q.ids, "asst")

StreamsInv == \A r \in Reqs : StreamInv(task[r])

\* The stream with which a coroutine runs on: every turn answered its prompt, and
\* a turn that calls for a reply is at the end.
TurnsAnswered(q) ==
    /\ q.ids \in Seq(Kinds) /\ Conversation(q.ids)
    /\ Cardinality(AnsweredPrompts(q.ids)) = q.turns
    /\ ~Calm(q) => EndsWith(q.ids, "asst")

\* The stream, the turns and the control of a task that has not begun.
LEMMA FreshFields ==
    ASSUME NEW r \in Reqs
    PROVE  /\ FreshTask(r).ids = PromptIds(PromptLen[r]) /\ FreshTask(r).turns = 0
           /\ FreshTask(r).at = "spawned"
           /\ PaddingTask(r).ids = PromptIds(PromptLen[r])
           /\ PaddingTask(r).at = "padded" /\ PaddingTask(r).state = "completed"
           /\ PromptLen[r] \in Nat \ {0}
  BY RequestAssumption DEF FreshTask, PaddingTask, InitialStream

\* What a coroutine hears keeps its stream a conversation.
LEMMA HeardAnswered ==
    ASSUME NEW t, TaskInv(t), StreamInv(t), NEW q, Heard(t, q)
    PROVE  TurnsAnswered(q)
  <1> DEFINE s == t.ids
  <1>1. /\ s \in Seq(Kinds) /\ Conversation(s) /\ q.ids \in Seq(Kinds) /\ t.turns \in Nat
        /\ t.at \in {"spawned", "create", "start", "tools", "user", "engine"}
    BY DEF TaskInv, Sound, Task, StreamInv, Heard
  <1>2. Cardinality(AnsweredPrompts(s)) = t.turns
    BY <1>1 DEF StreamInv, Ended, Uncut
  <1>3. CASE Calm(q) /\ q.turns = t.turns /\ q.ids = s
    BY <1>1, <1>2, <1>3 DEF TurnsAnswered
  <1>4. ASSUME Calm(q), q.turns = t.turns, NEW n \in Nat, q.ids = Replied(s, n)
        PROVE  TurnsAnswered(q)
    <2> HIDE DEF s
    <2>1. Conversation(Replied(s, n)) /\ AnsweredPrompts(Replied(s, n)) = AnsweredPrompts(s)
      BY <1>1, ConversationReplied
    <2> QED BY <1>1, <1>2, <1>4, <2>1 DEF TurnsAnswered
  <1>5. ASSUME t.at = "user", Calm(q), q.turns = t.turns,
               NEW n \in Nat, q.ids = s \o Copies(n, "user")
        PROVE  TurnsAnswered(q)
    <2>1. EndsWith(s, "asst")
      BY <1>5 DEF StreamInv
    <2> HIDE DEF s
    <2>2. Extended(q.ids, s, n, "user") /\ "user" \in Kinds \ {"asst"}
      BY <1>1, <1>5, AppendExtends DEF Kinds
    <2>3. ~EndsWith(s, "gen")
      BY <2>1 DEF EndsWith
    <2>4. Conversation(q.ids) /\ AnsweredPrompts(q.ids) = AnsweredPrompts(s)
      BY <1>1, <2>2, <2>3, ConversationGoesOn
    <2> QED BY <1>1, <1>2, <1>5, <2>4 DEF TurnsAnswered
  <1>6. ASSUME t.at = "engine", q.turns = t.turns + 1,
               NEW n \in Nat \ {0}, q.ids = s \o Copies(n, "asst")
        PROVE  TurnsAnswered(q)
    <2>1. EndsWith(s, "gen")
      BY <1>6 DEF TaskInv, AtAwait, EndsWithGenerationPrompt, EndsWith
    <2> HIDE DEF s
    <2>2. Extended(q.ids, s, n, "asst")
      BY <1>1, <1>6, AppendExtends DEF Kinds
    <2>3. /\ Conversation(q.ids) /\ EndsWith(q.ids, "asst")
          /\ AnsweredPrompts(q.ids) = AnsweredPrompts(s) \cup {Len(s)}
          /\ Len(s) \notin AnsweredPrompts(s)
      BY <1>1, <2>1, <2>2, ConversationAnswered
    <2>4. IsFiniteSet(AnsweredPrompts(s))
      BY <1>1, AnsweredPromptsFinite
    <2>5. Cardinality(AnsweredPrompts(q.ids)) = q.turns
      BY <1>2, <1>6, <2>3, <2>4, FS_AddElement
    <2> QED BY <1>1, <2>3, <2>5 DEF TurnsAnswered
  <1> QED BY <1>1, <1>3, <1>4, <1>5, <1>6, RequestAssumption DEF Heard

\* So does what it does with it.
LEMMA RestsStream ==
    ASSUME NEW s \in Seq(Kinds), Conversation(s), NEW k,
           Cardinality(AnsweredPrompts(s)) = k, NEW p, Rests(s, k, p),
           p.at \in {"tools", "user"} => EndsWith(p.ids, "asst")
    PROVE  StreamInv(p)
  <1>1. CASE p.ids = s /\ p.at \in {"start", "engine", "tools", "user", "reward", "failed"}
    BY <1>1 DEF Rests, StreamInv, Ended
  <1>2. CASE p.ids = Cut(s, StreamCap) /\ p.at \in {"logprob", "returned"} /\ p.state = "completed"
    <2>1. StreamCap \in Nat
      BY ConfigAssumption DEF StreamCap
    <2>2. Conversation(p.ids)
      BY <1>2, <2>1, ConversationCut
    <2> QED BY <1>2, <2>2 DEF StreamInv, Ended, Uncut
  <1> QED BY <1>1, <1>2 DEF Rests

\* In whichever way it runs on.
LEMMA RunsStream ==
    ASSUME NEW q, TurnsAnswered(q), NEW p, RunsTo(q, p)
    PROVE  StreamInv(p)
  <1>1. /\ q.ids \in Seq(Kinds) /\ Conversation(q.ids)
        /\ Cardinality(AnsweredPrompts(q.ids)) = q.turns
        /\ p.at \in {"tools", "user"} => EndsWith(p.ids, "asst")
    BY DEF TurnsAnswered, RunsTo
  <1> DEFINE s == Prompted(q.ids)
  <1>2. /\ s \in Seq(Kinds) /\ Conversation(s)
        /\ Cardinality(AnsweredPrompts(s)) = q.turns
    BY <1>1, PromptedStream, ConversationPrompted
  <1>3. Rests(q.ids, q.turns, p) \/ Rests(s, q.turns, p)
    BY DEF RunsTo
  <1> HIDE DEF s
  <1> QED BY <1>1, <1>2, <1>3, RestsStream

\* Every step of a request keeps its stream a conversation.
LEMMA MovesStream ==
    ASSUME NEW r \in Reqs, NEW t, TaskInv(t), StreamInv(t), NEW p, Moves(r, t, p)
    PROVE  StreamInv(p)
  <1>1. CASE p.ids = t.ids /\ p.turns = t.turns /\ p.state = t.state /\ QuietMove(t.at, p.at)
    BY <1>1 DEF QuietMove, StreamInv, Ended, Uncut
  <1>2. CASE t.at = "reward" /\ Rests(t.ids, t.turns, p) /\ p.at \in {"logprob", "returned"}
    <2>1. /\ t.ids \in Seq(Kinds) /\ Conversation(t.ids)
          /\ Cardinality(AnsweredPrompts(t.ids)) = t.turns
      BY <1>2 DEF TaskInv, Sound, Task, StreamInv, Ended, Uncut
    <2> QED BY <1>2, <2>1, RestsStream
  <1>3. CASE p = PaddingTask(r)
    BY <1>3, FreshFields, PromptStream DEF StreamInv, Ended, Uncut
  <1>4. ASSUME NEW q, Heard(t, q), RunsTo(q, p) PROVE StreamInv(p)
    BY <1>4, HeardAnswered, RunsStream
  <1> QED BY <1>1, <1>2, <1>3, <1>4 DEF Moves

\* The streams are conversations at the beginning and after every step.
LEMMA StreamsInductive ==
    /\ Init => StreamsInv
    /\ IInv /\ StreamsInv /\ [Next]_vars => StreamsInv'
  <1>1. ASSUME Init PROVE StreamsInv
    <2>1. ASSUME NEW r \in Reqs PROVE StreamInv(task[r])
      <3>1. task[r] = FreshTask(r)
        BY <1>1 DEF Init
      <3>2. Cardinality({}) = 0
        BY FS_EmptySet
      <3> QED BY <3>1, <3>2, FreshFields, PromptStream DEF StreamInv, Ended
    <2> QED BY <2>1 DEF StreamsInv
  <1>2. ASSUME IInv, StreamsInv, [Next]_vars PROVE StreamsInv'
    <2>1. CASE UNCHANGED task
      BY <1>2, <2>1 DEF StreamsInv
    <2>2. ASSUME NEW r \in Reqs, Acts(r) PROVE StreamsInv'
      <3>1. PICK p \in Task : task' = [task EXCEPT ![r] = p] /\ Moves(r, task[r], p)
        BY <2>2 DEF Acts
      <3>2. task \in [Reqs -> Task] /\ TaskInv(task[r]) /\ StreamInv(task[r])
        BY <1>2 DEF IInv, VarTypes, ReqInv, StreamsInv
      <3>3. StreamInv(p)
        BY <3>1, <3>2, MovesStream
      <3> QED BY <1>2, <3>1, <3>2, <3>3 DEF StreamsInv
    <2> QED BY <1>2, <2>1, <2>2, StepKinds
  <1> QED BY <1>1, <1>2

\* In every conversation of _async_rollout_a_request each stretch of model output
\* answers exactly one generation prompt, and the prompts answered are as many as
\* the turns counted: get_generation_prompt_ids, add_assistant_message and the
\* replies of tools and users never leave two prompts, or none, before an answer.
THEOREM TurnsFollowPrompts == Spec => []TurnDiscipline
  <1>1. ASSUME IInv, StreamsInv PROVE TurnDiscipline
    <2>1. ASSUME NEW r \in Reqs
          PROVE  /\ Conversation(task[r].ids)
                 /\ task[r].state # "completed" =>
                       Cardinality(AnsweredPrompts(task[r].ids)) = task[r].turns
      BY <1>1 DEF StreamsInv, StreamInv, Uncut
    <2> QED BY <2>1 DEF TurnDiscipline, Conversation, AnsweredPrompts
  <1>2. Init => IInv /\ StreamsInv
    BY InitInv, StreamsInductive
  <1>3. (IInv /\ StreamsInv) /\ [Next]_vars => (IInv /\ StreamsInv)'
    BY NextInv, StreamsInductive
  <1> QED BY <1>1, <1>2, <1>3, PTL DEF Spec

-----------------------------------------------------------------------------
(* What the model has seen.                                                *)

\* The first m tokens of the stream of t were seen by the model.
SeenUpTo(t, m) ==
    /\ m \in 0..Len(t.ids)
    /\ t.at = "engine" => m = Len(t.ids)
    /\ t.at # "engine" => m = 0 \/ t.ids[m] = "asst"

\* Seen is the beginning of a stream, up to such a point.
LEMMA SeenIsBeginning ==
    ASSUME NEW t \in Task
    PROVE  \E m : SeenUpTo(t, m) /\ Seen(t) = SubSeq(t.ids, 1, m)
  <1> DEFINE outputs == {i \in 1..Len(t.ids) : t.ids[i] = "asst"}
             last == CHOOSE i \in outputs : \A j \in outputs : j <= i
  <1>1. t.ids \in Seq(Kinds) /\ Len(t.ids) \in Nat
    BY DEF Task
  <1>2. CASE t.at = "engine"
    <2>1. Seen(t) = SubSeq(t.ids, 1, Len(t.ids))
      BY <1>1, <1>2 DEF Seen
    <2> QED BY <1>1, <1>2, <2>1 DEF SeenUpTo
  <1>3. CASE t.at # "engine" /\ outputs = {}
    <2>1. Seen(t) = <<>>
      BY <1>3 DEF Seen
    <2>2. SubSeq(t.ids, 1, 0) = <<>>
      BY <1>1
    <2>3. SeenUpTo(t, 0)
      BY <1>1, <1>3 DEF SeenUpTo
    <2> QED BY <2>1, <2>2, <2>3
  <1>4. CASE t.at # "engine" /\ outputs # {}
    <2>1. Seen(t) = SubSeq(t.ids, 1, last)
      BY <1>4 DEF Seen
    <2>2. \E i \in outputs : \A j \in outputs : j <= i
      <3>1. outputs \in SUBSET (1..Len(t.ids))
        OBVIOUS
      <3> HIDE DEF outputs
      <3> QED BY <1>1, <1>4, <3>1, LastPosition
    <2>3. last \in outputs
      BY <2>2
    <2> HIDE DEF last
    <2>4. last \in 1..Len(t.ids) /\ t.ids[last] = "asst"
      BY <2>3
    <2>5. SeenUpTo(t, last)
      BY <1>1, <1>4, <2>4 DEF SeenUpTo
    <2> QED BY <2>1, <2>5
  <1> QED BY <1>2, <1>3, <1>4

\* Keeping it up to the cut is what SeenIsKept asks for.
LEMMA KeptBeginning ==
    ASSUME NEW s \in Seq(Kinds), NEW t \in Seq(Kinds), NEW m \in 0..Len(s), NEW cap \in Nat,
           Keeps(s, t, IF cap < m THEN cap ELSE m)
    PROVE  LET kept == FirstN(SubSeq(s, 1, m), cap)
           IN  kept = FirstN(t, Len(kept))
  <1> DEFINE b == SubSeq(s, 1, m)
             kept == FirstN(b, cap)
             k == IF cap < m THEN cap ELSE m
  <1>1. b \in Seq(Kinds) /\ Len(b) = m /\ \A i \in 1..m : b[i] = s[i]
    BY BeginningSeq
  <1> HIDE DEF b
  <1>2. /\ kept \in Seq(Kinds) /\ Len(kept) = k
        /\ \A i \in 1..k : kept[i] = b[i]
    BY <1>1, FirstNSeq
  <1> HIDE DEF kept
  <1>3. k \in Nat /\ k <= m /\ k <= Len(t) /\ Len(t) \in Nat /\ m \in Nat
        /\ \A i \in 1..k : t[i] = s[i]
    BY DEF Keeps
  <1> HIDE DEF k
  <1> DEFINE f == FirstN(t, k)
  <1>4. f \in Seq(Kinds) /\ Len(f) = k /\ \A i \in 1..k : f[i] = t[i]
    BY <1>3, FirstNSeq
  <1> HIDE DEF f
  <1>5. \A i \in 1..k : kept[i] = f[i]
    BY <1>1, <1>2, <1>3, <1>4
  <1>6. kept = f
    BY <1>2, <1>4, <1>5, SeqEqual
  <1> QED BY <1>2, <1>6 DEF kept, b, f

\* The await returns: what was seen is settled in the stream it returns with.
LEMMA HeardSettled ==
    ASSUME NEW t \in Task, NEW q, Heard(t, q), NEW m, SeenUpTo(t, m)
    PROVE  Keeps(t.ids, q.ids, m) /\ Settled(q.ids, m)
  <1> DEFINE s == t.ids
  <1>1. s \in Seq(Kinds) /\ q.ids \in Seq(Kinds) /\ Len(s) \in Nat /\ m \in 0..Len(s)
    BY DEF Task, Heard, SeenUpTo
  <1>2. t.at # "engine" => Settled(s, m) /\ (m = 0 \/ s[m] = "asst")
    BY DEF SeenUpTo, Settled
  <1>3. CASE t.at # "engine" /\ q.ids = s
    BY <1>1, <1>2, <1>3 DEF Keeps
  <1>4. ASSUME t.at # "engine", NEW n \in Nat, q.ids = Replied(s, n)
        PROVE  Keeps(s, q.ids, m) /\ Settled(q.ids, m)
    <2> HIDE DEF s
    <2> QED BY <1>1, <1>2, <1>4, RepliedStream
  <1>5. ASSUME t.at # "engine", NEW n \in Nat, q.ids = s \o Copies(n, "user")
        PROVE  Keeps(s, q.ids, m) /\ Settled(q.ids, m)
    <2> HIDE DEF s
    <2>1. Extends(q.ids, s)
      BY <1>1, <1>5, AppendingExtends DEF Kinds
    <2> QED BY <1>1, <1>2, <1>5, <2>1, ExtendsSettled
  <1>6. ASSUME t.at = "engine", NEW n \in Nat \ {0}, q.ids = s \o Copies(n, "asst")
        PROVE  Keeps(s, q.ids, m) /\ Settled(q.ids, m)
    <2>1. m = Len(s)
      BY <1>6 DEF SeenUpTo
    <2> HIDE DEF s
    <2>2. Extended(q.ids, s, n, "asst")
      BY <1>1, <1>6, AppendExtends DEF Kinds
    <2> QED BY <1>1, <1>6, <2>1, <2>2 DEF Extended, Keeps, Settled
  <1> QED BY <1>1, <1>3, <1>4, <1>5, <1>6, RequestAssumption DEF Heard

\* The coroutine comes to rest without rewriting what is settled, up to the cut.
LEMMA RestsKeeps ==
    ASSUME NEW s \in Seq(Kinds), NEW k, NEW p, Rests(s, k, p), NEW m, Settled(s, m)
    PROVE  p.ids \in Seq(Kinds) /\ Keeps(s, p.ids, IF StreamCap < m THEN StreamCap ELSE m)
  <1>1. StreamCap \in Nat /\ m \in Nat /\ Len(s) \in Nat /\ m <= Len(s)
    BY ConfigAssumption DEF StreamCap, Settled
  <1>2. CASE p.ids = s
    BY <1>1, <1>2 DEF Keeps
  <1>3. CASE p.ids = Cut(s, StreamCap)
    BY <1>1, <1>3, CutStream
  <1> QED BY <1>2, <1>3 DEF Rests

\* No step of a request rewrites what the model has seen, but for padding.
LEMMA MovesKeep ==
    ASSUME NEW r, NEW t \in Task, NEW p \in Task, Moves(r, t, p), p.at # "padded",
           NEW m, SeenUpTo(t, m)
    PROVE  Keeps(t.ids, p.ids, IF StreamCap < m THEN StreamCap ELSE m)
  <1> DEFINE k == IF StreamCap < m THEN StreamCap ELSE m
  <1>1. /\ StreamCap \in Nat /\ m \in Nat /\ k \in Nat /\ k <= m /\ m <= Len(t.ids)
        /\ t.ids \in Seq(Kinds) /\ p.ids \in Seq(Kinds) /\ Len(t.ids) \in Nat
    BY ConfigAssumption DEF StreamCap, SeenUpTo, Task
  <1>2. CASE p.ids = t.ids
    BY <1>1, <1>2 DEF Keeps
  <1>3. CASE t.at = "reward" /\ Rests(t.ids, t.turns, p)
    <2>1. Settled(t.ids, m)
      BY <1>3 DEF SeenUpTo, Settled
    <2> QED BY <1>1, <1>3, <2>1, RestsKeeps
  <1>4. ASSUME NEW q, Heard(t, q), RunsTo(q, p) PROVE Keeps(t.ids, p.ids, k)
    <2>1. q.ids \in Seq(Kinds) /\ Keeps(t.ids, q.ids, m) /\ Settled(q.ids, m)
      BY <1>4, HeardSettled DEF Heard
    <2> HIDE DEF k
    <2>2. CASE Rests(q.ids, q.turns, p)
      <3>1. Keeps(q.ids, p.ids, k)
        BY <2>1, <2>2, RestsKeeps DEF k
      <3> QED BY <1>1, <2>1, <3>1, KeepsTransitive
    <2>3. CASE Rests(Prompted(q.ids), q.turns, p)
      <3> DEFINE s == Prompted(q.ids)
      <3>1. s \in Seq(Kinds) /\ Extends(s, q.ids)
        BY <2>1, PromptedStream
      <3>2. Rests(s, q.turns, p)
        BY <2>3
      <3> HIDE DEF s
      <3>3. Settled(s, m) /\ Keeps(q.ids, s, m)
        BY <2>1, <3>1, ExtendsSettled
      <3>4. Keeps(s, p.ids, k)
        BY <3>1, <3>2, <3>3, RestsKeeps DEF k
      <3>5. Keeps(t.ids, s, m)
        BY <1>1, <2>1, <3>1, <3>3, KeepsTransitive
      <3> QED BY <1>1, <3>1, <3>4, <3>5, KeepsTransitive
    <2> QED BY <1>4, <2>2, <2>3 DEF RunsTo
  <1>5. p # PaddingTask(r)
    BY DEF PaddingTask, FreshTask
  <1> QED BY <1>2, <1>3, <1>4, <1>5 DEF Moves

\* Training sees the tokens inference saw: in any configuration no step of a
\* rollout rewrites what the engine was given or wrote, up to finalize's cut; only
\* cancellation starts over, from the prompt.
THEOREM SeenTokensAreKept == Spec => SeenIsKept
  <1> DEFINE Kept(r) ==
                task'[r].at # "padded" =>
                  LET kept == FirstN(Seen(task[r]), StreamCap)
                  IN  kept = FirstN(task'[r].ids, Len(kept))
  <1>1. ASSUME IInv, [Next]_vars, NEW r \in Reqs PROVE Kept(r)
    <2>1. SUFFICES ASSUME task'[r].at # "padded"
                   PROVE  LET kept == FirstN(Seen(task[r]), StreamCap)
                          IN  kept = FirstN(task'[r].ids, Len(kept))
      OBVIOUS
    <2> DEFINE t == task[r]
               p == task'[r]
    <2>2. t \in Task /\ p \in Task /\ StreamCap \in Nat
      BY <1>1, NextInv, ConfigAssumption DEF IInv, VarTypes, StreamCap
    <2>3. PICK m : SeenUpTo(t, m) /\ Seen(t) = SubSeq(t.ids, 1, m)
      BY <2>2, SeenIsBeginning
    <2>4. p.ids = t.ids \/ Moves(r, t, p)
      <3>1. CASE UNCHANGED task
        BY <3>1
      <3>2. ASSUME NEW s \in Reqs, Acts(s) PROVE p.ids = t.ids \/ Moves(r, t, p)
        <4>1. PICK n \in Task : task' = [task EXCEPT ![s] = n] /\ Moves(s, task[s], n)
          BY <3>2 DEF Acts
        <4>2. task \in [Reqs -> Task]
          BY <1>1 DEF IInv, VarTypes
        <4> QED BY <4>1, <4>2
      <3> QED BY <1>1, <3>1, <3>2, StepKinds
    <2>5. p.at # "padded"
      BY <2>1
    <2> HIDE DEF t, p
    <2>6. m \in 0..Len(t.ids) /\ t.ids \in Seq(Kinds) /\ p.ids \in Seq(Kinds)
      BY <2>2, <2>3 DEF SeenUpTo, Task
    <2>7. Keeps(t.ids, p.ids, IF StreamCap < m THEN StreamCap ELSE m)
      <3>1. CASE p.ids = t.ids
        BY <2>2, <2>6, <3>1 DEF Keeps
      <3>2. CASE Moves(r, t, p)
        BY <2>2, <2>3, <2>5, <3>2, MovesKeep
      <3> QED BY <2>4, <3>1, <3>2
    <2>8. LET kept == FirstN(SubSeq(t.ids, 1, m), StreamCap)
          IN  kept = FirstN(p.ids, Len(kept))
      BY <2>2, <2>6, <2>7, KeptBeginning
    <2> QED BY <2>3, <2>8 DEF t, p
  <1>2. IInv /\ [Next]_vars => [\A r \in Reqs : Kept(r)]_vars
    BY <1>1
  <1>3. Spec => [][\A r \in Reqs : Kept(r)]_vars
    BY <1>2, InductiveInvariant, PTL DEF Spec
  <1> QED BY <1>3 DEF SeenIsKept

-----------------------------------------------------------------------------
(* The row handed to the trainer.                                          *)

\* The tools say nothing on creation, as every tool under verl/tools: what its
\* create returns is an empty ToolResponse.
SilentCreation == CreationLens = {0}

\* The stream starts with the request's prompt, which only the final cut may
\* shorten.
PromptInv(r, q) ==
    /\ Uncut(q) => Extends(q.ids, PromptIds(PromptLen[r]))
    /\ \A i \in 1..PromptLen[r] : i <= Len(q.ids) => q.ids[i] = PromptIds(PromptLen[r])[i]

PromptsInv == \A r \in Reqs : PromptInv(r, task[r])

\* The length and the type of a prompt.
LEMMA PromptOf ==
    ASSUME NEW r \in Reqs
    PROVE  /\ PromptLen[r] \in Nat /\ PromptIds(PromptLen[r]) \in Seq(Kinds)
           /\ Len(PromptIds(PromptLen[r])) = PromptLen[r]
  BY RequestAssumption, PromptStream

\* What the coroutine hears comes behind the prompt.
LEMMA HeardPrompted ==
    ASSUME SilentCreation, NEW t, t \in Task, StreamInv(t), NEW q, Heard(t, q),
           NEW s \in Seq(Kinds), Extends(t.ids, s)
    PROVE  Extends(q.ids, s)
  <1> DEFINE u == t.ids
  <1>1. u \in Seq(Kinds) /\ q.ids \in Seq(Kinds) /\ Extends(u, s)
    BY DEF Task, Heard
  <1>2. CASE q.ids = u
    BY <1>1, <1>2
  <1>3. CASE \E n \in CreationLens : q.ids = Replied(u, n)
    BY <1>1, <1>3 DEF SilentCreation, Replied
  <1>4. ASSUME t.at = "tools", NEW n \in Nat, q.ids = Replied(u, n) PROVE Extends(q.ids, s)
    <2>1. ~EndsWith(u, "gen")
      BY <1>4 DEF StreamInv, EndsWith
    <2> HIDE DEF u
    <2>2. Extends(q.ids, u)
      BY <1>1, <1>4, <2>1, RepliedStream
    <2> QED BY <1>1, <2>2, ExtendsTransitive
  <1>5. ASSUME NEW kind \in Kinds, NEW n \in Nat, q.ids = u \o Copies(n, kind)
        PROVE  Extends(q.ids, s)
    <2> HIDE DEF u
    <2>1. Extends(q.ids, u)
      BY <1>1, <1>5, AppendingExtends
    <2> QED BY <1>1, <2>1, ExtendsTransitive
  <1>6. "user" \in Kinds /\ "asst" \in Kinds
    BY DEF Kinds
  <1> QED BY <1>2, <1>3, <1>4, <1>5, <1>6 DEF Heard

\* And so does all it does before the cut.
LEMMA RestsPrompted ==
    ASSUME NEW r \in Reqs, NEW s \in Seq(Kinds), Extends(s, PromptIds(PromptLen[r])),
           NEW k, NEW p, Rests(s, k, p)
    PROVE  PromptInv(r, p)
  <1> DEFINE u == PromptIds(PromptLen[r])
             n == PromptLen[r]
  <1>1. n \in Nat /\ u \in Seq(Kinds) /\ Len(u) = n /\ Extends(s, u)
    BY PromptOf
  <1>2. \A i \in 1..n : s[i] = u[i]
    BY <1>1 DEF Extends
  <1>3. CASE p.ids = s /\ p.at \in {"start", "engine", "tools", "user", "reward", "failed"}
    BY <1>1, <1>2, <1>3 DEF PromptInv
  <1>4. CASE p.ids = Cut(s, StreamCap) /\ p.at \in {"logprob", "returned"}
    <2> DEFINE c == Cut(s, StreamCap)
    <2>1. StreamCap \in Nat
      BY ConfigAssumption DEF StreamCap
    <2>2. c \in Seq(Kinds) /\ \A i \in 1..Len(c) : c[i] = s[i]
      BY <2>1, CutStream
    <2> HIDE DEF c, u, n
    <2>3. ASSUME NEW i \in 1..n, i <= Len(c) PROVE c[i] = u[i]
      <3>1. i \in 1..Len(c)
        BY <1>1, <2>2, <2>3
      <3> QED BY <1>2, <2>2, <3>1
    <2> QED BY <1>4, <2>3 DEF PromptInv, Ended, Uncut, c, u, n
  <1> QED BY <1>3, <1>4 DEF Rests

\* Every step of a request leaves the prompt at the start of its stream.
LEMMA MovesPrompted ==
    ASSUME SilentCreation, NEW r \in Reqs, NEW t \in Task, StreamInv(t), PromptInv(r, t),
           NEW p \in Task, Moves(r, t, p)
    PROVE  PromptInv(r, p)
  <1> DEFINE u == PromptIds(PromptLen[r])
  <1>1. u \in Seq(Kinds) /\ t.ids \in Seq(Kinds)
    BY PromptOf DEF Task
  <1>2. CASE p.ids = t.ids /\ p.state = t.state /\ QuietMove(t.at, p.at)
    BY <1>2 DEF QuietMove, PromptInv, StreamInv, Ended, Uncut
  <1>3. CASE t.at = "reward" /\ Rests(t.ids, t.turns, p)
    <2>1. Extends(t.ids, u)
      BY <1>3 DEF PromptInv, Ended, Uncut
    <2> QED BY <1>1, <1>3, <2>1, RestsPrompted
  <1>4. CASE p = PaddingTask(r)
    BY <1>4, FreshFields DEF PromptInv, Ended, Uncut
  <1>5. ASSUME NEW q, Heard(t, q), RunsTo(q, p) PROVE PromptInv(r, p)
    <2>1. Uncut(t) /\ q.ids \in Seq(Kinds)
      BY <1>5 DEF Heard, Ended, Uncut
    <2>2. Extends(t.ids, u)
      BY <2>1 DEF PromptInv
    <2> HIDE DEF u
    <2>3. Extends(q.ids, u)
      BY <1>1, <1>5, <2>2, HeardPrompted
    <2>4. CASE Rests(q.ids, q.turns, p)
      BY <2>1, <2>3, <2>4, RestsPrompted DEF u
    <2>5. CASE Rests(Prompted(q.ids), q.turns, p)
      <3>1. Prompted(q.ids) \in Seq(Kinds) /\ Extends(Prompted(q.ids), q.ids)
        BY <2>1, PromptedStream
      <3>2. Extends(Prompted(q.ids), u)
        BY <1>1, <2>1, <2>3, <3>1, ExtendsTransitive
      <3> QED BY <2>5, <3>1, <3>2, RestsPrompted DEF u
    <2> QED BY <1>5, <2>4, <2>5 DEF RunsTo
  <1> QED BY <1>2, <1>3, <1>4, <1>5 DEF Moves

\* The prompts stay where they are.
LEMMA PromptsInductive ==
    ASSUME SilentCreation
    PROVE  /\ Init => PromptsInv
           /\ IInv /\ StreamsInv /\ PromptsInv /\ [Next]_vars => PromptsInv'
  <1>1. ASSUME Init PROVE PromptsInv
    <2>1. ASSUME NEW r \in Reqs PROVE PromptInv(r, task[r])
      <3>1. task[r] = FreshTask(r)
        BY <1>1 DEF Init
      <3> QED BY <3>1, FreshFields, PromptOf DEF PromptInv, Extends
    <2> QED BY <2>1 DEF PromptsInv
  <1>2. ASSUME IInv, StreamsInv, PromptsInv, [Next]_vars PROVE PromptsInv'
    <2>1. CASE UNCHANGED task
      BY <1>2, <2>1 DEF PromptsInv
    <2>2. ASSUME NEW r \in Reqs, Acts(r) PROVE PromptsInv'
      <3>1. PICK p \in Task : task' = [task EXCEPT ![r] = p] /\ Moves(r, task[r], p)
        BY <2>2 DEF Acts
      <3>2. task \in [Reqs -> Task] /\ StreamInv(task[r]) /\ PromptInv(r, task[r])
        BY <1>2 DEF IInv, VarTypes, StreamsInv, PromptsInv
      <3>3. PromptInv(r, p)
        BY <3>1, <3>2, MovesPrompted
      <3> QED BY <1>2, <3>1, <3>2, <3>3 DEF PromptsInv
    <2> QED BY <1>2, <2>1, <2>2, StepKinds
  <1> QED BY <1>1, <1>2

\* When tools say nothing on creation, the row of prompts and responses that the
\* trainer gets is the beginning of the conversation the engine had, and its mask
\* marks the model's part of it (truncate_output_ids and the slices behind it).
\* A tool that does say something there takes the prompt's last token away.
THEOREM RowsAreTrajectories ==
    ASSUME SilentCreation PROVE Spec => []RowIsTrajectory
  <1>1. ASSUME IInv, PromptsInv PROVE RowIsTrajectory
    <2>1. SUFFICES
            ASSUME NEW r \in With("returned")
            PROVE  LET row == PromptIds(PromptLen[r])
                              \o Response(task[r], PromptLen[r], ResponseLength)
                       n   == IF Len(row) < Len(task[r].ids) THEN Len(row) ELSE Len(task[r].ids)
                       mask == ResponseLossMask(task[r], PromptLen[r], ResponseLength)
                   IN  /\ FirstN(row, n) = FirstN(task[r].ids, n)
                       /\ \A i \in 1..Len(mask) : mask[i] = 1 <=> row[PromptLen[r] + i] = "asst"
      BY DEF RowIsTrajectory
    <2> DEFINE u == PromptIds(PromptLen[r])
    <2>2. r \in Reqs
      BY DEF With
    <2>3. u \in Seq(Kinds) /\ Len(u) = PromptLen[r] /\ ResponseLength \in Nat
      BY <2>2, PromptOf, ConfigAssumption
    <2>4. Masks(task[r].loss, task[r].ids) /\ Agree(u, task[r].ids)
      BY <1>1, <2>2, <2>3 DEF IInv, ReqInv, TaskInv, Sound, PromptsInv, PromptInv, Agree
    <2> DEFINE q   == task[r]
               row == u \o Slice(q.ids, PromptLen[r], ResponseLength)
               mask == Slice(q.loss, PromptLen[r], ResponseLength)
    <2>5. Response(q, PromptLen[r], ResponseLength) = Slice(q.ids, PromptLen[r], ResponseLength)
          /\ ResponseLossMask(q, PromptLen[r], ResponseLength) = mask
      BY DEF Response, ResponseLossMask, Slice
    <2>6. q.ids \in Seq(Kinds) /\ PromptLen[r] \in Nat
      BY <2>2, <2>4, PromptOf DEF Masks
    <2> HIDE DEF u, q
    <2>7. /\ row \in Seq(Kinds) /\ Agree(row, q.ids)
          /\ Len(row) = PromptLen[r] + SliceLen(Len(q.ids), PromptLen[r], ResponseLength)
      <3>1. Agree(u, q.ids)
        BY <2>4 DEF q
      <3>2. LET w == u \o Slice(q.ids, Len(u), ResponseLength)
            IN  /\ w \in Seq(Kinds) /\ Agree(w, q.ids)
                /\ Len(w) = Len(u) + SliceLen(Len(q.ids), Len(u), ResponseLength)
        BY <2>3, <2>6, <3>1, RowOfStream
      <3> QED BY <2>3, <3>2
    <2> HIDE DEF row
    <2>8. \A i \in 1..Len(mask) : mask[i] = 1 <=> row[PromptLen[r] + i] = "asst"
      <3>1. Masks(q.loss, q.ids) /\ PromptLen[r] \in Nat /\ ResponseLength \in Nat
        BY <2>3, <2>4, <2>6 DEF q
      <3> QED BY <2>7, <3>1, MaskOfRow
    <2>9. LET n == IF Len(row) < Len(q.ids) THEN Len(row) ELSE Len(q.ids)
          IN  FirstN(row, n) = FirstN(q.ids, n)
      BY <2>6, <2>7, CommonBeginning
    <2> QED BY <2>5, <2>8, <2>9 DEF row, u, q
  <1>2. Init => IInv /\ StreamsInv /\ PromptsInv
    BY InitInv, StreamsInductive, PromptsInductive
  <1>3. (IInv /\ StreamsInv /\ PromptsInv) /\ [Next]_vars => (IInv /\ StreamsInv /\ PromptsInv)'
    BY NextInv, StreamsInductive, PromptsInductive
  <1> QED BY <1>1, <1>2, <1>3, PTL DEF Spec

-----------------------------------------------------------------------------
(* The batch.                                                              *)

\* How many trajectories must be finished before the others may be given up.
Enough == IF Target = 0 THEN 1 ELSE Target

\* The queue holds tasks that ended, each of them once.
QueueInv ==
    /\ \A i, j \in 1..Len(doneQ) : doneQ[i] = doneQ[j] => i = j
    /\ \A i \in 1..Len(doneQ) : task[doneQ[i]].at \in Finished

\* Unless it met a failure the collector has counted finished trajectories only,
\* and enough of them once it stopped to wait.
CountInv ==
    /\ phase \in {"collect", "drain", "abort", "assemble", "flush", "returned"} =>
          \A i \in 1..consumed : task[doneQ[i]].at = "returned"
    /\ ~Validate /\ phase \in {"drain", "abort", "assemble", "flush", "returned"} =>
          consumed >= Enough

\* Padding appears after the collector stopped to wait, for a reason.
PaddingInv ==
    /\ phase = "collect" \/ Validate => With("padded") = {}
    /\ With("padded") # {} =>
          With("failed") # {} \/ Cardinality(With("returned")) >= Enough

BatchInv == QueueInv /\ CountInv /\ PaddingInv

\* There are as many finished trajectories as the collector counted, at least.
LEMMA CountedAreReturned ==
    ASSUME IInv, QueueInv, \A i \in 1..consumed : task[doneQ[i]].at = "returned"
    PROVE  Cardinality(With("returned")) >= consumed
  <1> DEFINE T == With("returned")
             f == [i \in 1..consumed |-> doneQ[i]]
  <1>1. /\ doneQ \in Seq(Reqs) /\ consumed \in Nat /\ consumed <= Len(doneQ)
        /\ Len(doneQ) \in Nat
    BY DEF IInv, VarTypes
  <1>2. f \in [1..consumed -> T]
    BY <1>1 DEF With
  <1>3. \A i, j \in 1..consumed : f[i] = f[j] => i = j
    BY <1>1 DEF QueueInv
  <1>4. IsFiniteSet(T)
    BY RequestAssumption, FS_Subset DEF With
  <1>5. IsFiniteSet(1..consumed) /\ Cardinality(1..consumed) = consumed
    BY <1>1, FS_Interval
  <1>6. Cardinality(T) \in Nat
    BY <1>4, FS_CardinalityType
  <1> HIDE DEF f, T
  <1>7. ASSUME Cardinality(T) < consumed PROVE FALSE
    <2> DEFINE S == 1..consumed
    <2>1. IsFiniteSet(S) /\ Cardinality(T) < Cardinality(S) /\ f \in [S -> T]
      BY <1>2, <1>5, <1>7
    <2> HIDE DEF S
    <2>2. \E x, y \in S : x # y /\ f[x] = f[y]
      BY <1>4, <2>1, FS_PigeonHole
    <2> QED BY <1>3, <2>2 DEF S
  <1> QED BY <1>1, <1>6, <1>7 DEF T

\* A step of a request ends no task twice, and queues the one it ends.
LEMMA ActsEnds ==
    ASSUME IInv, NEW r \in Reqs, Acts(r)
    PROVE  /\ \A s \in Reqs : task[s].at \in Finished => task'[s].at = task[s].at
           /\ \A s \in Reqs \ {r} : task'[s].at = task[s].at
           /\ \/ UNCHANGED doneQ /\ (task'[r].at \in Running \/ task'[r].at = task[r].at)
              \/ /\ doneQ' = Append(doneQ, r)
                 /\ task[r].at \in Running /\ task'[r].at \in Finished
           /\ task'[r].at = "padded" /\ task[r].at # "padded" => phase \in {"drain", "fail"}
           /\ phase \in {"collect", "drain", "fail"} /\ UNCHANGED Collector
  <1>1. PICK p \in Task :
          /\ task' = [task EXCEPT ![r] = p] /\ Moves(r, task[r], p)
          /\ p.at = "padded" /\ task[r].at # "padded" => phase \in {"drain", "fail"}
          /\ doneQ' = IF task[r].at \in Running /\ p.at \in Finished
                      THEN Append(doneQ, r) ELSE doneQ
    BY DEF Acts
  <1>2. task \in [Reqs -> Task] /\ task'[r] = p /\ \A s \in Reqs \ {r} : task'[s] = task[s]
    BY <1>1 DEF IInv, VarTypes
  <1>3. task[r].at \in Running \cup Finished /\ p.at \in Running \cup Finished
    BY <1>2 DEF Task
  <1>4. ASSUME task[r].at \in Finished PROVE p.at = task[r].at
    BY <1>1, <1>4 DEF Moves, QuietMove, Heard, Running, Finished
  <1>5. phase \in {"collect", "drain", "fail"} /\ UNCHANGED Collector
    BY DEF Acts
  <1>6. Running \cap Finished = {}
    BY DEF Running, Finished
  <1> QED BY <1>1, <1>2, <1>3, <1>4, <1>5, <1>6

\* Ended tasks are queued once: a step of a request.
LEMMA QueueActs ==
    ASSUME IInv, QueueInv, NEW r \in Reqs, Acts(r)
    PROVE  /\ QueueInv'
           /\ Len(doneQ') \in Nat /\ Len(doneQ) <= Len(doneQ')
           /\ \A i \in 1..Len(doneQ) : doneQ'[i] = doneQ[i] /\ doneQ[i] \in Reqs
  <1>1. doneQ \in Seq(Reqs) /\ Len(doneQ) \in Nat /\ \A i \in 1..Len(doneQ) : doneQ[i] \in Reqs
    BY DEF IInv, VarTypes
  <1>2. \A s \in Reqs : task[s].at \in Finished => task'[s].at = task[s].at
    BY ActsEnds
  <1>3. CASE UNCHANGED doneQ
    BY <1>1, <1>2, <1>3 DEF QueueInv
  <1>4. CASE doneQ' = Append(doneQ, r) /\ task[r].at \in Running /\ task'[r].at \in Finished
    <2>1. /\ Len(doneQ') = Len(doneQ) + 1 /\ doneQ'[Len(doneQ) + 1] = r
          /\ \A i \in 1..Len(doneQ) : doneQ'[i] = doneQ[i]
      BY <1>1, <1>4
    <2>2. \A i \in 1..Len(doneQ) : doneQ[i] # r
      BY <1>4 DEF QueueInv, Running, Finished
    <2>3. \A i \in 1..Len(doneQ') : i \in 1..Len(doneQ) \/ i = Len(doneQ) + 1
      BY <1>1, <2>1
    <2>4. ASSUME NEW i \in 1..Len(doneQ') PROVE task'[doneQ'[i]].at \in Finished
      BY <1>1, <1>2, <1>4, <2>1, <2>3 DEF QueueInv
    <2>5. ASSUME NEW i \in 1..Len(doneQ'), NEW j \in 1..Len(doneQ'), doneQ'[i] = doneQ'[j]
          PROVE  i = j
      BY <2>1, <2>2, <2>3, <2>5 DEF QueueInv
    <2> QED BY <1>1, <2>1, <2>4, <2>5 DEF QueueInv
  <1> QED BY <1>3, <1>4, ActsEnds

\* A step of a request keeps the count, and pads for a reason.
LEMMA BatchActs ==
    ASSUME IInv, BatchInv, NEW r \in Reqs, Acts(r)
    PROVE  BatchInv'
  <1>1. /\ QueueInv' /\ Len(doneQ) <= Len(doneQ') /\ Len(doneQ) \in Nat
        /\ \A i \in 1..Len(doneQ) : doneQ'[i] = doneQ[i] /\ doneQ[i] \in Reqs
    BY QueueActs DEF BatchInv, IInv, VarTypes
  <1>2. /\ \A s \in Reqs : task[s].at \in Finished => task'[s].at = task[s].at
        /\ \A s \in Reqs \ {r} : task'[s].at = task[s].at
        /\ task'[r].at = "padded" /\ task[r].at # "padded" => phase \in {"drain", "fail"}
        /\ phase \in {"collect", "drain", "fail"}
        /\ phase' = phase /\ consumed' = consumed
    BY ActsEnds DEF Collector
  <1>3. consumed \in Nat /\ consumed <= Len(doneQ)
    BY DEF IInv, VarTypes
  <1>4. ASSUME \A i \in 1..consumed : task[doneQ[i]].at = "returned",
               NEW i \in 1..consumed
        PROVE  task'[doneQ'[i]].at = "returned"
    <2>1. doneQ'[i] = doneQ[i] /\ doneQ[i] \in Reqs /\ task[doneQ[i]].at = "returned"
      BY <1>1, <1>3, <1>4
    <2> QED BY <1>2, <2>1 DEF Finished
  <1>5. CountInv'
    BY <1>2, <1>4 DEF BatchInv, CountInv
  <1>6. With("returned") \subseteq With("returned")' /\ With("failed") \subseteq With("failed")'
    BY <1>2 DEF With, Finished
  <1>7. With("returned")' \subseteq Reqs
    BY DEF With
  <1>8. IsFiniteSet(With("returned")') /\ IsFiniteSet(With("returned"))
    BY <1>6, <1>7, RequestAssumption, FS_Subset
  <1>9. /\ Cardinality(With("returned")) <= Cardinality(With("returned")')
        /\ Cardinality(With("returned")) \in Nat /\ Cardinality(With("returned")') \in Nat
    BY <1>6, <1>8, FS_Subset, FS_CardinalityType
  <1>10. Enough \in Nat
    BY ConfigAssumption DEF Enough
  <1>11. CASE With("padded")' \subseteq With("padded")
    <2>1. With("padded") # {} =>
            With("failed") # {} \/ Cardinality(With("returned")) >= Enough
      BY DEF BatchInv, PaddingInv
    <2>2. phase = "collect" \/ Validate => With("padded") = {}
      BY DEF BatchInv, PaddingInv
    <2>3. With("padded")' # {} =>
            With("failed")' # {} \/ Cardinality(With("returned")') >= Enough
      BY <1>6, <1>9, <1>10, <1>11, <2>1
    <2> QED BY <1>1, <1>2, <1>5, <1>11, <2>2, <2>3 DEF BatchInv, PaddingInv
  <1>12. CASE ~(With("padded")' \subseteq With("padded"))
    <2>1. phase \in {"drain", "fail"}
      BY <1>2, <1>12 DEF With
    <2>2. ~Validate
      BY <2>1 DEF IInv, CollectorInv
    <2>3. phase = "fail" => With("failed")' # {}
      BY <1>6 DEF IInv, CollectorInv
    <2>4. ASSUME phase = "drain" PROVE Cardinality(With("returned")') >= Enough
      <3>1. (\A i \in 1..consumed : task[doneQ[i]].at = "returned") /\ consumed >= Enough
        BY <2>2, <2>4 DEF BatchInv, CountInv
      <3>2. Cardinality(With("returned")) >= consumed
        BY <3>1, CountedAreReturned DEF BatchInv
      <3> QED BY <1>3, <1>9, <1>10, <3>1, <3>2
    <2>5. With("failed")' # {} \/ Cardinality(With("returned")') >= Enough
      BY <2>1, <2>3, <2>4
    <2> QED BY <1>1, <1>2, <1>5, <2>1, <2>2, <2>5 DEF BatchInv, PaddingInv
  <1> QED BY <1>11, <1>12

\* A task the collector takes has ended, and is no padding: nothing is cancelled
\* while it collects.
LEMMA NextDoneReturned ==
    ASSUME IInv, BatchInv, NextDone, task[doneQ[consumed + 1]].at # "failed"
    PROVE  /\ \A i \in 1..consumed' : task'[doneQ'[i]].at = "returned"
           /\ consumed' \in Nat /\ consumed' >= 1
           /\ UNCHANGED <<task, doneQ>> /\ With("padded") = {} /\ phase = "collect"
  <1>1. /\ doneQ \in Seq(Reqs) /\ consumed \in Nat /\ consumed < Len(doneQ)
        /\ consumed' = consumed + 1 /\ UNCHANGED <<task, doneQ>> /\ phase = "collect"
    BY DEF NextDone, OneMore, Environment, IInv, VarTypes
  <1>2. With("padded") = {} /\ \A i \in 1..consumed : task[doneQ[i]].at = "returned"
    BY <1>1 DEF BatchInv, PaddingInv, CountInv
  <1> DEFINE r == doneQ[consumed + 1]
  <1>3. r \in Reqs /\ task[r].at \in Finished
    BY <1>1 DEF BatchInv, QueueInv
  <1>4. task[r].at # "padded"
    BY <1>2, <1>3 DEF With
  <1>5. task[r].at = "returned"
    BY <1>3, <1>4 DEF Finished
  <1>6. ASSUME NEW i \in 1..consumed + 1 PROVE task[doneQ[i]].at = "returned"
    <2>1. i \in 1..consumed \/ i = consumed + 1
      BY <1>1
    <2> QED BY <1>2, <1>5, <2>1
  <1> QED BY <1>1, <1>2, <1>6

\* The collector keeps the count.
LEMMA BatchCollector ==
    ASSUME IInv, BatchInv, CollectorStep, UNCHANGED <<task, doneQ>>
    PROVE  BatchInv'
  <1>1. \A at : With(at)' = With(at)
    BY SameTasks
  <1>2. QueueInv'
    BY DEF BatchInv, QueueInv
  <1>3. CASE CountCompletion
    <2>1. NextDone /\ task[doneQ[consumed + 1]].at # "failed" /\ phase' = phase
      BY <1>3 DEF CountCompletion
    <2> QED BY <1>1, <1>2, <2>1, NextDoneReturned DEF BatchInv, CountInv, PaddingInv
  <1>4. CASE ReachTarget
    <2>1. /\ NextDone /\ task[doneQ[consumed + 1]].at # "failed" /\ phase' = "drain"
          /\ consumed' >= Target
      BY <1>4 DEF ReachTarget, TargetReached
    <2>2. consumed' >= Enough
      BY <2>1, NextDoneReturned DEF Enough
    <2> QED BY <1>1, <1>2, <2>1, <2>2, NextDoneReturned DEF BatchInv, CountInv, PaddingInv
  <1>5. CASE CollectFailure
    <2>1. phase = "collect" /\ phase' = "fail"
      BY <1>5 DEF CollectFailure, NextDone
    <2> QED BY <1>1, <1>2, <2>1 DEF BatchInv, CountInv, PaddingInv
  <1>6. CASE Drained
    <2>1. \/ phase = "drain" /\ phase' = "abort"
          \/ phase = "fail" /\ phase' = "abort_fail"
      BY <1>6 DEF Drained
    <2>2. UNCHANGED consumed
      BY <1>6 DEF Drained
    <2> QED BY <1>1, <1>2, <2>1, <2>2 DEF BatchInv, CountInv, PaddingInv
  <1>7. CASE AbortAll
    <2>1. \/ phase = "abort" /\ phase' = "assemble"
          \/ phase = "abort_fail" /\ phase' = "raised" /\ With("failed") # {}
      BY <1>7 DEF AbortAll, IInv, CollectorInv
    <2>2. UNCHANGED consumed
      BY <1>7 DEF AbortAll
    <2> QED BY <1>1, <1>2, <2>1, <2>2 DEF BatchInv, CountInv, PaddingInv
  <1>8. CASE ValidationDone
    <2>1. phase = "collect" /\ phase' = "assemble" /\ Validate /\ UNCHANGED consumed
      BY <1>8 DEF ValidationDone
    <2> QED BY <1>1, <1>2, <2>1 DEF BatchInv, CountInv, PaddingInv
  <1>9. CASE ValidationFails
    <2>1. phase' = "raised" /\ With("failed") # {} /\ phase = "collect"
      BY <1>9 DEF ValidationFails, PhaseAfterFailure
    <2> QED BY <1>1, <1>2, <2>1 DEF BatchInv, CountInv, PaddingInv
  <1>10. CASE AssembleBatch
    <2>1. /\ phase = "assemble" /\ UNCHANGED consumed
          /\ phase' = "flush" \/ (phase' = "raised" /\ CannotAssemble)
      BY <1>10 DEF AssembleBatch
    <2> QED BY <1>1, <1>2, <2>1 DEF BatchInv, CountInv, PaddingInv, CannotAssemble
  <1>11. CASE FlushCache
    <2>1. phase = "flush" /\ phase' = "returned" /\ UNCHANGED consumed
      BY <1>11 DEF FlushCache
    <2> QED BY <1>1, <1>2, <2>1 DEF BatchInv, CountInv, PaddingInv
  <1> QED BY <1>3, <1>4, <1>5, <1>6, <1>7, <1>8, <1>9, <1>10, <1>11 DEF CollectorStep

\* Every step keeps the batch in order.
LEMMA BatchInductive ==
    /\ Init => BatchInv
    /\ IInv /\ BatchInv /\ [Next]_vars => BatchInv'
  <1>1. ASSUME Init PROVE BatchInv
    <2>1. /\ doneQ = <<>> /\ consumed = 0 /\ phase = "collect"
          /\ \A r \in Reqs : task[r].at = "spawned"
      BY <1>1 DEF Init, FreshTask
    <2>2. With("padded") = {}
      BY <2>1 DEF With
    <2> QED BY <2>1, <2>2 DEF BatchInv, QueueInv, CountInv, PaddingInv
  <1>2. ASSUME IInv, BatchInv, [Next]_vars PROVE BatchInv'
    <2>1. CASE \E r \in Reqs : Acts(r)
      BY <1>2, <2>1, BatchActs
    <2>2. CASE UNCHANGED <<task, doneQ>> /\ CollectorStep
      BY <1>2, <2>2, BatchCollector
    <2>3. CASE UNCHANGED <<task, doneQ>> /\ UNCHANGED Collector
      BY <1>2, <2>3, SameTasks DEF BatchInv, QueueInv, CountInv, PaddingInv, Collector
    <2> QED BY <1>2, <2>1, <2>2, <2>3, StepKinds
  <1> QED BY <1>1, <1>2

-----------------------------------------------------------------------------
(* The rollout implements the batch its caller sees.                       *)

\* The rows and the outcome the caller sees.
Slots == [r \in Reqs |-> Slot(r)]
Outcome == IF phase = "returned" THEN "delivered"
           ELSE IF phase = "raised" THEN "raised" ELSE "running"

\* The rows a task's end decides.
LEMMA SlotSets ==
    ASSUME IInv
    PROVE  /\ Batch!InSlot("completed") = With("returned")
           /\ Batch!InSlot("padded") = With("padded")
           /\ Batch!InSlot("failed") = With("failed")
           /\ Batch!Cardinality(Batch!InSlot("completed")) = Cardinality(With("returned"))
  <1>1. \A r \in Reqs : task[r].at \in Running \cup Finished
    BY DEF IInv, VarTypes, Task
  <1>2. Batch!InSlot("completed") = With("returned")
    BY DEF Batch!InSlot, With, Slot
  <1>3. Batch!InSlot("padded") = With("padded")
    BY DEF Batch!InSlot, With, Slot
  <1>4. Batch!InSlot("failed") = With("failed")
    BY DEF Batch!InSlot, With, Slot
  <1>5. Batch!Cardinality(With("returned")) = Cardinality(With("returned"))
    BY DEF Batch!Cardinality, Cardinality, Batch!IsFiniteSet, IsFiniteSet
  <1> QED BY <1>2, <1>3, <1>4, <1>5

\* A request's step closes its row or leaves the rows alone.
LEMMA ActsImplement ==
    ASSUME IInv, BatchInv, BatchInv', IInv', NEW r \in Reqs, Acts(r)
    PROVE  [Batch!Next]_<<Slots, Outcome>>
  <1>1. /\ \A s \in Reqs \ {r} : task'[s].at = task[s].at
        /\ \/ task'[r].at \in Running \/ task'[r].at = task[r].at
           \/ task[r].at \in Running /\ task'[r].at \in Finished
        /\ task[r].at \in Finished => task'[r].at = task[r].at
        /\ task'[r].at = "padded" /\ task[r].at # "padded" => phase \in {"drain", "fail"}
        /\ phase \in {"collect", "drain", "fail"} /\ phase' = phase
    BY ActsEnds DEF Collector
  <1>2. Outcome = "running" /\ Outcome' = "running"
    BY <1>1 DEF Outcome
  <1>3. \A s \in Reqs \ {r} : Slots'[s] = Slots[s]
    BY <1>1 DEF Slots, Slot
  <1>4. task[r].at \in Running \cup Finished /\ task'[r].at \in Running \cup Finished
    BY DEF IInv, VarTypes, Task
  <1>5. CASE task[r].at \in Finished \/ task'[r].at \in Running
    <2>1. Slots'[r] = Slots[r]
      BY <1>1, <1>4, <1>5 DEF Slots, Slot, Running, Finished
    <2>2. Slots' = Slots
      BY <1>3, <2>1 DEF Slots
    <2> QED BY <1>2, <2>2
  <1>6. CASE task[r].at \in Running /\ task'[r].at \in Finished
    <2>1. Slots[r] = "open" /\ Slots' = [Slots EXCEPT ![r] = Slots'[r]]
      BY <1>3, <1>6 DEF Slots, Slot, Running
    <2>2. \/ task'[r].at = "returned" /\ Slots'[r] = "completed"
          \/ task'[r].at = "failed" /\ Slots'[r] = "failed"
          \/ task'[r].at = "padded" /\ Slots'[r] = "padded"
      BY <1>6 DEF Slots, Slot, Finished
    <2>3. ASSUME NEW s, Slots'[r] = s PROVE Batch!Close(r, s)
      BY <1>2, <2>1, <2>3 DEF Batch!Close, Slots, Outcome
    <2>4. CASE Slots'[r] = "completed"
      BY <2>3, <2>4 DEF Batch!Complete, Batch!Next
    <2>5. CASE Slots'[r] = "failed"
      BY <2>3, <2>5 DEF Batch!Fail, Batch!Next
    <2>6. CASE task'[r].at = "padded" /\ Slots'[r] = "padded"
      <3>1. phase \in {"drain", "fail"} /\ ~Validate
        BY <1>1, <1>6, <2>6 DEF Running, IInv, CollectorInv
      <3>2. phase = "fail" => With("failed") # {}
        BY DEF IInv, CollectorInv
      <3>3. phase = "drain" => Cardinality(With("returned")) >= Enough
        <4>1. phase = "drain" =>
                (\A i \in 1..consumed : task[doneQ[i]].at = "returned") /\ consumed >= Enough
          BY <3>1 DEF BatchInv, CountInv
        <4>2. phase = "drain" => Cardinality(With("returned")) >= consumed
          BY <4>1, CountedAreReturned DEF BatchInv
        <4>3. IsFiniteSet(With("returned"))
          BY RequestAssumption, FS_Subset DEF With
        <4>4. Cardinality(With("returned")) \in Nat /\ consumed \in Nat /\ Enough \in Nat
          BY <4>3, FS_CardinalityType, ConfigAssumption DEF Enough, IInv, VarTypes
        <4> QED BY <4>1, <4>2, <4>4
      <3>4. \/ Batch!Cardinality(Batch!InSlot("completed")) >= Enough
            \/ Batch!InSlot("failed") # {}
        BY <3>1, <3>2, <3>3, SlotSets
      <3>5. Batch!Pad(r)
        BY <2>3, <2>6, <3>4 DEF Batch!Pad, Enough
      <3> QED BY <3>5 DEF Batch!Next
    <2> QED BY <2>2, <2>4, <2>5, <2>6
  <1> QED BY <1>1, <1>4, <1>5, <1>6

\* The rows that cannot be padding: all of them with log-probabilities, else those
\* whose prompt alone is longer than the context.
FixedRows == IF CalculateLogProbs THEN Reqs ELSE {r \in Reqs : PromptLen[r] > MaxModelLen}

\* A batch that cannot be built has a failed row, or padding where there can be
\* none: finalize keeps the finished rows within the context.
LEMMA CannotAssembleMeans ==
    ASSUME IInv
    PROVE  CannotAssemble <=> With("failed") # {} \/ With("padded") \cap FixedRows # {}
  <1>1. \A r \in With("padded") : Len(task[r].ids) = PromptLen[r]
    BY DEF IInv, ReqInv, Owned, With
  <1>2. \A r \in With("returned") : ~(Len(task[r].ids) > MaxModelLen)
    <2>1. \A r \in With("returned") : Len(task[r].ids) <= MaxModelLen /\ Len(task[r].ids) \in Nat
      BY DEF IInv, ReqInv, TaskInv, AtAwait, Sound, Task, With
    <2> QED BY <2>1, ConfigAssumption
  <1>3. With("padded") \subseteq Reqs
    BY DEF With
  <1> QED BY <1>1, <1>2, <1>3 DEF CannotAssemble, FixedRows

\* The collector delivers the batch, raises, or does nothing its caller sees.
LEMMA CollectorImplements ==
    ASSUME IInv, BatchInv, BatchInv', IInv', CollectorStep, UNCHANGED <<task, doneQ>>
    PROVE  [Batch!Next]_<<Slots, Outcome>>
  <1>1. Slots' = Slots
    BY DEF Slots, Slot
  <1>2. phase \notin {"returned", "raised"}
    BY DEF CollectorStep, CountCompletion, ReachTarget, CollectFailure, NextDone, Drained,
       AbortAll, ValidationDone, ValidationFails, AssembleBatch, FlushCache
  <1>3. CASE phase' = "returned"
    <2>1. phase' = "returned" => Unfinished' = {} /\ ~CannotAssemble'
      BY DEF IInv, CollectorInv
    <2>2. Unfinished = {} /\ ~CannotAssemble
      BY <1>3, <2>1, SameTasks
    <2>3. With("failed") = {} /\ With("padded") \cap FixedRows = {}
      BY <2>2, CannotAssembleMeans
    <2>4. \A r \in Reqs : task[r].at \in {"returned", "padded"}
      BY <2>2, <2>3 DEF Unfinished, With, Finished, IInv, VarTypes, Task
    <2>5. With("returned") \cup With("padded") = Reqs
      BY <2>4 DEF With
    <2>6. Outcome = "running" /\ Outcome' = "delivered"
      BY <1>2, <1>3 DEF Outcome
    <2>7. Batch!Deliver
      BY <1>1, <2>3, <2>5, <2>6, SlotSets DEF Batch!Deliver, Slots, Outcome, FixedRows
    <2> QED BY <2>7 DEF Batch!Next
  <1>4. CASE phase' = "raised"
    <2>1. \/ AbortAll /\ phase = "abort_fail"
          \/ ValidationFails
          \/ AssembleBatch /\ CannotAssemble
      BY <1>4 DEF CollectorStep, CountCompletion, ReachTarget, CollectFailure, NextDone, Drained,
         AbortAll, ValidationDone, ValidationFails, AssembleBatch, FlushCache
    <2>2. With("failed") # {} \/ With("padded") \cap FixedRows # {}
      BY <2>1, CannotAssembleMeans DEF ValidationFails, IInv, CollectorInv
    <2>3. Outcome = "running" /\ Outcome' = "raised"
      BY <1>2, <1>4 DEF Outcome
    <2>4. Batch!Raise
      BY <1>1, <2>2, <2>3, SlotSets DEF Batch!Raise, Slots, Outcome, FixedRows
    <2> QED BY <2>4 DEF Batch!Next
  <1>5. CASE phase' \notin {"returned", "raised"}
    BY <1>1, <1>2, <1>5 DEF Outcome
  <1> QED BY <1>3, <1>4, <1>5

\* The rollout keeps its promise to the trainer: one row for every prompt, a
\* finished trajectory or padding; padding only once enough trajectories are
\* finished or one has failed; no batch with an unfinished or failed row; and no
\* exception unless a trajectory failed, or a row was given up that cannot be
\* padding: with rollout log-probabilities none can, and the prompt of a row may
\* not be longer than max_model_len.
THEOREM RolloutKeepsItsPromise == Spec => ImplementsBatch
  <1>1. Init => Batch!Init
    <2> SUFFICES ASSUME Init PROVE Batch!Init
      OBVIOUS
    <2>1. \A r \in Reqs : Slot(r) = "open"
      BY DEF Init, Slot, FreshTask
    <2>2. Slots = [r \in Reqs |-> "open"] /\ Outcome = "running"
      BY <2>1 DEF Slots, Outcome, Init
    <2> QED BY <2>2 DEF Batch!Init, Slots, Outcome
  <1>2. IInv /\ BatchInv /\ [Next]_vars => [Batch!Next]_<<Slots, Outcome>>
    <2> SUFFICES ASSUME IInv, BatchInv, [Next]_vars
                 PROVE  [Batch!Next]_<<Slots, Outcome>>
      OBVIOUS
    <2>1. IInv' /\ BatchInv'
      BY NextInv, BatchInductive
    <2>2. ASSUME UNCHANGED <<task, doneQ>>, UNCHANGED Collector
          PROVE  [Batch!Next]_<<Slots, Outcome>>
      BY <2>2 DEF Slots, Slot, Outcome, Collector
    <2> QED BY <2>1, <2>2, StepKinds, ActsImplement, CollectorImplements
  <1>3. Init => IInv /\ BatchInv
    BY InitInv, BatchInductive
  <1>4. (IInv /\ BatchInv) /\ [Next]_vars => (IInv /\ BatchInv)'
    BY NextInv, BatchInductive
  <1> QED BY <1>1, <1>2, <1>3, <1>4, PTL
          DEF Spec, ImplementsBatch, Batch!Spec, Batch!vars, Slots, Outcome
=============================================================================
