---------------------------- MODULE MCAdvantages -----------------------------
(* Instances of Advantages: four responses to one, two or four prompts, and  *)
(* single responses of four tokens with every mask.                          *)
EXTENDS Advantages

Zeros(n) == [t \in 1..n |-> 0]
Ones(n) == [t \in 1..n |-> 1]

\* A response of n tokens by the model whose last one has the score.
Answer(uid, n, score) ==
    [uid |-> uid, mask |-> Ones(n), values |-> Zeros(n),
     rewards |-> [Zeros(n) EXCEPT ![n] = score]]

\* n responses to a prompt follow each other.
Sampled(n) == {[i \in 1..4 |-> Answer((i - 1) \div n, lens[i], scores[i])] :
                  lens \in [1..4 -> {1, 2}], scores \in [1..4 -> {0, 1, 3}]}

\* Dialogues of four tokens.  The critic's values are 0 on what the model did
\* not write; there is a reward at the end and a penalty on any of its tokens.
Dialogues ==
    {<<[uid |-> 0, mask |-> mask, rewards |-> rewards, values |-> values]>> :
        mask \in {m \in [1..4 -> {0, 1}] : m[1] = 1},
        values \in [1..4 -> {0, 1, 3}],
        rewards \in {[t \in 1..4 |-> IF t = 4 THEN score ELSE IF t = p THEN -1 ELSE 0] :
                        score \in {0, 1}, p \in 0..3}}

Masked == {b \in Dialogues : \A t \in 1..4 :
              b[1].mask[t] = 0 => b[1].values[t] = 0 /\ b[1].rewards[t] >= 0}

SomeBatches == Sampled(1) \cup Sampled(2) \cup Sampled(4) \cup Masked
\* In a group of four the variance of 0, 0, 0 and 1 is less.
SomeFloor == <<1, 3>>
SomeDiscounts == {<<1, 1>>, <<2, 3>>}
=============================================================================
