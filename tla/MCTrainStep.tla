----------------------------- MODULE MCTrainStep -----------------------------
(* An instance of TrainStep: four ranks that work in pairs, a training batch *)
(* that divides over everything, a validation batch that does not.           *)
EXTENDS TrainStep

Prompts == [m \in Modes |-> IF m = "train" THEN 4 ELSE 3]
PerPrompt == [m \in Modes |-> IF m = "train" THEN 2 ELSE 1]
\* Lengths 2, 3 and 5, one token of which is the prompt's.  The rollouts of one
\* prompt come in the order of their lengths: nothing tells them apart.  So do
\* prompts 1 and 2, 3 and 4, and 1 and 3: only equal lengths tell their places apart.
NoLonger(l, p, q) == \/ l[2 * p - 1] < l[2 * q - 1]
                     \/ l[2 * p - 1] = l[2 * q - 1] /\ l[2 * p] <= l[2 * q]
SomeLens(m) ==
    {l \in [1..Prompts[m] * PerPrompt[m] -> {2, 3, 5}] :
        m = "train" => /\ \A p \in 1..Prompts[m] : l[2 * p - 1] <= l[2 * p]
                       /\ NoLonger(l, 1, 2) /\ NoLonger(l, 3, 4) /\ NoLonger(l, 1, 3)}
LensByMode == [m \in Modes |-> SomeLens(m)]
AllButOne == [l \in 1..5 |-> IF l = 1 THEN 1 ELSE l - 1]
PairRank == <<0, 0, 1, 1>>
PairReport == <<TRUE, FALSE, TRUE, FALSE>>
=============================================================================
