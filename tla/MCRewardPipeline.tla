-------------------------- MODULE MCRewardPipeline ---------------------------
(* Instances of RewardPipeline: reward models on three ranks of their own    *)
(* and on a pair of ranks that share theirs.                                 *)
EXTENDS RewardPipeline

ThreeRanks == <<0, 1, 2>>
ThreeReport == <<TRUE, TRUE, TRUE>>
\* Two ranks that work on the same rows; the first one reports.
Pair == <<0, 0>>
PairReport == <<TRUE, FALSE>>
=============================================================================
