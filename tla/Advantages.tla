----------------------------- MODULE Advantages -----------------------------
(***************************************************************************)
(* compute_advantage (verl/trainer/ppo/ray_trainer.py) and the estimators  *)
(* of verl/trainer/ppo/core_algos.py, after _balance_batch has put the     *)
(* rows of the batch in another order.                                     *)
(*                                                                         *)
(* A row is one response without its padding: for each token the reward,   *)
(* the critic's value and response_mask, which is 1 on the model's tokens. *)
(* Rewards, values, gamma and lam are whole numbers: the estimators are     *)
(* built of sums, products and quotients, and equations between those that *)
(* hold for whole numbers hold for all.  Those that divide by the size of  *)
(* a group give fractions <<numerator, denominator>>, a deviation is kept  *)
(* as its square, and the epsilon added to it is left out; the same        *)
(* epsilon where it bounds a variance from below is VarianceFloor.         *)
(* masked_whiten, one affine map for the whole batch, is left out.         *)
(***************************************************************************)
EXTENDS SeqlenBalancing

CONSTANTS
    Batches,    \* batches as they come from the rollout
    NumRanks,   \* ranks the batch is balanced over
    Discounts,  \* <<gamma, lam>> to choose from
    NormByStd,  \* norm_adv_by_std_in_grpo
    VarianceFloor  \* epsilon, in the square of the rewards' unit: a fraction

Responses == {r \in [uid : Nat, mask : Seq({0, 1}), rewards : Seq(Int), values : Seq(Int)] :
                 Len(r.rewards) = Len(r.mask) /\ Len(r.values) = Len(r.mask)}

ASSUME AdvantagesAssumption ==
    /\ NumRanks \in Nat \ {0}
    /\ Discounts \subseteq Int \X Int
    /\ NormByStd \in BOOLEAN
    /\ VarianceFloor \in (Nat \ {0}) \X (Nat \ {0})
    /\ \A b \in Batches : b \in Seq(Responses) /\ b # <<>>

VARIABLES
    call,       \* the driver's next call
    rows,       \* the batch before it is balanced
    order,      \* for each row of the batch, its number in rows
    discount,   \* algorithm.gamma and algorithm.lam
    estimator,  \* algorithm.adv_estimator
    advantages  \* what it computed for each row

advantageVars == <<call, rows, order, discount, estimator, advantages>>

-----------------------------------------------------------------------------
(* Sums and fractions                                                      *)

\* The sum of some of a list's numbers.
SumOver(numbers, S) == Summed([j \in DOMAIN numbers |-> IF j \in S THEN numbers[j] ELSE 0])
Whole(n) == <<n, 1>>
Minus(a, b) == <<a[1] * b[2] - b[1] * a[2], a[2] * b[2]>>
Scaled(a, b) == <<a[1] * b[1], a[2] * b[2]>>
Equal(a, b) == a[1] * b[2] = b[1] * a[2]
Smaller(a, b) == a[1] * b[2] < b[1] * a[2]
AtLeastOne(n) == IF n < 1 THEN 1 ELSE n

-----------------------------------------------------------------------------
(* One number per row: the score against those of the row's group.         *)

Score(row) == Summed(row.rewards)
ResponseLength(row) == Summed(row.mask)
Scores(b) == [i \in DOMAIN b |-> Score(b[i])]
Squares(numbers) == [i \in DOMAIN numbers |-> numbers[i] * numbers[i]]

\* A slip: the groups as they were before the batch was balanced.
IndexBefore(b) == [i \in DOMAIN b |-> rows[i].uid]

\* data.non_tensor_batch["uid"]
Index(b) == [i \in DOMAIN b |-> b[i].uid]

GroupOf(b, i) == {j \in DOMAIN b : Index(b)[j] = Index(b)[i]}
Size(b, i) == Cardinality(GroupOf(b, i))
Total(b, i) == SumOver(Scores(b), GroupOf(b, i))

\* A group of one has mean 0 and deviation 1.
Mean(b, i) == IF Size(b, i) = 1 THEN Whole(0) ELSE <<Total(b, i), Size(b, i)>>

\* torch.std: the mean square of the differences from the mean, over n - 1.
SquaredStd(b, i) ==
    LET n == Size(b, i)
        differences == [j \in DOMAIN b |-> n * Scores(b)[j] - Total(b, i)]
    IN  IF n = 1 THEN Whole(1)
        ELSE <<SumOver(Squares(differences), GroupOf(b, i)), n * n * (n - 1)>>

\* A slip: the sums of squares are divided by n.
VarianceOfSumsOverN(b, i) ==
    LET n == Size(b, i)
        squares == SumOver(Squares(Scores(b)), GroupOf(b, i))
    IN  <<n * squares - Total(b, i) * Total(b, i), n * n>>

\* group_mean_std: from the sums of the scores and of their squares ...
VarianceOfSums(b, i) ==
    LET n == Size(b, i)
        squares == SumOver(Squares(Scores(b)), GroupOf(b, i))
    IN  <<n * squares - Total(b, i) * Total(b, i), n * AtLeastOne(n - 1)>>

\* ... and never less than epsilon (torch.clamp).
SquaredStdOfSums(b, i) ==
    IF Size(b, i) = 1 THEN Whole(1)
    ELSE IF Smaller(VarianceOfSums(b, i), VarianceFloor) THEN VarianceFloor
    ELSE VarianceOfSums(b, i)

Centred(b, i) == Minus(Whole(Scores(b)[i]), Mean(b, i))
Over(value, squaredStd) ==
    [value |-> value, squaredStd |-> IF NormByStd THEN squaredStd ELSE Whole(1)]
Plain(value) == [value |-> value, squaredStd |-> Whole(1)]

GRPO(b, i) == Over(Centred(b, i), SquaredStd(b, i))

\* compute_advantage does not pass norm_adv_by_std_in_grpo on to this variant.
GRPOVectorized(b, i) ==
    [value |-> Centred(b, i), squaredStd |-> SquaredStdOfSums(b, i)]

\* grpo_passk: the best of a group gets its lead over the second; topk takes
\* either of two that are equally good, whose lead is 0.
PassK(b, i) ==
    LET others == {Scores(b)[j] : j \in GroupOf(b, i) \ {i}}
        lead == Scores(b)[i] - Max(others)
    IN  IF lead > 0 THEN Over(Whole(lead), SquaredStd(b, i)) ELSE Plain(Whole(0))

ReinforceBaseline(b, i) == Plain(Centred(b, i))

RLOO(b, i) ==
    LET n == Size(b, i)
    IN  Plain(IF n > 1 THEN Scaled(Centred(b, i), <<n, n - 1>>)
              ELSE Whole(Scores(b)[i]))

RLOOVectorized(b, i) ==
    LET n == Size(b, i)
    IN  Plain(<<IF n > 1 THEN n * Scores(b)[i] - Total(b, i) ELSE 0, AtLeastOne(n - 1)>>)

\* opo: the group's mean weighted with the lengths of the responses.
OPO(b, i) ==
    LET lengths == [j \in DOMAIN b |-> ResponseLength(b[j])]
        weighted == [j \in DOMAIN b |-> lengths[j] * Scores(b)[j]]
        baseline == <<SumOver(weighted, GroupOf(b, i)), SumOver(lengths, GroupOf(b, i))>>
    IN  Plain(Minus(Whole(Scores(b)[i]), IF Size(b, i) = 1 THEN Whole(0) ELSE baseline))

\* gpg: alpha makes up for the rows without a score.
GPG(b, i) ==
    LET scored == Cardinality({j \in DOMAIN b : Scores(b)[j] # 0})
    IN  Plain(Scaled(Centred(b, i), <<Len(b), AtLeastOne(scored)>>))

-----------------------------------------------------------------------------
(* One number per token, from the last one backwards.                      *)

Gamma == discount[1]
Lam == discount[2]

\* A slip: the value of an observation is the next token's to the one before.
SkippedValue(row, t, next) == row.values[t]

\* nextvalues after token t.
NextValue(row, t, next) == IF row.mask[t] = 1 THEN row.values[t] ELSE next

\* What the loops hold after so many rounds; round n is about this token.
TokenOf(row, n) == Len(row.mask) + 1 - n

\* compute_gae_advantage_return
GAE(row) ==
    LET loop[n \in 0..Len(row.mask)] ==
            IF n = 0 THEN [nextvalues |-> 0, lastgaelam |-> 0]
            ELSE LET t == TokenOf(row, n)
                     before == loop[n - 1]
                     delta == row.rewards[t] + Gamma * before.nextvalues - row.values[t]
                     estimate == delta + Gamma * Lam * before.lastgaelam
                 IN  [nextvalues |-> NextValue(row, t, before.nextvalues),
                      lastgaelam |-> IF row.mask[t] = 1 THEN estimate ELSE before.lastgaelam]
    IN  [t \in DOMAIN row.mask |-> loop[TokenOf(row, t)].lastgaelam]

GAEReturns(row) == [t \in DOMAIN row.mask |-> GAE(row)[t] + row.values[t]]

\* reinforce_plus_plus: the running return is reset where the mask is 0.
ReinforceReturns(row) ==
    LET return[n \in 0..Len(row.mask)] ==
            IF n = 0 THEN 0
            ELSE LET t == TokenOf(row, n)
                     running == IF n > 1 /\ row.mask[t + 1] = 1 THEN return[n - 1] ELSE 0
                 IN  row.rewards[t] + Gamma * running
    IN  [t \in DOMAIN row.mask |-> return[TokenOf(row, t)]]

\* remax: the rewards on the model's tokens from t on.
ReMaxReturns(row) ==
    LET masked == [t \in DOMAIN row.mask |-> row.rewards[t] * row.mask[t]]
    IN  [t \in DOMAIN row.mask |-> SumOver(masked, t..Len(row.mask))]

-----------------------------------------------------------------------------
(* The driver                                                              *)

OutcomeEstimators == {"grpo", "grpo_vectorized", "grpo_passk", "reinforce_plus_plus_baseline",
                      "rloo", "rloo_vectorized", "opo", "gpg"}
TokenEstimators == {"gae", "reinforce_plus_plus", "remax"}
Estimators == OutcomeEstimators \cup TokenEstimators

\* The registry of estimators; those of one number per token give returns.
Estimate(e, b) ==
    [i \in DOMAIN b |->
        CASE e = "grpo" -> GRPO(b, i)
          [] e = "grpo_vectorized" -> GRPOVectorized(b, i)
          [] e = "grpo_passk" -> PassK(b, i)
          [] e = "reinforce_plus_plus_baseline" -> ReinforceBaseline(b, i)
          [] e = "rloo" -> RLOO(b, i)
          [] e = "rloo_vectorized" -> RLOOVectorized(b, i)
          [] e = "opo" -> OPO(b, i)
          [] e = "gpg" -> GPG(b, i)
          [] e = "gae" -> GAEReturns(b[i])
          [] e = "reinforce_plus_plus" -> ReinforceReturns(b[i])
          [] e = "remax" -> ReMaxReturns(b[i])]

Batch == [i \in DOMAIN order |-> rows[order[i]]]

AdvantageInit ==
    /\ call = "balance"
    /\ rows \in Batches
    /\ order = [i \in DOMAIN rows |-> i]
    /\ discount \in Discounts
    /\ estimator \in Estimators
    /\ advantages = <<>>

\* The tokens of prompt and response; the prompt is one.
LengthsOf(b) == [i \in DOMAIN b |-> 1 + Len(b[i].mask)]

\* _balance_batch; a batch that does not divide is not to be balanced.
BalanceBatch ==
    /\ call = "balance"
    /\ MayPartition(LengthsOf(Batch), NumRanks, TRUE)
    /\ order' = FlattenSeq(Partitions(LengthsOf(Batch), NumRanks, TRUE))
    /\ call' = "adv"
    /\ UNCHANGED <<rows, discount, estimator, advantages>>

\* trainer.balance_batch is off.
KeepOrder == /\ call = "balance"
             /\ call' = "adv"
             /\ UNCHANGED <<rows, order, discount, estimator, advantages>>

\* Pass@k needs two responses of every prompt.
Refuses(e, b) == e = "grpo_passk" /\ \E i \in DOMAIN b : Size(b, i) = 1

ComputeAdvantage ==
    /\ call = "adv" /\ ~Refuses(estimator, Batch)
    /\ advantages' = Estimate(estimator, Batch)
    /\ call' = "done"
    /\ UNCHANGED <<rows, order, discount, estimator>>

ComputeRaises ==
    /\ call = "adv" /\ Refuses(estimator, Batch)
    /\ call' = "raised"
    /\ UNCHANGED <<rows, order, discount, estimator, advantages>>

AdvantageNext == BalanceBatch \/ KeepOrder \/ ComputeAdvantage \/ ComputeRaises

AdvantageSpec == AdvantageInit /\ [][AdvantageNext]_advantageVars

-----------------------------------------------------------------------------
\* 0 is 0 whatever it is divided by.
Same(a, b) == /\ Equal(a.value, b.value)
              /\ a.value[1] = 0 \/ Equal(a.squaredStd, b.squaredStd)

\* The scores of a group differ by so little that the variance is raised.
Tiny(variance) == variance[1] > 0 /\ Smaller(variance, VarianceFloor)

\* ray_trainer.py, before the balancing: it "usually changes the order of data
\* in the batch, but won't affect the advantage calculation (since it's based
\* on uid)".  Every response has the advantage it would have had in its place.
BalancingIsHarmless ==
    call = "done" /\ estimator \in OutcomeEstimators =>
        \A i \in DOMAIN order : Same(advantages[i], Estimate(estimator, rows)[order[i]])

\* The variants that compute on whole tensors agree with those that loop over
\* the groups, and RLOO is what its name says: the score less the mean of the
\* others.  A prompt's only response is outside: the loop gives it its score,
\* the other variant 0; so is norm_adv_by_std_in_grpo = False, which the
\* variant of GRPO never hears of, and a group whose scores differ, but by so
\* little that only this variant raises their variance to epsilon.
EstimatorsAgree ==
    call = "done" => \A i \in DOMAIN advantages :
        /\ estimator = "grpo_vectorized" /\ NormByStd /\ ~Tiny(SquaredStd(Batch, i)) =>
              Same(advantages[i], GRPO(Batch, i))
        /\ estimator \in {"rloo", "rloo_vectorized"} /\ Size(Batch, i) > 1 =>
              Equal(advantages[i].value,
                    Minus(Whole(Scores(Batch)[i]),
                          <<Total(Batch, i) - Scores(Batch)[i], Size(Batch, i) - 1>>))

Turns(row) == {t \in DOMAIN row.mask : row.mask[t] = 1}
OneTurn(row) == \A t, u \in Turns(row) : t..u \subseteq Turns(row)
From(row, t) == {u \in Turns(row) : u >= t}
Power(x, k) == LET power[n \in 0..k] == IF n = 0 THEN 1 ELSE x * power[n - 1] IN power[k]

\* The temporal difference at one of the model's tokens to the next of them.
Difference(row, t) ==
    LET later == From(row, t + 1)
    IN  row.rewards[t] - row.values[t] +
        Gamma * IF later = {} THEN 0 ELSE row.values[Min(later)]

\* Differences from t on, discounted by how many of the model's tokens are between.
Discounted(row, t) ==
    SumOver([u \in DOMAIN row.mask |->
                LET k == Cardinality(From(row, t) \ From(row, u))
                IN  Power(Gamma * Lam, k) * Difference(row, u)],
            From(row, t))

\* The turns of a response are one episode: GAE is what it would be if the
\* tools' and the user's tokens were not there, whatever the critic says of
\* them, the sum of the discounted differences between the model's tokens.
\* Without discount its returns are the rewards to come, which is what ReMax
\* gives, and REINFORCE++ when there is but one turn.
TurnsAreOneEpisode ==
    call = "done" => \A i \in DOMAIN advantages : LET row == Batch[i] IN
        \A t \in Turns(row) :
            /\ estimator = "gae" =>
                  /\ advantages[i][t] - row.values[t] = Discounted(row, t)
                  /\ discount = <<1, 1>> => advantages[i][t] = ReMaxReturns(row)[t]
            /\ estimator = "reinforce_plus_plus" /\ OneTurn(row) /\ Gamma = 1 =>
                  advantages[i][t] = ReMaxReturns(row)[t]
=============================================================================
