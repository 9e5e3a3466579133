------------------------------ MODULE TrainStep ------------------------------
(***************************************************************************)
(* The way of a batch through one step of RayPPOTrainer.fit, and through   *)
(* _validate (verl/trainer/ppo/ray_trainer.py), with DataProto's           *)
(* operations, the single controller's dispatch, the balancing of lengths  *)
(* over the ranks, and the micro-batches of actor, reference and critic.   *)
(*                                                                         *)
(* The driver is one thread that calls the worker group and waits, so a    *)
(* step is one of its calls.  What is at stake is which value ends up on   *)
(* which row: the batch is repeated, split, reordered, split again and put *)
(* together, and nothing but positions ties a row's fields together.       *)
(*                                                                         *)
(* A field is named by the rollout it was computed from; a field that is   *)
(* not there yet is 0.  There is a reference policy and a critic, so the   *)
(* driver makes every call it can make; ppo_epochs is 1.  The advantages   *)
(* are GRPO's: with GAE and use_pf_ppo, which is off by default, the batch *)
(* is resampled after them (ray_trainer.py:223-228), rows repeated and     *)
(* dropped.  That branch is left out.                                      *)
(***************************************************************************)
EXTENDS DataProto, SeqlenBalancing

CONSTANTS
    Modes,        \* "train" and "validate"
    NumPrompts,   \* prompts of a batch, by mode
    NumRollouts,  \* rollout.n, by mode
    NumWorkers,   \* how many shares generate_sequences makes
    DpRank,       \* [ranks of the actor's worker group -> Nat]
    DpSize,
    Reports,      \* [ranks -> BOOLEAN]
    Width,        \* tokens of a row with its padding: attention_mask.shape[-1]
    Lens,         \* the rollouts' lengths, by mode: sequences to choose from
    LossTokens,   \* [length -> the tokens of them that are trained on]
    LossAggModes, \* what loss_agg_mode may be
    MaxTokenLen,  \* tokens of a dynamic micro-batch
    MicroBatch,   \* rows of a micro-batch otherwise
    MiniBatch     \* rows of a mini-batch on a rank

\* The losses that are a mean over a micro-batch's rows.
SeqMeans == {"seq-mean-token-sum", "seq-mean-token-mean"}

ASSUME StepAssumption ==
    /\ NumPrompts \in [Modes -> Nat \ {0}] /\ NumRollouts \in [Modes -> Nat \ {0}]
    /\ {NumWorkers, DpSize, MaxTokenLen, MicroBatch, MiniBatch} \subseteq Nat \ {0}
    /\ \A m \in Modes : Lens[m] \subseteq
            [1..NumPrompts[m] * NumRollouts[m] -> 1..Width]
    /\ Width \in Nat /\ LossTokens \in [1..Width -> Nat \ {0}]
    /\ LossAggModes \subseteq SeqMeans \cup {"token-mean", "seq-mean-token-sum-norm"}
    /\ Divides(MicroBatch, MiniBatch)
    /\ DpRank \in [DOMAIN Reports -> 0..DpSize - 1]

VARIABLES
    mode,     \* is this a training step or a validation?
    dynamic,  \* use_dynamic_bsz
    loss_agg_mode,
    at,       \* the driver's next call
    lens,     \* [rollout -> tokens]
    gen,      \* gen_batch, then gen_batch_output
    batch,    \* the driver's batch
    learned   \* what each rank's actor and critic have trained on, in order

setting == <<mode, dynamic, loss_agg_mode, lens>>
vars == <<setting, at, gen, batch, learned>>

-----------------------------------------------------------------------------
NumRows == NumPrompts[mode] * NumRollouts[mode]
Rollouts == 1..NumRows

\* The prompt a rollout answers.
PromptOf(k) == ((k - 1) \div NumRollouts[mode]) + 1

\* uid and ground truth are the prompt's (non-tensors), the others tensors.
Row(p) == [uid |-> p, rollout |-> 0, score |-> 0, old_log_probs |-> 0,
           ref_log_prob |-> 0, values |-> 0, group |-> {}]

LensOf(b) == [i \in DOMAIN b |-> lens[b[i].rollout]]

Init == /\ mode \in Modes /\ dynamic \in BOOLEAN /\ loss_agg_mode \in LossAggModes
        /\ at = "repeat"
        /\ lens \in Lens[mode]
        /\ gen = <<>> /\ learned = [actor |-> <<>>, critic |-> <<>>]
        /\ batch = [p \in 1..NumPrompts[mode] |-> Row(p)]

\* gen_batch is popped from the batch and repeated; validation repeats first
\* and pads to the number of shares.
RepeatPrompts ==
    /\ at = "repeat"
    /\ LET prompts == Repeat([p \in DOMAIN batch |-> p], NumRollouts[mode])
       IN  gen' = IF mode = "train" THEN prompts ELSE PadToDivisor(prompts, NumWorkers)
    /\ at' = "generate"
    /\ UNCHANGED <<setting, batch, learned>>

\* generate_sequences: the shares are answered and put together.  The k-th
\* answer is rollout k; a padding row's is a rollout nobody uses.
Generate ==
    /\ at = "generate"
    /\ LET asked == [k \in DOMAIN gen |-> [prompt |-> gen[k], rollout |-> k]]
       IN  gen' = Concat(Chunk(asked, NumWorkers))
    /\ at' = "union"
    /\ UNCHANGED <<setting, batch, learned>>

\* The batch is repeated like the prompts were and takes the answers' fields.
Union ==
    /\ at = "union"
    /\ LET rows == Repeat(batch, NumRollouts[mode])
           answers == Unpad(gen, PadSize(NumRows, NumWorkers))
           kept == IF mode = "train" THEN gen ELSE answers
       IN  batch' = [i \in DOMAIN rows |-> [rows[i] EXCEPT !.rollout = kept[i].rollout]]
    /\ at' = IF mode = "train" THEN "balance" ELSE "reward"
    /\ UNCHANGED <<setting, gen, learned>>

\* DataProto.reorder
Reorder(b, idx) == [i \in DOMAIN idx |-> b[idx[i]]]

WorldSize == Cardinality(DOMAIN DpRank)

\* _balance_batch, or the assertion in it.
Balance ==
    /\ at = "balance"
    /\ LET parts == Partitions(LensOf(batch), WorldSize, TRUE)
       IN  IF MayPartition(LensOf(batch), WorldSize, TRUE)
              /\ Sound(LensOf(batch), WorldSize, TRUE, parts)
           THEN /\ batch' = Reorder(batch, FlattenSeq(parts))
                /\ at' = "reward"
           ELSE at' = "raised" /\ UNCHANGED batch
    /\ UNCHANGED <<setting, gen, learned>>

\* compute_reward: a row's rollout against its ground truth.
Reward ==
    /\ at = "reward"
    /\ batch' = [i \in DOMAIN batch |-> [batch[i] EXCEPT !.score = batch[i].rollout]]
    /\ at' = IF mode = "train" THEN "old_log_prob" ELSE "done"
    /\ UNCHANGED <<setting, gen, learned>>

-----------------------------------------------------------------------------
\* rearrange_micro_batches: all ranks make as many micro-batches as the rank
\* that needs most; then each rank partitions its share.
DynamicParts(shares) ==
    LET k == Max({WantedMicroBatches(LensOf(shares[r]), MaxTokenLen) : r \in DOMAIN shares})
    IN  [r \in DOMAIN shares |-> MicroBatches(LensOf(shares[r]), k)]

\* The rows of each rank's micro-batches; split() when they are of fixed size.
MicroParts(shares) ==
    IF dynamic THEN DynamicParts(shares)
    ELSE [r \in DOMAIN shares |-> Split([i \in DOMAIN shares[r] |-> i], MicroBatch)]

MicroSound(shares, parts) ==
    dynamic => \A r \in DOMAIN shares :
        /\ MayRearrange(Width, MaxTokenLen)
        /\ MayPartition(LensOf(shares[r]), Len(parts[r]), FALSE)
        /\ Sound(LensOf(shares[r]), Len(parts[r]), FALSE, parts[r])

\* The rows of all micro-batches, one after the other.
Selected(share, parts) ==
    LET order == FlattenSeq(parts) IN [i \in DOMAIN order |-> share[order[i]]]

\* The outputs of the forward passes over a share, back in the share's order.
Forward(share, parts) ==
    LET rows == Selected(share, parts)
        outputs == [i \in DOMAIN rows |-> rows[i].rollout]
    IN  IF dynamic THEN Restore(outputs, parts) ELSE outputs

\* A call that computes a field of every row on the ranks, and the driver's union.
Infer(here, field, next) ==
    /\ at = here
    /\ LET shares == Dispatch(DpRank, DpSize, batch)
           parts == MicroParts(shares)
           found == Collect(Reports, [r \in DOMAIN shares |-> Forward(shares[r], parts[r])])
       IN  IF MicroSound(shares, parts)
           THEN /\ batch' = [i \in DOMAIN batch |-> [batch[i] EXCEPT ![field] = found[i]]]
                /\ at' = next
           ELSE at' = "raised" /\ UNCHANGED batch
    /\ UNCHANGED <<setting, gen, learned>>

OldLogProb == Infer("old_log_prob", "old_log_probs", "ref")
RefLogProb == Infer("ref", "ref_log_prob", "values")
Values     == Infer("values", "values", "adv")

\* compute_grpo_outcome_advantage: a score against those of its uid.
Advantage ==
    /\ at = "adv"
    /\ batch' = [i \in DOMAIN batch |-> [batch[i] EXCEPT !.group =
                    {batch[j].score : j \in {k \in DOMAIN batch : batch[k].uid = batch[i].uid}}]]
    /\ at' = "update_critic"
    /\ UNCHANGED <<setting, gen, learned>>

-----------------------------------------------------------------------------
\* The shares' c-th mini-batches; an update splits its share.
Mini(shares, c) == [r \in DOMAIN shares |-> Split(shares[r], MiniBatch)[c]]

\* A slip: the rows that do not fill a mini-batch are left out.
NumMiniWhole(shares) == Len(shares[1]) \div MiniBatch

NumMini(shares) == Len(Split(shares[1], MiniBatch))

\* A slip: the micro-batches of one mini-batch count alike.
ScalePerMicroBatch(rows, k) == <<1, k>>

\* loss_scale_factor of one of k micro-batches, as a fraction.
Scale(rows, k) == IF dynamic THEN <<rows, MiniBatch>>
                  ELSE <<1, MiniBatch \div MicroBatch>>

\* agg_loss: what the i-th row counts for in its micro-batch's loss, as a
\* fraction; a mean over tokens, a mean over rows, a sum in units of a row's width.
RowShare(rows, i) ==
    LET tokens == [j \in DOMAIN rows |-> LossTokens[lens[rows[j].rollout]]]
    IN  CASE loss_agg_mode = "token-mean" -> <<tokens[i], Summed(tokens)>>
          [] loss_agg_mode \in SeqMeans -> <<1, Len(rows)>>
          [] OTHER -> <<1, 1>>

\* What a micro-batch adds to the gradient: its loss, scaled.
Contributions(share, part, k) ==
    LET rows == [i \in DOMAIN part |-> share[part[i]]]
        scale == Scale(Len(part), k)
    IN  [i \in DOMAIN part |-> [row |-> rows[i],
            weight |-> <<RowShare(rows, i)[1] * scale[1], RowShare(rows, i)[2] * scale[2]>>]]

\* A rank trains on a mini-batch, micro-batch by micro-batch.
Trained(share, parts) ==
    FlattenSeq([p \in DOMAIN parts |-> Contributions(share, parts[p], Len(parts))])

\* Every rank trains on its share, mini-batch by mini-batch.
Update(here, model, places) ==
    /\ at = here
    /\ LET shares == Dispatch(DpRank, DpSize, batch)
           minis == [c \in 1..NumMini(shares) |-> Mini(shares, c)]
           parts == [c \in DOMAIN minis |-> MicroParts(minis[c])]
       IN  IF \A c \in DOMAIN minis : MicroSound(minis[c], parts[c])
           THEN /\ learned' = [learned EXCEPT ![model] = [r \in DOMAIN shares |->
                       FlattenSeq([c \in DOMAIN minis |-> Trained(minis[c][r], parts[c][r])])]]
                /\ at' \in places
           ELSE at' = "raised" /\ UNCHANGED learned
    /\ UNCHANGED <<setting, gen, batch>>

\* While the critic warms up the actor is not trained.
UpdateCritic == Update("update_critic", "critic", {"update_actor", "done"})
UpdateActor  == Update("update_actor", "actor", {"done"})

Next == \/ RepeatPrompts \/ Generate \/ Union \/ Balance \/ Reward
        \/ OldLogProb \/ RefLogProb \/ Values \/ Advantage
        \/ UpdateCritic \/ UpdateActor

Spec == Init /\ [][Next]_vars

-----------------------------------------------------------------------------
\* Whatever has been done to the batch, a row's fields belong together: its
\* rollout was asked for with its prompt, its score, log-probabilities and values
\* are its rollout's, its advantage is taken over all rollouts of its prompt and
\* no other, and every rollout is on exactly one row.
RowsStayWhole ==
    /\ at \notin {"repeat", "generate", "union"} =>
          /\ Len(batch) = NumRows
          /\ {batch[i].rollout : i \in DOMAIN batch} = Rollouts
    /\ \A i \in DOMAIN batch : LET r == batch[i] IN
          /\ r.rollout # 0 => /\ r.uid = PromptOf(r.rollout)
                              /\ r.uid = gen[r.rollout].prompt
          /\ {r.score, r.old_log_probs, r.ref_log_prob, r.values} \subseteq {0, r.rollout}
          /\ r.group \in {{}, {k \in Rollouts : PromptOf(k) = r.uid}}

\* The ranks that report have together trained actor and critic on every row
\* once, and ranks of one data-parallel group on the same rows in the same
\* order.
LearnedOnce ==
    \A model \in DOMAIN learned : LET seen == learned[model] IN
        seen # <<>> =>
            /\ \A r, s \in DOMAIN seen : DpRank[r] = DpRank[s] => seen[r] = seen[s]
            /\ \A i \in DOMAIN batch :
                  Cardinality({x \in (DOMAIN seen) \X Rollouts :
                      /\ Reports[x[1]] /\ x[2] \in DOMAIN seen[x[1]]
                      /\ seen[x[1]][x[2]].row = batch[i]}) = 1

\* With a loss that is a mean over rows, gradients are accumulated over dynamic
\* micro-batches as if there were none: however the rows were packed, each has
\* the same weight in an update.  It is not so for the default token-mean, whose
\* divisor is the micro-batch's tokens, nor for seq-mean-token-sum-norm, which is
\* scaled by the rows without having been divided by them.
RowsWeighAlike ==
    dynamic /\ loss_agg_mode \in SeqMeans => \A model \in DOMAIN learned : \A r \in DOMAIN learned[model] :
        \A j \in DOMAIN learned[model][r] :
            LET w == learned[model][r][j].weight IN w[1] * MiniBatch = w[2]

\* The partitions are never refused: no share is empty, equal sizes are equal,
\* and no rank is asked for more micro-batches than it has rows; for batches that
\* divide over workers and ranks, of rows no wider than a micro-batch.
NeverRaises == at # "raised"

=============================================================================
