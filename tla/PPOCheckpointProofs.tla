------------------------- MODULE PPOCheckpointProofs -------------------------
(***************************************************************************)
(* Checkpoints of the PPO trainer, proved for any number of ranks, models, *)
(* steps and restarts: the disk does not fill up and, as long as no model  *)
(* keeps exactly one checkpoint, what the tracker names is on disk and     *)
(* complete, so that a job fails to resume only when it was stopped while  *)
(* it rewrote the tracker.                                                 *)
(***************************************************************************)
EXTENDS PPOCheckpoint, FiniteSetTheorems, SequenceTheorems, TLAPS

-----------------------------------------------------------------------------
(* previous_saved_paths of a checkpoint manager stays increasing, as a     *)
(* sequence of steps, and keeps its last element, when rotation takes its  *)
(* front away and when a later step is appended.                           *)

\* What is left of an increasing sequence of steps without its first n elements.
LEMMA Shorten ==
    ASSUME NEW S \in SUBSET Int, NEW q \in Seq(S), NEW n \in 0..(Len(q) - 1),
           \A i, j \in 1..Len(q) : i < j => q[i] < q[j]
    PROVE  LET t == SubSeq(q, n + 1, Len(q))
           IN  /\ t \in Seq(S) /\ Len(t) = Len(q) - n
               /\ t[Len(t)] = q[Len(q)]
               /\ \A i, j \in 1..Len(t) : i < j => t[i] < t[j]
  <1> DEFINE t == SubSeq(q, n + 1, Len(q))
  <1>1. Len(q) \in Nat /\ n + 1 \in 1..Len(q)
    OBVIOUS
  <1>2. t \in Seq(S) /\ Len(t) = Len(q) - n
    BY <1>1, SubSeqProperties
  <1>3. \A i \in 1..Len(t) : t[i] = q[i + n] /\ i + n \in 1..Len(q)
    BY <1>1, <1>2, SubSeqProperties
  <1>4. Len(t) \in 1..Len(t) /\ Len(t) + n = Len(q)
    BY <1>1, <1>2
  <1> HIDE DEF t
  <1>5. t[Len(t)] = q[Len(q)]
    BY <1>3, <1>4
  <1>6. ASSUME NEW i \in 1..Len(t), NEW j \in 1..Len(t), i < j
        PROVE  t[i] < t[j]
    <2>1. t[i] = q[i + n] /\ t[j] = q[j + n] /\ i + n \in 1..Len(q) /\ j + n \in 1..Len(q)
      BY <1>3
    <2>2. i + n < j + n
      BY <1>1, <1>2, <1>6
    <2> QED BY <2>1, <2>2
  <1> QED BY <1>2, <1>5, <1>6 DEF t

\* An increasing sequence of steps stays increasing when a later one is added.
LEMMA Lengthen ==
    ASSUME NEW S \in SUBSET Int, NEW q \in Seq(S), NEW e \in S,
           \A i, j \in 1..Len(q) : i < j => q[i] < q[j],
           Len(q) > 0 => q[Len(q)] < e
    PROVE  /\ Append(q, e) \in Seq(S)
           /\ Append(q, e)[Len(Append(q, e))] = e
           /\ \A i, j \in 1..Len(Append(q, e)) :
                 i < j => Append(q, e)[i] < Append(q, e)[j]
  <1> DEFINE t == Append(q, e)
  <1>1. Len(q) \in Nat /\ t \in Seq(S) /\ Len(t) = Len(q) + 1
    OBVIOUS
  <1>2. \A i \in 1..Len(q) : t[i] = q[i] /\ q[i] \in Int /\ q[i] < e
    <2> SUFFICES ASSUME NEW i \in 1..Len(q)
                 PROVE  t[i] = q[i] /\ q[i] \in Int /\ q[i] < e
      OBVIOUS
    <2>1. Len(q) \in 1..Len(q) /\ Len(q) > 0 BY <1>1
    <2>2. q[i] \in S /\ q[Len(q)] \in S BY <2>1
    <2>3. t[i] = q[i] OBVIOUS
    <2>4. i = Len(q) \/ i < Len(q) BY <1>1
    <2>5. q[i] \in Int /\ q[Len(q)] \in Int /\ e \in Int BY <2>2
    <2>6. q[i] = q[Len(q)] \/ q[i] < q[Len(q)] BY <2>1, <2>4
    <2> HIDE DEF t
    <2> QED BY <2>1, <2>3, <2>5, <2>6
  <1>3. t[Len(q) + 1] = e
    OBVIOUS
  <1> HIDE DEF t
  <1>4. ASSUME NEW i \in 1..Len(t), NEW j \in 1..Len(t), i < j
        PROVE  t[i] < t[j]
    <2>1. i \in 1..Len(q) BY <1>1, <1>4
    <2>2. CASE j = Len(q) + 1 BY <2>1, <2>2, <1>2, <1>3
    <2>3. CASE j # Len(q) + 1
      <3>1. j \in 1..Len(q) BY <2>3, <1>1
      <3> QED BY <2>1, <3>1, <1>2, <1>4
    <2> QED BY <2>2, <2>3
  <1> QED BY <1>1, <1>3, <1>4 DEF t

-----------------------------------------------------------------------------
(* The invariant.                                                          *)

Running == {"training", "saving", "data", "writingData", "tracking", "writingTracker"}
AfterModels == {"data", "writingData", "tracking", "writingTracker"}

(* The models that have already been saved at this step. *)
Recorded(i) == phase \in AfterModels \/ (phase = "saving" /\ i < model)

(* The step being trained is beyond the one the tracker names. *)
StepInv ==
    /\ phase \in Running => tracker < step /\ step < TotalSteps + run
    /\ tracker < TotalSteps + run

(* Barriers: nobody writes before rank 0 has removed what it removes, and  *)
(* who is past its shard has written it.                                   *)
StageInv ==
    /\ phase = "saving" =>
          \/ \A r \in Ranks : stage[r] \in {"called", "removing", "arrived"}
          \/ \A r \in Ranks : stage[r] \in {"saving", "writing", "saved"}
    /\ phase = "saving" =>
          \A r \in Ranks : stage[r] = "saved" => shard[Order[model]][step][r] = "whole"

(* Old checkpoints are removed by rank 0, before the first barrier. *)
RotationInv ==
    phase \in Running /\ doomed # {} => phase = "saving" /\ stage[0] = "removing"

(* What is being removed is not what the tracker names. *)
DoomedInv == phase \in Running => tracker \notin doomed

(* previous_saved_paths is increasing, and ends with the step that is      *)
(* being saved or else the one the tracker names.                          *)
SavedInv ==
    phase \in Running => \A i \in 1..Len(Order) :
        /\ \A j, k \in 1..Len(saved[Order[i]]) :
              j < k => saved[Order[i]][j] < saved[Order[i]][k]
        /\ Len(saved[Order[i]]) > 0 =>
              saved[Order[i]][Len(saved[Order[i]])] = IF Recorded(i) THEN step ELSE tracker

(* What was saved at this step is complete. *)
WholeInv ==
    /\ phase \in Running => \A i \in 1..Len(Order) : Recorded(i) => Whole(Order[i], step)
    /\ phase \in {"tracking", "writingTracker"} => data[step] = "whole"

(* What holds however many checkpoints are kept ... *)
BaseInv == TypeOK /\ StepInv /\ StageInv /\ RotationInv /\ SavedInv /\ WholeInv

(* ... and what holds when none of the models keeps exactly one. *)
IInv == BaseInv /\ DoomedInv /\ NamedIsWhole /\ FailsOnlyForTracker

-----------------------------------------------------------------------------
\* An index is the last one or precedes it, and precedes its successor's.
LEMMA LastIndex == \A n \in Nat : \A k \in 1..n : ~(k < n) => k = n
OBVIOUS
LEMMA NextIndex ==
    \A n \in Nat : \A i, k \in 1..n : i < k + 1 <=> i < k \/ i = k
OBVIOUS

\* The step being saved is a step number, and no tracked one.
LEMMA StepIsNew ==
    ASSUME TypeOK, StepInv, phase \in Running
    PROVE  step \in Steps /\ step # tracker /\ step \in Nat /\ tracker \in Int
  BY ManagerAssumption, TrainerAssumption DEF TypeOK, StepInv, Steps, NoFile, Torn

\* No model is saved twice.
LEMMA OrderIsInjective ==
    ASSUME NEW i \in 1..Len(Order), NEW j \in 1..Len(Order), i # j
    PROVE  Order[i] # Order[j] /\ Order[i] \in Models
  BY TrainerAssumption

\* A file of a step the tracker does not name may change.
LEMMA OtherStepChanges ==
    ASSUME TypeOK, NamedIsWhole, NEW m \in Models, NEW s \in Steps, NEW r \in Ranks,
           NEW f \in FileStates, s # tracker,
           shard' = [shard EXCEPT ![m][s][r] = f], data' = data, tracker' = tracker
    PROVE  NamedIsWhole'
  <1> SUFFICES ASSUME tracker \in Steps, NEW n \in Models, NEW q \in Ranks
               PROVE  shard'[n][tracker][q] = shard[n][tracker][q]
    BY DEF NamedIsWhole, Whole
  <1> QED BY DEF TypeOK, ManagerTypeOK

\* The initial state satisfies the invariant.
LEMMA InitInvariant == Init => IInv
  <1> SUFFICES ASSUME Init PROVE IInv
    OBVIOUS
  <1>1. Len(Order) \in Nat /\ 1 \in 1..Len(Order) /\ 1 \in 1..MaxRuns
    BY TrainerAssumption
  <1>2. TypeOK
    <2>1. ManagerTypeOK
      BY ManagerAssumption DEF Init, ManagerInit, ManagerTypeOK, FileStates, Stages
    <2> QED BY <1>1, <2>1, TrainerAssumption DEF TypeOK, Init, Phases, FileStates, NoFile
  <1>3. StepInv BY TrainerAssumption DEF StepInv, Init, NoFile
  <1>4. StageInv /\ RotationInv /\ DoomedInv
    BY DEF StageInv, RotationInv, DoomedInv, Init, ManagerInit
  <1>5. SavedInv
    <2>1. \A i \in 1..Len(Order) : saved[Order[i]] = <<>>
      BY TrainerAssumption DEF Init, ManagerInit
    <2> QED BY <2>1 DEF SavedInv
  <1>6. WholeInv BY DEF WholeInv, Init, Recorded, AfterModels
  <1>7. NamedIsWhole BY DEF NamedIsWhole, Init, NoFile, Steps
  <1>8. FailsOnlyForTracker BY DEF FailsOnlyForTracker, Init
  <1> QED BY <1>2, <1>3, <1>4, <1>5, <1>6, <1>7, <1>8 DEF IInv, BaseInv

\* The steps of the training loop that save nothing.
LEMMA TrainKeeps ==
    ASSUME BaseInv, TrainStep \/ NoMoreData
    PROVE  BaseInv' /\ (IInv => IInv')
  <1> USE DEF BaseInv
  <1>1. phase = "training" /\ phase' \in {"training", "finished"}
    BY DEF TrainStep, NoMoreData, Advance
  <1>2. UNCHANGED <<managerVars, model, run, data, tracker>>
    BY DEF TrainStep, NoMoreData
  <1>3. step' \in {step, step + 1}
    BY DEF TrainStep, NoMoreData, Advance
  <1>4. phase' = "training" => step' = step + 1 /\ step < TotalSteps
    BY <1>1, StepIsNew, TrainerAssumption
    DEF TrainStep, NoMoreData, Advance, SaveDue, Running, StepInv
  <1>5. run \in Nat /\ step \in Nat /\ step + 1 <= TotalSteps + run /\ TotalSteps \in Nat
    BY <1>1, TrainerAssumption DEF TypeOK, StepInv, Running
  <1>6. TypeOK'
    BY <1>1, <1>2, <1>3, <1>5 DEF TypeOK, ManagerTypeOK, managerVars, Phases
  <1>7. StepInv'
    BY <1>1, <1>2, <1>4, <1>5, StepIsNew, TrainerAssumption DEF StepInv, TypeOK, Running
  <1>8. StageInv' /\ RotationInv' /\ (DoomedInv => DoomedInv')
    BY <1>1, <1>2 DEF StageInv, RotationInv, DoomedInv, Running, managerVars
  <1>9. SavedInv'
    BY <1>1, <1>2 DEF SavedInv, Running, AfterModels, managerVars, Recorded
  <1>10. WholeInv' /\ FailsOnlyForTracker'
    BY <1>1 DEF WholeInv, Recorded, AfterModels, FailsOnlyForTracker
  <1>11. NamedIsWhole => NamedIsWhole'
    BY <1>2 DEF NamedIsWhole, Whole, managerVars
  <1> QED BY <1>6, <1>7, <1>8, <1>9, <1>10, <1>11 DEF IInv

\* A save begins.
LEMMA TrainAndSaveKeeps ==
    ASSUME BaseInv, TrainAndSave
    PROVE  BaseInv' /\ (IInv => IInv')
  <1> USE DEF BaseInv, TrainAndSave
  <1>1. stage' = [r \in Ranks |-> "called"] BY DEF CallSave, MoveAll
  <1>2. TypeOK'
    <2>1. stage' \in [Ranks -> Stages] BY <1>1 DEF Stages
    <2>2. 1 \in 1..Len(Order) BY TrainerAssumption
    <2> QED BY <2>1, <2>2 DEF TypeOK, ManagerTypeOK, Phases
  <1>3. StepInv' BY DEF StepInv, Running
  <1>4. StageInv' BY <1>1 DEF StageInv
  <1>5. RotationInv' /\ (DoomedInv => DoomedInv') BY DEF RotationInv, DoomedInv, Running
  <1>6. SavedInv' BY DEF SavedInv, Running, AfterModels, Recorded
  <1>7. WholeInv' BY DEF WholeInv, Running, AfterModels, Recorded
  <1>8. (NamedIsWhole => NamedIsWhole') /\ FailsOnlyForTracker'
    BY DEF NamedIsWhole, Whole, FailsOnlyForTracker
  <1> QED BY <1>2, <1>3, <1>4, <1>5, <1>6, <1>7, <1>8 DEF IInv

\* Rank 0 begins to remove the front of the saved paths; if more than one is
\* kept the last of them, which the tracker names, stays.
LEMMA BeginRotationKeeps ==
    ASSUME BaseInv, phase = "saving", BeginRotation(Order[model]), UNCHANGED driverVars
    PROVE  BaseInv' /\ ((\A m \in Models : Keep[m] # 1) /\ IInv => IInv')
  <1> DEFINE m == Order[model]
             s == saved[m]
             k == Rotated(m)
             t == SubSeq(s, k + 1, Len(s))
  <1> USE DEF BaseInv
  <1>1. model \in 1..Len(Order) /\ m \in Models /\ 0 \in Ranks
    BY TrainerAssumption, ManagerAssumption DEF TypeOK, Ranks
  <1>2. s \in Seq(Steps) /\ Keep[m] \in Nat /\ Keep[m] >= 1 /\ Len(s) >= Keep[m]
    <2>1. s \in Seq(Steps) BY <1>1 DEF TypeOK, ManagerTypeOK
    <2>2. Keep[m] \in Nat BY <1>1, ManagerAssumption
    <2>3. Keep[m] > 0 /\ Len(s) >= Keep[m] BY DEF BeginRotation, Rotates
    <2> QED BY <2>1, <2>2, <2>3
  <1>3. k \in 1..Len(s) /\ Len(s) \in Nat /\ (Keep[m] # 1 => k < Len(s))
    BY <1>2 DEF Rotated
  <1>4. /\ \A i, j \in 1..Len(s) : i < j => s[i] < s[j]
        /\ s[Len(s)] = tracker
    BY <1>1, <1>3 DEF SavedInv, Running, Recorded, AfterModels
  <1>5. /\ doomed' = {s[i] : i \in 1..k}
        /\ saved' = [saved EXCEPT ![m] = t]
        /\ stage' = [stage EXCEPT ![0] = "removing"] /\ stage[0] = "called"
        /\ shard' = shard
    <2>1. doomed' = {s[i] : i \in 1..k} BY DEF BeginRotation
    <2>2. saved' = [saved EXCEPT ![m] = t] BY Zenon DEF BeginRotation
    <2> QED BY <2>1, <2>2 DEF BeginRotation, Move
  <1>6. UNCHANGED <<phase, model, step, run, data, tracker>> BY DEF driverVars
  <1>0. Steps \subseteq Int BY DEF Steps
  <1> HIDE DEF s, k
  <1>7. /\ t \in Seq(Steps) /\ Len(t) = Len(s) - k
        /\ Len(t) > 0 => t[Len(t)] = s[Len(s)]
        /\ \A i, j \in 1..Len(t) : i < j => t[i] < t[j]
    <2>1. CASE k = Len(s)
      <3>1. t \in Seq(Steps) /\ Len(t) = 0
        BY <1>2, <1>3, <2>1
      <3> QED BY <3>1, <1>3, <2>1
    <2>2. CASE k < Len(s)
      <3>1. k \in 0..(Len(s) - 1) BY <1>3, <2>2
      <3> QED BY <1>0, <1>2, <1>4, <3>1, Shorten
    <2> HIDE DEF t
    <2>3. k = Len(s) \/ k < Len(s) BY <1>3, LastIndex
    <2> QED BY <2>1, <2>2, <2>3
  <1> HIDE DEF t
  <1>8. \A i \in 1..k : s[i] \in Steps /\ (k < Len(s) => s[i] < s[Len(s)])
    BY <1>2, <1>3, <1>4
  <1>9. doomed' \subseteq Steps /\ (k < Len(s) => tracker \notin doomed')
    BY <1>4, <1>5, <1>8 DEF Steps
  <1>10. TypeOK'
    BY <1>1, <1>5, <1>6, <1>7, <1>9 DEF TypeOK, ManagerTypeOK, Stages
  <1>11. StepInv' BY <1>6 DEF StepInv
  <1>12. StageInv'
    BY <1>1, <1>5, <1>6 DEF StageInv, TypeOK, ManagerTypeOK
  <1>13. RotationInv'
    BY <1>1, <1>5, <1>6 DEF RotationInv, TypeOK, ManagerTypeOK
  <1>14. SavedInv'
    <2> SUFFICES ASSUME NEW i \in 1..Len(Order)
                 PROVE  /\ \A a, b \in 1..Len(saved'[Order[i]]) :
                              a < b => saved'[Order[i]][a] < saved'[Order[i]][b]
                        /\ Len(saved'[Order[i]]) > 0 =>
                              saved'[Order[i]][Len(saved'[Order[i]])]
                                = IF Recorded(i) THEN step ELSE tracker
      BY <1>6 DEF SavedInv, Recorded
    <2>1. CASE i = model
      <3>1. saved'[Order[i]] = t
        BY <2>1, <1>1, <1>5 DEF TypeOK, ManagerTypeOK
      <3>2. ~Recorded(i) BY <2>1, <1>1 DEF Recorded, AfterModels
      <3> QED BY <3>1, <3>2, <1>4, <1>7
    <2>2. CASE i # model
      <3>1. Order[i] # m /\ Order[i] \in Models BY <2>2, <1>1, OrderIsInjective
      <3>2. saved'[Order[i]] = saved[Order[i]] BY <3>1, <1>5 DEF TypeOK, ManagerTypeOK
      <3> QED BY <3>2 DEF SavedInv, Running
    <2> QED BY <2>1, <2>2
  <1>15. WholeInv' /\ FailsOnlyForTracker' /\ (NamedIsWhole => NamedIsWhole')
    BY <1>5, <1>6 DEF WholeInv, NamedIsWhole, FailsOnlyForTracker, Whole, Recorded
  <1>16. Keep[m] # 1 => DoomedInv'
    BY <1>3, <1>6, <1>9 DEF DoomedInv
  <1> QED BY <1>1, <1>10, <1>11, <1>12, <1>13, <1>14, <1>15, <1>16 DEF IInv

\* Rank 0 removes a file: of a step that is neither tracked nor being saved.
LEMMA RemoveFileKeeps ==
    ASSUME BaseInv, NEW q \in Steps, NEW r \in Ranks,
           phase = "saving", RemoveFile(Order[model], q, r), UNCHANGED driverVars
    PROVE  BaseInv' /\ (IInv => IInv')
  <1> DEFINE m == Order[model]
  <1> USE DEF BaseInv
  <1>1. model \in 1..Len(Order) /\ m \in Models /\ 0 \in Ranks
    BY TrainerAssumption, ManagerAssumption DEF TypeOK, Ranks
  <1>2. UNCHANGED <<phase, model, step, run, data, tracker>> BY DEF driverVars
  <1>3. /\ UNCHANGED <<saved, doomed, stage>>
        /\ shard' = [shard EXCEPT ![m][q][r] = "absent"]
        /\ q \in doomed /\ stage[0] = "removing"
    BY DEF RemoveFile
  <1>4. DoomedInv => q # tracker BY <1>3 DEF DoomedInv, Running
  <1>5. TypeOK'
    BY <1>1, <1>2, <1>3 DEF TypeOK, ManagerTypeOK, FileStates
  <1>6. /\ StepInv' /\ RotationInv' /\ SavedInv' /\ FailsOnlyForTracker'
        /\ DoomedInv => DoomedInv'
    BY <1>2, <1>3
    DEF StepInv, RotationInv, DoomedInv, SavedInv, Recorded, FailsOnlyForTracker
  <1>7. StageInv'
    <2>1. \A p \in Ranks : stage[p] \in {"called", "removing", "arrived"}
      BY <1>1, <1>3 DEF StageInv
    <2> QED BY <2>1, <1>2, <1>3 DEF StageInv
  <1>8. WholeInv'
    <2> SUFFICES ASSUME NEW i \in 1..Len(Order), Recorded(i)
                 PROVE  shard'[Order[i]] = shard[Order[i]]
      BY <1>2 DEF WholeInv, Recorded, Whole, Running
    <2>1. i # model BY <1>1 DEF Recorded, AfterModels
    <2>2. Order[i] # m /\ Order[i] \in Models BY <2>1, <1>1, OrderIsInjective
    <2> QED BY <2>2, <1>3 DEF TypeOK, ManagerTypeOK
  <1>9. DoomedInv /\ NamedIsWhole => NamedIsWhole'
    BY <1>1, <1>2, <1>3, <1>4, OtherStepChanges DEF FileStates
  <1> QED BY <1>5, <1>6, <1>7, <1>8, <1>9 DEF IInv

\* The steps of save_checkpoint around the first barrier.
LEMMA BarrierKeeps ==
    ASSUME BaseInv, phase = "saving", UNCHANGED driverVars,
           \/ EndRotation(Order[model]) \/ PassBarrier
           \/ \E r \in Ranks : Arrive(Order[model], r)
    PROVE  BaseInv' /\ (IInv => IInv')
  <1> USE DEF BaseInv
  <1>1. 0 \in Ranks BY ManagerAssumption DEF Ranks
  <1>2. UNCHANGED <<phase, model, step, run, data, tracker>> BY DEF driverVars
  <1>3. UNCHANGED <<shard, saved>> /\ doomed' \in {{}, doomed}
    BY DEF EndRotation, PassBarrier, Arrive
  <1>4. /\ stage' \in [Ranks -> Stages]
        /\ \/ \A r \in Ranks : stage'[r] \in {"called", "removing", "arrived"}
           \/ \A r \in Ranks : stage'[r] \in {"saving", "writing", "saved"}
        /\ \A r \in Ranks : stage'[r] # "saved"
        /\ doomed' # {} => doomed' = doomed /\ stage'[0] = "removing"
    <2>1. CASE EndRotation(Order[model])
      BY <2>1, <1>1 DEF EndRotation, Move, StageInv, TypeOK, ManagerTypeOK, Stages
    <2>2. CASE PassBarrier
      <3>1. doomed = {} BY <2>2, <1>1 DEF PassBarrier, AllAt, RotationInv, Running
      <3> QED BY <2>2, <3>1, <1>1 DEF PassBarrier, AllAt, MoveAll, Stages
    <2>3. CASE \E r \in Ranks : Arrive(Order[model], r)
      <3> PICK r \in Ranks : Arrive(Order[model], r) BY <2>3
      <3>1. stage[r] = "called" /\ stage' = [stage EXCEPT ![r] = "arrived"] /\ doomed' = doomed
        BY DEF Arrive, Move
      <3>2. doomed # {} => r # 0 /\ stage[0] = "removing"
        BY <3>1 DEF RotationInv, Running
      <3> QED BY <3>1, <3>2, <1>1 DEF StageInv, TypeOK, ManagerTypeOK, Stages
    <2> QED BY <2>1, <2>2, <2>3
  <1>5. TypeOK' BY <1>2, <1>3, <1>4 DEF TypeOK, ManagerTypeOK
  <1>6. /\ StepInv' /\ SavedInv' /\ WholeInv' /\ FailsOnlyForTracker'
        /\ NamedIsWhole => NamedIsWhole'
    BY <1>2, <1>3
    DEF StepInv, SavedInv, WholeInv, NamedIsWhole, FailsOnlyForTracker, Recorded, Whole
  <1>7. StageInv' BY <1>4 DEF StageInv
  <1>8. RotationInv' /\ (DoomedInv => DoomedInv')
    BY <1>2, <1>4 DEF RotationInv, DoomedInv, Running
  <1> QED BY <1>5, <1>6, <1>7, <1>8 DEF IInv

\* A rank writes its shard of the step being saved, which nothing names yet.
LEMMA ShardKeeps ==
    ASSUME BaseInv, NEW r \in Ranks, phase = "saving", UNCHANGED driverVars,
           BeginShard(Order[model], step, r) \/ EndShard(Order[model], step, r)
    PROVE  BaseInv' /\ (IInv => IInv')
  <1> DEFINE m == Order[model]
  <1> USE DEF BaseInv
  <1>1. model \in 1..Len(Order) /\ m \in Models /\ 0 \in Ranks
    BY TrainerAssumption, ManagerAssumption DEF TypeOK, Ranks
  <1>2. UNCHANGED <<phase, model, step, run, data, tracker>> BY DEF driverVars
  <1>3. step \in Steps /\ step # tracker BY StepIsNew DEF Running
  <1>4. PICK f \in {"torn", "whole"} :
           /\ shard' = [shard EXCEPT ![m][step][r] = f]
           /\ \/ stage[r] = "saving" /\ stage' = [stage EXCEPT ![r] = "writing"]
              \/ f = "whole" /\ stage[r] = "writing" /\ stage' = [stage EXCEPT ![r] = "saved"]
    BY DEF BeginShard, EndShard, Move
  <1>5. UNCHANGED <<saved, doomed>> BY DEF BeginShard, EndShard
  <1>6. TypeOK'
    BY <1>1, <1>2, <1>3, <1>4, <1>5 DEF TypeOK, ManagerTypeOK, FileStates, Stages
  <1>7. StepInv' /\ SavedInv' /\ FailsOnlyForTracker'
    BY <1>2, <1>5 DEF StepInv, SavedInv, Recorded, FailsOnlyForTracker
  <1>8. \A p \in Ranks : stage[p] \in {"saving", "writing", "saved"}
    BY <1>4 DEF StageInv
  <1>9. StageInv'
    <2>1. \A p \in Ranks : stage'[p] \in {"saving", "writing", "saved"}
      BY <1>4, <1>8 DEF TypeOK, ManagerTypeOK
    <2>2. ASSUME NEW p \in Ranks, stage'[p] = "saved"
          PROVE  shard'[m][step][p] = "whole"
      BY <2>2, <1>1, <1>3, <1>4 DEF StageInv, TypeOK, ManagerTypeOK
    <2> QED BY <2>1, <2>2, <1>2 DEF StageInv
  <1>10. RotationInv' /\ (DoomedInv => DoomedInv')
    BY <1>1, <1>2, <1>5, <1>8 DEF RotationInv, DoomedInv, Running
  <1>11. WholeInv'
    <2> SUFFICES ASSUME NEW i \in 1..Len(Order), Recorded(i)
                 PROVE  shard'[Order[i]] = shard[Order[i]]
      BY <1>2 DEF WholeInv, Recorded, Whole, Running
    <2>1. i # model BY <1>1 DEF Recorded, AfterModels
    <2>2. Order[i] # m /\ Order[i] \in Models BY <2>1, <1>1, OrderIsInjective
    <2> QED BY <2>2, <1>4 DEF TypeOK, ManagerTypeOK
  <1>12. NamedIsWhole => NamedIsWhole'
    BY <1>1, <1>2, <1>3, <1>4, OtherStepChanges DEF FileStates
  <1> QED BY <1>6, <1>7, <1>9, <1>10, <1>11, <1>12 DEF IInv

\* Every rank has written; the path is recorded, and the next model is saved,
\* or the driver goes on.
LEMMA ModelSavedKeeps ==
    ASSUME BaseInv, ModelSaved
    PROVE  BaseInv' /\ (IInv => IInv')
  <1> DEFINE m == Order[model]
  <1> USE DEF BaseInv
  <1>1. /\ model \in 1..Len(Order) /\ m \in Models /\ 0 \in Ranks /\ Len(Order) \in Nat
        /\ phase = "saving"
    <2>1. phase = "saving" BY DEF ModelSaved
    <2>2. model \in 1..Len(Order) /\ m \in Models /\ 0 \in Ranks
      BY TrainerAssumption, ManagerAssumption DEF TypeOK, Ranks
    <2>3. Len(Order) \in Nat BY TrainerAssumption
    <2> QED BY <2>1, <2>2, <2>3
  <1>2. UNCHANGED <<shard, doomed, step, run, data, tracker>> BY DEF ModelSaved
  <1>3. saved' = [saved EXCEPT ![m] = Append(saved[m], step)]
    BY Zenon DEF ModelSaved, RecordSave
  <1>4. \/ /\ phase' = phase /\ model' = model + 1 /\ model < Len(Order)
           /\ stage' = [r \in Ranks |-> "called"]
        \/ /\ phase' = "data" /\ model' = model /\ model = Len(Order)
           /\ stage' = [r \in Ranks |-> "idle"]
    <2>1. CASE model < Len(Order)
      BY <2>1, Zenon DEF ModelSaved, MoveAll
    <2>2. CASE ~(model < Len(Order))
      <3>1. phase' = "data" /\ stage' = [r \in Ranks |-> "idle"] /\ model' = model
        BY <2>2, Zenon DEF ModelSaved, MoveAll
      <3>2. model = Len(Order)
        BY <2>2, <1>1, LastIndex
      <3> QED BY <3>1, <3>2, Zenon
    <2> QED BY <2>1, <2>2
  <1>5. step \in Steps /\ step \in Nat /\ tracker < step /\ Steps \subseteq Int
    BY <1>1, StepIsNew DEF Running, StepInv, Steps
  <1>6. /\ Append(saved[m], step) \in Seq(Steps)
        /\ Append(saved[m], step)[Len(Append(saved[m], step))] = step
        /\ \A i, j \in 1..Len(Append(saved[m], step)) :
              i < j => Append(saved[m], step)[i] < Append(saved[m], step)[j]
    <2> DEFINE q == saved[m]
    <2>1. q \in Seq(Steps) BY <1>1 DEF TypeOK, ManagerTypeOK
    <2>2. /\ \A i, j \in 1..Len(q) : i < j => q[i] < q[j]
          /\ Len(q) > 0 => q[Len(q)] = tracker
      BY <1>1 DEF SavedInv, Running, Recorded, AfterModels
    <2> HIDE DEF q
    <2>3. Len(q) > 0 => q[Len(q)] < step BY <2>2, <1>5
    <2>4. /\ Append(q, step) \in Seq(Steps)
          /\ Append(q, step)[Len(Append(q, step))] = step
          /\ \A i, j \in 1..Len(Append(q, step)) :
                i < j => Append(q, step)[i] < Append(q, step)[j]
      BY <2>1, <2>2, <2>3, <1>5, Lengthen
    <2> QED BY <2>4 DEF q
  <1>7. TypeOK'
    <2>1. model' \in 1..Len(Order) BY <1>1, <1>4
    <2>2. stage' \in [Ranks -> Stages] /\ phase' \in Phases
      BY <1>1, <1>4 DEF Stages, Phases
    <2>3. saved' \in [Models -> Seq(Steps)]
      BY <1>3, <1>6 DEF TypeOK, ManagerTypeOK
    <2> QED BY <2>1, <2>2, <2>3, <1>2 DEF TypeOK, ManagerTypeOK
  <1>8. StepInv' BY <1>1, <1>2, <1>4 DEF StepInv, Running
  <1>9. StageInv' BY <1>4 DEF StageInv
  <1>10. doomed = {} BY <1>1 DEF RotationInv, Running, ModelSaved, Written, AllAt
  <1>11. RotationInv' /\ DoomedInv' BY <1>2, <1>10 DEF RotationInv, DoomedInv
  <1>12. \A i \in 1..Len(Order) : Recorded(i)' <=> Recorded(i) \/ i = model
    <2> SUFFICES ASSUME NEW i \in 1..Len(Order)
                 PROVE  Recorded(i)' <=> Recorded(i) \/ i = model
      OBVIOUS
    <2>1. phase = "saving" /\ (i < model + 1 <=> i < model \/ i = model)
      BY <1>1, NextIndex
    <2>3. model = Len(Order) => i < model \/ i = model
      BY <1>1, LastIndex
    <2>2. \/ phase' = phase /\ model' = model + 1
          \/ phase' = "data" /\ model = Len(Order)
      BY <1>4
    <2>4. CASE phase' = phase /\ model' = model + 1
      BY <2>1, <2>4 DEF Recorded, AfterModels
    <2>5. CASE phase' = "data" /\ model = Len(Order)
      BY <2>1, <2>3, <2>5 DEF Recorded, AfterModels
    <2> QED BY <2>2, <2>4, <2>5
  <1>13. SavedInv'
    <2> SUFFICES ASSUME NEW i \in 1..Len(Order)
                 PROVE  /\ \A a, b \in 1..Len(saved'[Order[i]]) :
                              a < b => saved'[Order[i]][a] < saved'[Order[i]][b]
                        /\ Len(saved'[Order[i]]) > 0 =>
                              saved'[Order[i]][Len(saved'[Order[i]])]
                                = IF Recorded(i)' THEN step ELSE tracker
      BY <1>2 DEF SavedInv
    <2>1. CASE i = model
      <3>1. saved'[Order[i]] = Append(saved[m], step)
        BY <2>1, <1>1, <1>3 DEF TypeOK, ManagerTypeOK
      <3> QED BY <3>1, <2>1, <1>6, <1>12
    <2>2. CASE i # model
      <3>1. Order[i] # m /\ Order[i] \in Models BY <2>2, <1>1, OrderIsInjective
      <3>2. saved'[Order[i]] = saved[Order[i]] BY <3>1, <1>3 DEF TypeOK, ManagerTypeOK
      <3> QED BY <3>2, <2>2, <1>1, <1>12 DEF SavedInv, Running
    <2> QED BY <2>1, <2>2
  <1>14. Whole(m, step)
    BY <1>1 DEF StageInv, ModelSaved, Written, AllAt, Whole
  <1>15. WholeInv'
    BY <1>1, <1>2, <1>4, <1>12, <1>14 DEF WholeInv, Whole, Running
  <1>16. (NamedIsWhole => NamedIsWhole') /\ FailsOnlyForTracker'
    BY <1>1, <1>2, <1>4 DEF NamedIsWhole, Whole, FailsOnlyForTracker
  <1> QED BY <1>7, <1>8, <1>9, <1>11, <1>13, <1>15, <1>16 DEF IInv

\* The dataloader's state is written to a step nothing names yet.
LEMMA DataKeeps ==
    ASSUME BaseInv, BeginData \/ EndData
    PROVE  BaseInv' /\ (IInv => IInv')
  <1> USE DEF BaseInv
  <1>1. /\ phase \in {"data", "writingData"} /\ phase' \in {"writingData", "tracking"}
        /\ UNCHANGED <<managerVars, model, step, run, tracker>>
    BY DEF BeginData, EndData
  <1>2. step \in Steps /\ step # tracker BY <1>1, StepIsNew DEF Running
  <1>3. PICK f \in {"torn", "whole"} :
           data' = [data EXCEPT ![step] = f] /\ (phase' = "tracking" => f = "whole")
    BY DEF BeginData, EndData
  <1>4. UNCHANGED <<shard, saved, doomed, stage>> BY <1>1 DEF managerVars
  <1>5. TypeOK'
    BY <1>1, <1>2, <1>3, <1>4 DEF TypeOK, ManagerTypeOK, Phases, FileStates
  <1>6. StepInv' /\ StageInv' /\ FailsOnlyForTracker'
    BY <1>1, <1>4 DEF StepInv, StageInv, FailsOnlyForTracker, Running
  <1>7. RotationInv' /\ (DoomedInv => DoomedInv')
    BY <1>1, <1>4 DEF RotationInv, DoomedInv, Running
  <1>8. \A i \in 1..Len(Order) : Recorded(i) /\ Recorded(i)'
    BY <1>1 DEF Recorded, AfterModels
  <1>9. SavedInv' BY <1>1, <1>4, <1>8 DEF SavedInv, Running
  <1>10. WholeInv'
    BY <1>1, <1>2, <1>3, <1>4, <1>8 DEF WholeInv, Whole, Running, TypeOK
  <1>11. NamedIsWhole => NamedIsWhole'
    BY <1>1, <1>2, <1>3, <1>4 DEF NamedIsWhole, Whole, TypeOK
  <1> QED BY <1>5, <1>6, <1>7, <1>9, <1>10, <1>11 DEF IInv

\* The tracker is emptied: it names nothing.
LEMMA BeginTrackerKeeps ==
    ASSUME BaseInv, BeginTracker
    PROVE  BaseInv' /\ (IInv => IInv')
  <1> USE DEF BaseInv, BeginTracker
  <1>1. UNCHANGED <<shard, saved, doomed, stage>> BY DEF managerVars
  <1>2. tracker' = -1 /\ Torn = -1 BY DEF Torn
  <1>3. tracker' \notin Steps BY <1>2 DEF Steps
  <1>4. doomed = {} BY DEF RotationInv, Running
  <1>5. TypeOK' BY <1>1 DEF TypeOK, ManagerTypeOK, Phases
  <1>6. StepInv' BY <1>2, TrainerAssumption, StepIsNew DEF StepInv, Running, TypeOK
  <1>7. StageInv' /\ RotationInv' /\ DoomedInv'
    BY <1>1, <1>4 DEF StageInv, RotationInv, DoomedInv, Running
  <1>8. \A i \in 1..Len(Order) : Recorded(i) /\ Recorded(i)'
    BY DEF Recorded, AfterModels
  <1>9. SavedInv' BY <1>1, <1>8 DEF SavedInv, Running
  <1>10. WholeInv' BY <1>1, <1>8 DEF WholeInv, Whole, Running
  <1>11. NamedIsWhole' BY <1>3 DEF NamedIsWhole
  <1>12. FailsOnlyForTracker' BY DEF FailsOnlyForTracker
  <1> QED BY <1>5, <1>6, <1>7, <1>9, <1>10, <1>11, <1>12 DEF IInv

\* The tracker is filled: it names what has just been saved.
LEMMA EndTrackerKeeps ==
    ASSUME BaseInv, EndTracker
    PROVE  BaseInv' /\ (IInv => IInv')
  <1> USE DEF BaseInv
  <1>1. /\ phase = "writingTracker" /\ phase' \in {"training", "finished"}
        /\ tracker' = step /\ step' = step + 1
        /\ UNCHANGED <<model, run, data, shard, saved, doomed, stage>>
    BY DEF EndTracker, Advance, managerVars
  <1>2. phase' = "training" => step < TotalSteps
    <2>1. step \in Nat /\ TotalSteps \in Nat
      BY <1>1, StepIsNew, TrainerAssumption DEF Running
    <2> QED BY <2>1, <1>1 DEF EndTracker, Advance
  <1>3. /\ step \in Steps /\ step \in Nat /\ step >= 1 /\ step < TotalSteps + run
        /\ run \in Nat /\ run >= 1 /\ TotalSteps \in Nat
    BY <1>1, StepIsNew, TrainerAssumption DEF Running, StepInv, TypeOK
  <1>4. doomed = {} BY <1>1 DEF RotationInv, Running
  <1>5. TypeOK' BY <1>1, <1>3 DEF TypeOK, ManagerTypeOK, Phases
  <1>6. StepInv' BY <1>1, <1>2, <1>3 DEF StepInv, Running
  <1>7. StageInv' /\ RotationInv' /\ DoomedInv'
    BY <1>1, <1>4 DEF StageInv, RotationInv, DoomedInv, Running
  <1>8. \A i \in 1..Len(Order) : Recorded(i) /\ ~Recorded(i)'
    BY <1>1 DEF Recorded, AfterModels
  <1>9. SavedInv' BY <1>1, <1>8 DEF SavedInv, Running
  <1>10. WholeInv' BY <1>1, <1>8 DEF WholeInv
  <1>11. NamedIsWhole'
    <2>1. data[step] = "whole" BY <1>1 DEF WholeInv
    <2>2. ASSUME NEW m \in Models PROVE Whole(m, step)
      <3>1. PICK i \in 1..Len(Order) : Order[i] = m BY TrainerAssumption
      <3> QED BY <3>1, <1>1, <1>8 DEF WholeInv, Running
    <2> QED BY <2>1, <2>2, <1>1 DEF NamedIsWhole, Whole
  <1>12. FailsOnlyForTracker' BY <1>1 DEF FailsOnlyForTracker
  <1> QED BY <1>5, <1>6, <1>7, <1>9, <1>10, <1>11, <1>12 DEF IInv

\* The job dies: what is on disk stays.
LEMMA CrashKeeps ==
    ASSUME BaseInv, Crash
    PROVE  BaseInv' /\ (IInv => IInv')
  <1> USE DEF BaseInv, Crash
  <1>1. UNCHANGED <<shard, saved, doomed, stage, data, tracker, step, run, model>>
    BY DEF managerVars
  <1>2. TypeOK' BY <1>1 DEF TypeOK, ManagerTypeOK, Phases
  <1>3. StepInv' /\ StageInv' /\ RotationInv' /\ DoomedInv' /\ SavedInv' /\ WholeInv'
    BY <1>1 DEF StepInv, StageInv, RotationInv, DoomedInv, SavedInv, WholeInv, Running
  <1>4. (NamedIsWhole => NamedIsWhole') /\ FailsOnlyForTracker'
    BY <1>1 DEF NamedIsWhole, Whole, FailsOnlyForTracker
  <1> QED BY <1>2, <1>3, <1>4 DEF IInv

\* The job is started again: what the tracker names can be loaded.
LEMMA RestartKeeps ==
    ASSUME BaseInv, Restart
    PROVE  BaseInv' /\ (IInv => IInv')
  <1> USE DEF BaseInv
  <1>1. /\ UNCHANGED <<shard, data, tracker>> /\ model' = 1
        /\ saved' = [m \in Models |-> <<>>] /\ doomed' = {}
        /\ stage' = [r \in Ranks |-> "idle"]
        /\ run' = run + 1 /\ run < MaxRuns
    BY DEF Restart, FreshManagers
  <1>2. NamedIsWhole /\ tracker \in Steps => Loadable(tracker)
    BY DEF NamedIsWhole, Loadable
  <1>3. \/ tracker = NoFile /\ phase' = "training" /\ step' = 1
        \/ tracker \in Steps /\ phase' = "training" /\ step' = tracker + 1
        \/ /\ phase' = "failed" /\ step' = step
           /\ tracker = Torn \/ (tracker \in Steps /\ ~Loadable(tracker))
    BY DEF Restart, ResumeAt
  <1>4. /\ run \in Nat /\ run >= 1 /\ MaxRuns \in Nat /\ TotalSteps \in Nat \ {0} /\ step \in Nat
        /\ step >= 1 /\ step <= TotalSteps + run /\ tracker < TotalSteps + run
        /\ tracker \in Int /\ 1 \in 1..Len(Order)
    BY TrainerAssumption DEF TypeOK, StepInv, Steps, NoFile, Torn
  <1>5. tracker \in Steps => tracker \in Nat /\ tracker >= 1 BY DEF Steps
  <1>6. step' \in 1..(TotalSteps + run') /\ run' \in 1..MaxRuns
    BY <1>1, <1>3, <1>4, <1>5
  <1>7. TypeOK'
    <2>1. phase' \in Phases BY <1>3 DEF Phases
    <2>2. ManagerTypeOK' BY <1>1 DEF TypeOK, ManagerTypeOK, Stages
    <2> QED BY <2>1, <2>2, <1>1, <1>4, <1>6 DEF TypeOK
  <1>8. StepInv'
    BY <1>1, <1>3, <1>4 DEF StepInv, Running, NoFile
  <1>9. StageInv' /\ RotationInv' /\ DoomedInv'
    BY <1>1, <1>3 DEF StageInv, RotationInv, DoomedInv
  <1>10. SavedInv'
    <2>1. \A i \in 1..Len(Order) : saved'[Order[i]] = <<>> BY <1>1, TrainerAssumption
    <2> QED BY <2>1 DEF SavedInv
  <1>11. WholeInv' BY <1>3 DEF WholeInv, Recorded, AfterModels, Running
  <1>12. NamedIsWhole => NamedIsWhole' /\ FailsOnlyForTracker'
    BY <1>1, <1>2, <1>3 DEF NamedIsWhole, Whole, FailsOnlyForTracker
  <1> QED BY <1>7, <1>8, <1>9, <1>10, <1>11, <1>12 DEF IInv
-----------------------------------------------------------------------------
(* A step of a rank inside save_checkpoint. *)
LEMMA WorkersSaveKeeps ==
    ASSUME BaseInv, WorkersSave
    PROVE  BaseInv' /\ ((\A m \in Models : Keep[m] # 1) /\ IInv => IInv')
  <1>1. phase = "saving" /\ UNCHANGED driverVars /\ SaveStep(Order[model], step)
    BY DEF WorkersSave
  <1> QED BY <1>1, BeginRotationKeeps, RemoveFileKeeps, BarrierKeeps, ShardKeeps
          DEF SaveStep, RankStep

(* Every step of the driver, of a rank and of the environment keeps the    *)
(* invariant.                                                              *)
LEMMA NextKeeps ==
    ASSUME BaseInv, [Next]_vars
    PROVE  BaseInv' /\ ((\A m \in Models : Keep[m] # 1) /\ IInv => IInv')
  <1>1. CASE UNCHANGED vars
    <2>1. BaseInv'
      BY <1>1 DEF vars, managerVars, driverVars, BaseInv, TypeOK, ManagerTypeOK, StepInv,
                  StageInv, RotationInv, SavedInv, WholeInv, Recorded, Whole
    <2>2. IInv => IInv'
      BY <1>1, <2>1 DEF vars, managerVars, driverVars, IInv, DoomedInv, NamedIsWhole,
                        FailsOnlyForTracker, Whole
    <2> QED BY <2>1, <2>2
  <1> QED BY <1>1, WorkersSaveKeeps, TrainKeeps, TrainAndSaveKeeps, ModelSavedKeeps, DataKeeps,
             BeginTrackerKeeps, EndTrackerKeeps, CrashKeeps, RestartKeeps
          DEF Next

(* The checkpoint invariant, when no model keeps exactly one.              *)
THEOREM CheckpointInvariant ==
    ASSUME \A m \in Models : Keep[m] # 1
    PROVE  Spec => []IInv
  <1>1. IInv /\ [Next]_vars => IInv'
    BY NextKeeps DEF IInv
  <1> QED BY <1>1, InitInvariant, PTL DEF Spec

(* Whatever the crashes, what the tracker names is complete on disk.       *)
THEOREM TrackerNamesWhole ==
    ASSUME \A m \in Models : Keep[m] # 1
    PROVE  Spec => []NamedIsWhole
  <1>1. IInv => NamedIsWhole BY DEF IInv
  <1> QED BY <1>1, CheckpointInvariant, PTL

(* A job that cannot resume was stopped while it rewrote the tracker.      *)
THEOREM ResumesUnlessTrackerTorn ==
    ASSUME \A m \in Models : Keep[m] # 1
    PROVE  Spec => []FailsOnlyForTracker
  <1>1. IInv => FailsOnlyForTracker BY DEF IInv
  <1> QED BY <1>1, CheckpointInvariant, PTL

-----------------------------------------------------------------------------
(* How many checkpoints the disk holds.                                    *)

(* Rank 0 is past the first barrier. *)
PastBarrier == phase = "saving" /\ stage[0] \in {"saving", "writing", "saved"}

(* The checkpoints of model m that the running job answers for: those it   *)
(* has saved, and of the model being saved those it removes and the one it *)
(* writes.                                                                 *)
Kept(m) == {saved[m][i] : i \in 1..Len(saved[m])}
Held(m) == Kept(m) \cup IF m = Order[model]
                        THEN doomed \cup (IF PastBarrier THEN {step} ELSE {})
                        ELSE {}

(* Every job has left at most as many checkpoints as it was told to keep,  *)
(* and room is made before the next one is written.                        *)
DiskOf(m) ==
    IF phase \in Running
    THEN /\ Cardinality(OnDisk(m) \ Held(m)) <= (run - 1) * Keep[m]
         /\ Cardinality(Held(m)) <= Keep[m]
         /\ Len(saved[m]) <= Keep[m]
         /\ phase = "saving" /\ m = Order[model] /\ stage[0] # "called" =>
               Len(saved[m]) < Keep[m]
    ELSE Cardinality(OnDisk(m)) <= run * Keep[m]

DiskInv == \A m \in Models : Keep[m] > 0 => DiskOf(m)

\* One factor more.
LEMMA Times == \A a, b \in Nat : (a + 1) * b = a * b + b /\ a * b \in Nat
OBVIOUS

\* A sequence has no more elements than its length.
LEMMA KeptBound ==
    ASSUME TypeOK, NEW m \in Models
    PROVE  IsFiniteSet(Kept(m)) /\ Cardinality(Kept(m)) <= Len(saved[m]) /\ Kept(m) \subseteq Steps
  <1> DEFINE s == saved[m]
             I == 1..Len(s)
             f == [i \in I |-> s[i]]
             T == {s[i] : i \in I}
  <1>1. s \in Seq(Steps) /\ Len(s) \in Nat
    BY DEF TypeOK, ManagerTypeOK
  <1>2. IsFiniteSet(I) /\ Cardinality(I) = Len(s)
    BY <1>1, FS_Interval
  <1>3. T \subseteq Steps
    BY <1>1
  <1>4. f \in Surjection(I, T)
    BY DEF Surjection
  <1> HIDE DEF I, f, T
  <1>5. IsFiniteSet(T) /\ Cardinality(T) <= Cardinality(I)
    BY <1>2, <1>4, FS_Surjection
  <1> QED BY <1>2, <1>3, <1>5 DEF Kept, I, T

\* The sets counted are finite.
LEMMA DiskIsFinite ==
    ASSUME NEW m, NEW S
    PROVE  /\ IsFiniteSet(OnDisk(m)) /\ IsFiniteSet(OnDisk(m) \ S)
           /\ Cardinality(OnDisk(m)) \in Nat /\ Cardinality(OnDisk(m) \ S) \in Nat
  <1>1. IsFiniteSet(Steps)
    BY ManagerAssumption, FS_Interval DEF Steps
  <1>2. OnDisk(m) \subseteq Steps
    BY DEF OnDisk
  <1> QED BY <1>1, <1>2, FS_Subset, FS_CardinalityType

\* So are the checkpoints a running job answers for.
LEMMA HeldIsFinite ==
    ASSUME BaseInv, phase \in Running, NEW m \in Models
    PROVE  IsFiniteSet(Held(m)) /\ Cardinality(Held(m)) \in Nat /\ Held(m) \subseteq Steps
  <1>1. IsFiniteSet(Steps)
    BY ManagerAssumption, FS_Interval DEF Steps
  <1>2. step \in Steps /\ doomed \subseteq Steps
    BY StepIsNew DEF BaseInv, TypeOK, ManagerTypeOK
  <1>3. Held(m) \subseteq Steps
    BY <1>2, KeptBound DEF Held, BaseInv
  <1> QED BY <1>1, <1>3, FS_Subset, FS_CardinalityType

\* A running job that removes and writes nothing answers for what it saved.
LEMMA HeldAtRest ==
    ASSUME NEW m, doomed = {}, ~PastBarrier
    PROVE  Held(m) = Kept(m)
  BY DEF Held

\* When a job ends, what it answers for adds to what the earlier ones left.
LEMMA DiskAtEnd ==
    ASSUME BaseInv, phase \in Running, NEW m \in Models, Keep[m] > 0, DiskOf(m)
    PROVE  Cardinality(OnDisk(m)) <= run * Keep[m]
  <1> DEFINE D == OnDisk(m)
             H == Held(m)
  <1>1. Cardinality(D \ H) <= (run - 1) * Keep[m] /\ Cardinality(H) <= Keep[m]
    BY DEF DiskOf
  <1>2. /\ IsFiniteSet(D) /\ IsFiniteSet(D \ H) /\ IsFiniteSet(H)
        /\ Cardinality(D) \in Nat /\ Cardinality(D \ H) \in Nat /\ Cardinality(H) \in Nat
    BY DiskIsFinite, HeldIsFinite
  <1> HIDE DEF D, H
  <1>3. Cardinality((D \ H) \cup H) <= Cardinality(D \ H) + Cardinality(H)
    <2>1. /\ IsFiniteSet((D \ H) \cup H)
          /\ Cardinality((D \ H) \cup H)
               = Cardinality(D \ H) + Cardinality(H) - Cardinality((D \ H) \cap H)
      BY <1>2, FS_Union
    <2>2. Cardinality((D \ H) \cap H) \in Nat
      <3>1. (D \ H) \cap H \subseteq H
        OBVIOUS
      <3> QED BY <1>2, <3>1, FS_Subset, FS_CardinalityType
    <2> QED BY <1>2, <2>1, <2>2
  <1>4. Cardinality(D) <= Cardinality((D \ H) \cup H)
    <2>1. D \subseteq (D \ H) \cup H
      OBVIOUS
    <2>2. IsFiniteSet((D \ H) \cup H)
      BY <1>2, FS_Union
    <2> QED BY <2>1, <2>2, FS_Subset
  <1>5. run - 1 \in Nat /\ Keep[m] \in Nat /\ run = (run - 1) + 1
    BY ManagerAssumption, TrainerAssumption DEF BaseInv, TypeOK
  <1>6. run * Keep[m] = (run - 1) * Keep[m] + Keep[m] /\ (run - 1) * Keep[m] \in Nat
    <2> DEFINE a == run - 1
    <2>1. a \in Nat /\ run = a + 1
      BY <1>5
    <2> HIDE DEF a
    <2>2. (a + 1) * Keep[m] = a * Keep[m] + Keep[m] /\ a * Keep[m] \in Nat
      BY <1>5, <2>1, Times
    <2> QED BY <2>1, <2>2 DEF a
  <1>7. Cardinality((D \ H) \cup H) \in Nat
    BY <1>2, FS_Union, FS_CardinalityType
  <1> HIDE DEF D, H
  <1> QED BY <1>1, <1>2, <1>3, <1>4, <1>5, <1>6, <1>7 DEF D

\* A step within a job keeps the bound when what earlier jobs left does not grow.
LEMMA DiskWithin ==
    ASSUME BaseInv, NEW m \in Models, DiskOf(m), phase \in Running, phase' \in Running,
           run' = run, OnDisk(m)' \ Held(m)' \subseteq OnDisk(m) \ Held(m),
           Held(m)' \subseteq Held(m), Len(saved'[m]) <= Keep[m],
           phase' = "saving" /\ m = Order[model'] /\ stage'[0] # "called" =>
               Len(saved'[m]) < Keep[m]
    PROVE  DiskOf(m)'
  <1>1. /\ Cardinality(OnDisk(m) \ Held(m)) <= (run - 1) * Keep[m]
        /\ Cardinality(Held(m)) <= Keep[m]
    BY DEF DiskOf
  <1>2. /\ IsFiniteSet(OnDisk(m) \ Held(m)) /\ IsFiniteSet(Held(m))
        /\ Cardinality(OnDisk(m) \ Held(m)) \in Nat /\ Cardinality(Held(m)) \in Nat
    BY DiskIsFinite, HeldIsFinite
  <1>3. /\ Cardinality(OnDisk(m)' \ Held(m)') <= Cardinality(OnDisk(m) \ Held(m))
        /\ Cardinality(OnDisk(m)' \ Held(m)') \in Nat
    BY <1>2, FS_Subset, FS_CardinalityType
  <1>4. Cardinality(Held(m)') <= Cardinality(Held(m)) /\ Cardinality(Held(m)') \in Nat
    BY <1>2, FS_Subset, FS_CardinalityType
  <1>5. (run - 1) * Keep[m] \in Int /\ Keep[m] \in Nat
    <2>1. run - 1 \in Int /\ Keep[m] \in Nat
      BY ManagerAssumption, TrainerAssumption DEF BaseInv, TypeOK
    <2> QED BY <2>1
  <1>6. Cardinality(OnDisk(m)' \ Held(m)') <= (run' - 1) * Keep[m]
    BY <1>1, <1>2, <1>3, <1>5
  <1>7. Cardinality(Held(m)') <= Keep[m]
    BY <1>1, <1>2, <1>4, <1>5
  <1> QED BY <1>6, <1>7 DEF DiskOf

\* A step that writes and records nothing, and is not at a removal or a barrier.
LEMMA QuietDisk ==
    ASSUME BaseInv, DiskInv, phase \in Running, ~PastBarrier, doomed = {},
           UNCHANGED <<shard, saved, doomed, run>>, ~PastBarrier',
           phase' \in Running => phase' # "saving" \/ stage'[0] = "called"
    PROVE  DiskInv'
  <1> SUFFICES ASSUME NEW m \in Models, Keep[m] > 0 PROVE DiskOf(m)'
    BY DEF DiskInv
  <1>1. DiskOf(m)
    BY DEF DiskInv
  <1>2. OnDisk(m)' = OnDisk(m) /\ Held(m)' = Kept(m) /\ Held(m) = Kept(m)
    BY HeldAtRest DEF OnDisk, Held, Kept
  <1>3. CASE phase' \in Running
    <2>1. Len(saved[m]) <= Keep[m]
      BY <1>1 DEF DiskOf
    <2> QED BY <1>1, <1>2, <1>3, <2>1, DiskWithin
  <1>4. CASE phase' \notin Running
    BY <1>1, <1>2, <1>4, DiskAtEnd DEF DiskOf
  <1> QED BY <1>3, <1>4

\* The driver's own steps.
LEMMA DriverDisk ==
    ASSUME BaseInv, DiskInv,
           \/ TrainStep \/ TrainAndSave \/ NoMoreData
           \/ BeginData \/ EndData \/ BeginTracker \/ EndTracker
    PROVE  DiskInv'
  <1>1. phase \in Running /\ phase # "saving" /\ UNCHANGED <<shard, saved, doomed, run>>
    BY DEF TrainStep, TrainAndSave, NoMoreData, BeginData, EndData, BeginTracker, EndTracker,
           managerVars, Running
  <1>2. doomed = {} /\ ~PastBarrier
    BY <1>1 DEF BaseInv, RotationInv, PastBarrier
  <1>3. phase' = "saving" => stage'[0] = "called"
    <2>1. phase' = "saving" => TrainAndSave
      BY DEF TrainStep, NoMoreData, BeginData, EndData, BeginTracker, EndTracker, Advance
    <2>2. 0 \in Ranks
      BY ManagerAssumption DEF Ranks
    <2> QED BY <2>1, <2>2 DEF TrainAndSave, CallSave, MoveAll
  <1> QED BY <1>1, <1>2, <1>3, QuietDisk DEF PastBarrier

\* The job dies.
LEMMA CrashDisk ==
    ASSUME BaseInv, DiskInv, Crash
    PROVE  DiskInv'
  <1> SUFFICES ASSUME NEW m \in Models, Keep[m] > 0 PROVE DiskOf(m)'
    BY DEF DiskInv
  <1>1. phase \in Running /\ phase' = "down" /\ UNCHANGED <<shard, run>>
    BY DEF Crash, managerVars, Running, BaseInv, TypeOK, Phases
  <1>2. Cardinality(OnDisk(m)) <= run * Keep[m]
    BY <1>1, DiskAtEnd DEF DiskInv
  <1> QED BY <1>1, <1>2 DEF DiskOf, OnDisk, Running

\* Another job starts: all that is on disk is left by earlier ones.
LEMMA RestartDisk ==
    ASSUME BaseInv, BaseInv', DiskInv, Restart
    PROVE  DiskInv'
  <1> SUFFICES ASSUME NEW m \in Models, Keep[m] > 0 PROVE DiskOf(m)'
    BY DEF DiskInv
  <1>1. /\ phase \notin Running /\ run' = run + 1 /\ shard' = shard
        /\ saved' = [n \in Models |-> <<>>] /\ doomed' = {}
        /\ phase' \in {"training", "failed"}
    BY DEF Restart, FreshManagers, Running
  <1>2. Cardinality(OnDisk(m)) <= run * Keep[m] /\ OnDisk(m)' = OnDisk(m)
    BY <1>1 DEF DiskInv, DiskOf, OnDisk
  <1>3. CASE phase' = "training"
    <2>1. Held(m)' = {}
      BY <1>1, <1>3 DEF Held, Kept, PastBarrier
    <2>2. OnDisk(m)' \ Held(m)' = OnDisk(m) /\ Cardinality(Held(m)') = 0 /\ Len(saved'[m]) = 0
      BY <1>1, <1>2, <2>1, FS_EmptySet
    <2>3. run' - 1 = run /\ Keep[m] \in Nat
      BY <1>1, TrainerAssumption, ManagerAssumption DEF BaseInv, TypeOK
    <2>4. phase' \in Running /\ phase' # "saving"
      BY <1>3 DEF Running
    <2>5. Cardinality(OnDisk(m)' \ Held(m)') <= (run' - 1) * Keep[m]
      BY <1>2, <2>2, <2>3
    <2>6. Cardinality(Held(m)') <= Keep[m] /\ Len(saved'[m]) <= Keep[m]
      BY <2>2, <2>3
    <2> QED BY <2>4, <2>5, <2>6 DEF DiskOf
  <1>4. CASE phase' = "failed"
    <2>1. run \in Nat /\ Keep[m] \in Nat
      BY TrainerAssumption, ManagerAssumption DEF BaseInv, TypeOK
    <2>2. (run + 1) * Keep[m] = run * Keep[m] + Keep[m] /\ run * Keep[m] \in Nat
      BY <2>1, Times
    <2>3. Cardinality(OnDisk(m)) \in Nat
      BY DiskIsFinite
    <2>4. Cardinality(OnDisk(m)) <= (run + 1) * Keep[m]
      BY <1>2, <2>1, <2>2, <2>3
    <2> QED BY <1>1, <1>2, <1>4, <2>4 DEF DiskOf, Running
  <1> QED BY <1>1, <1>3, <1>4

\* A model's save is recorded: the step that was being written is now a saved one.
LEMMA ModelSavedDisk ==
    ASSUME BaseInv, BaseInv', DiskInv, ModelSaved
    PROVE  DiskInv'
  <1> SUFFICES ASSUME NEW m \in Models, Keep[m] > 0 PROVE DiskOf(m)'
    BY DEF DiskInv
  <1> DEFINE n == Order[model]
  <1>0. 0 \in Ranks /\ model \in 1..Len(Order) /\ n \in Models /\ Len(Order) \in Nat
    <2>1. 0 \in Ranks
      BY ManagerAssumption DEF Ranks
    <2>2. model \in 1..Len(Order) /\ Len(Order) \in Nat
      BY TrainerAssumption DEF BaseInv, TypeOK
    <2> QED BY <2>1, <2>2, TrainerAssumption
  <1>1. /\ phase = "saving" /\ stage[0] = "saved" /\ UNCHANGED <<shard, doomed, step, run>>
        /\ phase' \in {"saving", "data"} /\ (phase' = "saving" => stage'[0] = "called")
        /\ phase' = "saving" => model' = model + 1 /\ model < Len(Order)
    BY <1>0 DEF ModelSaved, Written, AllAt, MoveAll
  <1>2. saved' = [saved EXCEPT ![n] = Append(saved[n], step)]
    BY Zenon DEF ModelSaved, RecordSave
  <1>3. doomed = {} /\ phase \in Running /\ phase' \in Running /\ ~PastBarrier' /\ PastBarrier
    BY <1>1 DEF BaseInv, RotationInv, Running, PastBarrier
  <1>4. DiskOf(m) /\ OnDisk(m)' = OnDisk(m) /\ Held(m)' = Kept(m)'
    BY <1>1, <1>3 DEF DiskInv, OnDisk, Held
  <1>5. saved[m] \in Seq(Steps) /\ Len(saved[m]) \in Nat /\ step \in Steps /\ Keep[m] \in Nat
    BY <1>3, StepIsNew, ManagerAssumption DEF BaseInv, TypeOK, ManagerTypeOK
  <1>6. CASE m = n
    <2> DEFINE s == saved[m]
               t == Append(s, step)
    <2>1. saved'[m] = t
      BY <1>0, <1>2, <1>6 DEF BaseInv, TypeOK, ManagerTypeOK
    <2>2. Len(t) = Len(s) + 1 /\ \A i \in 1..Len(t) : t[i] = IF i <= Len(s) THEN s[i] ELSE step
      BY <1>5
    <2>3. Held(m) = Kept(m) \cup {step}
      BY <1>3, <1>6 DEF Held
    <2>4. Kept(m)' = {t[i] : i \in 1..Len(t)} /\ Kept(m) = {s[i] : i \in 1..Len(s)}
      BY <2>1 DEF Kept
    <2>5. Len(s) \in Nat
      BY <1>5
    <2> HIDE DEF s, t
    <2>6. Kept(m)' = Kept(m) \cup {step}
      <3>1. ASSUME NEW x \in Kept(m)' PROVE x \in Kept(m) \cup {step}
        BY <2>2, <2>4, <2>5, <3>1
      <3>2. ASSUME NEW x \in Kept(m) PROVE x \in Kept(m)'
        <4>1. PICK i \in 1..Len(s) : x = s[i]
          BY <2>4, <3>2
        <4>2. i \in 1..Len(t) /\ t[i] = s[i]
          BY <2>2, <2>5
        <4> QED BY <2>4, <4>1, <4>2
      <3>3. step \in Kept(m)'
        <4>1. Len(t) \in 1..Len(t) /\ t[Len(t)] = step
          BY <2>2, <2>5
        <4> QED BY <2>4, <4>1
      <3> QED BY <3>1, <3>2, <3>3
    <2>7. Len(s) < Keep[m]
      BY <1>1, <1>4, <1>6, <1>3 DEF DiskOf, s
    <2>8. Len(t) <= Keep[m]
      BY <1>5, <2>2, <2>5, <2>7
    <2>9. phase' = "saving" => stage'[0] = "called"
      BY <1>1
    <2> QED BY <1>1, <1>3, <1>4, <2>1, <2>3, <2>6, <2>8, <2>9, DiskWithin
  <1>7. CASE m # n
    <2>1. saved'[m] = saved[m]
      BY <1>2, <1>7 DEF BaseInv, TypeOK, ManagerTypeOK
    <2>2. Kept(m)' = Kept(m) /\ Held(m) = Kept(m)
      BY <1>7, <2>1 DEF Kept, Held
    <2>3. Len(saved[m]) <= Keep[m]
      BY <1>3, <1>4 DEF DiskOf
    <2> QED BY <1>1, <1>3, <1>4, <2>1, <2>2, <2>3, DiskWithin
  <1> QED BY <1>6, <1>7

\* A sequence without its first n elements.
LEMMA DropFront ==
    ASSUME NEW S, NEW q \in Seq(S), NEW n \in 1..Len(q)
    PROVE  LET t == SubSeq(q, n + 1, Len(q))
           IN  /\ Len(t) = Len(q) - n
               /\ \A i \in 1..Len(t) : t[i] = q[i + n] /\ i + n \in 1..Len(q)
  <1> DEFINE t == SubSeq(q, n + 1, Len(q))
  <1>1. Len(q) \in Nat
    OBVIOUS
  <1>2. Len(t) = Len(q) - n
    OBVIOUS
  <1>3. ASSUME NEW i \in 1..Len(q) - n PROVE t[i] = q[i + n] /\ i + n \in 1..Len(q)
    <2>1. i + n \in 1..Len(q) /\ (n + 1) + i - 1 = i + n /\ i \in 1..(Len(q) - (n + 1) + 1)
      BY <1>1
    <2>2. t[i] = q[(n + 1) + i - 1]
      BY <2>1
    <2> QED BY <2>1, <2>2
  <1> QED BY <1>2, <1>3

\* Rank 0 turns the front of the saved paths into what it removes.
LEMMA BeginRotationDisk ==
    ASSUME BaseInv, DiskInv, phase = "saving", BeginRotation(Order[model]),
           UNCHANGED driverVars
    PROVE  DiskInv'
  <1> SUFFICES ASSUME NEW m \in Models, Keep[m] > 0 PROVE DiskOf(m)'
    BY DEF DiskInv
  <1> DEFINE n == Order[model]
             k == Rotated(n)
             s == saved[n]
             t == SubSeq(s, k + 1, Len(s))
  <1>1. n \in Models /\ 0 \in Ranks /\ s \in Seq(Steps) /\ Len(s) \in Nat /\ Keep[m] \in Nat
    <2>1. 0 \in Ranks
      BY ManagerAssumption DEF Ranks
    <2>2. model \in 1..Len(Order)
      BY DEF BaseInv, TypeOK
    <2>3. n \in Models
      BY <2>2, TrainerAssumption
    <2> QED BY <2>1, <2>3, ManagerAssumption DEF BaseInv, TypeOK, ManagerTypeOK
  <1>2. /\ UNCHANGED <<phase, model, step, run, shard>> /\ phase \in Running
        /\ stage[0] = "called" /\ stage'[0] = "removing"
    BY <1>1 DEF BeginRotation, Move, driverVars, Running, BaseInv, TypeOK, ManagerTypeOK
  <1>3. doomed = {} /\ ~PastBarrier /\ ~PastBarrier'
    BY <1>2 DEF BaseInv, RotationInv, PastBarrier
  <1>4. DiskOf(m) /\ OnDisk(m)' = OnDisk(m) /\ Held(m) = Kept(m)
    BY <1>2, <1>3, HeldAtRest DEF DiskInv, OnDisk
  <1>5. Len(saved[m]) <= Keep[m]
    BY <1>2, <1>4 DEF DiskOf
  <1>6. /\ doomed' = {s[i] : i \in 1..k} /\ saved' = [saved EXCEPT ![n] = t]
        /\ Keep[n] > 0 /\ Len(s) >= Keep[n]
    <2>1. doomed' = {s[i] : i \in 1..k} BY DEF BeginRotation
    <2>2. saved' = [saved EXCEPT ![n] = t] BY Zenon DEF BeginRotation
    <2> QED BY <2>1, <2>2 DEF BeginRotation, Rotates
  <1>7. CASE m = n
    <2>1. k = Len(s) - Keep[m] + 1 /\ k \in 1..Len(s)
      BY <1>1, <1>6, <1>7 DEF Rotated
    <2>2. Len(t) = Len(s) - k /\ \A i \in 1..Len(t) : t[i] = s[i + k] /\ i + k \in 1..Len(s)
      BY <1>1, <2>1, DropFront, Zenon
    <2>3. saved'[m] = t
      BY <1>1, <1>6, <1>7 DEF BaseInv, TypeOK, ManagerTypeOK
    <2>4. /\ Held(m)' = {t[i] : i \in 1..Len(t)} \cup {s[i] : i \in 1..k}
          /\ Held(m) = {s[i] : i \in 1..Len(s)}
      BY <1>2, <1>3, <1>4, <1>6, <1>7, <2>3 DEF Held, Kept
    <2>5. Len(t) < Keep[m]
      BY <1>1, <1>5, <1>7, <2>1, <2>2
    <2> HIDE DEF k, t
    <2>6. ASSUME NEW x \in Held(m) PROVE x \in Held(m)'
      <3>1. PICK i \in 1..Len(s) : x = s[i]
        BY <2>4, <2>6
      <3>2. CASE i <= k
        <4>1. i \in 1..k
          BY <2>1, <3>2
        <4> QED BY <2>4, <3>1, <4>1
      <3>3. CASE i > k
        <4>1. i - k \in 1..Len(t) /\ (i - k) + k = i
          BY <1>1, <2>1, <2>2, <3>3
        <4>2. t[i - k] = s[i]
          BY <2>2, <4>1
        <4> QED BY <2>4, <3>1, <4>1, <4>2
      <3> QED BY <1>1, <2>1, <3>2, <3>3
    <2>7. ASSUME NEW x \in Held(m)' PROVE x \in Held(m)
      <3>1. CASE x \in {s[i] : i \in 1..k}
        BY <1>1, <2>1, <2>4, <3>1
      <3>2. CASE x \in {t[i] : i \in 1..Len(t)}
        BY <2>2, <2>4, <3>2
      <3> QED BY <2>4, <2>7, <3>1, <3>2
    <2>8. Len(saved'[m]) <= Keep[m] /\ Len(saved'[m]) < Keep[m]
      <3>1. Len(t) \in Nat
        BY <1>1, <2>1, <2>2
      <3> QED BY <1>1, <2>3, <2>5, <3>1
    <2>9. Held(m)' = Held(m)
      BY <2>6, <2>7
    <2> QED BY <1>2, <1>4, <2>8, <2>9, DiskWithin
  <1>8. CASE m # n
    <2>1. saved'[m] = saved[m]
      BY <1>6, <1>8 DEF BaseInv, TypeOK, ManagerTypeOK
    <2>2. Held(m)' = Kept(m)
      BY <1>2, <1>8, <2>1 DEF Held, Kept
    <2> HIDE DEF k, t, s
    <2> QED BY <1>2, <1>4, <1>5, <1>8, <2>1, <2>2, DiskWithin
  <1> QED BY <1>7, <1>8

\* Rank 0 removes, the ranks meet at the barrier, and each writes its shard.
LEMMA RanksDisk ==
    ASSUME BaseInv, BaseInv', DiskInv, phase = "saving", UNCHANGED driverVars,
           \/ \E q \in Steps, r \in Ranks : RemoveFile(Order[model], q, r)
           \/ EndRotation(Order[model]) \/ PassBarrier
           \/ \E r \in Ranks : \/ Arrive(Order[model], r)
                               \/ BeginShard(Order[model], step, r)
                               \/ EndShard(Order[model], step, r)
    PROVE  DiskInv'
  <1> SUFFICES ASSUME NEW m \in Models, Keep[m] > 0 PROVE DiskOf(m)'
    BY DEF DiskInv
  <1> DEFINE n == Order[model]
  <1>1. n \in Models /\ 0 \in Ranks /\ Len(saved[m]) \in Nat /\ Keep[m] \in Nat
    <2>1. 0 \in Ranks
      BY ManagerAssumption DEF Ranks
    <2>2. model \in 1..Len(Order)
      BY DEF BaseInv, TypeOK
    <2>3. n \in Models
      BY <2>2, TrainerAssumption
    <2> QED BY <2>1, <2>3, ManagerAssumption DEF BaseInv, TypeOK, ManagerTypeOK
  <1>2. UNCHANGED <<phase, model, step, run>> /\ phase \in Running /\ step \in Steps
    BY StepIsNew DEF driverVars, Running, BaseInv
  <1>3. saved' = saved
    BY DEF RemoveFile, EndRotation, PassBarrier, Arrive, BeginShard, EndShard
  <1>4. /\ DiskOf(m) /\ Len(saved[m]) <= Keep[m] /\ Kept(m)' = Kept(m)
        /\ m = n /\ stage[0] # "called" => Len(saved[m]) < Keep[m]
    BY <1>2, <1>3 DEF DiskInv, DiskOf, Kept
  <1>5. ASSUME OnDisk(m)' \ Held(m)' \subseteq OnDisk(m) \ Held(m), Held(m)' \subseteq Held(m),
               m = n /\ stage'[0] # "called" => Len(saved[m]) < Keep[m]
        PROVE  DiskOf(m)'
    BY <1>2, <1>3, <1>4, <1>5, DiskWithin
  <1>6. ASSUME NEW q \in Steps, NEW r \in Ranks, RemoveFile(n, q, r) PROVE DiskOf(m)'
    <2>1. stage' = stage /\ doomed' = doomed /\ shard' = [shard EXCEPT ![n][q][r] = "absent"]
      BY <1>6 DEF RemoveFile
    <2>2. OnDisk(m)' \subseteq OnDisk(m)
      BY <1>1, <2>1 DEF OnDisk, BaseInv, TypeOK, ManagerTypeOK
    <2>3. Held(m)' = Held(m)
      BY <1>2, <1>4, <2>1 DEF Held, PastBarrier
    <2> QED BY <1>4, <1>5, <2>1, <2>2, <2>3
  <1>7. CASE EndRotation(n)
    <2>1. /\ stage[0] = "removing" /\ stage'[0] = "arrived" /\ doomed' = {} /\ shard' = shard
          /\ \A s \in doomed, r \in Ranks : shard[n][s][r] = "absent"
      BY <1>1, <1>7 DEF EndRotation, Removed, Move, BaseInv, TypeOK, ManagerTypeOK
    <2>2. ~PastBarrier /\ ~PastBarrier' /\ OnDisk(m)' = OnDisk(m)
      BY <2>1 DEF PastBarrier, OnDisk
    <2>3. Held(m)' = Kept(m) /\ Held(m) = Kept(m) \cup (IF m = n THEN doomed ELSE {})
      BY <1>2, <1>4, <2>1, <2>2 DEF Held
    <2>4. m = n => OnDisk(m) \cap doomed = {}
      BY <2>1 DEF OnDisk
    <2>5. OnDisk(m)' \ Held(m)' \subseteq OnDisk(m) \ Held(m)
      BY <2>2, <2>3, <2>4
    <2> QED BY <1>4, <1>5, <2>1, <2>3, <2>5
  <1>8. ASSUME NEW r \in Ranks, Arrive(n, r) PROVE DiskOf(m)'
    <2>1. /\ stage[r] = "called" /\ NothingToRotate(n, r) /\ shard' = shard /\ doomed' = doomed
          /\ stage' = [stage EXCEPT ![r] = "arrived"]
      BY <1>8 DEF Arrive, Move
    <2>2. \A p \in Ranks : stage[p] \in {"called", "removing", "arrived"}
      BY <2>1 DEF BaseInv, StageInv
    <2>3. ~PastBarrier /\ ~PastBarrier' /\ OnDisk(m)' = OnDisk(m)
      BY <1>1, <2>1, <2>2 DEF PastBarrier, OnDisk, BaseInv, TypeOK, ManagerTypeOK
    <2>4. Held(m)' = Held(m)
      BY <1>2, <1>4, <2>1, <2>3 DEF Held
    <2>5. m = n /\ stage'[0] # "called" => Len(saved[m]) < Keep[m]
      <3>1. CASE r = 0
        BY <1>1, <2>1, <3>1 DEF NothingToRotate, Rotates
      <3>2. CASE r # 0
        BY <1>4, <2>1, <3>2, <1>1 DEF BaseInv, TypeOK, ManagerTypeOK
      <3> QED BY <3>1, <3>2
    <2> QED BY <1>5, <2>3, <2>4, <2>5
  <1>9. CASE PassBarrier
    <2>1. stage[0] = "arrived" /\ stage'[0] = "saving" /\ shard' = shard /\ doomed' = doomed
      BY <1>1, <1>9 DEF PassBarrier, AllAt, MoveAll
    <2>2. doomed = {} /\ ~PastBarrier /\ PastBarrier' /\ OnDisk(m)' = OnDisk(m)
      BY <1>2, <2>1 DEF BaseInv, RotationInv, PastBarrier, OnDisk
    <2>3. /\ Held(m) = Kept(m)
          /\ Held(m)' = IF m = n THEN Kept(m) \cup {step} ELSE Kept(m)
      BY <1>2, <1>4, <2>1, <2>2 DEF Held
    <2>4. CASE m # n
      BY <1>5, <2>2, <2>3, <2>4
    <2>5. CASE m = n
      <3>1. Len(saved[m]) < Keep[m]
        BY <1>4, <2>1, <2>5
      <3>2. IsFiniteSet(Kept(m)) /\ Cardinality(Kept(m)) <= Len(saved[m])
        BY KeptBound DEF BaseInv
      <3>3. /\ Cardinality(Held(m)') <= Cardinality(Kept(m)) + 1
            /\ Cardinality(Held(m)') \in Nat /\ Cardinality(Kept(m)) \in Nat
        <4>1. /\ IsFiniteSet(Kept(m) \cup {step})
              /\ Cardinality(Kept(m) \cup {step})
                   = IF step \in Kept(m) THEN Cardinality(Kept(m)) ELSE Cardinality(Kept(m)) + 1
          BY <3>2, FS_AddElement
        <4>2. Cardinality(Kept(m)) \in Nat
          BY <3>2, FS_CardinalityType
        <4>3. Held(m)' = Kept(m) \cup {step}
          BY <2>3, <2>5
        <4> QED BY <4>1, <4>2, <4>3
      <3>4. Cardinality(Held(m)') <= Keep[m]
        BY <1>1, <3>1, <3>2, <3>3
      <3>5. OnDisk(m)' \ Held(m)' \subseteq OnDisk(m) \ Held(m)
        BY <2>2, <2>3, <2>5
      <3>6. /\ IsFiniteSet(OnDisk(m) \ Held(m)) /\ Cardinality(OnDisk(m) \ Held(m)) \in Nat
            /\ Cardinality(OnDisk(m) \ Held(m)) <= (run - 1) * Keep[m]
        BY <1>2, <1>4, DiskIsFinite DEF DiskOf
      <3>7. /\ Cardinality(OnDisk(m)' \ Held(m)') <= Cardinality(OnDisk(m) \ Held(m))
            /\ Cardinality(OnDisk(m)' \ Held(m)') \in Nat
        BY <3>5, <3>6, FS_Subset, FS_CardinalityType
      <3>8. (run - 1) * Keep[m] \in Int
        <4>1. run - 1 \in Int
          BY TrainerAssumption DEF BaseInv, TypeOK
        <4> QED BY <1>1, <4>1
      <3>9. Cardinality(OnDisk(m)' \ Held(m)') <= (run' - 1) * Keep[m]
        BY <1>2, <3>6, <3>7, <3>8
      <3> QED BY <1>2, <1>3, <1>4, <3>1, <3>4, <3>9 DEF DiskOf
    <2> QED BY <2>4, <2>5
  <1>10. ASSUME NEW r \in Ranks, BeginShard(n, step, r) \/ EndShard(n, step, r)
         PROVE  DiskOf(m)'
    <2>1. PICK f \in {"torn", "whole"} :
             /\ shard' = [shard EXCEPT ![n][step][r] = f] /\ doomed' = doomed
             /\ stage[r] \in {"saving", "writing"}
             /\ stage' = [stage EXCEPT ![r] = IF f = "torn" THEN "writing" ELSE "saved"]
      BY <1>10 DEF BeginShard, EndShard, Move
    <2>2. \A p \in Ranks : stage[p] \in {"saving", "writing", "saved"}
      BY <2>1 DEF BaseInv, StageInv
    <2>3. PastBarrier /\ PastBarrier' /\ stage[0] # "called"
      BY <1>1, <1>2, <2>1, <2>2 DEF PastBarrier, BaseInv, TypeOK, ManagerTypeOK
    <2>4. Held(m)' = Held(m) /\ (m = n => step \in Held(m))
      BY <1>2, <1>4, <2>1, <2>3 DEF Held
    <2>5. OnDisk(m)' \subseteq OnDisk(m) \cup (IF m = n THEN {step} ELSE {})
      BY <1>1, <2>1 DEF OnDisk, BaseInv, TypeOK, ManagerTypeOK
    <2> QED BY <1>4, <1>5, <2>3, <2>4, <2>5
  <1> QED BY <1>6, <1>7, <1>8, <1>9, <1>10

\* Every step keeps the bound.
LEMMA DiskInductive ==
    /\ Init => DiskInv
    /\ BaseInv /\ DiskInv /\ [Next]_vars => DiskInv'
  <1>1. ASSUME Init PROVE DiskInv
    <2> SUFFICES ASSUME NEW m \in Models, Keep[m] > 0 PROVE DiskOf(m)
      BY DEF DiskInv
    <2>1. saved[m] = <<>> /\ doomed = {} /\ phase = "training" /\ run = 1
      BY <1>1 DEF Init, ManagerInit
    <2>2. OnDisk(m) = {}
      BY <1>1 DEF Init, ManagerInit, OnDisk
    <2>3. Held(m) = {}
      BY <2>1 DEF Held, Kept, PastBarrier
    <2>4. Cardinality(OnDisk(m) \ Held(m)) = 0 /\ Cardinality(Held(m)) = 0 /\ Keep[m] \in Nat
      BY <2>2, <2>3, FS_EmptySet, ManagerAssumption
    <2> QED BY <2>1, <2>4 DEF DiskOf, Running
  <1>2. ASSUME BaseInv, DiskInv, [Next]_vars PROVE DiskInv'
    <2>1. BaseInv'
      BY <1>2, NextKeeps
    <2>2. CASE WorkersSave
      <3>1. phase = "saving" /\ UNCHANGED driverVars /\ SaveStep(Order[model], step)
        BY <2>2 DEF WorkersSave
      <3> QED BY <1>2, <2>1, <3>1, BeginRotationDisk, RanksDisk DEF SaveStep, RankStep
    <2>3. CASE UNCHANGED vars
      BY <1>2, <2>3 DEF vars, managerVars, driverVars, DiskInv, DiskOf, Held, Kept, OnDisk,
                        PastBarrier
    <2> QED BY <1>2, <2>1, <2>2, <2>3, DriverDisk, ModelSavedDisk, CrashDisk, RestartDisk
            DEF Next
  <1> QED BY <1>1, <1>2

(* Whatever the crashes and restarts, a model has at most as many          *)
(* checkpoints on disk as it was told to keep for every time the job was   *)
(* started: each run of _save_checkpoint rotates before it writes, but a   *)
(* restarted manager forgets what it saved.                                *)
THEOREM DiskStaysBounded == Spec => []DiskIsBounded
  <1>1. BaseInv /\ DiskInv => DiskIsBounded
    BY DiskAtEnd DEF DiskInv, DiskIsBounded, DiskOf
  <1>2. Init => BaseInv /\ DiskInv
    BY InitInvariant, DiskInductive DEF IInv
  <1>3. (BaseInv /\ DiskInv) /\ [Next]_vars => (BaseInv /\ DiskInv)'
    BY NextKeeps, DiskInductive
  <1> QED BY <1>1, <1>2, <1>3, PTL DEF Spec
=============================================================================
