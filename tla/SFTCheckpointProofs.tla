------------------------- MODULE SFTCheckpointProofs -------------------------
(***************************************************************************)
(* The trainer that saves and resumes by itself (FSDPSFTTrainer), proved   *)
(* for any number of ranks, steps and restarts, as long as it does not     *)
(* keep exactly one checkpoint: what the tracker names is complete, the    *)
(* job can always be started again, and it goes on from the tracked step.  *)
(***************************************************************************)
EXTENDS SFTCheckpoint, SequenceTheorems, TLAPS

-----------------------------------------------------------------------------
(* previous_saved_paths of a checkpoint manager stays increasing, as a     *)
(* sequence of steps, and keeps its last element, when rotation takes its  *)
(* front away and when a later step is appended.                           *)

\* What is left of an increasing sequence of steps without its first n elements.
LEMMA Shorten ==
    ASSUME NEW S \in SUBSET Int, NEW q \in Seq(S), NEW n \in 0..(Len(q) - 1),
           \A i, j \in 1..Len(q) : i < j => q[i] < q[j]
    PROVE  LET t == SubSeq(q, n + 1, Len(q))
           IN  /\ t \in Seq(S) /\ Len(t) = Len(q) - n
               /\ t[Len(t)] = q[Len(q)]
               /\ \A i, j \in 1..Len(t) : i < j => t[i] < t[j]
  <1> DEFINE t == SubSeq(q, n + 1, Len(q))
  <1>1. Len(q) \in Nat /\ n + 1 \in 1..Len(q)
    OBVIOUS
  <1>2. t \in Seq(S) /\ Len(t) = Len(q) - n
    BY <1>1, SubSeqProperties
  <1>3. \A i \in 1..Len(t) : t[i] = q[i + n] /\ i + n \in 1..Len(q)
    BY <1>1, <1>2, SubSeqProperties
  <1>4. Len(t) \in 1..Len(t) /\ Len(t) + n = Len(q)
    BY <1>1, <1>2
  <1> HIDE DEF t
  <1>5. t[Len(t)] = q[Len(q)]
    BY <1>3, <1>4
  <1>6. ASSUME NEW i \in 1..Len(t), NEW j \in 1..Len(t), i < j
        PROVE  t[i] < t[j]
    <2>1. t[i] = q[i + n] /\ t[j] = q[j + n] /\ i + n \in 1..Len(q) /\ j + n \in 1..Len(q)
      BY <1>3
    <2>2. i + n < j + n
      BY <1>1, <1>2, <1>6
    <2> QED BY <2>1, <2>2
  <1> QED BY <1>2, <1>5, <1>6 DEF t

\* An increasing sequence of steps stays increasing when a later one is added.
LEMMA Lengthen ==
    ASSUME NEW S \in SUBSET Int, NEW q \in Seq(S), NEW e \in S,
           \A i, j \in 1..Len(q) : i < j => q[i] < q[j],
           Len(q) > 0 => q[Len(q)] < e
    PROVE  /\ Append(q, e) \in Seq(S)
           /\ Append(q, e)[Len(Append(q, e))] = e
           /\ \A i, j \in 1..Len(Append(q, e)) :
                 i < j => Append(q, e)[i] < Append(q, e)[j]
  <1> DEFINE t == Append(q, e)
  <1>1. Len(q) \in Nat /\ t \in Seq(S) /\ Len(t) = Len(q) + 1
    OBVIOUS
  <1>2. \A i \in 1..Len(q) : t[i] = q[i] /\ q[i] \in Int /\ q[i] < e
    <2> SUFFICES ASSUME NEW i \in 1..Len(q)
                 PROVE  t[i] = q[i] /\ q[i] \in Int /\ q[i] < e
      OBVIOUS
    <2>1. Len(q) \in 1..Len(q) /\ Len(q) > 0 BY <1>1
    <2>2. q[i] \in S /\ q[Len(q)] \in S BY <2>1
    <2>3. t[i] = q[i] OBVIOUS
    <2>4. i = Len(q) \/ i < Len(q) BY <1>1
    <2>5. q[i] \in Int /\ q[Len(q)] \in Int /\ e \in Int BY <2>2
    <2>6. q[i] = q[Len(q)] \/ q[i] < q[Len(q)] BY <2>1, <2>4
    <2> HIDE DEF t
    <2> QED BY <2>1, <2>3, <2>5, <2>6
  <1>3. t[Len(q) + 1] = e
    OBVIOUS
  <1> HIDE DEF t
  <1>4. ASSUME NEW i \in 1..Len(t), NEW j \in 1..Len(t), i < j
        PROVE  t[i] < t[j]
    <2>1. i \in 1..Len(q) BY <1>1, <1>4
    <2>2. CASE j = Len(q) + 1 BY <2>1, <2>2, <1>2, <1>3
    <2>3. CASE j # Len(q) + 1
      <3>1. j \in 1..Len(q) BY <2>3, <1>1
      <3> QED BY <2>1, <3>1, <1>2, <1>4
    <2> QED BY <2>2, <2>3
  <1> QED BY <1>1, <1>3, <1>4 DEF t

-----------------------------------------------------------------------------
(* The invariant.                                                          *)

(* A step that is being written is beyond the tracked one, which no run of *)
(* the loop gets behind.                                                   *)
StepInv ==
    /\ phase = "training" => tracker <= step /\ step < TotalSteps + run - 1
    /\ phase = "saving" => tracker < step
    /\ phase = "tail" => tracker <= step /\ step > 0
    /\ tracker < TotalSteps + run

(* Barriers: nobody writes before rank 0 has removed what it removes, and  *)
(* who is past its shard has written it.                                   *)
StageInv ==
    phase = "saving" =>
        /\ \/ \A r \in Ranks : stage[r] \in {"called", "removing", "arrived"}
           \/ \A r \in Ranks : stage[r] \in {"saving", "writing", "saved"}
        /\ \A r \in Ranks : stage[r] = "saved" => shard[TheModel][step][r] = "whole"

(* What is being removed is not what the tracker names. *)
DoomedInv ==
    phase \in Running => /\ tracker \notin doomed
                         /\ doomed # {} => phase = "saving" /\ stage[0] = "removing"

(* previous_saved_paths is increasing, and ends with the step that was     *)
(* saved last, which is the tracked one but for the end of a save.         *)
SavedInv ==
    phase \in Running =>
        LET q == saved[TheModel]
        IN  /\ \A i, j \in 1..Len(q) : i < j => q[i] < q[j]
            /\ Len(q) > 0 => q[Len(q)] = IF phase = "tail" THEN step ELSE tracker

(* After the manager's save rank 0 alone has something to write, and names *)
(* the step when everything of it is written.                              *)
TailInv ==
    phase = "tail" =>
        /\ Whole(TheModel, step)
        /\ \A r \in Ranks \ {0} : tail[r] = "done"
        /\ tail[0] \in {"data", "writing", "tracking", "done"}
        /\ tail[0] = "tracking" => data[step][0] = "whole"
        /\ tail[0] = "done" <=> tracker = step

IInv == /\ TypeOK /\ StepInv /\ StageInv /\ DoomedInv /\ SavedInv /\ TailInv
        /\ NamedIsWhole /\ AlwaysResumes

ByItself == ~ViaHandler /\ Keep[TheModel] # 1

-----------------------------------------------------------------------------
\* What the assumptions say about ranks, writers and steps.
LEMMA Basics ==
    ASSUME TypeOK, ByItself
    PROVE  /\ 0 \in Ranks /\ TheModel \in Models /\ DataWriters = {0}
           /\ Steps \subseteq Int /\ 0 \notin Steps
           /\ run \in Nat /\ run >= 1 /\ run <= MaxRuns /\ MaxRuns \in Nat
           /\ TotalSteps \in Nat /\ TotalSteps >= 1 /\ TotalSteps + MaxRuns <= LastStep
           /\ LastStep \in Nat /\ step \in Nat /\ step < TotalSteps + run
           /\ tracker \in Nat
  BY ManagerAssumption, SFTAssumption
  DEF TypeOK, ByItself, Ranks, DataWriters, Steps, NoFile

\* The step being saved is a step number.
LEMMA StepIsStep ==
    ASSUME TypeOK, StepInv, ByItself, phase \in {"saving", "tail"}
    PROVE  step \in Steps
  BY Basics DEF StepInv, Steps

\* A file of a step the tracker does not name may change.
LEMMA OtherStepChanges ==
    ASSUME TypeOK, NamedIsWhole, ByItself, NEW s \in Steps, NEW r \in Ranks,
           NEW f \in FileStates, s # tracker, tracker' = tracker,
           \/ shard' = [shard EXCEPT ![TheModel][s][r] = f] /\ data' = data
           \/ shard' = shard /\ data' = [data EXCEPT ![s][r] = f]
    PROVE  NamedIsWhole'
  <1> SUFFICES ASSUME tracker \in Steps, NEW q \in Ranks
               PROVE  /\ shard'[TheModel][tracker][q] = shard[TheModel][tracker][q]
                      /\ data'[tracker][q] = data[tracker][q]
    BY Basics DEF NamedIsWhole, Whole, NoFile, TypeOK, DataWriters
  <1> QED BY Basics DEF TypeOK, ManagerTypeOK

\* The initial state satisfies the invariant.
LEMMA InitInvariant == Init /\ ByItself => IInv
  <1> SUFFICES ASSUME Init, ByItself PROVE IInv
    OBVIOUS
  <1>1. TypeOK
    <2>1. ManagerTypeOK
      BY ManagerAssumption DEF Init, ManagerInit, ManagerTypeOK, FileStates, Stages
    <2> QED BY <2>1, SFTAssumption DEF TypeOK, Init, Phases, Tails, FileStates, NoFile
  <1>2. StepInv BY <1>1, Basics DEF StepInv, Init, NoFile
  <1>3. StageInv /\ DoomedInv
    BY <1>1, Basics DEF StageInv, DoomedInv, Init, ManagerInit, NoFile
  <1>4. SavedInv
    <2>1. saved[TheModel] = <<>> BY <1>1, Basics DEF Init, ManagerInit
    <2> QED BY <2>1 DEF SavedInv
  <1>5. TailInv /\ NamedIsWhole /\ AlwaysResumes
    BY DEF TailInv, NamedIsWhole, AlwaysResumes, Init
  <1> QED BY <1>1, <1>2, <1>3, <1>4, <1>5 DEF IInv

\* The steps of the training loop.
LEMMA TrainKeeps ==
    ASSUME IInv, ByItself, TrainStep \/ TrainAndSave \/ NoMoreData
    PROVE  IInv'
  <1> USE DEF IInv
  <1>1. /\ phase = "training"
        /\ UNCHANGED <<shard, saved, doomed, tail, run, data, tracker>>
    BY DEF TrainStep, TrainAndSave, NoMoreData, managerVars
  <1>2. \/ phase' = "training" /\ step' = step + 1 /\ step' < TotalSteps /\ stage' = stage
        \/ phase' = "saving" /\ step' = step + 1 /\ stage' = [r \in Ranks |-> "called"]
        \/ phase' = "finished" /\ step' = step /\ stage' = stage
    BY <1>1, Basics
    DEF TrainStep, TrainAndSave, NoMoreData, SaveDue, CallSave, MoveAll, managerVars
  <1>3. /\ step' \in Nat /\ step' < TotalSteps + run /\ tracker <= step
        /\ step < TotalSteps + run - 1
    BY <1>1, <1>2, Basics DEF StepInv
  <1>4. stage' \in [Ranks -> Stages]
    BY <1>2 DEF TypeOK, ManagerTypeOK, Stages
  <1>5. TypeOK'
    BY <1>1, <1>2, <1>3, <1>4, Basics DEF TypeOK, ManagerTypeOK, Phases
  <1>6. StepInv' BY <1>1, <1>2, <1>3, Basics DEF StepInv
  <1>7. StageInv' BY <1>2 DEF StageInv
  <1>8. DoomedInv' BY <1>1, <1>2 DEF DoomedInv, Running
  <1>9. SavedInv' BY <1>1, <1>2 DEF SavedInv, Running
  <1>10. TailInv' /\ AlwaysResumes' BY <1>2 DEF TailInv, AlwaysResumes
  <1>11. NamedIsWhole' BY <1>1 DEF NamedIsWhole, Whole
  <1> QED BY <1>5, <1>6, <1>7, <1>8, <1>9, <1>10, <1>11

\* Rank 0 begins to remove: the last of the saved paths, which the tracker
\* names, stays, as more than one is kept.
LEMMA BeginRotationKeeps ==
    ASSUME IInv, ByItself, phase = "saving", BeginRotation(TheModel), UNCHANGED jobVars
    PROVE  IInv'
  <1> DEFINE s == saved[TheModel]
             k == Rotated(TheModel)
             t == SubSeq(s, k + 1, Len(s))
  <1> USE DEF IInv
  <1>1. UNCHANGED <<phase, tail, step, run, data, tracker>> BY DEF jobVars
  <1>2. s \in Seq(Steps) /\ Keep[TheModel] \in Nat /\ Keep[TheModel] >= 2
        /\ Len(s) >= Keep[TheModel]
    <2>1. s \in Seq(Steps) BY Basics DEF TypeOK, ManagerTypeOK
    <2>2. Keep[TheModel] \in Nat /\ Keep[TheModel] # 1
      BY Basics, ManagerAssumption DEF ByItself
    <2>3. Keep[TheModel] > 0 /\ Len(s) >= Keep[TheModel] BY DEF BeginRotation, Rotates
    <2> QED BY <2>1, <2>2, <2>3
  <1>3. k \in 1..(Len(s) - 1) /\ Len(s) \in Nat
    BY <1>2 DEF Rotated
  <1>4. (\A i, j \in 1..Len(s) : i < j => s[i] < s[j]) /\ s[Len(s)] = tracker
    BY <1>3 DEF SavedInv, Running
  <1>5. /\ doomed' = {s[i] : i \in 1..k}
        /\ stage' = [stage EXCEPT ![0] = "removing"] /\ stage[0] = "called"
        /\ shard' = shard
    BY DEF BeginRotation, Move
  <1>6. saved' = [saved EXCEPT ![TheModel] = t] BY Zenon DEF BeginRotation
  <1>7. /\ t \in Seq(Steps) /\ t[Len(t)] = s[Len(s)]
        /\ \A i, j \in 1..Len(t) : i < j => t[i] < t[j]
    <2> HIDE DEF s, k
    <2>1. Steps \in SUBSET Int /\ k \in 0..(Len(s) - 1) BY <1>3, Basics
    <2> QED BY <2>1, <1>2, <1>4, Shorten
  <1>8. saved'[TheModel] = t BY <1>6, Basics DEF TypeOK, ManagerTypeOK
  <1> HIDE DEF s, k, t
  <1>9. doomed' \subseteq Steps /\ tracker \notin doomed'
    <2>1. \A i \in 1..k : s[i] \in Steps /\ s[i] < s[Len(s)]
      BY <1>2, <1>3, <1>4
    <2> QED BY <2>1, <1>4, <1>5 DEF Steps
  <1>10. TypeOK'
    BY <1>1, <1>5, <1>6, <1>7, <1>9, Basics DEF TypeOK, ManagerTypeOK, Stages
  <1>11. StepInv' /\ TailInv' BY <1>1 DEF StepInv, TailInv
  <1>12. StageInv'
    BY <1>1, <1>5, Basics DEF StageInv, TypeOK, ManagerTypeOK
  <1>13. DoomedInv'
    BY <1>1, <1>5, <1>9, Basics DEF DoomedInv, TypeOK, ManagerTypeOK
  <1>14. SavedInv' BY <1>1, <1>4, <1>7, <1>8 DEF SavedInv
  <1>15. NamedIsWhole' /\ AlwaysResumes'
    BY <1>1, <1>5 DEF NamedIsWhole, Whole, AlwaysResumes
  <1> QED BY <1>10, <1>11, <1>12, <1>13, <1>14, <1>15

\* Rank 0 removes a file: of a step the tracker does not name.
LEMMA RemoveKeeps ==
    ASSUME IInv, ByItself, NEW q \in Steps, NEW r \in Ranks, phase = "saving",
           (RemoveFile(TheModel, q, r) /\ UNCHANGED jobVars) \/ RemoveData(q, r)
    PROVE  IInv'
  <1> USE DEF IInv
  <1>1. /\ UNCHANGED <<saved, doomed, stage, phase, tail, step, run, tracker>>
        /\ q \in doomed /\ stage[0] = "removing"
        /\ \/ shard' = [shard EXCEPT ![TheModel][q][r] = "absent"] /\ data' = data
           \/ shard' = shard /\ data' = [data EXCEPT ![q][r] = "absent"]
    BY DEF RemoveFile, RemoveData, jobVars, managerVars
  <1>2. q # tracker BY <1>1 DEF DoomedInv, Running
  <1>3. "absent" \in FileStates BY DEF FileStates
  <1>4. TypeOK'
    <2>1. shard' \in [Models -> [Steps -> [Ranks -> FileStates]]]
      <3>1. shard \in [Models -> [Steps -> [Ranks -> FileStates]]]
        BY DEF TypeOK, ManagerTypeOK
      <3>2. TheModel \in Models BY Basics
      <3>3. CASE shard' = shard BY <3>1, <3>3
      <3>4. CASE shard' = [shard EXCEPT ![TheModel][q][r] = "absent"]
        BY <3>1, <3>2, <3>4, <1>3
      <3> QED BY <3>3, <3>4, <1>1
    <2>2. data' \in [Steps -> [Ranks -> FileStates]]
      BY <1>1, <1>3 DEF TypeOK
    <2> QED BY <2>1, <2>2, <1>1 DEF TypeOK, ManagerTypeOK
  <1>5. StepInv' /\ DoomedInv' /\ SavedInv' /\ AlwaysResumes' /\ TailInv'
    BY <1>1 DEF StepInv, DoomedInv, SavedInv, AlwaysResumes, TailInv
  <1>6. StageInv'
    <2>1. \A p \in Ranks : stage[p] \in {"called", "removing", "arrived"}
      BY <1>1, Basics DEF StageInv
    <2> QED BY <2>1, <1>1 DEF StageInv
  <1>7. NamedIsWhole' BY <1>1, <1>2, <1>3, OtherStepChanges
  <1> QED BY <1>4, <1>5, <1>6, <1>7

\* The steps of save_checkpoint around the first barrier.
LEMMA BarrierKeeps ==
    ASSUME IInv, ByItself, phase = "saving", UNCHANGED jobVars,
           \/ EndRotation(TheModel) \/ PassBarrier
           \/ \E r \in Ranks : Arrive(TheModel, r)
    PROVE  IInv'
  <1> USE DEF IInv
  <1>1. UNCHANGED <<phase, tail, step, run, data, tracker>> BY DEF jobVars
  <1>2. UNCHANGED <<shard, saved>> /\ doomed' \in {{}, doomed}
    BY DEF EndRotation, PassBarrier, Arrive
  <1>3. /\ stage' \in [Ranks -> Stages]
        /\ \/ \A r \in Ranks : stage'[r] \in {"called", "removing", "arrived"}
           \/ \A r \in Ranks : stage'[r] \in {"saving", "writing", "saved"}
        /\ \A r \in Ranks : stage'[r] # "saved"
        /\ doomed' # {} => doomed' = doomed /\ stage'[0] = "removing"
    <2>1. CASE EndRotation(TheModel)
      BY <2>1, Basics DEF EndRotation, Move, StageInv, TypeOK, ManagerTypeOK, Stages
    <2>2. CASE PassBarrier
      <3>1. doomed = {} BY <2>2, Basics DEF PassBarrier, AllAt, DoomedInv, Running
      <3> QED BY <2>2, <3>1 DEF PassBarrier, AllAt, MoveAll, Stages
    <2>3. CASE \E r \in Ranks : Arrive(TheModel, r)
      <3> PICK r \in Ranks : Arrive(TheModel, r) BY <2>3
      <3>1. stage[r] = "called" /\ stage' = [stage EXCEPT ![r] = "arrived"] /\ doomed' = doomed
        BY DEF Arrive, Move
      <3>2. doomed # {} => r # 0 /\ stage[0] = "removing"
        BY <3>1 DEF DoomedInv, Running
      <3> QED BY <3>1, <3>2, Basics DEF StageInv, TypeOK, ManagerTypeOK, Stages
    <2> QED BY <2>1, <2>2, <2>3
  <1>4. TypeOK' BY <1>1, <1>2, <1>3 DEF TypeOK, ManagerTypeOK
  <1>5. StepInv' /\ SavedInv' /\ TailInv' /\ NamedIsWhole' /\ AlwaysResumes'
    BY <1>1, <1>2 DEF StepInv, SavedInv, TailInv, NamedIsWhole, AlwaysResumes, Whole
  <1>6. StageInv' BY <1>3 DEF StageInv
  <1>7. DoomedInv' BY <1>1, <1>3 DEF DoomedInv, Running
  <1> QED BY <1>4, <1>5, <1>6, <1>7

\* A rank writes its shard of the step being saved, which nothing names yet.
LEMMA ShardKeeps ==
    ASSUME IInv, ByItself, NEW r \in Ranks, phase = "saving", UNCHANGED jobVars,
           BeginShard(TheModel, step, r) \/ EndShard(TheModel, step, r)
    PROVE  IInv'
  <1> USE DEF IInv
  <1>1. UNCHANGED <<phase, tail, step, run, data, tracker>> BY DEF jobVars
  <1>2. step \in Steps /\ step # tracker BY StepIsStep, Basics DEF StepInv
  <1>3. PICK f \in {"torn", "whole"} :
           /\ shard' = [shard EXCEPT ![TheModel][step][r] = f]
           /\ \/ stage[r] = "saving" /\ stage' = [stage EXCEPT ![r] = "writing"]
              \/ f = "whole" /\ stage[r] = "writing" /\ stage' = [stage EXCEPT ![r] = "saved"]
    BY DEF BeginShard, EndShard, Move
  <1>4. UNCHANGED <<saved, doomed>> BY DEF BeginShard, EndShard
  <1>5. f \in FileStates BY DEF FileStates
  <1>6. TypeOK'
    BY <1>1, <1>2, <1>3, <1>4, <1>5, Basics DEF TypeOK, ManagerTypeOK, Stages
  <1>7. StepInv' /\ SavedInv' /\ TailInv' /\ AlwaysResumes'
    BY <1>1, <1>4 DEF StepInv, SavedInv, TailInv, AlwaysResumes
  <1>8. \A p \in Ranks : stage[p] \in {"saving", "writing", "saved"}
    BY <1>3 DEF StageInv
  <1>9. StageInv'
    <2>1. \A p \in Ranks : stage'[p] \in {"saving", "writing", "saved"}
      BY <1>3, <1>8 DEF TypeOK, ManagerTypeOK
    <2>2. ASSUME NEW p \in Ranks, stage'[p] = "saved"
          PROVE  shard'[TheModel][step][p] = "whole"
      BY <2>2, <1>2, <1>3, Basics DEF StageInv, TypeOK, ManagerTypeOK
    <2> QED BY <2>1, <2>2, <1>1 DEF StageInv
  <1>10. DoomedInv' BY <1>1, <1>4, <1>8, Basics DEF DoomedInv, Running
  <1>11. NamedIsWhole' BY <1>1, <1>2, <1>3, <1>5, OtherStepChanges
  <1> QED BY <1>6, <1>7, <1>9, <1>10, <1>11

\* Every rank has written; the path is recorded, and each goes on by itself.
LEMMA ManagerReturnsKeeps ==
    ASSUME IInv, ByItself, ManagerReturns
    PROVE  IInv'
  <1> DEFINE q == saved[TheModel]
             t == Append(q, step)
  <1> USE DEF IInv
  <1>1. /\ phase = "saving" /\ phase' = "tail"
        /\ UNCHANGED <<shard, doomed, step, run, data, tracker>>
        /\ stage' = [r \in Ranks |-> "idle"] /\ tail' = [r \in Ranks |-> AfterSave(r)]
    BY DEF ManagerReturns, MoveAll
  <1>2. saved' = [saved EXCEPT ![TheModel] = t]
    BY Zenon DEF ManagerReturns, RecordSave
  <1>3. step \in Steps /\ tracker < step BY <1>1, StepIsStep DEF StepInv
  <1>4. q \in Seq(Steps) BY Basics DEF TypeOK, ManagerTypeOK
  <1>5. /\ \A i, j \in 1..Len(q) : i < j => q[i] < q[j]
        /\ Len(q) > 0 => q[Len(q)] < step
    BY <1>1, <1>3 DEF SavedInv, Running
  <1>6. saved'[TheModel] = t BY <1>2, Basics DEF TypeOK, ManagerTypeOK
  <1>7. /\ t \in Seq(Steps) /\ t[Len(t)] = step
        /\ \A i, j \in 1..Len(t) : i < j => t[i] < t[j]
    <2> HIDE DEF q
    <2>1. Steps \in SUBSET Int BY Basics
    <2> QED BY <2>1, <1>3, <1>4, <1>5, Lengthen
  <1> HIDE DEF q, t
  <1>8. /\ tail'[0] = "data" /\ \A r \in Ranks \ {0} : tail'[r] = "done"
        /\ tail' \in [Ranks -> Tails]
    BY <1>1, Basics DEF AfterSave, Tails
  <1>9. Whole(TheModel, step)
    BY <1>1 DEF StageInv, ManagerReturns, Written, AllAt, Whole
  <1>10. doomed = {} BY <1>1, Basics DEF DoomedInv, Running, ManagerReturns, Written, AllAt
  <1>11. TypeOK'
    BY <1>1, <1>2, <1>7, <1>8 DEF TypeOK, ManagerTypeOK, Stages, Phases
  <1>12. StepInv' BY <1>1, <1>3, Basics DEF StepInv
  <1>13. StageInv' /\ DoomedInv' /\ AlwaysResumes'
    BY <1>1, <1>10 DEF StageInv, DoomedInv, AlwaysResumes
  <1>14. SavedInv' BY <1>1, <1>6, <1>7 DEF SavedInv
  <1>15. TailInv' BY <1>1, <1>3, <1>8, <1>9, Basics DEF TailInv, Whole
  <1>16. NamedIsWhole' BY <1>1 DEF NamedIsWhole, Whole
  <1> QED BY <1>11, <1>12, <1>13, <1>14, <1>15, <1>16

\* Rank 0 writes the dataloader's state of a step nothing names yet.
LEMMA DataKeeps ==
    ASSUME IInv, ByItself, NEW r \in Ranks, BeginData(r) \/ EndData(r)
    PROVE  IInv'
  <1> USE DEF IInv
  <1>1. /\ phase = "tail" /\ tail[r] \in {"data", "writing"}
        /\ UNCHANGED <<shard, saved, doomed, stage, phase, step, run, tracker>>
    BY DEF BeginData, EndData, managerVars
  <1>2. r = 0 BY <1>1 DEF TailInv
  <1>3. PICK f \in {"torn", "whole"}, to \in {"writing", "tracking"} :
           /\ data' = [data EXCEPT ![step][0] = f] /\ tail' = [tail EXCEPT ![0] = to]
           /\ to = "tracking" => f = "whole"
    BY <1>2 DEF BeginData, EndData, Go
  <1>4. step \in Steps /\ step # tracker BY <1>1, <1>2, StepIsStep DEF TailInv
  <1>5. f \in FileStates /\ to \in Tails BY DEF FileStates, Tails
  <1>6. TypeOK' BY <1>1, <1>3, <1>5 DEF TypeOK, ManagerTypeOK
  <1>7. StepInv' /\ StageInv' /\ DoomedInv' /\ SavedInv' /\ AlwaysResumes'
    BY <1>1 DEF StepInv, StageInv, DoomedInv, SavedInv, AlwaysResumes
  <1>8. TailInv'
    <2>1. data'[step][0] = f BY <1>3, <1>4, Basics DEF TypeOK
    <2>2. tail'[0] = to /\ \A p \in Ranks \ {0} : tail'[p] = tail[p]
      BY <1>3, Basics DEF TypeOK
    <2> QED BY <2>1, <2>2, <1>1, <1>3, <1>4 DEF TailInv, Whole
  <1>9. NamedIsWhole' BY <1>1, <1>3, <1>4, <1>5, Basics, OtherStepChanges
  <1> QED BY <1>6, <1>7, <1>8, <1>9

\* The tracker is renamed into place: it names what has just been written.
LEMMA RenameKeeps ==
    ASSUME IInv, ByItself, RenameTracker
    PROVE  IInv'
  <1> USE DEF IInv
  <1>1. /\ phase = "tail" /\ tail[0] = "tracking" /\ tracker' = step
        /\ UNCHANGED <<shard, saved, doomed, stage, phase, step, run, data>>
        /\ tail' = [tail EXCEPT ![0] = "done"]
    BY DEF RenameTracker, MayTrack, Go, managerVars
  <1>2. step \in Steps BY <1>1, StepIsStep
  <1>3. tail'[0] = "done" /\ \A p \in Ranks \ {0} : tail'[p] = tail[p]
    BY <1>1, Basics DEF TypeOK
  <1>4. TypeOK' BY <1>1, <1>2 DEF TypeOK, ManagerTypeOK, Tails
  <1>5. StepInv' BY <1>1, Basics DEF StepInv
  <1>6. StageInv' /\ AlwaysResumes' BY <1>1 DEF StageInv, AlwaysResumes
  <1>7. doomed = {} BY <1>1 DEF DoomedInv, Running
  <1>8. DoomedInv' BY <1>1, <1>7 DEF DoomedInv
  <1>9. SavedInv' BY <1>1 DEF SavedInv
  <1>10. TailInv' BY <1>1, <1>3 DEF TailInv, Whole
  <1>11. NamedIsWhole' BY <1>1, Basics DEF NamedIsWhole, TailInv, Whole, DataWriters
  <1> QED BY <1>4, <1>5, <1>6, <1>8, <1>9, <1>10, <1>11

\* The last barrier: the step has been named.
LEMMA EndSaveKeeps ==
    ASSUME IInv, ByItself, EndSave
    PROVE  IInv'
  <1> USE DEF IInv
  <1>1. /\ phase = "tail" /\ tail' = [r \in Ranks |-> "none"]
        /\ UNCHANGED <<shard, saved, doomed, stage, step, run, data, tracker>>
    BY DEF EndSave, managerVars
  <1>2. \/ phase' = "finished"
        \/ phase' = "training" /\ step < TotalSteps
    BY Basics DEF EndSave
  <1>3. tracker = step BY <1>1, Basics DEF TailInv, EndSave
  <1>4. doomed = {} BY <1>1 DEF DoomedInv, Running
  <1>5. TypeOK' BY <1>1, <1>2 DEF TypeOK, ManagerTypeOK, Phases, Tails
  <1>6. StepInv' BY <1>1, <1>2, <1>3, Basics DEF StepInv
  <1>7. StageInv' /\ TailInv' /\ AlwaysResumes'
    BY <1>2 DEF StageInv, TailInv, AlwaysResumes
  <1>8. DoomedInv' BY <1>1, <1>3, <1>4 DEF DoomedInv
  <1>9. SavedInv' BY <1>1, <1>2, <1>3 DEF SavedInv, Running
  <1>10. NamedIsWhole' BY <1>1 DEF NamedIsWhole, Whole
  <1> QED BY <1>5, <1>6, <1>7, <1>8, <1>9, <1>10

\* The job dies: what is on disk stays.
LEMMA CrashKeeps ==
    ASSUME IInv, Crash
    PROVE  IInv'
  <1> USE DEF IInv
  <1>1. /\ phase' = "down"
        /\ UNCHANGED <<shard, saved, doomed, stage, tail, step, run, data, tracker>>
    BY DEF Crash, managerVars
  <1>2. TypeOK' BY <1>1 DEF TypeOK, ManagerTypeOK, Phases
  <1>3. StepInv' /\ StageInv' /\ DoomedInv' /\ SavedInv' /\ TailInv' /\ AlwaysResumes'
    BY <1>1 DEF StepInv, StageInv, DoomedInv, SavedInv, TailInv, AlwaysResumes, Running
  <1>4. NamedIsWhole' BY <1>1 DEF NamedIsWhole, Whole
  <1> QED BY <1>2, <1>3, <1>4

\* A job that is started again finds what the tracker names, and resumes it.
LEMMA RestartResumes ==
    ASSUME IInv, ByItself, Restart
    PROVE  phase' = "training" /\ step' = tracker /\ tracker' = tracker
  <1>1. tracker # NoFile => /\ Loadable(tracker) /\ ~NothingToResume
    <2> SUFFICES ASSUME tracker # NoFile PROVE Loadable(tracker) /\ ~NothingToResume
      OBVIOUS
    <2>1. Whole(TheModel, tracker) /\ \A r \in DataWriters : data[tracker][r] = "whole"
      BY DEF IInv, NamedIsWhole
    <2>2. shard[TheModel][tracker][0] = "whole" BY <2>1, Basics DEF IInv, Whole
    <2> QED BY <2>1, <2>2, Basics DEF IInv, Loadable, NothingToResume
  <1> QED BY <1>1 DEF Restart, FitStartsAt, ByItself, NoFile

\* A job that is started again satisfies the invariant.
LEMMA RestartKeeps ==
    ASSUME IInv, ByItself, Restart
    PROVE  IInv'
  <1> USE DEF IInv
  <1>1. /\ UNCHANGED <<shard, data, tracker>> /\ phase' = "training" /\ step' = tracker
        /\ saved' = [m \in Models |-> <<>>] /\ doomed' = {}
        /\ stage' = [r \in Ranks |-> "idle"] /\ tail' = [r \in Ranks |-> "none"]
        /\ run' = run + 1 /\ run < MaxRuns
    BY RestartResumes DEF Restart, FreshManagers
  <1>2. run' \in 1..MaxRuns /\ step' \in 0..(TotalSteps + run' - 1)
        /\ tracker < TotalSteps + run
    BY <1>1, Basics DEF StepInv
  <1>3. TypeOK'
    <2>1. ManagerTypeOK' BY <1>1 DEF TypeOK, ManagerTypeOK, Stages
    <2> QED BY <2>1, <1>1, <1>2 DEF TypeOK, Phases, Tails
  <1>4. StepInv' BY <1>1, <1>2, Basics DEF StepInv
  <1>5. StageInv' /\ TailInv' /\ AlwaysResumes' /\ DoomedInv'
    BY <1>1 DEF StageInv, TailInv, AlwaysResumes, DoomedInv
  <1>6. SavedInv'
    <2>1. saved'[TheModel] = <<>> BY <1>1, Basics
    <2> QED BY <2>1 DEF SavedInv
  <1>7. NamedIsWhole' BY <1>1 DEF NamedIsWhole, Whole
  <1> QED BY <1>3, <1>4, <1>5, <1>6, <1>7

\* What the ranks do in the manager's save.
LEMMA RanksSaveKeeps ==
    ASSUME IInv, ByItself, RanksSave
    PROVE  IInv'
  <1>1. phase = "saving" BY DEF RanksSave
  <1>2. CASE RankStep(TheModel, step) /\ UNCHANGED jobVars
    BY <1>1, <1>2, BeginRotationKeeps, RemoveKeeps, BarrierKeeps, ShardKeeps DEF RankStep
  <1>3. CASE EndRotation(TheModel) /\ UNCHANGED jobVars
    BY <1>1, <1>3, BarrierKeeps
  <1>4. CASE \E s \in Steps, r \in Ranks : RemoveData(s, r)
    BY <1>1, <1>4, RemoveKeeps
  <1> QED BY <1>2, <1>3, <1>4 DEF RanksSave

-----------------------------------------------------------------------------
(* The invariant of saving and resuming: every step of a rank, of the job  *)
(* and of the environment preserves it.                                    *)
THEOREM SFTInvariant ==
    ASSUME ByItself
    PROVE  Spec => []IInv
  <1>1. IInv /\ [Next]_vars => IInv'
    <2> SUFFICES ASSUME IInv, [Next]_vars PROVE IInv'
      OBVIOUS
    <2>1. CASE TailStep
      BY <2>1, DataKeeps, RenameKeeps DEF TailStep
    <2>2. CASE UNCHANGED vars
      BY <2>2 DEF vars, managerVars, jobVars, IInv, TypeOK, ManagerTypeOK, StepInv,
                  StageInv, DoomedInv, SavedInv, TailInv, NamedIsWhole,
                  AlwaysResumes, Whole
    <2> QED BY <2>1, <2>2, TrainKeeps, RanksSaveKeeps, ManagerReturnsKeeps,
                EndSaveKeeps, CrashKeeps, RestartKeeps
            DEF Next
  <1>2. Init => IInv BY InitInvariant
  <1> QED BY <1>1, <1>2, PTL DEF Spec

(* Whatever the crashes, what the tracker names is complete on disk.       *)
THEOREM TrackedIsWhole ==
    ASSUME ByItself
    PROVE  Spec => []NamedIsWhole
  <1>1. IInv => NamedIsWhole BY DEF IInv
  <1> QED BY <1>1, SFTInvariant, PTL

(* However often and wherever the job dies, it can be started again.       *)
THEOREM CanAlwaysResume ==
    ASSUME ByItself
    PROVE  Spec => []AlwaysResumes
  <1>1. IInv => AlwaysResumes BY DEF IInv
  <1> QED BY <1>1, SFTInvariant, PTL

(* The trainer goes through its steps one by one and, whenever it is       *)
(* started again, goes on from the step the tracker names.                 *)
THEOREM SFTIsResumableJob ==
    ASSUME ByItself
    PROVE  Spec => ImplementsResumableJob
  <1>1. Init => Job!Init
    BY DEF Init, Job!Init, Running, NoFile
  <1>2. IInv /\ [Next]_vars => [Job!Next]_(Job!jobVars)
    <2> SUFFICES ASSUME IInv, [Next]_vars PROVE [Job!Next]_(Job!jobVars)
      OBVIOUS
    <2> USE DEF Job!Next, Job!jobVars
    <2>1. CASE TrainStep \/ TrainAndSave
      BY <2>1 DEF TrainStep, TrainAndSave, Job!Work, Running
    <2>2. CASE NoMoreData \/ Crash
      BY <2>2 DEF NoMoreData, Crash, Job!Stop, Running
    <2>3. CASE RanksSave
      BY <2>3 DEF RanksSave, RemoveData, jobVars
    <2>4. CASE ManagerReturns
      BY <2>4 DEF ManagerReturns, Running
    <2>5. CASE TailStep
      BY <2>5 DEF TailStep, BeginData, EndData, RenameTracker, Job!Commit, Running
    <2>6. CASE EndSave
      BY <2>6 DEF EndSave, Job!Stop, Running
    <2>7. CASE Restart
      <3>1. phase \notin Running BY <2>7 DEF Restart, Running
      <3> QED BY <2>7, <3>1, RestartResumes DEF Job!Resume, Running
    <2>8. CASE UNCHANGED vars
      BY <2>8 DEF vars, jobVars
    <2> QED BY <2>1, <2>2, <2>3, <2>4, <2>5, <2>6, <2>7, <2>8 DEF Next
  <1> QED BY <1>1, <1>2, SFTInvariant, PTL DEF Spec, ImplementsResumableJob, Job!Spec
=============================================================================
