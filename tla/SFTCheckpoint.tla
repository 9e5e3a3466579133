---------------------------- MODULE SFTCheckpoint ----------------------------
(***************************************************************************)
(* Saving and resuming of the two SFT trainers.  FSDPSFTTrainer            *)
(* (verl/trainer/fsdp_sft_trainer.py) does it itself; SFTTrainer           *)
(* (verl/trainer/sft_trainer.py) through CheckpointHandler                 *)
(* (verl/utils/checkpoint/checkpoint_handler.py).  There is no driver: the *)
(* ranks run the same loop, meet at the barriers, and after the manager's  *)
(* save each goes on by itself until the barrier that ends it.  The job    *)
(* may crash at any point and is then started again, resume_mode "auto".   *)
(***************************************************************************)
EXTENDS CheckpointManager

CONSTANTS
    TheModel,     \* the only model
    ViaHandler,   \* whether this is SFTTrainer
    SourceRanks,  \* the ranks with is_mp_src_rank_with_outputs
    SaveFreq,     \* trainer.save_freq, 0 for -1
    TotalSteps,   \* total_training_steps
    MaxRuns       \* how often the job is started (a bound of the model)

ASSUME SFTAssumption ==
    /\ Models = {TheModel}
    /\ ViaHandler \in BOOLEAN
    /\ 0 \in SourceRanks /\ SourceRanks \subseteq Ranks
    /\ SaveFreq \in Nat /\ TotalSteps \in Nat \ {0} /\ MaxRuns \in Nat \ {0}
    /\ TotalSteps + MaxRuns <= LastStep

VARIABLES
    phase,     \* where the job is
    tail,      \* where each rank is after the manager's save
    step,      \* global_step
    run,       \* how often the job was started
    data,      \* the dataloader's state of each step, by the rank that writes it
    tracker    \* the step the tracker file names

jobVars == <<phase, tail, step, run, data, tracker>>
vars == <<managerVars, jobVars>>

NoFile == 0

Phases == {"training", "saving", "tail", "down", "finished", "failed"}
Running == {"training", "saving", "tail"}
Tails == {"none", "data", "writing", "tracking", "done"}

(* data.pt of rank 0, or data_{dp_rank}.pt of each source rank. *)
DataWriters == IF ViaHandler THEN SourceRanks ELSE {0}

Init ==
    /\ ManagerInit
    /\ phase = "training" /\ step = 0 /\ run = 1
    /\ tail = [r \in Ranks |-> "none"]
    /\ data = [s \in Steps |-> [r \in Ranks |-> "absent"]]
    /\ tracker = NoFile

SaveDue(s) == s >= TotalSteps \/ (SaveFreq > 0 /\ s % SaveFreq = 0)

TrainStep ==
    /\ phase = "training" /\ ~SaveDue(step + 1)
    /\ step' = step + 1
    /\ UNCHANGED <<managerVars, phase, tail, run, data, tracker>>

TrainAndSave ==
    /\ phase = "training" /\ SaveDue(step + 1)
    /\ step' = step + 1
    /\ phase' = "saving"
    /\ CallSave
    /\ UNCHANGED <<shard, saved, doomed, tail, run, data, tracker>>

(* The epochs are over, which may be before total_training_steps. *)
NoMoreData ==
    /\ phase = "training"
    /\ phase' = "finished"
    /\ UNCHANGED <<managerVars, tail, step, run, data, tracker>>

(* Rotation removes global_step_N with the dataloader's state in it. *)
RemoveData(s, r) ==
    /\ stage[0] = "removing" /\ s \in doomed
    /\ data[s][r] # "absent"
    /\ data' = [data EXCEPT ![s][r] = "absent"]
    /\ UNCHANGED <<managerVars, phase, tail, step, run, tracker>>

DataRemoved == \A s \in doomed, r \in Ranks : data[s][r] = "absent"

RanksSave ==
    /\ phase = "saving"
    /\ \/ RankStep(TheModel, step) /\ UNCHANGED jobVars
       \/ EndRotation(TheModel) /\ DataRemoved /\ UNCHANGED jobVars
       \/ \E s \in Steps, r \in Ranks : RemoveData(s, r)

(* Where a rank goes on after the manager's save; a slip: who has nothing  *)
(* to write does not come to the last barrier.                             *)
AfterSaveWritersOnly(r) == IF r \in DataWriters THEN "data" ELSE "none"
AfterSave(r) == IF r \in DataWriters THEN "data" ELSE "done"

ManagerReturns ==
    /\ phase = "saving" /\ Written
    /\ RecordSave(TheModel, step)
    /\ phase' = "tail" /\ MoveAll("idle")
    /\ tail' = [r \in Ranks |-> AfterSave(r)]
    /\ UNCHANGED <<shard, doomed, step, run, data, tracker>>

Go(r, to) == tail' = [tail EXCEPT ![r] = to]

(* torch.save of the dataloader's state. *)
BeginData(r) ==
    /\ phase = "tail" /\ tail[r] = "data"
    /\ data' = [data EXCEPT ![step][r] = "torn"]
    /\ Go(r, "writing")
    /\ UNCHANGED <<managerVars, phase, step, run, tracker>>

EndData(r) ==
    /\ phase = "tail" /\ tail[r] = "writing"
    /\ data' = [data EXCEPT ![step][r] = "whole"]
    /\ Go(r, IF r = 0 THEN "tracking" ELSE "done")
    /\ UNCHANGED <<managerVars, phase, step, run, tracker>>

(* Rank 0 may name the step; a slip: before it has written its data.       *)
MayTrackEarly == tail[0] \in {"data", "tracking"}
MayTrack == tail[0] = "tracking"

(* os.rename of the new tracker over the old one. *)
RenameTracker ==
    /\ phase = "tail" /\ MayTrack
    /\ tracker' = step
    /\ Go(0, "done")
    /\ UNCHANGED <<managerVars, phase, step, run, data>>

(* The last barrier, and the end of the turn of the loop. *)
EndSave ==
    /\ phase = "tail" /\ \A r \in Ranks : tail[r] = "done"
    /\ tail' = [r \in Ranks |-> "none"]
    /\ phase' = IF step >= TotalSteps THEN "finished" ELSE "training"
    /\ UNCHANGED <<managerVars, step, run, data, tracker>>

(* The job dies: every process of it, at any point. *)
Crash ==
    /\ phase \in Running
    /\ phase' = "down"
    /\ UNCHANGED <<managerVars, tail, step, run, data, tracker>>

(* What load_checkpoint finds: no tracker, no directory, or one whose      *)
(* files can all be read.  A missing dataloader state is only warned       *)
(* about.  A directory without files may be there or not.                  *)
NothingToResume ==
    tracker # NoFile =>
        \A r \in Ranks : shard[TheModel][tracker][r] = "absent" /\ data[tracker][r] = "absent"
Loadable(s) == Whole(TheModel, s) /\ \A r \in DataWriters : data[s][r] # "torn"

(* What fit starts from: SFTTrainer discards what load_checkpoint returns  *)
(* and its own resume_global_step stays 0.  Two slips of FSDPSFTTrainer:   *)
(* it does so as well, and it counts one more.                             *)
FitStartsAtZero(s) == 0
FitStartsOneFurther(s) == IF ViaHandler THEN 0 ELSE s + 1
FitStartsAt(s) == IF ViaHandler THEN 0 ELSE s

(* A job that crashed or ended is started again. *)
Restart ==
    /\ phase \in {"down", "finished", "failed"} /\ run < MaxRuns
    /\ run' = run + 1
    /\ FreshManagers
    /\ tail' = [r \in Ranks |-> "none"]
    /\ \/ /\ NothingToResume
          /\ phase' = "training" /\ step' = 0
       \/ /\ tracker # NoFile /\ Loadable(tracker)
          /\ phase' = "training" /\ step' = FitStartsAt(tracker)
       \/ /\ tracker # NoFile /\ ~Loadable(tracker)
          /\ phase' = "failed" /\ UNCHANGED step
    /\ UNCHANGED <<shard, data, tracker>>

TailStep == (\E r \in Ranks : BeginData(r) \/ EndData(r)) \/ RenameTracker

Next == \/ TrainStep \/ TrainAndSave \/ NoMoreData
        \/ RanksSave \/ ManagerReturns \/ TailStep \/ EndSave
        \/ Crash \/ Restart

(* The ranks of a running job make progress; a crash need not happen, and  *)
(* nobody need start the job again.                                        *)
Fairness == /\ WF_vars(TrainStep) /\ WF_vars(TrainAndSave)
            /\ WF_vars(RanksSave) /\ WF_vars(ManagerReturns)
            /\ WF_vars(TailStep) /\ WF_vars(EndSave)

Spec == Init /\ [][Next]_vars
FairSpec == Spec /\ Fairness
-----------------------------------------------------------------------------
TypeOK ==
    /\ ManagerTypeOK
    /\ phase \in Phases
    /\ tail \in [Ranks -> Tails]
    /\ run \in 1..MaxRuns
    /\ step \in 0..(TotalSteps + run - 1)
    /\ data \in [Steps -> [Ranks -> FileStates]]
    /\ tracker \in Steps \cup {NoFile}

(* Whenever the tracker names a step, every rank's shard and the           *)
(* dataloader's state of that step are on disk and complete, so that a     *)
(* crash at this very point can be resumed from.                           *)
NamedIsWhole ==
    tracker # NoFile => /\ Whole(TheModel, tracker)
                        /\ \A r \in DataWriters : data[tracker][r] = "whole"

(* The job can always be started again: as the tracker is renamed into     *)
(* place, it names at any moment a checkpoint that can be loaded, those    *)
(* that crashed runs left half written included.                           *)
AlwaysResumes == phase # "failed"

(* A save that begins ends, with the training going on, unless the job     *)
(* dies: the ranks that write nothing meet those that do.                  *)
SaveReturns == phase = "saving" ~> phase \in {"training", "finished", "down"}

(* The trainer is a job that goes on, whenever it is started again, from   *)
(* the last step it made durable: the tracker's.                           *)
Job == INSTANCE ResumableJob WITH up <- phase \in Running, durable <- tracker
ImplementsResumableJob == Job!Spec
=============================================================================
