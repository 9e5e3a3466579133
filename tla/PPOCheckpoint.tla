---------------------------- MODULE PPOCheckpoint ----------------------------
(***************************************************************************)
(* Saving and resuming of RayPPOTrainer (verl/trainer/ppo/ray_trainer.py). *)
(* The driver has the workers save the actor and then the critic, writes   *)
(* the dataloader's state and, last, rewrites latest_checkpointed_         *)
(* iteration.txt, which names the checkpoint a restarted job resumes from. *)
(* The job may crash at any point and is then started again with           *)
(* resume_mode "auto".                                                     *)
(***************************************************************************)
EXTENDS CheckpointManager

CONSTANTS
    Order,       \* the models in the order they are saved: actor, critic
    SaveFreq,    \* trainer.save_freq
    TotalSteps,  \* total_training_steps
    MaxRuns      \* how often the job is started (a bound of the model)

ASSUME TrainerAssumption ==
    /\ Order \in Seq(Models) /\ Len(Order) > 0
    /\ \A m \in Models : \E i \in 1..Len(Order) : Order[i] = m
    /\ \A i, j \in 1..Len(Order) : Order[i] = Order[j] => i = j
    /\ SaveFreq \in Nat \ {0} /\ TotalSteps \in Nat \ {0} /\ MaxRuns \in Nat \ {0}
    /\ TotalSteps + MaxRuns <= LastStep

VARIABLES
    phase,     \* where the driver is
    model,     \* the index in Order of the model being saved
    step,      \* global_steps
    run,       \* how often the job was started
    data,      \* the state of data.pt of each step
    tracker    \* what the tracker file says: a step, NoFile or Torn

driverVars == <<phase, model, step, run, data, tracker>>
vars == <<managerVars, driverVars>>

NoFile == 0
Torn == -1

Phases == {"training", "saving", "data", "writingData", "tracking", "writingTracker",
           "down", "finished", "failed"}

Init ==
    /\ ManagerInit
    /\ phase = "training" /\ model = 1 /\ step = 1 /\ run = 1
    /\ data = [s \in Steps |-> "absent"]
    /\ tracker = NoFile

(* The end of a turn of the training loop. *)
Advance ==
    /\ phase' = IF step >= TotalSteps THEN "finished" ELSE "training"
    /\ step' = step + 1

(* A checkpoint is due at the last step and at multiples of save_freq; it  *)
(* may be saved at any other step, when the instance is about to expire.   *)
SaveDue == step >= TotalSteps \/ step % SaveFreq = 0

TrainStep ==
    /\ phase = "training" /\ ~SaveDue
    /\ Advance
    /\ UNCHANGED <<managerVars, model, run, data, tracker>>

TrainAndSave ==
    /\ phase = "training"
    /\ phase' = "saving" /\ model' = 1
    /\ CallSave
    /\ UNCHANGED <<shard, saved, doomed, step, run, data, tracker>>

(* A job resumed at its end goes through what is left of the data, if any. *)
NoMoreData ==
    /\ phase = "training" /\ step > TotalSteps
    /\ phase' = "finished"
    /\ UNCHANGED <<managerVars, model, step, run, data, tracker>>

(* The workers save the current model; the driver waits for all of them. *)
WorkersSave ==
    /\ phase = "saving"
    /\ SaveStep(Order[model], step)
    /\ UNCHANGED driverVars

ModelSaved ==
    /\ phase = "saving" /\ Written
    /\ RecordSave(Order[model], step)
    /\ IF model < Len(Order)
       THEN model' = model + 1 /\ MoveAll("called") /\ UNCHANGED phase
       ELSE phase' = "data" /\ MoveAll("idle") /\ UNCHANGED model
    /\ UNCHANGED <<shard, doomed, step, run, data, tracker>>

(* torch.save of the dataloader's state. *)
BeginData ==
    /\ phase = "data"
    /\ phase' = "writingData"
    /\ data' = [data EXCEPT ![step] = "torn"]
    /\ UNCHANGED <<managerVars, model, step, run, tracker>>

EndData ==
    /\ phase = "writingData"
    /\ phase' = "tracking"
    /\ data' = [data EXCEPT ![step] = "whole"]
    /\ UNCHANGED <<managerVars, model, step, run, tracker>>

(* open(..., "w") empties the tracker, and the write fills it. *)
BeginTracker ==
    /\ phase = "tracking"
    /\ phase' = "writingTracker"
    /\ tracker' = Torn
    /\ UNCHANGED <<managerVars, model, step, run, data>>

EndTracker ==
    /\ phase = "writingTracker"
    /\ tracker' = step
    /\ Advance
    /\ UNCHANGED <<managerVars, model, run, data>>

(* The job dies: every process of it, at any point. *)
Crash ==
    /\ phase \notin {"down", "finished", "failed"}
    /\ phase' = "down"
    /\ UNCHANGED <<managerVars, model, step, run, data, tracker>>

(* What _load_checkpoint finds: nothing to resume from, or a checkpoint    *)
(* whose files can all be read.  A missing data.pt is only warned about.   *)
Loadable(s) == (\A m \in Models : Whole(m, s)) /\ data[s] # "torn"

(* global_steps is the step of the checkpoint and then one more, and two   *)
(* slips: the increment is forgotten, and made twice.                      *)
ResumeAtSaved(s) == s
ResumeAt(s) == s + 1

(* A job that crashed or finished is started again. *)
Restart ==
    /\ phase \in {"down", "finished", "failed"} /\ run < MaxRuns
    /\ run' = run + 1
    /\ FreshManagers /\ model' = 1
    /\ \/ /\ tracker = NoFile
          /\ phase' = "training" /\ step' = 1
       \/ /\ tracker \in Steps /\ Loadable(tracker)
          /\ phase' = "training" /\ step' = ResumeAt(tracker)
       \/ /\ tracker = Torn \/ (tracker \in Steps /\ ~Loadable(tracker))
          /\ phase' = "failed" /\ UNCHANGED step
    /\ UNCHANGED <<shard, data, tracker>>

Next == \/ TrainStep \/ TrainAndSave \/ NoMoreData \/ WorkersSave \/ ModelSaved
        \/ BeginData \/ EndData \/ BeginTracker \/ EndTracker
        \/ Crash \/ Restart

(* The processes of a running job make progress; a crash need not happen,  *)
(* and nobody need start the job again.                                    *)
Fairness == /\ WF_vars(TrainStep) /\ WF_vars(TrainAndSave) /\ WF_vars(NoMoreData)
            /\ WF_vars(WorkersSave) /\ WF_vars(ModelSaved)
            /\ WF_vars(BeginData) /\ WF_vars(EndData)
            /\ WF_vars(BeginTracker) /\ WF_vars(EndTracker)

Spec == Init /\ [][Next]_vars
FairSpec == Spec /\ Fairness
-----------------------------------------------------------------------------
TypeOK ==
    /\ ManagerTypeOK
    /\ phase \in Phases
    /\ model \in 1..Len(Order)
    /\ run \in 1..MaxRuns
    /\ step \in 1..(TotalSteps + run)
    /\ data \in [Steps -> FileStates]
    /\ tracker \in Steps \cup {NoFile, Torn}

(* Whenever the tracker names a step, every rank's part of every model and *)
(* the dataloader's state of that step are on disk and complete, so that a *)
(* crash at this very point can be resumed from.                           *)
NamedIsWhole ==
    tracker \in Steps => (\A m \in Models : Whole(m, tracker)) /\ data[tracker] = "whole"

(* A job that was started again and could not resume was stopped while it  *)
(* rewrote the tracker, and at no other point.                             *)
FailsOnlyForTracker == phase = "failed" => tracker = Torn

(* "resume from last checkpoint if available" (resume_mode "auto"): being  *)
(* started again never fails.                                              *)
RestartNeverFails == phase # "failed"

OnDisk(m) == {s \in Steps : \E r \in Ranks : shard[m][s][r] # "absent"}

(* The disk holds no more checkpoints of a model than its managers were    *)
(* told to keep, the one being written or removed included.                *)
DiskIsBounded == \A m \in Models : Keep[m] > 0 => Cardinality(OnDisk(m)) <= run * Keep[m]

(* A save that begins ends, and the training goes on, unless the job dies: *)
(* no rank is left alone at a barrier.                                     *)
SavesEnd == phase = "saving" ~> phase \in {"training", "finished", "down"}
=============================================================================
