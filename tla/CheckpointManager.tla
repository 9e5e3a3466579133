-------------------------- MODULE CheckpointManager --------------------------
(***************************************************************************)
(* FSDPCheckpointManager.save_checkpoint                                   *)
(* (verl/utils/checkpoint/fsdp_checkpoint_manager.py), which every rank    *)
(* runs: rank 0 rotates old checkpoints away, everybody meets at a         *)
(* barrier, writes its own shard, and meets again.  The trainers that call *)
(* it, and read back what it wrote, are PPOCheckpoint and SFTCheckpoint.   *)
(*                                                                         *)
(* A rank's model, optimizer and extra state are one file here, which is   *)
(* torn while any of the three is missing or being written.  What is on    *)
(* disk survives a crash of the job; saved, doomed and stage do not.       *)
(***************************************************************************)
EXTENDS Integers, Sequences, FiniteSets

CONSTANTS
    WorldSize,  \* the ranks are 0 .. WorldSize - 1
    Models,     \* the models of the job, each with a manager: actor and critic
    Keep,       \* max_ckpt_to_keep of each model, 0 for null
    LastStep    \* no step number goes beyond it (a bound of the model)

ASSUME ManagerAssumption ==
    /\ WorldSize \in Nat \ {0}
    /\ Keep \in [Models -> Nat]
    /\ LastStep \in Nat

VARIABLES
    shard,      \* the file of each model, step and rank: "absent", "torn" or "whole"
    saved,      \* previous_saved_paths of each model on rank 0, by step
    doomed,     \* the steps rank 0 is removing
    stage       \* where each rank is in save_checkpoint

managerVars == <<shard, saved, doomed, stage>>

Ranks == 0..(WorldSize - 1)
Steps == 1..LastStep
FileStates == {"absent", "torn", "whole"}
Stages == {"idle", "called", "removing", "arrived", "saving", "writing", "saved"}

ManagerTypeOK ==
    /\ shard \in [Models -> [Steps -> [Ranks -> FileStates]]]
    /\ saved \in [Models -> Seq(Steps)]
    /\ doomed \subseteq Steps
    /\ stage \in [Ranks -> Stages]

(* A process that has just started, over whatever is on disk. *)
FreshManagers ==
    /\ saved' = [m \in Models |-> <<>>]
    /\ doomed' = {}
    /\ stage' = [r \in Ranks |-> "idle"]

ManagerInit ==
    /\ shard = [m \in Models |-> [s \in Steps |-> [r \in Ranks |-> "absent"]]]
    /\ saved = [m \in Models |-> <<>>]
    /\ doomed = {}
    /\ stage = [r \in Ranks |-> "idle"]

AllAt(st) == \A r \in Ranks : stage[r] = st
MoveAll(st) == stage' = [r \in Ranks |-> st]
Move(r, st) == stage' = [stage EXCEPT ![r] = st]

Whole(m, s) == \A r \in Ranks : shard[m][s][r] = "whole"

(* keep_start: how many of the saved paths go, so that with the one about  *)
(* to be written max_ckpt_to_keep are left; and a slip by one.             *)
RotatedOneLess(m) == Len(saved[m]) - Keep[m]
RotatedOneMore(m) == Len(saved[m]) - Keep[m] + 2
Rotated(m) == Len(saved[m]) - Keep[m] + 1
Rotates(m) == Keep[m] > 0 /\ Len(saved[m]) >= Keep[m]

(* Every rank calls save_checkpoint. *)
CallSave == AllAt("idle") /\ MoveAll("called")

(* Rank 0 begins to remove old checkpoints; the others, and rank 0 when    *)
(* there is nothing to remove, make the directory and go to the barrier.   *)
BeginRotation(m) ==
    /\ stage[0] = "called" /\ Rotates(m)
    /\ doomed' = {saved[m][i] : i \in 1..Rotated(m)}
    /\ saved' = [saved EXCEPT ![m] = SubSeq(@, Rotated(m) + 1, Len(@))]
    /\ Move(0, "removing")
    /\ UNCHANGED shard

(* shutil.rmtree takes the files one by one, in any order. *)
RemoveFile(m, s, r) ==
    /\ stage[0] = "removing" /\ s \in doomed
    /\ shard[m][s][r] # "absent"
    /\ shard' = [shard EXCEPT ![m][s][r] = "absent"]
    /\ UNCHANGED <<saved, doomed, stage>>

Removed(m) == \A s \in doomed, r \in Ranks : shard[m][s][r] = "absent"

EndRotation(m) ==
    /\ stage[0] = "removing" /\ Removed(m)
    /\ doomed' = {}
    /\ Move(0, "arrived")
    /\ UNCHANGED <<shard, saved>>

(* Who has nothing to remove, and a slip: rank 0 goes to the barrier only  *)
(* from the rotation.                                                      *)
NotRankZero(m, r) == r # 0
NothingToRotate(m, r) == ~(r = 0 /\ Rotates(m))

Arrive(m, r) ==
    /\ stage[r] = "called" /\ NothingToRotate(m, r)
    /\ Move(r, "arrived")
    /\ UNCHANGED <<shard, saved, doomed>>

(* The first barrier. *)
PassBarrier ==
    /\ AllAt("arrived")
    /\ MoveAll("saving")
    /\ UNCHANGED <<shard, saved, doomed>>

BeginShard(m, s, r) ==
    /\ stage[r] = "saving"
    /\ shard' = [shard EXCEPT ![m][s][r] = "torn"]
    /\ Move(r, "writing")
    /\ UNCHANGED <<saved, doomed>>

EndShard(m, s, r) ==
    /\ stage[r] = "writing"
    /\ shard' = [shard EXCEPT ![m][s][r] = "whole"]
    /\ Move(r, "saved")
    /\ UNCHANGED <<saved, doomed>>

(* The second barrier; the path is recorded and save_checkpoint returns.   *)
(* A slip: rank 0, which drives what follows, does not wait there.         *)
WrittenByRankZero == stage[0] = "saved"
Written == AllAt("saved")
RecordSave(m, s) == saved' = [saved EXCEPT ![m] = Append(@, s)]

(* A step of one rank inside save_checkpoint of model m for step s, or the *)
(* barrier they meet at; all but the end of the removal, which also waits  *)
(* for what else the trainer has put into the removed directories.         *)
RankStep(m, s) ==
    \/ BeginRotation(m) \/ PassBarrier
    \/ \E q \in Steps, r \in Ranks : RemoveFile(m, q, r)
    \/ \E r \in Ranks : Arrive(m, r) \/ BeginShard(m, s, r) \/ EndShard(m, s, r)

SaveStep(m, s) == RankStep(m, s) \/ EndRotation(m)
=============================================================================
