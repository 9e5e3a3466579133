--------------------------- MODULE MCPPOCheckpoint ---------------------------
(* Small instances of PPOCheckpoint for TLC.                               *)
EXTENDS PPOCheckpoint

CONSTANTS actor, critic

ActorFirst == <<actor, critic>>
KeepOne == [m \in Models |-> 1]
KeepTwo == [m \in Models |-> 2]
\* max_actor_ckpt_to_keep and max_critic_ckpt_to_keep are set separately.
KeepUnevenly == [m \in Models |-> IF m = actor THEN 2 ELSE 0]
=============================================================================
