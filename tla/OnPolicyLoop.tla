---------------------------- MODULE OnPolicyLoop ----------------------------
(***************************************************************************)
(* What the hybrid engine promises the PPO trainer (replica.py:41-44,      *)
(* "switch context with weight synchronization ... on-policy training"):   *)
(* a batch is sampled from the parameters the trainer has at that moment,  *)
(* and an update uses a batch sampled from the parameters it updates.      *)
(* A version of the parameters is a number; a batch is the set of versions *)
(* that contributed to it.  Where the promise has an excuse, excused holds *)
(* when the batch is sampled.                                              *)
(***************************************************************************)
EXTENDS Naturals

VARIABLES trained, batch, excused

loopVars == <<trained, batch>>

LoopInit == trained = 0 /\ batch = {}

\* A checkpoint replaces the parameters before anything was sampled.
Resume == /\ trained = 0 /\ batch = {}
          /\ trained' \in Nat
          /\ UNCHANGED batch

\* Another rollout of this step (REMAX makes two, a validation many).
Sample == /\ batch' = batch \cup {trained} \/ (excused /\ batch \subseteq batch')
          /\ UNCHANGED trained

\* A validation's batch, or that of a step that only warms the critic up.
Discard == batch' = {} /\ UNCHANGED trained

\* What was sampled before an update is of no use after it.
Learn == /\ batch # {}
         /\ trained' = trained + 1
         /\ batch' = {}

LoopNext == Resume \/ Sample \/ Discard \/ Learn

LoopSpec == LoopInit /\ [][LoopNext]_loopVars
=============================================================================
