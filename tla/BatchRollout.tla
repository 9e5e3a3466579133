---------------------------- MODULE BatchRollout ----------------------------
(***************************************************************************)
(* What one call of generate_sequences promises its caller, the trainer,   *)
(* and nothing about how it is done: every prompt of the batch gets        *)
(* exactly one row; a row is either a finished trajectory or padding;      *)
(* padding appears only once enough trajectories are finished; a batch     *)
(* with an unfinished or failed row is never delivered, and an exception   *)
(* reaches the trainer only when a trajectory failed, or when a row was    *)
(* given up for which no padding can be made.                              *)
(***************************************************************************)
EXTENDS Integers, FiniteSets

CONSTANTS
    Reqs,       \* the prompts of the batch
    Quota,      \* finished trajectories before the rest may be given up
    Fixed       \* the prompts whose row cannot be padding

VARIABLES
    slot,       \* [Reqs -> {"open", "completed", "padded", "failed"}]
    outcome     \* "running", "delivered" or "raised"

vars == <<slot, outcome>>

InSlot(s) == {r \in Reqs : slot[r] = s}

Init ==
    /\ slot = [r \in Reqs |-> "open"]
    /\ outcome = "running"

Close(r, s) ==
    /\ outcome = "running"
    /\ slot[r] = "open"
    /\ slot' = [slot EXCEPT ![r] = s]
    /\ UNCHANGED outcome

Complete(r) == Close(r, "completed")

Fail(r) == Close(r, "failed")

\* Giving a trajectory up needs a reason: enough others finished, or one failed.
Pad(r) ==
    /\ Cardinality(InSlot("completed")) >= Quota \/ InSlot("failed") # {}
    /\ Close(r, "padded")

Deliver ==
    /\ outcome = "running"
    /\ InSlot("completed") \cup InSlot("padded") = Reqs
    /\ InSlot("padded") \cap Fixed = {}
    /\ outcome' = "delivered"
    /\ UNCHANGED slot

Raise ==
    /\ outcome = "running"
    /\ InSlot("failed") # {} \/ InSlot("padded") \cap Fixed # {}
    /\ outcome' = "raised"
    /\ UNCHANGED slot

Next ==
    \/ \E r \in Reqs : Complete(r) \/ Fail(r) \/ Pad(r)
    \/ Deliver
    \/ Raise

Spec == Init /\ [][Next]_vars
=============================================================================
