---------------------------- MODULE ResumableJob ----------------------------
(***************************************************************************)
(* What saving and resuming promise whoever runs a training job that may   *)
(* die at any time: the job goes through its steps one by one, now and     *)
(* then makes the step it is at durable, and whenever it is started again  *)
(* it goes on from there, however often it died, and never fails to.       *)
(***************************************************************************)
EXTENDS Naturals

VARIABLES
    up,       \* whether the job runs
    step,     \* the steps it has gone through
    durable   \* the step it would go on from, 0 before the first save

jobVars == <<up, step, durable>>

Init == up = TRUE /\ step = 0 /\ durable = 0

Work == up /\ step' = step + 1 /\ UNCHANGED <<up, durable>>

Commit == up /\ durable' = step /\ UNCHANGED <<up, step>>

\* It has gone through all its steps, or dies.
Stop == up /\ up' = FALSE /\ UNCHANGED <<step, durable>>

Resume == ~up /\ up' = TRUE /\ step' = durable /\ UNCHANGED durable

Next == Work \/ Commit \/ Stop \/ Resume

Spec == Init /\ [][Next]_jobVars
=============================================================================
