------------------------------ MODULE Throttle ------------------------------
(***************************************************************************)
(* What the rate limiter of the tools promises to the calls it admits: a   *)
(* limit that is fixed once and for all, and never more calls between      *)
(* their admission and their departure than that limit.  How the calls     *)
(* queue, who wakes whom and which messages are in flight is left to       *)
(* RateLimiter, which implements this specification.                       *)
(***************************************************************************)
EXTENDS Integers, FiniteSets

CONSTANTS Calls,      \* the calls the tools make
          Throttled   \* those of them that must be admitted

VARIABLES limit,      \* how many calls may be inside at once; 0 until it is set
          stage       \* where each call is

Stages == {"outside", "inside", "gone"}

Inside == {c \in Throttled : stage[c] = "inside"}

Init == /\ limit = 0
        /\ stage = [c \in Calls |-> "outside"]

(* The limit is set once. *)
SetLimit == /\ limit = 0
            /\ limit' \in Nat \ {0}
            /\ UNCHANGED stage

(* A throttled call is admitted while there is room for one more. *)
Admit(c) == /\ c \in Throttled
            /\ stage[c] = "outside"
            /\ Cardinality(Inside) < limit
            /\ stage' = [stage EXCEPT ![c] = "inside"]
            /\ UNCHANGED limit

Depart(c) == /\ stage[c] = "inside"
             /\ stage' = [stage EXCEPT ![c] = "gone"]
             /\ UNCHANGED limit

(* Any other call comes and goes as it likes. *)
PassBy(c) == /\ c \notin Throttled
             /\ stage[c] # "gone"
             /\ stage' \in {[stage EXCEPT ![c] = "inside"], [stage EXCEPT ![c] = "gone"]}
             /\ UNCHANGED limit

Next == SetLimit \/ \E c \in Calls : Admit(c) \/ Depart(c) \/ PassBy(c)

Spec == Init /\ [][Next]_<<limit, stage>>
=============================================================================
