--------------------------- MODULE MCAsyncRollout ---------------------------
(* Small instances of AsyncRollout for TLC.                                *)
EXTENDS AsyncRollout

CONSTANTS r1, r2, r3, t1, t2

AllTools == [r \in Reqs |-> Tools]
\* r3 was given one of the two tools the model may call.
PartialTools == [r \in Reqs |-> IF r = r3 THEN {t1} ELSE Tools]

ShortPrompts == [r \in Reqs |-> 2]
\* r1's prompt is longer than the context, which is only warned about.
LongPrompts == [r \in Reqs |-> IF r = r1 THEN MaxModelLen + 1 ELSE 2]

EveryoneInteracts == [r \in Reqs |-> "known"]
\* r2 names an interaction that is not in the map, r1 asks for none.
SomeInteract == [r \in Reqs |-> IF r = r1 THEN "none"
                                ELSE IF r = r2 THEN "missing" ELSE "known"]
=============================================================================
