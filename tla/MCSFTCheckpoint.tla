--------------------------- MODULE MCSFTCheckpoint ---------------------------
(* Small instances of SFTCheckpoint for TLC.                               *)
EXTENDS SFTCheckpoint

KeepAll == [m \in Models |-> 0]
KeepTwo == [m \in Models |-> 2]
=============================================================================
