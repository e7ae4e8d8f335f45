----------------------------- MODULE MCCheckpoint -----------------------------
(* Instances of CheckpointFile for TLC: three ranks.                           *)
EXTENDS CheckpointFile

CONSTANTS r0, r1, r2

ThreeRanks == {r0, r1, r2}
AllFaults == FaultKinds
=============================================================================
