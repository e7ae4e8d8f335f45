------------------------------- MODULE MCOutput -------------------------------
(* Instances of TrackerOutput for TLC: two beams loaded before tracking starts, *)
(* which reach the stop of a segment in the same step.                          *)
EXTENDS TrackerOutput, TLC

CONSTANTS slow, fast

NoBeams == {}
NoFunction == [c \in {} |-> 0]

TwoBeams   == {slow, fast}
TwoRoots   == [c \in TwoBeams |-> c]
SameSpeeds == (slow :> 2) @@ (fast :> 2)

\* Two segments, the second with a smaller time step: a checkpoint in the last step
\* of the first is refused by a restart, which has rewound the files by then.
ShrinkingDt    == (0 :> 2) @@ (1 :> 1)
ShrinkingSStop == (0 :> 16) @@ (1 :> 24)
TwoBudgets     == (0 :> 0) @@ (1 :> 6) @@ (2 :> 11)
=============================================================================
