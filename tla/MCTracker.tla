------------------------------ MODULE MCTracker ------------------------------
(* Instances of ParallelTracker for TLC: each .cfg picks one schedule and    *)
(* one set of beams from the definitions below.                             *)
EXTENDS ParallelTracker, TLC

CONSTANTS slow, fast,   \* two independent beams
          mu, el        \* a decaying beam and the beam of its decay products

NoBeams == {}
NoFunction == [c \in {} |-> 0]

\* Two beams of different speed, both loaded before tracking starts.
TwoBeams      == {slow, fast}
TwoRoots      == [c \in TwoBeams |-> c]
TwoSpeeds     == (slow :> 1) @@ (fast :> 2)

\* A slow decaying beam, its daughter beam, and an emitted fast beam.
DecayBeams    == {mu, el, fast}
DecayRoots    == (mu :> mu) @@ (el :> mu) @@ (fast :> fast)
DecaySpeeds   == (mu :> 2) @@ (el :> 2) @@ (fast :> 1)
DecayProducts == mu :> el
DecayLoaded   == {mu}
EarlyStart    == -2
FastEmits     == {fast}
FastEmitEnd   == fast :> 0
FastEmitDt    == fast :> 1

\* Three segments of equal step size; the slow beam exhausts the second one.
UniformDt    == [i \in 0 .. 2 |-> 2]
UniformSStop == (0 :> 8) @@ (1 :> 19) @@ (2 :> 27)
UniformSteps == (0 :> 0) @@ (1 :> 5) @@ (2 :> 8) @@ (3 :> 13)

\* Two segments, the second with a larger time step.
GrowingDt    == (0 :> 1) @@ (1 :> 2)
GrowingSStop == (0 :> 4) @@ (1 :> 8)
TwoBudgets   == (0 :> 0) @@ (1 :> 5) @@ (2 :> 9)
=============================================================================
