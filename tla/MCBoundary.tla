----------------------------- MODULE MCBoundary -----------------------------
(* Instances of BoundaryStepping for TLC.                                    *)
EXTENDS BoundaryStepping

Element(a, b) == [begin |-> a, end |-> b]

\* Two rings of circumference 300: a short magnet, whose length limits the
\* step, and two long ones, whose edges are found by trial.
ShortMagnet == {Element(100, 116)}
LongMagnets == {Element(10, 150), Element(170, 300)}
TwoRings    == {ShortMagnet, LongMagnets}

\* The reference with any of these particles, which are on different ranks.
SomeBunches == SUBSET {-41, -7, 9, 30}

\* One segment for two turns; its stop is never looked at, its budget is the
\* one TrackRun computes.
ByTurns == [segments |-> <<[dt |-> 32, stop |-> 0, steps |-> 120]>>, turns |-> 2]

\* Two segments for a run by path length.
ByPath(stop) ==
    [segments |-> <<[dt |-> 32, stop |-> stop, steps |-> 6],
                    [dt |-> 16, stop |-> 250, steps |-> 8]>>, turns |-> 0]

AllCommands == {ByTurns, ByPath(110), ByPath(135)}
=============================================================================
