CONSTANTS
    Elements = {e1, e2}
    Extents <- Supports
    Circumference = 8
    Period = 10
    NumSteps = 3
    FinalStop = 10
    Launches <- RestartedRings
    MaxBack = 8
SPECIFICATION Spec
INVARIANT RingReturnIsATurn
CHECK_DEADLOCK FALSE
