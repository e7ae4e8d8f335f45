CONSTANTS
    Elements = {e1, e2}
    Extents <- Supports
    Circumference = 8
    Period = 10
    NumSteps = 3
    FinalStop = 10
    Launches <- Fresh
    MaxBack = 8
SPECIFICATION Spec
INVARIANTS
    IndexFollowsPath
    EndOfLineIsPastStop
    RingReturnIsATurn
PROPERTY Terminates
CHECK_DEADLOCK FALSE
