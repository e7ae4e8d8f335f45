SPECIFICATION Spec
CONSTANTS
    slow = slow
    fast = fast
    mu = mu
    el = el
    NumSegments = 2
    SegmentDt <- GrowingDt
    SStop <- GrowingSStop
    StepsBefore <- TwoBudgets
    Containers <- DecayBeams
    Root <- DecayRoots
    Speed <- DecaySpeeds
    Loaded <- DecayLoaded
    Windowed <- FastEmits
    EmitEnd <- FastEmitEnd
    Inventory <- FastEmits
    EmitDt <- FastEmitDt
    Daughter <- DecayProducts
    StartTime <- EarlyStart
    StartPos = 0
    LatticeEnd = 14
    ApertureLosses = TRUE
    CheckpointFreq = 3
    MaxCrashes = 1
INVARIANT ActivityPartition
CHECK_DEADLOCK FALSE
