SPECIFICATION OutSpec
CONSTANTS
    slow = slow
    fast = fast
    NumSegments = 2
    SegmentDt <- ShrinkingDt
    SStop <- ShrinkingSStop
    StepsBefore <- TwoBudgets
    Containers <- TwoBeams
    Root <- TwoRoots
    Speed <- SameSpeeds
    Loaded <- TwoBeams
    Windowed <- NoBeams
    EmitEnd <- NoFunction
    Inventory <- NoBeams
    EmitDt <- NoFunction
    Daughter <- NoFunction
    StartTime = 0
    StartPos = 0
    LatticeEnd = 23
    ApertureLosses = TRUE
    CheckpointFreq = 2
    MaxCrashes = 2
    PsDumpFreq = 3
    StatDumpFreq = 3
INVARIANTS
    PhaseSpaceFollowsRun
    StatisticsNeverRepeat
CHECK_DEADLOCK FALSE
