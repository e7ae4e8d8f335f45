SPECIFICATION FairSpec
CONSTANTS
    slow = slow
    fast = fast
    mu = mu
    el = el
    NumSegments = 3
    SegmentDt <- UniformDt
    SStop <- UniformSStop
    StepsBefore <- UniformSteps
    Containers <- TwoBeams
    Root <- TwoRoots
    Speed <- TwoSpeeds
    Loaded <- TwoBeams
    Windowed <- NoBeams
    EmitEnd <- NoFunction
    Inventory <- NoBeams
    EmitDt <- NoFunction
    Daughter <- NoFunction
    StartTime = 0
    StartPos = 0
    LatticeEnd = 17
    ApertureLosses = TRUE
    CheckpointFreq = 2
    MaxCrashes = 2
INVARIANTS
    TypeOK
    MaxStepsHonoured
    LostWorkBounded
    ClockOrdersSteps
    FrozenNearStop
    CheckpointResumable
    ResumeKeepsPopulatedActivity
PROPERTIES
    FrozenAtStop
    Termination
    WalksTheSchedule
CHECK_DEADLOCK FALSE
