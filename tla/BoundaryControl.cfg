SPECIFICATION Spec
CONSTANTS
    MaxDepth = 5
    MaxTrials = 36
    TimeFloor = 1
    Circumference = 300
    Tolerance = 2
    Commands <- AllCommands
    Lattices <- TwoRings
    Bunches <- SomeBunches
INVARIANTS
    TypeOK
    TilesTheStep
    ClockFollowsBeam
    NoElementSkipped
    CountersFollowPath
PROPERTIES
    ObservedOnce
CHECK_DEADLOCK FALSE
