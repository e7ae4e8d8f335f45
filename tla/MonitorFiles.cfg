CONSTANTS
    Ranks = {r1, r2}
    Particles = {p1, p2, p3}
    Period = 6
    Offsets <- OneAround
    FirstPassage = 2
    Steps = 10
    CheckpointFreq = 4
    MaxRestarts = 2
SPECIFICATION Spec
INVARIANTS
    FileFollowsRun
    RewindAccepted
    CrossingsInTheirSet
CHECK_DEADLOCK FALSE
