CONSTANTS
    Ranks = {r1, r2}
    Particles = {p1, p2, p3}
    Offsets <- OneAround
    Period = 6
    FirstPassage = 2
    Steps = 10
    CheckpointFreq = 4
    MaxRestarts = 0
SPECIFICATION Spec
INVARIANT AllRanksParticipate
CHECK_DEADLOCK FALSE
