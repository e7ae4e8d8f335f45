SPECIFICATION FairSpec
CONSTANTS
    r0 = r0
    r1 = r1
    r2 = r2
    Ranks <- ThreeRanks
    Zero = r0
    Faults <- AllFaults
    MaxWrites = 2
    MaxFailures = 3
    MaxCrashes = 1
INVARIANTS
    TypeOK
    PublishedComplete
    WritesOwnFile
PROPERTIES
    ReplacesAtomically
    AllWritten
CHECK_DEADLOCK FALSE
