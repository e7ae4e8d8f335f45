SPECIFICATION FairSpec
CONSTANTS
    Statements <- AllStatements
    Programs <- AllPrograms
    Files <- CalledFiles
    Cap = 6
INVARIANTS
    TypeOK
    ReadsCurrent
    UpdateRefreshes
PROPERTIES
    StopIsExact
    Terminates
CHECK_DEADLOCK FALSE
