SPECIFICATION Spec
CONSTANTS
    gun = gun
    halo = halo
    NumRanks = 3
    Containers = {gun, halo}
    Capacity <- ThreeCapacity
    NumSources = 3
    Feeds <- ThreeFeeds
    Profiled <- Third
    T0 <- ThreeT0
    PulseTimes <- TwoPulses
    Requested <- TwoRequested
    EmissionStepsOf <- EqualSteps
    Window <- ThirdWindow
    TotalN <- ThirdTotal
    TrackDts = {3}
    Horizon = 6
INVARIANTS
    EachBirthOnce
    StorageRespected
    StepEmitsItsBirths
PROPERTY BornInTheirStep
CHECK_DEADLOCK FALSE
