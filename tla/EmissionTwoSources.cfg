SPECIFICATION Spec
CONSTANTS
    gun = gun
    halo = halo
    NumRanks = 1
    Containers = {gun, halo}
    Capacity <- PairCapacity
    NumSources = 2
    Feeds <- PairFeeds
    Profiled <- NoProfile
    T0 <- PairT0
    PulseTimes <- TwoPulses
    Requested <- TwoRequested
    EmissionStepsOf <- UnequalSteps
    Window <- NoFunction
    TotalN <- NoFunction
    TrackDts = {3}
    Horizon = 6
INVARIANT StepEmitsItsBirths
CHECK_DEADLOCK FALSE
