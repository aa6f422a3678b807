SPECIFICATION FairSpec
CONSTANTS
    Inputs = {u1, u2}
    MaxRuns = 2
    MaxTurns = 2
    MaxContinuations = 2
    Hazards <- HostHazards
INVARIANTS
    RequestReplayable
PROPERTIES
    EventuallyHeard
    EveryRunEnds
CHECK_DEADLOCK FALSE
