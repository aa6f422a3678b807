SPECIFICATION Spec
CONSTANTS
    Inputs = {u1, u2}
    MaxRuns = 2
    MaxTurns = 2
    MaxContinuations = 1
    Hazards <- QuitHazard
INVARIANTS
    RequestReplayable
CHECK_DEADLOCK FALSE
