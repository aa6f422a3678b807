SPECIFICATION Spec
CONSTANTS
    Inputs = {u1, u2, u3}
    MaxRuns = 2
    MaxTurns = 2
    MaxContinuations = 2
    Hazards <- AllHazards
SYMMETRY InputSymmetry
INVARIANTS
    RunBounded
    NothingLost
    HeardOnceInOrder
    FinalAnswersAll
PROPERTIES
    KeepsContract
CHECK_DEADLOCK FALSE
