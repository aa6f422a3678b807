SPECIFICATION WatchedSpec
CONSTANTS
    Prints = {a, b}
    MaxChanges = 2
    MaxTurns = 10
    MalformedLimit = 3
    FailureLimit = 3
    AllErrorLimit = 6
    MaxPeriod = 3
    MaxRepetitions = 3
    AllErrorWarning = 3
    Calls = {a, b}
    NoCall = NoCall
    Histories <- Resumed
    Interleaved = FALSE
    MaxEntered = 2
    MaxDeltas = 3
    MaxQueue = 1
    MaxResizes = 1
SYMMETRY Symmetry
INVARIANTS
    WatchedTypeOK
    GuardsHold
    
    WaitIsPrompted
CHECK_DEADLOCK FALSE
