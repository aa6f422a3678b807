SPECIFICATION FairSpec
CONSTANTS
    Calls = {c1, c2}
    MaxRound = 2
    MaxSent = 3
    MayClose = TRUE
INVARIANTS
    
    CallsSettled
PROPERTIES
    Settles
CHECK_DEADLOCK FALSE
