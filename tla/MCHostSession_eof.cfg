SPECIFICATION FairSpec
CONSTANTS
    Calls = {c1}
    MaxRound = 1
    MaxSent = 1
    MayClose = TRUE
PROPERTIES
    Exits
CHECK_DEADLOCK FALSE
