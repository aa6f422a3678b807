SPECIFICATION FairSpec
CONSTANTS
    Decoders <- AllDecoders
    MaxStreamRetries = 2
    MaxConnectRetries = 1
    MaxServerRetries = 1
    MaxDeltas = 2
    Capacity = 1
INVARIANTS
    DeliveredRight
    RetriesCounted
PROPERTIES
    StreamEnds
CHECK_DEADLOCK FALSE
