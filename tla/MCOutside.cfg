SPECIFICATION OutsideSpec
CONSTANTS
    Ids = {i1, i2}
    Tasks = {t1, t2}
    Processes = {p, q}
    None = None
    Torn = Torn
    MaxSessions = 1
    MaxCreated = 2
    MaxVersion = 1
    MaxDeaths = 1
    Servers = {i1, i2}
    Offers <- OffersOf
    MaxCalls = 2
    MaxNotices = 1
SYMMETRY Symmetry
INVARIANTS
    SessionsLast
    SessionsMadeOnce
    AnswersMatch
    WaitsAnswered
CHECK_DEADLOCK FALSE
