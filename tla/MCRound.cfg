SPECIFICATION RoundSpec
CONSTANTS
    Config = {"ToolSearch", "EnterPlanMode", "ExitPlanMode"}
    Grants = {"Edit"}
    Always = {"Edit"}
    Obedient = TRUE
    MaxCalls = 2
    MaxRounds = 3
    MaxGiven = 4
    n1 = n1
    n2 = n2
    Configured = {"lint", "log", "bye"}
    FromSkills = {"skill_pre"}
    EventOf <- Events
    MaxRuns = 2
    MaxOutput = 2
    ChildTools = {"Read", "Write"}
    ParentTools = {"lookup"}
    MaxSubAgents = 2
    MaxTurns = 1
    MaxSpawns = 2
    SkillNames = {n1, n2}
    None = None
    Sources <- Order
    Fixed = {"bundled"}
    Links <- Linked
    MaxChanges = 2
    MaxResets = 1
    Prompt = 2
    SummaryPrompt = 2
    Windows <- WindowsOf
    RealWindows <- RealOf
    Percentages <- PercentagesOf
    NoPercentage = NoPercentage
    RequestedOutput = 3
    MinOutput = 1
    OutputReserve = 2
    AutocompactBuffer = 2
    EmergencyBuffers <- BuffersOf
    MaxFailures = 2
    MaxRetries = 2
    MaxMessages = 4
    MaxInputs = 3
INVARIANTS
    RoundTypeOK
    ResultsMatch
    RunsAllowed
    
    RequestsFaithful
    CallsWhole
    
    NothingLeftBehind
    HooksInCharge
    SettledRight
    SkillsFollow
    
    SizeInHand
CHECK_DEADLOCK FALSE
