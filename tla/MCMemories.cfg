SPECIFICATION MemoriesSpec
CONSTANTS
    Files = {f1, f2, f3}
    NoFile = NoFile
    Sizes <- TwoAndOne
    MaxEntries = 2
    MaxBytes = 3
    MaxWrites = 3
    Hazards <- WithCompaction
    Writers = {"w1", "w2"}
    Names = {"Tea", "tea!", "cha"}
    Stem <- StemOf
    NoStem = "none"
    Bodies <- Remembered
    PromptLines = 2
    PromptBytes = 6
    HeaderLines = 3
    MaxClock = 3
SYMMETRY FileSymmetry
INVARIANTS
    MemoriesTypeOK
    UnchangedWasSeen
    EditsWhatItKnows
    
PROPERTIES
    NeverUnlearned
CHECK_DEADLOCK FALSE
