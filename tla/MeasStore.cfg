\* Four allocations, entries for four files and the one that runs over.
SPECIFICATION Spec
CONSTANTS
    valA = valA
    valB = valB
    Blank = Blank
    Mixed = Mixed
    None = None
    Vals <- MCVals
    Files <- MCFiles
    NSlots = 4
    NMeta = 5
    MeasLen = 2
    WritePart = 1
    ReadPart = 1
    ReadBlind = TRUE
    HostRepeats = TRUE
    CrashPcs <- Careful
    CrashLate = FALSE
INVARIANTS
    MeasTypeOK
    LatestStoredFirstRound
    SpaceAhead
PROPERTIES
    
    RestartKeepsMeas
    ImplementsQueue
