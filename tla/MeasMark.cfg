\* Power fails between the UNREAD mark and the last part; the tool repeats nothing.
SPECIFICATION Spec
CONSTANTS
    valA = valA
    valB = valB
    Blank = Blank
    Mixed = Mixed
    None = None
    Vals <- MCVals
    Files <- MCFiles
    NSlots = 4
    NMeta = 5
    MeasLen = 2
    WritePart = 1
    ReadPart = 1
    ReadBlind = TRUE
    HostRepeats = FALSE
    CrashPcs <- Last
    CrashLate = FALSE
INVARIANT
    UnreadIsWritten
