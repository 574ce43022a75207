\* The GC area begins at address 0, as init_storage places it.
SPECIFICATION Spec
CONSTANTS
    idX = idX
    idY = idY
    valA = valA
    valB = valB
    Blank = Blank
    Mixed = Mixed
    Ids <- MCIds
    Vals <- MCVals
    Files <- MCFiles
    NPages = 2
    GPages = 1
    PageLen = 7
    HdrLen = 1
    WriteIds <- MCIds
    PartIds <- Nobody
    PartLen = 1
    Interleave = FALSE
    BlockLen = 7
    KeyInGc = TRUE
    CrashPcs <- Idle
    FaultPcs <- Never
    FaultBound = 0
PROPERTY
    RestartKeepsFiles
