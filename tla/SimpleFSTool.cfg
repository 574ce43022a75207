\* The host of the repository: it goes on after a refused part.
SPECIFICATION Spec
CONSTANTS
    idX = idX
    idY = idY
    valA = valA
    valB = valB
    Blank = Blank
    Mixed = Mixed
    Ids <- MCIds
    Vals <- MCVals
    Files <- MCFiles
    NPages = 2
    GPages = 1
    PageLen = 7
    HdrLen = 1
    WriteIds <- MCIds
    PartIds <- OnlyX
    PartLen = 1
    Interleave = FALSE
    BlockLen = 7
    KeyInGc = FALSE
    CrashPcs <- Never
    FaultPcs <- Never
    FaultBound = 0
PROPERTY
    MeantIsRead
