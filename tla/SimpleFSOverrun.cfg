\* A GC area of several pages, as the LOG folder has it (4K pages, 64K area).
SPECIFICATION Spec
CONSTANTS
    idX = idX
    idY = idY
    valA = valA
    valB = valB
    Blank = Blank
    Mixed = Mixed
    Ids <- MCIds
    Vals <- MCVals
    Files <- MCFiles
    NPages = 3
    GPages = 3
    PageLen = 7
    HdrLen = 1
    WriteIds <- MCIds
    PartIds <- Nobody
    PartLen = 1
    Interleave = FALSE
    BlockLen = 7
    KeyInGc = FALSE
    CrashPcs <- Never
    FaultPcs <- Never
    FaultBound = 0
INVARIANT
    NoStrayWrite
