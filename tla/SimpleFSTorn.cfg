\* A page takes three commands to erase, and power may fail between them.
SPECIFICATION Spec
CONSTANTS
    idX = idX
    idY = idY
    valA = valA
    valB = valB
    Blank = Blank
    Mixed = Mixed
    Ids <- MCIds
    Vals <- MCVals
    Files <- MCFiles
    NPages = 2
    GPages = 1
    PageLen = 7
    HdrLen = 1
    WriteIds <- MCIds
    PartIds <- Nobody
    PartLen = 1
    Interleave = FALSE
    BlockLen = 3
    KeyInGc = FALSE
    CrashPcs <- Collection
    FaultPcs <- Never
    FaultBound = 0
INVARIANT
    RoomIsBlank
