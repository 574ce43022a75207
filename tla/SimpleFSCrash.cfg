\* Power failures at every step, files of one cell, one file to a page.
SPECIFICATION FairSpec
CONSTANTS
    idX = idX
    idY = idY
    valA = valA
    valB = valB
    Blank = Blank
    Mixed = Mixed
    Ids <- MCIds
    Vals <- MCVals
    Files <- OneFile
    NPages = 3
    GPages = 1
    PageLen = 5
    HdrLen = 1
    WriteIds <- OnlyY
    PartIds <- OnlyX
    PartLen = 1
    Interleave = FALSE
    BlockLen = 3
    KeyInGc = FALSE
    CrashPcs <- Everywhere
    FaultPcs <- Writing
    FaultBound = 2
INVARIANTS
    PageLayout
    OneVersion
    NoHiddenFile
PROPERTIES
    FlashOnlyClears
    ImplementsFileStore
    EveryCallEnds
