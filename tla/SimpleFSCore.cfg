\* The shape of the CONFIG folder, a serial host that sends all parts of a file,
\* clean restarts.
SPECIFICATION FairSpec
CONSTANTS
    idX = idX
    idY = idY
    valA = valA
    valB = valB
    Blank = Blank
    Mixed = Mixed
    Ids <- MCIds
    Vals <- MCVals
    Files <- MCFiles
    NPages = 2
    GPages = 1
    PageLen = 7
    HdrLen = 1
    WriteIds <- MCIds
    PartIds <- OnlyX
    PartLen = 1
    Interleave = FALSE
    BlockLen = 7
    KeyInGc = FALSE
    CrashPcs <- Idle
    FaultPcs <- Never
    FaultBound = 0
INVARIANTS
    TypeOK
    PageLayout
    NoStrayWrite
    OneVersion
    NoHiddenFile
PROPERTIES
    LastWrittenIsFound
    FlashOnlyClears
    ImplementsFileStore
    EveryCallEnds
    PartsAreContinued
    SentIsRead
    RefusedOnlyWhenFull
