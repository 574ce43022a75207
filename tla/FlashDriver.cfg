\* Transfers given up in the calls of the file systems, power failures and
\* resets everywhere but in a format.
SPECIFICATION FairSpec
CONSTANTS
    valA = valA
    valB = valB
    Blank = Blank
    Mixed = Mixed
    Key = Key
    Vals <- MCVals
    Writes <- MCWrites
    Lens <- MCLens
    Size = 6
    ProgLen = 2
    PageLen = 2
    SectorLen = 4
    First = 3
    FaultIn <- Callers
    CrashIn <- NotFormat
    LatePcs <- NotBetween
INVARIANTS
    FlashTypeOK
    OwnResult
    WaitIsTimed
PROPERTIES
    NoCallIgnored
    BootIsRight
    ImplementsMemory
    EveryOpEnds
