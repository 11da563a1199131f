SPECIFICATION MCFairSpec
CONSTANTS
    r1 = r1
    r2 = r2
    short = short
    long = long
    huge = huge
    Foreign = Foreign
    Corrupt = Corrupt
    Retimers <- MCRetimers
    Images <- MCImages
    NumPages <- MCNumPages
    MaxPages = 2
    MaxTimeoutSec = 2
    MaxUpdateRetryCount = 2
    MaxOps = 2
INVARIANTS
    TypeOK
    ReportsAreReal
    ExitZeroMeansUpdated
    EveryTransferConcludes
    ProgramsRightImage
PROPERTIES
    RetrySparesGood
    UntargetedUntouched
    ImplementsSession
    Termination
