SPECIFICATION MCFairSpec
CONSTANTS
    c1 = c1
    c2 = c2
    zero = zero
    NoRetimer = NoRetimer
    NoFile = NoFile
    Retimers <- MCRetimers
    Contents <- MCContents
    ReadArgs <- MCReadArgs
    Blank <- zero
    MaxPages = 2
    MaxTimeoutSec = 2
    MaxUpdateRetryCount = 2
INVARIANTS
    TypeOK
    FileGenuine
    ExitZeroMeansRead
PROPERTIES
    RunEnds
