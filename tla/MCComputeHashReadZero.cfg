SPECIFICATION MCSpec
CONSTANTS
    r1 = r1
    r2 = r2
    c1 = c1
    c2 = c2
    zero = zero
    NoRetimer = NoRetimer
    NoFile = NoFile
    NoDigest = NoDigest
    NoSignal = NoSignal
    Retimers <- MCRetimers
    Contents <- MCContents
    Blank <- zero
    MaxPages = 2
    MaxTimeoutSec = 2
    MaxUpdateRetryCount = 2
INVARIANT ReadReturnsZeroOnlyOnSuccess
