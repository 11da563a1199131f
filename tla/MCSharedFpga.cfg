SPECIFICATION MCSpec
CONSTANTS
    r1 = r1
    img = img
    zero = zero
    Foreign = Foreign
    Corrupt = Corrupt
    NoRetimer = NoRetimer
    NoFile = NoFile
    NoDigest = NoDigest
    NoSignal = NoSignal
    Blank <- zero
    Retimers <- MCRetimers
    Images <- MCImages
    NumPages <- MCNumPages
    MaxPages = 2
    MaxTimeoutSec = 1
    MaxUpdateRetryCount = 2
    MaxOps = 1
INVARIANTS
    SharedTypeOK
    SuccessIsWhole
    UndisturbedIsReal
    DigestUnlessSpoilt
