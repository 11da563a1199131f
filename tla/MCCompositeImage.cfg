SPECIFICATION Spec
CONSTANTS
    r1 = r1
    r2 = r2
    other = other
    Retimers <- MCRetimers
    Bits <- MCBits
    SizeMod = 16
    HeaderSize = 2
    ComponentSize = 1
    MaxComps = 3
SYMMETRY Symmetry
INVARIANTS
    TypeOK
    ReadsInFile
    ImagesApart
    AcceptedOps
