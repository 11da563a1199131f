SPECIFICATION MCFairSpec
CONSTANTS
    a = a
    b = b
    Empty = Empty
    Absent = Absent
    NoSKU = NoSKU
    Ids <- MCIds
    NumOfRetimers = 2
    MaxChanges = 1
    MaxRestarts = 1
INVARIANTS
    TypeOK
    SkuSettles
    SoftwareIdSettles
PROPERTIES
    EventuallySettles
CHECK_DEADLOCK FALSE
