SPECIFICATION FairSpec
CONSTANTS
    x1 = x1
    x2 = x2
    Bad = Bad
    Unreadable = Unreadable
    NoList = NoList
    Indexes <- MCIndexes
    Numbers <- MCNumbers
    MaxEntries = 3
INVARIANTS
    TypeOK
    InventoryOfFile
    OnlyFailedFieldsEmpty
PROPERTIES
    Serves
