CONSTANTS
    k1 = k1
    k2 = k2
    p1 = p1
    p2 = p2
    Key = {k1}
    Proc = {p1, p2}
    Mutator = {p1}
    File = {1, 2, 3, 4, 5}
    MaxVersion = 2
    Size <- MCSize
    MaxBytes = 1
    MaxEntries = 2
    MaxFailed = 1
    MaxFaults = 1
SPECIFICATION FairSpec
INVARIANTS
    TypeOK
    FreshReads
    ServedFilesAreKept
    RestartRestores
PROPERTY
    RequestsReturn
