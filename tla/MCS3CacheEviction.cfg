CONSTANTS
    k1 = k1
    k2 = k2
    p1 = p1
    p2 = p2
    Key = {k1, k2}
    Proc = {p1, p2}
    Mutator = {p1}
    File = {1, 2, 3, 4}
    MaxVersion = 2
    Size <- MCSize
    MaxBytes = 2
    MaxEntries = 2
    MaxFailed = 1
    MaxFaults = 0
SPECIFICATION Spec
INVARIANTS
    Accounting
SYMMETRY Sym
