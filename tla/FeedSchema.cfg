SPECIFICATION LiveSpec
CONSTANTS
    a1 = a1  a2 = a2  a = a  b = b
    Procs = {p1, p2}
    K = 3
    Scripts = {3}
    Urls = {a1, a2, a, b}
    Canon <- CanonUrl
    Found <- FoundFiles
    Inodes = {i1, i2}
    MaxFaults = 1
    MaxSwaps = 1
    NoUrl = NoUrl
    NoOne = NoOne
INVARIANTS ConnectedIsPrepared NobodyIsRefused FeedsKeepOneSource
PROPERTIES PreparationEnds
