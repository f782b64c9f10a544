\* Two files and two places: the primary and a backup.
SPECIFICATION LiveSpec
CONSTANTS
    N = 2
    S = 2
    Contents = {c1, c2}
    Runners = {p1, p2}
    MaxFaults = 2
    MaxMoves = 1
    Missing = Missing
    NoReceipt = NoReceipt
    NoDir = NoDir
    NoOne = NoOne
INVARIANTS KeepsWhatWasThere
PROPERTIES ReceiptIsTrue ReceiptIsComplete FailureRestores RerunFinishes
