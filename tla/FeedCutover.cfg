SPECIFICATION LiveSpec
CONSTANTS
    Events = {e1, e2}
    Revs = {r1, r2}
    NoRev = NoRev
    NoBatch = NoBatch
    Runners = {p1, p2}
    MaxFaults = 1
    MaxHost = 2
PROPERTIES CutoverIsExact CutoverAcksOnce ReplayCompletes
