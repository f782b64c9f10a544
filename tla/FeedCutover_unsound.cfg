SPECIFICATION Spec
CONSTANTS
    Events = {e1}
    Revs = {r1, r2}
    NoRev = NoRev
    NoBatch = NoBatch
    Runners = {p1}
    MaxFaults = 0
    MaxHost = 0
INVARIANTS HealthyIsRead
