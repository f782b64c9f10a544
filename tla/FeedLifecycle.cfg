\* Three handles: one being cleaned up, one whose task reads the deadline, and one
\* armed meanwhile.
SPECIFICATION LiveSpec
CONSTANTS
    Timers = {t1, t2, t3}
    Starters = {s1, s2}
    Closers = {c1, c2}
    None = None
INVARIANTS ClosedIsQuiet
PROPERTIES LoopSpec ClosedStartsNothing CloseEnds RoundRearms
CHECK_DEADLOCK FALSE
