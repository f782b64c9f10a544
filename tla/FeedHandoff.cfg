\* An ack and an item of one event, two calls, one death, two steps of the host.
SPECIFICATION LiveSpec
CONSTANTS
    e1 = e1
    N = 2
    Kind <- AckThenItem
    EventOf <- SameEvent
    Events = {e1}
    Revs = {r1, r2}
    Metas = {m1, m2}
    Foreign = Foreign
    Supersede = FALSE
    Runners = {p1, p2}
    MaxFaults = 1
    MaxHost = 2
    NoRow = NoRow
    NoRev = NoRev
    NoMeta = NoMeta
INVARIANTS MarkedIsReached NothingLeftOut NothingBeforeLineage
PROPERTIES LedgerSpec ReplayAddsNoAck ReplayFinishes
CHECK_DEADLOCK FALSE
