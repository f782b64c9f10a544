SPECIFICATION MCSpec
CONSTANTS
    id1 = id1
    id2 = id2
    Ids = {id1, id2}
    Bad = Bad
    Log = Log
    Results <- MCResults
    Cut <- MCCut
    MaxEvents = 2
    MaxLines = 2
    Feeds = {f1, f2}
    Times = {1, 2, 3}
    TokenSets <- MCTokenSets
    Unit = 138600
    Scores = {0, 1, 2, 3}
    Coarse = {0, 1}
    MaxRows = 3
    MaxRefined = 3
    Feed = Feed
    Other = Other
    NoId = NoId
    EventIds = {e1, e2}
    Items = {1, 2}
    OldRows <- MCOldRows
    OldAcks <- MCOldAcks
    MaxPending = 2
INVARIANTS SuccessIsTheScripts ShortcutsChangeNoScore OnlyRepetitionCosts InventoryIsExact
PROPERTIES RunEnds
CHECK_DEADLOCK FALSE
