\* One item, two content revisions, two payload variants, two faults, pages of two receipts.
SPECIFICATION LiveSpec
CONSTANTS
    e1 = e1  r1 = r1  r2 = r2  m1 = m1  m2 = m2
    Items <- OneItem
    Revs = {r1, r2}
    Metas = {m1, m2}
    Admissible = {m1}
    Feeds <- OneFeedOneItem
    PageSize = 2
    MaxFaults = 2
    NoRow = NoRow
    NoMeta = NoMeta
    NoRev = NoRev
INVARIANTS AckIsExact NoConflict
PROPERTIES DeadlineOwesNothing ProviderAcksFirst LedgerSpec ReceiptsSettle OpenItemsClose
