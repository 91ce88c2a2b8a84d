CONSTANTS
  c1 = c1
  c2 = c2
  None = None
  Clients = {c1, c2}
  MaxOps = 4
  MaxChunks = 2
  Page = 2
  MaxFaults = 1
SPECIFICATION FairSpec
INVARIANTS TypeOK IndexedIsWhole RowHasBytes
PROPERTIES IndexedStays PendingSettles
CHECK_DEADLOCK FALSE
