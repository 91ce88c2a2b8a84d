CONSTANTS
  MaxTurns = 2
  MaxRows = 3
  MaxLegs = 1
  MaxDeletes = 1
  MaxReloads = 1
  MaxFaults = 1
  Imported <- ImportOrNot
  Page = 3
  Listed = 3
SPECIFICATION FairSpec
INVARIANTS TypeOK TreeIsConsistent UntangledDeleteIsExact NoOrphans
PROPERTIES TurnsAndDeletionsEnd
CHECK_DEADLOCK FALSE
