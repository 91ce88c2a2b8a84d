CONSTANTS
  s1 = s1
  s2 = s2
  Sessions = {s1, s2}
  First = s1
  MaxLegs = 3
  MaxDrops = 1
  Budget = 1
SPECIFICATION Spec
INVARIANTS ColumnsAreWhole
CHECK_DEADLOCK FALSE
