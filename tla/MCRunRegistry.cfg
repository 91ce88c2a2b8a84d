CONSTANTS
  i1 = i1
  i2 = i2
  j1 = j1
  j2 = j2
  s1 = s1
  s2 = s2
  None = None
  Instances = {i1, i2}
  Runs = {j1, j2}
  Stops = {s1, s2}
  MaxFaults = 1
SPECIFICATION Spec
SYMMETRY Symmetry
INVARIANTS TypeOK StaleKeyIsReplaced OwnerCanStop SightedIsHit
CHECK_DEADLOCK FALSE
