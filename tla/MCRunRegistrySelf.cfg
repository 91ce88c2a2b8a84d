CONSTANTS
  i1 = i1
  i2 = i2
  j1 = j1
  j2 = j2
  None = None
  Instances = {i1, i2}
  Runs = {j1, j2}
  Stops = {}
  MaxFaults = 0
SPECIFICATION Spec
INVARIANT OnlyStopOrNewTurnAborts
CHECK_DEADLOCK FALSE
