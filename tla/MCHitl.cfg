CONSTANTS
  i1 = i1
  i2 = i2
  r1 = r1
  p1 = p1
  p2 = p2
  None = None
  Instances = {i1, i2}
  Requests = {r1}
  Responders = {p1, p2}
  MaxFaults = 2
SPECIFICATION FairSpec
INVARIANTS TypeOK WaitingIsReachable AnsweredLeavesTrace
PROPERTIES KeepsPromise AsksEndAndKeysDrain
CHECK_DEADLOCK FALSE
