CONSTANTS
  s1 = s1
  s2 = s2
  Sessions = {s1, s2}
  First = s1
  MaxLegs = 3
  MaxDrops = 1
  Budget = 2
SPECIFICATION FairSpec
INVARIANTS TypeOK RefsFollowTheLeg NoSilentEnd  QueueIsFifo
PROPERTIES LegsEndAndQueueDrains
CHECK_DEADLOCK FALSE
