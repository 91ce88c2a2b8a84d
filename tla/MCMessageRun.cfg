CONSTANTS
  r1 = r1
  r2 = r2
  None = None
  Readers = {r1, r2}
  Events = 2
  MaxFaults = 1
SPECIFICATION FairSpec
INVARIANTS TypeOK LocalResumeIsExact RelayIsConsecutive
PROPERTIES ReadersAreReleased
CHECK_DEADLOCK FALSE
