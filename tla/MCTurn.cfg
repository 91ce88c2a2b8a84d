CONSTANTS
  read = read
  write = write
  bad = bad
  Calls = {read, write, bad}
  HitlCalls = {write}
  BadCalls = {bad}
  MaxSteps = 2
  Threshold = 2
  MaxCalls = 3
  MaxProgress = 1
SPECIFICATION FairSpec
INVARIANTS TypeOK ResultsMatchUses HitlIsSerial NoFutileLoop
PROPERTIES StopKeepsNextRound EveryTurnEnds
CHECK_DEADLOCK FALSE
