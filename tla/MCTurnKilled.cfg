CONSTANTS
  read = read
  write = write
  bad = bad
  Calls = {read, write, bad}
  HitlCalls = {write}
  BadCalls = {bad}
  MaxSteps = 2
  Threshold = 2
  MaxCalls = 2
  MaxProgress = 1
SPECIFICATION Spec
INVARIANTS FailureIsReported
CHECK_DEADLOCK FALSE
