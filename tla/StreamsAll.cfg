SPECIFICATION Spec
CONSTANTS
  Intf = {i1, i2}
  Urbs = 2
  MaxRounds = 2
  MaxErrors = 1
  MaxFailures = 1
INVARIANTS NothingFliesAsleep StreamsRun NothingAfterFree
CHECK_DEADLOCK FALSE
