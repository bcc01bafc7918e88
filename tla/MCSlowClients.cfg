SPECIFICATION Spec
CONSTANTS
  Sizes <- MCSizes
  Percent = 50
  MaxSilent = 1
CHECK_DEADLOCK FALSE
INVARIANTS TypeOK RatesAreNoted BaselineIsFull
