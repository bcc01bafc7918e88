SPECIFICATION Spec
CONSTANTS
  MaxTests = 2
  MaxSent = 2
CHECK_DEADLOCK FALSE
INVARIANTS TypeOK DiesOnlyOfReset CountIsExact ExcessIsLeftOver KeptIsOneMoment
