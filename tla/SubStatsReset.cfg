SPECIFICATION Spec
CONSTANTS
  MaxTests = 2
  MaxSent = 2
CHECK_DEADLOCK FALSE
INVARIANT ResetTakesEffect
