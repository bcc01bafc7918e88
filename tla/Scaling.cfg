SPECIFICATION Spec
CONSTANTS
  Counts = {2, 6, 7, 8}
  instance_threshold = 5
  scale_batch = 3
  threshold = 5
  delete_batch = 3
  MaxDeaths = 2
  MaxTimeouts = 2
CHECK_DEADLOCK FALSE
INVARIANTS TypeOK AssertsNeedLoss
PROPERTIES InSmallSteps CallsReturn
