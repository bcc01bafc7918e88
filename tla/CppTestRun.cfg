SPECIFICATION FairSpec
CONSTANTS
  MaxTests = 3
  Batches = {0, 1, 2, 4}
  IntRange = 8
CHECK_DEADLOCK FALSE
INVARIANTS TypeOK NothingRaised PollsEveryBatch
PROPERTIES EveryTestEnds ImplementsCycle
