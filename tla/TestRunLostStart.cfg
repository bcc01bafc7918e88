SPECIFICATION FairSpec
CONSTANT MaxTests = 2
CHECK_DEADLOCK FALSE
PROPERTY EveryTestEnds
