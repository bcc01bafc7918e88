SPECIFICATION FairSpec
CONSTANT MaxTests = 3
CHECK_DEADLOCK FALSE
INVARIANTS TypeOK StatsComplete ResultsAreOwn NoThreadDies
PROPERTIES TestEndsOrStartLost ImplementsCycle
