SPECIFICATION FairSpec
CONSTANTS
  Start = 4
  Precision = 4
  MaxDrop = 2
  Thresholds = {0, 1, 6, 15}
  Caps = {2, 3, 16}
  Shares = {0, 40}
  MaxScale = 64
  MaxSearches = 2
  MaxFaults = 6
  Subs = {10, 20}
  PerGroup = 10
  Needed = 2
CHECK_DEADLOCK FALSE
INVARIANTS TypeOK AsksPositive Bracketed FindsRates LaunchesMatchApps GivesUpOnFaults
PROPERTIES SearchEnds ImplementsSuite
