SPECIFICATION Spec
CONSTANTS
  Start = 4
  Precision = 4
  MaxDrop = 2
  Thresholds = {0, 1, 6, 13}
  Caps = {2, 3, 9}
  Shares = {0, 60}
  MaxScale = 64
  MaxSearches = 1
  MaxFaults = 0
  Subs = {10, 20}
  PerGroup = 10
  Needed = 2
CHECK_DEADLOCK FALSE
INVARIANT UpdatesExisting
