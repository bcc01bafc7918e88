SPECIFICATION Spec
CONSTANTS
  MaxCalls = 3
  MaxConns = 2
CHECK_DEADLOCK FALSE
INVARIANTS TypeOK DiesOnlyOfUnknown
PROPERTIES Poisoned ImplementsCall
