SPECIFICATION FairSpec
CONSTANTS
  Max = 2
  Lens <- MCLens
  MaxCalls = 4
  Leaks = TRUE
INVARIANTS TypeOK NothingLost
PROPERTIES CallsReturn
CHECK_DEADLOCK FALSE
