SPECIFICATION FairSpec
CONSTANTS
  Max <- MCMax
  Window <- MCWindow
  Period <- MCPeriod
INVARIANTS
  TypeOK
  RefusalJustified
  BurnedNeedsSignature
PROPERTIES
  RateLimit
  LockoutEnds
CHECK_DEADLOCK FALSE
