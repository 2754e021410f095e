SPECIFICATION FairSpec
CONSTANTS
  Sigs <- MCSigs
  Last <- MCLast
  MaxPage <- MCMaxPage
  IdTimeout <- MCIdTimeout
  OpTimeout <- MCOpTimeout
  Period <- MCPeriod
INVARIANTS
  TypeOK
  OpFresh
PROPERTIES
  OpLost
  RelayConverges
CHECK_DEADLOCK FALSE
