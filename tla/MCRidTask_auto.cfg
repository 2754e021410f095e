SPECIFICATION Spec
CONSTANTS
  Configs <- AutoConfigs
  FixReports <- AutoReports
  ArmReports <- Armed
  MavIds <- NoIds
  Radios = {"ble4"}
  MavTimeout = 1
  IdentTimeout = 1
  KalmanTimeout = 1
  StaleLimit = 1
  AgeWrap = 6
  MaxInterval = 1
  MaxIter = 1
INVARIANTS
  PoorFixNeedsArming
  NoSaveHidesId
