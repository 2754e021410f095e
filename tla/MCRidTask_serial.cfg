SPECIFICATION FairSpec
CONSTANTS
  Configs <- SerialConfigs
  FixReports <- SerialReports
  ArmReports <- NoArm
  MavIds <- NoIds
  Radios = {"wifi", "ble4"}
  MavTimeout = 2
  IdentTimeout = 3
  KalmanTimeout = 1
  StaleLimit = 3
  AgeWrap = 9
  MaxInterval = 2
  MaxIter = 1
INVARIANTS
  NmeaHeightDerived
PROPERTIES
  StaleEventuallyCleared
  RadiosServed
