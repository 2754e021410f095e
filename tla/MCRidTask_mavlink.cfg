SPECIFICATION Spec
CONSTANTS
  Configs <- MavlinkConfigs
  FixReports <- MavlinkReports
  ArmReports <- NoArm
  MavIds <- MavlinkIds
  Radios = {"ble4"}
  MavTimeout = 2
  IdentTimeout = 3
  KalmanTimeout = 1
  StaleLimit = 3
  AgeWrap = 9
  MaxInterval = 1
  MaxIter = 1
INVARIANTS
  TypeOK
  FreshWhenValid
  SilentLinkOffAir
  GateHoldsBack
  LinkLossBound
