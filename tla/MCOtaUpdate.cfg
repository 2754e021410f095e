SPECIFICATION FairSpec
CONSTANTS
  v1 = v1
  v2 = v2
  junk = junk
  Files <- MCFiles
  Good <- MCGood
  Len <- MCLen
  Delivered = v1
  Slots <- MCSlots
  MaxStalls <- MCMaxStalls
INVARIANTS
  TypeOK
  BootValid
PROPERTIES
  InstalledAsAnnounced
  UploadEnds
CHECK_DEADLOCK FALSE
