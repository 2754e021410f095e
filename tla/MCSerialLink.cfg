SPECIFICATION LinkFairSpec
CONSTANTS
  Positions <- MCPositions
  RingMax <- MCRingMax
  ReadMax <- MCReadMax
  LineMax <- MCLineMax
  MaxFlaws <- MCMaxFlaws
INVARIANTS
  LinkTypeOK
  FlawSpoilsOne
PROPERTIES
  LinkRecovers
