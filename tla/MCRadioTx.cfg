SPECIFICATION FairSpec
CONSTANTS
  PackMax <- MCPackMax
  CounterMod <- MCCounterMod
  SigPages <- MCSigPages
  Failing <- MCFailing
INVARIANTS
  PackGoesOut
PROPERTIES
  AllAdvertised
