SPECIFICATION FairSpec
CONSTANTS
  w1 = w1
  w2 = w2
  short = short
  long = long
  Web = Web
  Free = Free
  Writers = {w1, w2}
  Msgs = {short, long}
  Size <- MCSize
  RingSize = 3
  Room = 4
INVARIANTS
  TypeOK
PROPERTIES
  ImplementsQueue
  LockGivenBack
