SPECIFICATION Spec
CONSTANTS
  HistoryMax <- MCHistoryMax
  MaxFrames <- MCMaxFrames
  MaxStarts <- MCMaxStarts
  MaxFlight <- MCMaxFlight
INVARIANTS
  TypeOK
  RecShown
  SessionWhole
  HistoryAccounts
  NumbersShown
