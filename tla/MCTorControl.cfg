CONSTANTS
  Countries = {us, de}
  NoCountry = nowhere
  TorFaults <- MCTorFaults

SPECIFICATION TcFairSpec

INVARIANTS
  TcTypeOK
  RepliesMatch
  ReportsAreTrue

PROPERTY
  StartUpEnds

CHECK_DEADLOCK FALSE
