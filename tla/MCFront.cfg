CONSTANTS
  MaxRuns = 2

  MaxThreads = 2
  MaxTries = 2
  ClientFaults <- MCAllClientFaults

  Named <- MCNamed
  CodeOf <- MCCodeOf
  NoCode = ""
  Unknown = "?"
  MaxRelays = 3

SPECIFICATION Spec

INVARIANTS
  FrontTypeOK
  StoppedMeansEnded
  SecureMeansTunnelled
  ExitsAreRight

PROPERTIES
  StatusOrder
  StopHonoured
  CallsEnd

CHECK_DEADLOCK FALSE
