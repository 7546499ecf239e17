CONSTANTS
  MaxRuns = 0

  MaxThreads = 1
  MaxTries = 1
  ClientFaults <- MCImpatient

  Named <- MCNamed
  CodeOf <- MCCodeOf
  NoCode = ""
  Unknown = "?"
  MaxRelays = 0

SPECIFICATION Spec

INVARIANT
  StatusIsTrue

CHECK_DEADLOCK FALSE
