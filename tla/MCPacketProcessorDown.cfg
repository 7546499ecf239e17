CONSTANTS
  Keys = {k1}
  PpFaults <- MCNoFaults
  MaxGen = 2
  MaxUp = 0
  MaxDown = 2
  MaxRead = 2
  MaxAttempts = 2
  MaxQueue = 2
SPECIFICATION Spec
INVARIANT
  DownstreamIntact
PROPERTIES
  NoDataAfterFin
  EstablishedStays
CHECK_DEADLOCK FALSE
