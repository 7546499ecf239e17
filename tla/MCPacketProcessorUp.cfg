CONSTANTS
  Keys = {k1}
  PpFaults <- MCConnectFails
  MaxGen = 2
  MaxUp = 2
  MaxDown = 0
  MaxRead = 1
  MaxAttempts = 2
  MaxQueue = 2
SPECIFICATION Spec
INVARIANTS
  PpTypeOK
  AckedIsForwarded
  NeverStuckConnecting
CHECK_DEADLOCK FALSE
