CONSTANTS
  Keys = {k1}
  PpFaults <- MCAllFaults
  MaxGen = 1
  MaxUp = 0
  MaxDown = 1
  MaxRead = 1
  MaxAttempts = 2
  MaxQueue = 2
SPECIFICATION FairSpec
PROPERTY
  ClosedErased
CHECK_DEADLOCK FALSE
