CONSTANTS
  FilterIds = {f1, f2, f3}
  NoFilter = none
  KsFaults <- MCNoKsFaults
  Guards = {g1}
  PhysGateways = {gw1}
  TunGw = tun
  NoGw = nogw
  RouteFaults <- MCRoam
  MaxLoops = 1
SPECIFICATION TalkingSpec
PROPERTY
  StopReturns
CHECK_DEADLOCK FALSE
