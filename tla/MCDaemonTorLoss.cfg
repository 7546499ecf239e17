CONSTANTS
  FilterIds = {f1, f2, f3}
  NoFilter = none
  KsFaults <- MCSilentKsFaults
  Guards = {g1}
  PhysGateways = {gw1}
  TunGw = tun
  NoGw = nogw
  RouteFaults <- MCNoGatewayOrRoam
  MaxLoops = 2
SPECIFICATION Spec
INVARIANT
  TorLossIsBlocked
CHECK_DEADLOCK FALSE
