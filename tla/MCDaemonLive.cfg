CONSTANTS
  FilterIds = {f1, f2, f3}
  NoFilter = none
  KsFaults <- MCNoKsFaults
  Guards = {g1, g2}
  PhysGateways = {gw1}
  TunGw = tun
  NoGw = nogw
  RouteFaults <- MCNoGatewayOrRoam
  MaxLoops = 1
SPECIFICATION FairSpec
PROPERTIES
  StopsUnlessClientWaits
  GuardBypassed
  TunnelImplemented
  WorkerImplemented
CHECK_DEADLOCK FALSE
