CONSTANTS
  FilterIds = {f1, f2, f3}
  NoFilter = none
  KsFaults <- MCNoKsFaults
  Guards = {g1, g2}
  PhysGateways = {gw1, gw2}
  TunGw = tun
  NoGw = nogw
  RouteFaults <- MCAddFaults
  MaxLoops = 2
  MaxRuns = 2

SPECIFICATION RunsSpec
SYMMETRY MCSymmetry

INVARIANTS
  SealedWhileTunnelled
  PlacesAgree
  IdleConsistent
  BypassLeadsOut
  BypassAccounted
  OnlyStaleLeft

CHECK_DEADLOCK FALSE
