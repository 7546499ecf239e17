CONSTANTS
  FilterIds = {f1, f2, f3}
  NoFilter = none
  KsFaults <- MCAllKsFaults
  Guards = {g1}
  PhysGateways = {gw1}
  TunGw = tun
  NoGw = nogw
  RouteFaults <- MCAllRouteFaults
  MaxLoops = 2
SPECIFICATION Spec
SYMMETRY MCIdSymmetry
INVARIANTS
  TypeOK
  FiltersTracked
  Handover
  NoThreadOverwritten
CHECK_DEADLOCK FALSE
