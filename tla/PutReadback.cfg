SPECIFICATION Spec
CONSTANTS
  pv = pv
  PV = pv
  Values = {0}
  Offsets = {0}
  MaxPuts = 1
  Setups <- ReadbackSetups
INVARIANTS RefreshUsesLatest
CHECK_DEADLOCK FALSE
