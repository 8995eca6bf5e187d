SPECIFICATION Spec
CONSTANTS
  r1 = r1
  r2 = r2
  r3 = r3
  p1 = p1
  p2 = p2
  c1 = c1
  Names = {"pv", "alias"}
  Bindings = {"old", "new"}
  Regs = {r1, r2, r3}
  Publishers = {p1, p2}
  Channels = {c1}
  None = None
  MaxSnapshots = 3
SYMMETRY RegistrySymmetry
INVARIANTS ServedAreActive RetiredChannelsClosed
PROPERTIES OnlyRetiredClosed DispatchedOnServed
CHECK_DEADLOCK FALSE
