SPECIFICATION Spec
CONSTANTS
  c1 = c1
  Channels = {c1}
  Users = {"account", "role"}
  Rights = {"read", "write", "trap"}
  Policies <- TwoUsers
  Refreshes = {TRUE, FALSE}
  MaxChanges = 3
INVARIANTS RevokedAtOnce ClosedOnChange
PROPERTIES RecomputedAtLast
CHECK_DEADLOCK FALSE
