SPECIFICATION Spec
CONSTANTS
  c1 = c1
  Channels = {c1}
  Users = {"account", "role"}
  Rights = {"read", "write", "trap"}
  Policies <- TwoUsers
  Refreshes = {FALSE}
  MaxChanges = 1
CHECK_DEADLOCK FALSE
INVARIANT PolicyReachesChannels
