SPECIFICATION FairSpec
CONSTANTS
  n1 = n1
  a1 = a1
  a2 = a2
  Names = {n1}
  Alarms = {a1, a2}
  RingSize = 1
  StateSlots = 2
  MaxSlots = 2
  MaxUpdates = 2
  MaxFailures = 1
INVARIANTS ReadyMeansDelivered QueueComplete
PROPERTIES NeverOlder CurrentStateDelivered
CHECK_DEADLOCK FALSE
