SPECIFICATION FairSpec
CONSTANTS
  k1 = k1
  k2 = k2
  w1 = w1
  Keys = {k1, k2}
  Workers = {w1}
  Timer = timer
  Sizes = {1}
  MinCharge = 1
  QueuedPerKey = 1
  ResidentBytes = 2
  MaxTasks = 2
  MaxRejected = 1
  MaxTime = 1
INVARIANTS HandlesValid NoLostWakeup WithdrawalToldOnce Accounting
PROPERTIES ImplementsExecutor EveryTaskAnswered StopCompletes EveryTaskServed
CHECK_DEADLOCK FALSE
