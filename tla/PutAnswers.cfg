SPECIFICATION FairSpec
CONSTANTS
  pv = pv
  PV = pv
  Values = {0}
  Offsets = {0}
  MaxPuts = 2
  Setups <- AnswerSetups
PROPERTIES EveryPutAnswered StoppedPutReturns
CHECK_DEADLOCK FALSE
