SPECIFICATION Spec
CONSTANTS
  pv = pv
  PV = pv
  Values = {0}
  Offsets = {0, 1}
  MaxPuts = 2
  Setups <- SafetySetups
INVARIANTS AnswersAreTrue WrittenOnceInOrder ConfirmedMeansObserved
PROPERTIES WriteFenced CancelPreventsWrite
CHECK_DEADLOCK FALSE
