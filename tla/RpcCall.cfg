SPECIFICATION Spec
CONSTANTS
  o1 = o1
  Ops = {o1}
  Cancelled = {o1}
  Timed = {o1}
  MaxChanges = 3
INVARIANTS OneCompletion OutcomesAreTrue
PROPERTIES EndedNeverCalled EveryCallCompletes
CHECK_DEADLOCK FALSE
