SPECIFICATION Spec
CONSTANTS
  Files = {f}
  Lock = lock
  Contents = {x, y}
  Callers = {c, d}
  Missing = missing
  None = none
  Failed = failed
  MaxChanges = 2
  MaxCalls = 3
  MaxFailures = 1
SYMMETRY Symmetry
INVARIANT AnswersCurrent
CHECK_DEADLOCK FALSE
