SPECIFICATION Spec
CONSTANTS
  Kinds <- SourceInWorkspace
  MaxTasks = 0
  MaxEdits = 1
  MaxOpens = 1
INVARIANT AnyClosedIsGone
CHECK_DEADLOCK FALSE
