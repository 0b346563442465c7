SPECIFICATION MCSpec
CONSTANTS
  Kinds <- AllKinds
  MaxTasks = 2
  MaxEdits = 1
  MaxOpens = 2
  e1 = e1
  e2 = e2
  md = md
  rs = rs
  Ids = {e1, e2}
  Documents = {md}
  Sources = {rs}
  Elsewhere = elsewhere
  Gone = gone
  None = none
  Placements <- MCPlacements
  MaxWrites = 1
  MaxEvents = 3
INVARIANTS IndexFollowsBuffer PanesAreCurrent
CHECK_DEADLOCK FALSE
