SPECIFICATION MCSpec
CONSTANTS
  d1 = d1
  d2 = d2
  p1 = p1
  Docs <- MCDocs
  Projects = {p1}
  ProjectOf <- MCProjectOf
  Saved = {}
  Ttl = 3
  MaxNumber = 4
  MaxMints = 3
  a = a
  b = b
  c = c
  Roots = {a, b, c}
  Within <- MCWithin
  Candidates <- MCCandidates
  Callers = {x, y}
  None = none
  MaxChanges = 2
  MaxCalls = 3
  MaxFailures = 1
INVARIANTS NoDuplicateMint OffersReserved RefreshIsFresh OwnersOpen
PROPERTY CallsReturn
CHECK_DEADLOCK FALSE
