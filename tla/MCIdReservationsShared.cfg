SPECIFICATION Spec
CONSTANTS
  d1 = d1
  d2 = d2
  p1 = p1
  p2 = p2
  Docs <- MCDocs
  Projects = {p1, p2}
  ProjectOf <- TwoProjects
  Saved = {}
  Ttl = 2
  MaxNumber = 4
  MaxMints = 3
INVARIANT NoDuplicateMint
CHECK_DEADLOCK FALSE
