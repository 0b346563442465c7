SPECIFICATION MCSpec
CONSTANTS
  d1 = d1
  u1 = u1
  o1 = o1
  i1 = i1
  i2 = i2
  Files <- MCFiles
  Delivered <- MCDelivered
  Upstream <- MCUpstream
  Own <- MCOwn
  CorpusIds <- MCCorpusIds
  InTree = {d1}
  Ids = {i1, i2}
  NoEntry = NoEntry
  Broken = {broken}
  MaxParses = 4
  MaxDiskChanges = 2
  pm = pm
  pa = pa
  pd = pd
  Paths = {pm, pa, pd}
  LatePaths = {pa}
  Deliverable = {pd}
  TextsOf <- MCTextsOf
  Closed = closed
  NotSaved = notsaved
  MaxOpens = 2
  MaxTyped = 1
  MaxReloads = 1
  w = w
  sub = sub
  o = o
  p = p
  a = a
  b = b
  c = c
  Dirs = {w, sub}
  Above <- MCAbove
  ProjectYaml = {w}
  Documents = {a}
  DirOf <- MCDirOf
  OnDisk = {}
  Watched = {w, sub}
  WorkspaceRoots = {w}
  NoDir = NoDir
  Absent = Absent
  MaxChanges = 2
  MaxEvents = 3
INVARIANT ParseErrorsStay
CHECK_DEADLOCK FALSE
