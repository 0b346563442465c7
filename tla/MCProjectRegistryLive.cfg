SPECIFICATION FairSpec
CONSTANTS
  w = w
  sub = sub
  o = o
  p = p
  a = a
  b = b
  c = c
  Dirs = {w, o, p}
  Above <- MCAbove
  ProjectYaml = {o, p}
  Documents = {b, c}
  DirOf <- MCDirOf
  OnDisk = {c}
  Watched = {w}
  WorkspaceRoots = {w, NoDir}
  NoDir = NoDir
  Absent = Absent
  MaxChanges = 1
  MaxEvents = 3
INVARIANTS IndexedByOwner
PROPERTIES CallsReturn
CHECK_DEADLOCK FALSE
