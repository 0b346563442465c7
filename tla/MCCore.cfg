SPECIFICATION MCSpec
CONSTANTS
  Files = {f1, f2, f3}
  Ids = {i1, i2}
  NoEntry = NoEntry
  MaxParses = 4
  DisplayIds = {1, 2, 3, 4}
  MaxLinks = 4
  d1 = d1
  d2 = d2
  d3 = d3
  d4 = d4
  Dirs = {d1, d2, d3, d4}
  Path <- MCPath
  Home = {}
  NoRoot = noroot
  MaxRules = 1
  Specs = {s1, s2, s3}
  Leaf = s1
  Builtin = bundled
  Manifests <- MCManifests
  MaxDepth = 3
  Values <- MCValues
  TargetOf <- MCTargetOf
  TypeNames = {"u", "v"}
  Shapes = {"Authored", "Reference"}
  Patterns = {"P", "Q"}
  CoreTypes = {"req", "test"}
  None = none
  Upstreams = {u1, u2}
  MaxVersion = 2
  MaxTool = 2
  MaxRuns = 2
  Malformed = malformed
  Absent = absent
  s1 = s1
  s2 = s2
  s3 = s3
  n1 = n1
  n2 = n2
  n3 = n3
  Sources = {s1, s2, s3}
  Referrers = {s1}
  Names = {n1, n2, n3}
  Blank = blank
  MaxEntries = 3
  MaxEdits = 2
  MaxFmts = 2
  MaxLocks = 1
  Paths <- MCPaths
  Delivered <- MCDelivered
  Slots = 2
  Contents <- MCContents
  NoText = notext
  Unread = unread
  NoId = "none"
  LinkAttrs = {"Supersedes", "Satisfies"}
  Inverses <- MCInverses
  AnyType = "any"
  MaxChanges = 1
INVARIANTS
  NoStaleEntry RootsAreLowest SameFilesFromAnywhere
  NeverRelaxed LockHolds ChecksPass GraphIsOfSources
PROPERTIES FirstEntryWins KeepsLinks
CHECK_DEADLOCK FALSE
