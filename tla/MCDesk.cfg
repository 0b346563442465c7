SPECIFICATION MCSpec
CONSTANTS
  a = a
  b = b
  c = c
  Handlers = {x, y}
  Bodies = {a, b, c}
  Rests = {0}
  FormattedAs <- MCFormattedAs
  Refused = refused
  Gone = gone
  Missing = missing
  Null = null
  MaxRequests = 4
  MaxEdits = 1
  MaxFaults = 1
  Sidecars = {s1, s2, s3}
  NoSidecar = NoSidecar
  MaxCalls = 3
  Entries = {e1, e2}
  None = none
  MaxRuns = 5
  MaxVersions = 3
INVARIANTS
  TagIsCurrent ScreenIsTrue
  AuthorDecides WritesAreShown CancelHitsNoLater
PROPERTIES ReplacesAtomically RequestsEnd BoxComesBack
CHECK_DEADLOCK FALSE
