SPECIFICATION MCSpec
CONSTANTS
  Upgrades = {x, y}
  MaxRelease = 3
  MaxMishaps = 2
  NoFile = NoFile
  Servers = {x, y}
  Explicit = {y}
  NoHandle = NoHandle
  MaxPreInit = 2
  Threshold = 2
  MaxSize = 2
  Keep = 2
  MaxLines = 4
  MaxLogFaults = 1
  UserLines = {"l"}
  Blocks = {"b1", "b2"}
  Nothing = Nothing
  MaxInstalls = 3
  MaxUserEdits = 2
  MaxSecond = 1
  Child = p0
  Grandchildren = {p1, p2}
  Assistants = {copilot, codex}
  Copilot = copilot
  Nobody = nobody
  Unread = unread
  MaxTurns = 3
INVARIANTS KeepsABinary LogIsFaithful InstallIsSafe NoneLeftAtWork SettingsHold
PROPERTY RunEnds
CHECK_DEADLOCK FALSE
