CONSTANTS
  s1 = s1
  s2 = s2
  Systems = {s1, s2}
  Stations = {st}
  Position <- MCPosition
  Timemarks = {1, 2}
  Callers = {c1}
  Commands = {"backup", "restore"}
  Forms = {"good"}
  historySize = 2
  QueueCap = 1
  LineLimit = 1
  DiskFails = FALSE
  EventsBound = 3
  NoCaller = NoCaller
  NoStats = NoStats
SPECIFICATION Spec
PROPERTIES
  RestoreBringsBackBackup
CHECK_DEADLOCK FALSE
