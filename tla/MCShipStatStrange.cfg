CONSTANTS
  s1 = s1
  s2 = s2
  Systems = {s1}
  Stations = {st}
  Position <- MCOnePosition
  Timemarks = {1}
  Callers = {c1}
  Commands = {"getSystemStat"}
  Forms = {"good", "short"}
  historySize = 1
  QueueCap = 1
  LineLimit = 100
  DiskFails = TRUE
  EventsBound = 2
  NoCaller = NoCaller
  NoStats = NoStats
SPECIFICATION Spec
PROPERTIES
  StrangeJumpsAreIgnored
CHECK_DEADLOCK FALSE
