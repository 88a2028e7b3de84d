CONSTANTS
  s1 = s1
  s2 = s2
  Systems = {s1}
  Stations = {st}
  Position <- MCOnePosition
  Timemarks = {1}
  Callers = {Main, Cron, Handler}
  Main = Main
  Cron = Cron
  Commands = {"exit", "backup", "restore", "getSystemStat"}
  Forms = {"good"}
  historySize = 1
  QueueCap = 2
  LineLimit = 100
  DiskFails = TRUE
  EventsBound = 1
  LivesBound = 2
  NoCaller = NoCaller
  NoStats = NoStats
SPECIFICATION StarFairSpec
PROPERTIES
  SignalEnds
  CountsAreSaved
  RequestsAreAnswered
  EventsAreHandled
CHECK_DEADLOCK FALSE
