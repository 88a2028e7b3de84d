CONSTANTS
  s1 = s1
  s2 = s2
  Systems = {s1, s2}
  Stations = {st}
  Position <- MCPosition
  Timemarks = {1, 2}
  Callers = {Main, Cron}
  Main = Main
  Cron = Cron
  Commands = {"exit", "backup", "restore", "getSystemStat"}
  Forms = {"good", "short", "garbled"}
  historySize = 2
  QueueCap = 1
  LineLimit = 100
  DiskFails = TRUE
  EventsBound = 2
  LivesBound = 2
  NoCaller = NoCaller
  NoStats = NoStats
SPECIFICATION StarSpec
SYMMETRY Alike
INVARIANTS
  StarTypeOK
  RequestsAreOwned
  BackupIsSnapshot
  VisitsAddUp
  ReportsAgree
PROPERTIES
  NothingIsForgotten
  RestoreBringsBackBackup
  IsStatStore
CHECK_DEADLOCK FALSE
