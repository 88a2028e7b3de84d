CONSTANTS
  MaxMarks = 3
  Timeframe = 10
  NotesBound = 2
  Timestamps <- MCTimestamps
  SecondsPerDay = 30
  Hour = 10
  ReportBound = 8
  Nows = {4, 5, 8, 9, 10}
SPECIFICATION Spec
INVARIANTS
  TypeOK
  HistoryIsOrdered
  HistoryIsExact
  HistoryIsNewest
  RecentFramesAreComplete
  ChartShowsVisits
CHECK_DEADLOCK FALSE
