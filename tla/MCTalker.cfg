CONSTANTS
  worker1 = worker1
  app = app
  Workers = {worker1}
  Clients = {worker1, app}
  Gone = Gone
  Handlers = {1, 2}
  Names <- MCNames
  Similar <- MCSimilar
  MaxVersion = 2
  Data <- MCData
  Galaxy <- MCGalaxy
  EDSMSystems <- MCEDSMSystems
  EDSMName <- MCEDSMName
  MaxRequests = 1
  Totals = {0, 2}
  Messages <- MCMessages
  IgnoredSystems = {}
  OtherCalls <- MCOtherCalls
SPECIFICATION TalkerFairSpec
INVARIANTS
  TalkerTypeOK
  RepliesAreCurrent
  AnswersFitMessages
PROPERTIES
  MessagesAreAnswered
  RetriesSucceed
CHECK_DEADLOCK FALSE
