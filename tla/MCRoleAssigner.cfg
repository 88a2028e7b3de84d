CONSTANTS
  server = server
  elite = elite
  jane = jane
  joe = joe
  r1 = r1
  r2 = r2
  Presences = {p1, p2}
  Updaters = {u1}
  GuildIds = {server}
  Games = {elite}
  Users = {jane, joe}
  RoleIds = {r1, r2}
  Names = {"fleet", "pilot"}
  humanRoleAssigns <- OneAssign
  Descriptions <- RolesComeAndGo
  QueueCap = 1
  NoRole = NoRole
  Nobody = Nobody
SPECIFICATION FairSpec
INVARIANTS
  TypeOK
  RequestsAreCurrent
PROPERTIES
  PresencesReturn
  UpdatesReturn
CHECK_DEADLOCK FALSE
