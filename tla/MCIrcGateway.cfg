CONSTANTS
  c1 = c1
  c2 = c2
  c3 = c3
  home = home
  cafe = cafe
  alice = alice
  sysop = sysop
  Conns = {c1, c2, c3}
  IPs = {home}
  Banned = {}
  Nicks = {alice, sysop}
  Accounts = {alice, sysop}
  Moderators = {sysop}
  NoNick = NoNick
  NoConn = NoConn
  Rooms = {"#lobby"}
  NoRoom = NoRoom
  MaxConn = 2
  MaxPerIP = 2
  RequirePass = TRUE
  AllowAlias = FALSE
  LineCap = 1
SPECIFICATION MCSpec
INVARIANTS TypeOK ConnectionsCounted RegistryNamesLiveClients GhostsHaveACause PollerFollowsClient
CHECK_DEADLOCK FALSE
