CONSTANTS
  bbsd = bbsd
  web = web
  ircd = ircd
  alice = alice
  desk = desk
  tab1 = tab1
  tab2 = tab2
  ircConn = ircConn
  ircUser = ircUser
  page = page
  Nicks = {alice}
  NoRoom = NoRoom
  ProcOf <- MCProcOf
  NickOf <- MCNickOf
  HostOf <- MCHostOf
  BufferCap = 1
  Batch = 2
  Procs = {bbsd, web, ircd}
  Callers = {desk, tab1, tab2, ircConn}
  Listening = {bbsd}
  Rooms = {"#lobby"}
  IrcClients = {}
  Browsers = {}
  RateBurst = 1
  MaxMessages = 4
  MaxFaults = 1
SPECIFICATION Spec
INVARIANTS RateOverrunBounded BanReachesEveryProcess
