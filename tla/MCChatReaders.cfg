CONSTANTS
  bbsd = bbsd
  web = web
  ircd = ircd
  alice = alice
  desk = desk
  tab1 = tab1
  tab2 = tab2
  ircConn = ircConn
  ircUser = ircUser
  page = page
  Nicks = {alice}
  NoRoom = NoRoom
  ProcOf <- MCProcOf
  NickOf <- MCNickOf
  HostOf <- MCHostOf
  BufferCap = 1
  Batch = 2
  Procs = {web, ircd}
  Callers = {tab1, ircConn}
  Listening = {ircd}
  Rooms = {"#lobby", "#ansi"}
  IrcClients = {ircUser}
  Browsers = {page}
  RateBurst = 2
  MaxMessages = 2
  MaxFaults = 0
SPECIFICATION FairReaderSpec
INVARIANTS TypeOK 
PROPERTIES IrcCatchesUp
