CONSTANTS
  alice = alice
  bob = bob
  ssh = ssh
  web = web
  irc = irc
  Nicks = {alice}
  Channels = {"#lobby", "#ansi"}
  NoArea = NoArea
  Callers = {ssh, web}
  NickOf <- MCNickOf
  Subs = {}
  BanDurations = {0, 1}
  HistoryLimit = 3
  RateBurst = 2
  RateWindow = 2
  BufferCap = 1
  MaxMessages = 3
  MaxClock = 2
SPECIFICATION Spec
INVARIANTS RateRespected PresenceInRoom
PROPERTIES SilenceHolds
