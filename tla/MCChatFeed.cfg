CONSTANTS
  alice = alice
  bob = bob
  ssh = ssh
  web = web
  irc = irc
  Nicks = {alice, bob}
  Channels = {"#lobby", "#ansi"}
  NoArea = NoArea
  Callers = {ssh, irc}
  NickOf <- MCNickOf
  Subs = {1, 2}
  BanDurations = {}
  HistoryLimit = 2
  RateBurst = 3
  RateWindow = 1
  BufferCap = 2
  MaxMessages = 3
  MaxClock = 0
CHECK_DEADLOCK FALSE
SPECIFICATION FairFeedSpec
INVARIANTS TypeOK HistoryIsRecentPosts NoLossWithinCapacity
PROPERTIES FeedPromise EveryMessageArrives
