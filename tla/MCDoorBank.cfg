CONSTANTS
  alice = alice
  bob = bob
  a1 = a1
  a2 = a2
  b1 = b1
  quest = quest
  duel = duel
  realm = realm
  Sessions = {b1}
  UserOf <- MCUserOf
  Users = {alice, bob}
  Doors = {quest}
  NoDoor = NoDoor
  Mode <- MCMode
  DailyTurns <- MCDailyTurns
  TimeBankMax <- MCTimeBankMax
  MayFail = FALSE
  MaxDays = 3
  MaxLaunches = 5
SPECIFICATION Spec
PROPERTIES EachLaunchTakesOneTurn
