CONSTANTS
  alice = alice
  bob = bob
  a1 = a1
  a2 = a2
  b1 = b1
  quest = quest
  duel = duel
  realm = realm
  Sessions = {a1, a2, b1}
  UserOf <- MCUserOf
  Users = {alice, bob}
  Doors = {quest, duel, realm}
  NoDoor = NoDoor
  Mode <- MCMode
  DailyTurns <- MCDailyTurns
  TimeBankMax <- MCTimeBankMax
  MayFail = TRUE
  MaxDays = 2
  MaxLaunches = 4
SPECIFICATION MCSpec
INVARIANTS TypeOK   BankOnlySaves
