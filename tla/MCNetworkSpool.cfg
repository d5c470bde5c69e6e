CONSTANTS
  cron = cron
  sysop = sysop
  Files = {1, 2, 3}
  Dirs = {1, 2}
  DirOf <- MCDirOf
  Rows <- MCRows
  Parses = {1, 2, 3}
  Runs = {cron, sysop}
  NoFile = 0
  MaxFaults = 1
SPECIFICATION FairSpec
INVARIANTS TypeOK  DuplicatesHaveACause
PROPERTIES QueueDrains
