CONSTANTS
  guest = guest
  alice = alice
  bob = bob
  a = a
  b = b
  c = c
  tel = tel
  SSH = {a, b}
  Text = {tel}
  SidOf <- MCSharedIds
  Users = {guest, alice}
  Guest = guest
  Area = "Main"
  NoSid = NoSid
  MaxNodes = 2
  MaxCallers = 1
  MaxCrashes = 1
CHECK_DEADLOCK FALSE
SPECIFICATION Spec
INVARIANTS StableNode
