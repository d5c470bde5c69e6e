CONSTANTS
  guest = guest
  alice = alice
  s1 = s1
  s2 = s2
  s3 = s3
  Sids = {s1, s2, s3}
  Users = {guest, alice}
  Guest = guest
  Areas = {"Welcome", "Doors"}
  Welcome = "Welcome"
  NoSid = NoSid
  MaxNodes = 2
  MaxCallers = 2
  MaxStarts = 3
SYMMETRY SidSymmetry
SPECIFICATION Spec
INVARIANTS TypeOK NodeAssignment RefusedOnlyWhenFull LastCallersAreLatest NoticesAreTrue
