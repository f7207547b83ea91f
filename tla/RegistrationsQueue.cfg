SPECIFICATION Spec
CONSTANTS
  Users = {u1, u2, u3}
  Regs = {r1, r2, r3, r4}
  Clients = {c1}
  Sweeper = sweeper
  None = none
  Keep = keep
  Eligible <- Users
  Ops = {"register", "cancel"}
  Patches = {}
  MaxTime = 3
  Drafts <- QueueDrafts
  ClubStates = {"ACTIVE"}
SYMMETRY QueueSymmetry
INVARIANTS
  QueueIsStrict
  NobodyExpectedAfterTheEnd
CHECK_DEADLOCK FALSE
