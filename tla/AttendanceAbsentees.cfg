SPECIFICATION AfterSpec
CONSTANTS
  Users = {u1, u2}
  Regs = {r1, r2}
  Certs = {d1, d2, d3}
  Clients = {c1, c2}
  Sweeper = sweeper
  None = none
  Keep = keep
  Eligible = {}
  Ops = {"correct", "issue", "revoke", "reissue"}
  Patches = {}
  MaxTime = 3
  Drafts = {}
  ClubStates = {"ACTIVE"}
SYMMETRY AfterSymmetry
INVARIANT AbsenteesHoldNoCertificate
CHECK_DEADLOCK FALSE
