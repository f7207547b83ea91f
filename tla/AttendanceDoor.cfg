SPECIFICATION AttendanceSpec
CONSTANTS
  Users = {u1, u2}
  Regs = {r1, r2}
  Certs = {}
  Clients = {c1, c2}
  Sweeper = sweeper
  None = none
  Keep = keep
  Eligible <- Users
  Ops = {"register", "cancel", "checkIn"}
  Patches = {}
  MaxTime = 3
  Drafts <- DoorDrafts
  ClubStates = {"ACTIVE"}
SYMMETRY DoorSymmetry
INVARIANTS
  DoorAgrees
  AdmittedHeldSeats
CHECK_DEADLOCK FALSE
