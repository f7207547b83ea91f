SPECIFICATION AttendanceSpec
CONSTANTS
  Users = {u1}
  Regs = {r1}
  Certs = {}
  Clients = {c1, c2}
  Sweeper = sweeper
  None = none
  Keep = keep
  Eligible <- Users
  Ops = {"register", "cancel", "correct"}
  Patches = {}
  MaxTime = 3
  Drafts <- DoorDrafts
  ClubStates = {"ACTIVE"}
PROPERTY WithdrawnStayWithdrawn
CHECK_DEADLOCK FALSE
