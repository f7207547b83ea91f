SPECIFICATION Spec
CONSTANTS
  Users = {u1}
  Regs = {r1}
  Clients = {c1, c2}
  Sweeper = sweeper
  None = none
  Keep = keep
  Eligible = {}
  Ops = {"override", "cancel", "update", "visit"}
  Patches <- LifecyclePatches
  MaxTime = 4
  Drafts <- LifecycleDrafts
  ClubStates = {"ACTIVE"}
SYMMETRY LifecycleSymmetry
PROPERTY TerminalStatusesStay
CHECK_DEADLOCK FALSE
