SPECIFICATION FairSpec
CONSTANTS
  Users = {u1}
  Regs = {r1}
  Clients = {c1, c2}
  Sweeper = sweeper
  None = none
  Keep = keep
  Eligible = {}
  Ops = {"override", "update"}
  Patches <- LifecyclePatches
  MaxTime = 3
  Drafts <- LifecycleDrafts
  ClubStates = {"ACTIVE"}
INVARIANTS
  LockedReadIsCurrent
PROPERTIES
  StatusNeverRewinds
  SweepCatchesUp
  RequestsFinish
CHECK_DEADLOCK FALSE
