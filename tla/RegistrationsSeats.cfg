SPECIFICATION Spec
CONSTANTS
  Users = {u1, u2, u3}
  Regs = {r1, r2, r3}
  Clients = {c1, c2}
  Sweeper = sweeper
  None = none
  Keep = keep
  Eligible <- Users
  Ops = {"register", "cancel", "update"}
  Patches <- SeatPatches
  MaxTime = 0
  Drafts <- SeatDrafts
  ClubStates = {"ACTIVE", "ARCHIVED"}
SYMMETRY SeatSymmetry
INVARIANTS
  TypeOK
  SeatCountExact
  ConstraintsNeverFire
  NoIdleSeat
  CancellationReachesHolders
  PlacesAnnounced
PROPERTIES
  ImplementsLedger
CHECK_DEADLOCK FALSE
