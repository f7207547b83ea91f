---------------------------- MODULE MCAttendance ----------------------------
(***************************************************************************)
(* Small instances of Attendance for TLC.                                  *)
(***************************************************************************)
EXTENDS Attendance, TLC

Hours(opens, closes, starts, ends) ==
  [registrationOpensAt |-> opens, registrationClosesAt |-> closes,
   startsAt |-> starts, endsAt |-> ends]

\* The door: people register, withdraw and are scanned while the event opens,
\* runs and ends.
DoorDrafts == [capacity: {1}, waitlistEnabled: {TRUE}, windows: {Hours(0, 1, 1, 2)}]
DoorSymmetry == Permutations(Clients) \union Permutations(Users) \union Permutations(Regs)

\* After the end: an event of which each registration was attended, missed or
\* withdrawn, with its records and statuses as the walk to COMPLETED leaves them.
AfterTheEnd ==
  \E came \in SUBSET Regs, withdrawn \in SUBSET Regs, owner \in [Regs -> Users] :
    /\ came \intersect withdrawn = {}
    /\ \A r, s \in Regs : owner[r] = owner[s] => r = s
    /\ now = MaxTime
    /\ clubStatus = "ACTIVE"
    /\ event = [status |-> "COMPLETED", capacity |-> Cardinality(Regs),
                confirmedCount |-> Cardinality(Regs \ withdrawn), waitlistEnabled |-> FALSE,
                windows |-> Hours(0, 1, 1, 2)]
    /\ reg = [r \in Regs |-> [user |-> owner[r], position |-> 0,
                              status |-> IF r \in came THEN "CHECKED_IN"
                                         ELSE IF r \in withdrawn THEN "CANCELLED" ELSE "NO_SHOW"]]
    /\ records = came
    /\ notices = {<<"registration.confirmed", r>> : r \in Regs}
    /\ tripped = FALSE
    /\ lock = None
    /\ pc = [p \in Procs |-> "idle"]
    /\ req = [p \in Procs |-> NoRequest]
    /\ seen = [p \in Procs |-> None]
    /\ locked = [p \in Procs |-> None]
    /\ NothingIssued

AfterSpec == AfterTheEnd /\ [][AttendanceNext]_allVars
AfterSymmetry == Permutations(Clients) \union Permutations(Users) \union Permutations(Regs)
                 \union Permutations(Certs)
=============================================================================
