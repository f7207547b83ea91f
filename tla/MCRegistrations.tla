-------------------------- MODULE MCRegistrations --------------------------
(***************************************************************************)
(* Small instances of Registrations for TLC.                               *)
(***************************************************************************)
EXTENDS RegistrationsLedger, TLC

\* When registration opens and closes, and when the event starts and ends.
Hours(opens, closes, starts, ends) ==
  [registrationOpensAt |-> opens, registrationClosesAt |-> closes,
   startsAt |-> starts, endsAt |-> ends]

KeepAll == [capacity |-> Keep, waitlistEnabled |-> Keep, registrationOpensAt |-> Keep,
            registrationClosesAt |-> Keep, startsAt |-> Keep, endsAt |-> Keep]

\* Seats: the clock stands still inside the registration window.
SeatDrafts == [capacity: {1, 2}, waitlistEnabled: BOOLEAN, windows: {Hours(0, 1, 1, 2)}]
SeatPatches == {[KeepAll EXCEPT !.capacity = c] : c \in {1, 2}}
SeatSymmetry == Permutations(Users) \union Permutations(Regs) \union Permutations(Clients)

\* Lifecycle: a short event, so that two requests and the sweep contend for
\* its row at every boundary, and a patch that puts it off, closes registration
\* later and the waitlist for good.  Nobody is a member of the club:
\* registration is by override.
LifecycleDrafts == [capacity: {1}, waitlistEnabled: {TRUE}, windows: {Hours(0, 1, 1, 2)}]
LifecyclePatches ==
  {[KeepAll EXCEPT !.waitlistEnabled = FALSE, !.registrationClosesAt = 2,
                   !.startsAt = 2, !.endsAt = 3]}
LifecycleSymmetry == Permutations(Clients) \union Permutations(Users) \union Permutations(Regs)

\* Queue: one client at a time beside the sweep, and rows enough for people to
\* wait, leave and come back until the event is over.
QueueDrafts == [capacity: {1}, waitlistEnabled: {TRUE}, windows: {Hours(0, 1, 1, 2)}]
QueueSymmetry == Permutations(Users) \union Permutations(Regs)
=============================================================================
