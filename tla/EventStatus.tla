---------------------------- MODULE EventStatus ----------------------------
(***************************************************************************)
(* The event lifecycle as pure operators: the linear chain of statuses,    *)
(* the gate on a status write, the status an event's timestamps call for,  *)
(* and the two edit gates of the event and of its club.  Nothing here      *)
(* changes state; the modules that do EXTEND this one.                     *)
(***************************************************************************)
EXTENDS Naturals

\* An event's place on the chain.  CANCELLED is no step of it: it sorts below
\* every step, as indexOf's -1 does.
ChainIndex ==
  [CANCELLED |-> 0, DRAFT |-> 1, PUBLISHED |-> 2, REGISTRATION_CLOSED |-> 3,
   ONGOING |-> 4, COMPLETED |-> 5, CERTIFIED |-> 6]

EventStatuses == DOMAIN ChainIndex

ClubStatuses == {"ACTIVE", "SUSPENDED", "ARCHIVED"}

\* `from` lies strictly before `to` on the chain.
Behind(from, to) == ChainIndex[from] < ChainIndex[to]

\* The gate an operator's status write passes: one step along the chain, or
\* to CANCELLED, and never out of a terminal status.
CanTransition(from, to) ==
  /\ from # to
  /\ from \notin {"CANCELLED", "CERTIFIED"}
  /\ to = "CANCELLED" \/ ChainIndex[to] = ChainIndex[from] + 1

\* A draft waits for its publisher; the two others are terminal.
ClockFree == {"DRAFT", "CANCELLED", "CERTIFIED"}

\* The status the timestamps say an event should be in at time t.  The tests
\* are in lifecycle order, since registration may close as late as the end.
DueStatus(status, w, t) ==
  IF status \in ClockFree             THEN status
  ELSE IF t > w.endsAt                THEN "COMPLETED"
  ELSE IF t >= w.startsAt             THEN "ONGOING"
  ELSE IF t >= w.registrationClosesAt THEN "REGISTRATION_CLOSED"
  ELSE "PUBLISHED"

\* The three rules a set of windows obeys, as the CHECK constraints do.
WindowsValid(w) ==
  /\ w.startsAt < w.endsAt
  /\ w.registrationOpensAt < w.registrationClosesAt
  /\ w.registrationClosesAt <= w.endsAt

\* A suspended or archived club takes on nothing new; only an archived one
\* refuses edits.
AcceptsNewActivity(club) == club = "ACTIVE"
AcceptsEdits(status, club) ==
  /\ club # "ARCHIVED"
  /\ status \notin {"CANCELLED", "COMPLETED", "CERTIFIED"}
=============================================================================
