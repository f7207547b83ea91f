--------------------------- MODULE Registrations ---------------------------
(***************************************************************************)
(* Registration for one event: its row, its registrations, its waitlist    *)
(* and its lifecycle, under concurrent requests.                           *)
(*                                                                         *)
(* A request is a sequence of database transactions at READ COMMITTED.     *)
(* The variables below hold COMMITTED data.  A transaction appears as the  *)
(* reads it makes before it owns the event row (each of what is committed  *)
(* then), the step that takes the row lock, and one step that decides,     *)
(* writes and commits.  Whoever wants to write the event row while it is   *)
(* locked waits.  What was read earlier is kept in the request's own       *)
(* variables and may be out of date when it is used.                       *)
(***************************************************************************)
EXTENDS EventStatus, Integers, FiniteSets, FiniteSetsExt

CONSTANTS
  Users,            \* the people who register
  Regs,             \* row ids; as many registrations as can ever be made
  Clients,          \* requests the API serves at the same time
  Sweeper,          \* the scheduled lifecycle sweep
  None,             \* nobody, nothing: no lock holder, no user, nothing read
  Keep,             \* a field the body of PATCH /events/:id does not name
  Eligible,         \* those who pass the club membership check
  Ops,              \* the requests that arrive, besides those that publish or cancel the event
  Patches,          \* bodies of PATCH /events/:id
  Drafts,           \* what the event may be created with
  ClubStates,       \* the statuses its club moves between
  MaxTime           \* the clock stops here

Procs == Clients \union {Sweeper}

Windows == [registrationOpensAt: Nat, registrationClosesAt: Nat, startsAt: Nat, endsAt: Nat]

DraftBodies == [capacity: Nat \ {0}, waitlistEnabled: BOOLEAN, windows: Windows]

PatchBodies == [capacity: (Nat \ {0}) \union {Keep},
                waitlistEnabled: BOOLEAN \union {Keep},
                registrationOpensAt: Nat \union {Keep},
                registrationClosesAt: Nat \union {Keep},
                startsAt: Nat \union {Keep},
                endsAt: Nat \union {Keep}]

ASSUME FiniteRows == IsFiniteSet(Regs)
ASSUME NamedApart == Sweeper \notin Clients /\ None \notin Procs
ASSUME KeepIsNoValue == Keep \notin Int /\ Keep \notin BOOLEAN
ASSUME EligibleUsers == Eligible \subseteq Users
ASSUME KnownOps ==
  Ops \subseteq {"register", "override", "cancel", "update", "visit",
                 "checkIn", "correct", "issue", "revoke", "reissue"}
ASSUME KnownPatches == Patches \subseteq PatchBodies
ASSUME ClockBound == MaxTime \in Nat
ASSUME ValidDrafts == Drafts \subseteq DraftBodies /\ \A d \in Drafts : WindowsValid(d.windows)
ASSUME ClubStatesKnown == "ACTIVE" \in ClubStates /\ ClubStates \subseteq ClubStatuses

VARIABLES
  now,        \* the clock every Date() reads
  clubStatus, \* club.status
  event,      \* the event row
  reg,        \* the event_registration rows; an unused id has status "NONE"
  notices,    \* the notification rows about places and the cancellation
  tripped,    \* whether a database constraint ever had to refuse a write
  lock,       \* who holds the event row: its transaction is open
  pc,         \* how far each request has come
  req,        \* what each request asks for
  seen,       \* what the request's lifecycle advance last read, and when
  locked      \* what the request read when it took the row lock

dataVars == <<event, reg, notices, tripped>>
procVars == <<lock, pc, req, seen, locked>>
vars == <<now, clubStatus, dataVars, procVars>>
-----------------------------------------------------------------------------
(***************************************************************************)
(* Rows                                                                    *)
(***************************************************************************)
EventRow == [status: EventStatuses, capacity: Nat \ {0}, confirmedCount: Nat,
             waitlistEnabled: BOOLEAN, windows: Windows]

SeatStatuses == {"CONFIRMED", "CHECKED_IN", "ATTENDED", "NO_SHOW"}
RegStatuses == SeatStatuses \union {"NONE", "WAITLISTED", "CANCELLED"}

RegRow == [user: Users \union {None}, status: RegStatuses, position: Nat]
NoRow == [user |-> None, status |-> "NONE", position |-> 0]

WithStatus(rows, s) == {r \in Regs : rows[r].status = s}
Unused == WithStatus(reg, "NONE")
Waiting == WithStatus(reg, "WAITLISTED")
HoldingSeat(rows) == {r \in Regs : rows[r].status \in SeatStatuses}
Seated == HoldingSeat(reg)

\* The rows the partial unique index covers.
IsOpen(row) == row.status \notin {"NONE", "CANCELLED"}
OpenRows == {r \in Regs : IsOpen(reg[r])}
OpenOf(rows, u) == {r \in Regs : IsOpen(rows[r]) /\ rows[r].user = u}

\* event_capacity_bounds and event_registration_one_open_per_user.
CapacityBounds(e) == e.confirmedCount \in 0 .. e.capacity
OneOpenPerUser(rows) ==
  \A r, s \in Regs :
    IsOpen(rows[r]) /\ IsOpen(rows[s]) /\ rows[r].user = rows[s].user => r = s

Allowed(e, rows) == CapacityBounds(e) /\ OneOpenPerUser(rows)

\* What a transaction writes, if the constraints let it; else it rolls back.
Store(e, rows, sent) ==
  IF Allowed(e, rows)
  THEN event' = e /\ reg' = rows /\ notices' = notices \union sent /\ UNCHANGED tripped
  ELSE tripped' = TRUE /\ UNCHANGED <<event, reg, notices>>
-----------------------------------------------------------------------------
(***************************************************************************)
(* Requests                                                                *)
(***************************************************************************)
Registering == {"register", "override"}
OfUser == Registering \union {"cancel"}

CertificateOps == {"issue", "revoke", "reissue"}

NoRequest == [op |-> "none"]
Requests ==
  [op: OfUser \union {"checkIn"}, user: Users] \union [op: {"update"}, patch: Patches]
  \union [op: {"correct"}, reg: Regs, present: BOOLEAN]
  \union [op: {"none", "visit", "sweep", "publish", "cancelEvent"} \union CertificateOps]

\* What follows an advance that found or left the event in `status`.  A read
\* of the event has nothing left to do, the write behind publish and
\* cancelEvent came before it, and nobody is checked in unless it is ONGOING.
\* What happens at the desk is module Attendance's.
AfterAdvance(op, status) ==
  IF op \in OfUser \union {"update"} THEN "lock"
  ELSE IF op = "correct" \/ (op = "checkIn" /\ status = "ONGOING") THEN "desk"
  ELSE "idle"

\* The request is over: answered, refused, or rolled back.
Finish(p) ==
  /\ pc' = [pc EXCEPT ![p] = "idle"]
  /\ req' = [req EXCEPT ![p] = NoRequest]
  /\ seen' = [seen EXCEPT ![p] = None]
  /\ locked' = [locked EXCEPT ![p] = None]

\* From the end of the advance, which answers `status`, to the operation's own
\* transaction.
Proceed(p, status) ==
  IF AfterAdvance(req[p].op, status) = "idle"
  THEN Finish(p)
  ELSE /\ pc' = [pc EXCEPT ![p] = AfterAdvance(req[p].op, status)]
       /\ seen' = [seen EXCEPT ![p] = None]
       /\ UNCHANGED <<req, locked>>

GoTo(p, step) == pc' = [pc EXCEPT ![p] = step] /\ UNCHANGED <<req, locked>>

\* Mutant: the row is read without FOR UPDATE, so nobody ever waits.
RowFreeUnlocked == TRUE

\* No open transaction holds the event row, so a write to it need not wait.
RowFree == lock = None

Init ==
  /\ now = 0
  /\ clubStatus = "ACTIVE"
  /\ event \in {[status |-> "DRAFT", capacity |-> d.capacity, confirmedCount |-> 0,
                 waitlistEnabled |-> d.waitlistEnabled, windows |-> d.windows] : d \in Drafts}
  /\ reg = [r \in Regs |-> NoRow]
  /\ notices = {}
  /\ tripped = FALSE
  /\ lock = None
  /\ pc = [p \in Procs |-> "idle"]
  /\ req = [p \in Procs |-> NoRequest]
  /\ seen = [p \in Procs |-> None]
  /\ locked = [p \in Procs |-> None]

Tick ==
  /\ now < MaxTime
  /\ now' = now + 1
  /\ UNCHANGED <<clubStatus, dataVars, procVars>>

\* The club's status changes under this event's feet; its row is not locked by
\* anything here.
ClubStatusChange ==
  /\ clubStatus' \in ClubStates \ {clubStatus}
  /\ UNCHANGED <<now, dataVars, procVars>>

\* Bound: a registering request arrives only while a row id is left for it.
RowLeftFor(r) ==
  r.op \in Registering =>
    Cardinality({q \in Procs : req[q].op \in Registering}) < Cardinality(Unused)

\* A request that advances the lifecycle before it does anything else.
Arrive(p) ==
  /\ p \in Clients
  /\ pc[p] = "idle"
  /\ \E r \in Requests :
       /\ r.op \in Ops \ CertificateOps
       /\ RowLeftFor(r)
       /\ req' = [req EXCEPT ![p] = r]
  /\ pc' = [pc EXCEPT ![p] = "advance"]
  /\ UNCHANGED <<now, clubStatus, dataVars, lock, seen, locked>>

\* The stored status lies behind what the clock says.
Overdue == Behind(event.status, DueStatus(event.status, event.windows, now))

\* Mutant: an event already under way is not a candidate.
SweepScanBeforeStart(p) ==
  /\ p = Sweeper
  /\ pc[p] = "idle"
  /\ event.status \in {"PUBLISHED", "REGISTRATION_CLOSED"}
  /\ Overdue
  /\ req' = [req EXCEPT ![p] = [op |-> "sweep"]]
  /\ pc' = [pc EXCEPT ![p] = "advance"]
  /\ UNCHANGED <<now, clubStatus, dataVars, lock, seen, locked>>

\* The sweep picks the event up: a boundary has passed, and its due status
\* lies ahead of the stored one.
SweepScan(p) ==
  /\ p = Sweeper
  /\ pc[p] = "idle"
  /\ event.status \in {"PUBLISHED", "REGISTRATION_CLOSED", "ONGOING"}
  /\ \/ event.windows.registrationClosesAt <= now
     \/ event.windows.startsAt <= now
     \/ event.windows.endsAt < now
  /\ Overdue
  /\ req' = [req EXCEPT ![p] = [op |-> "sweep"]]
  /\ pc' = [pc EXCEPT ![p] = "advance"]
  /\ UNCHANGED <<now, clubStatus, dataVars, lock, seen, locked>>
-----------------------------------------------------------------------------
(***************************************************************************)
(* The lifecycle advance                                                   *)
(***************************************************************************)
Read(p, t) ==
  seen' = [seen EXCEPT ![p] = [status |-> event.status, windows |-> event.windows, at |-> t]]

DueFor(p) == DueStatus(seen[p].status, seen[p].windows, seen[p].at)

\* The first read, outside any transaction.  The clock is read here and not
\* again.
AdvanceRead(p) ==
  /\ pc[p] = "advance"
  /\ IF DueStatus(event.status, event.windows, now) = event.status
     THEN Proceed(p, event.status)
     ELSE Read(p, now) /\ GoTo(p, "reread")
  /\ UNCHANGED <<now, clubStatus, dataVars, lock>>

\* The second read, inside the transaction, still before any lock.
AdvanceReread(p) ==
  /\ pc[p] = "reread"
  /\ LET due == DueStatus(event.status, event.windows, seen[p].at) IN
       IF Behind(event.status, due)
       THEN Read(p, seen[p].at) /\ GoTo(p, "walk")
       ELSE Proceed(p, event.status)
  /\ UNCHANGED <<now, clubStatus, dataVars, lock>>

\* Mutant: the hop's write does not check the status it starts from.
StillAsReadUnchecked(p) == TRUE

\* Each hop is a write conditional on the status the walk believes in.
StillAsRead(p) == event.status = seen[p].status

\* Mutant: no-shows are marked only on the hop out of ONGOING as it was read,
\* not when a walk passes several statuses at once.
NoShowsFromOngoing(due) ==
  [r \in Regs |-> IF due = "COMPLETED" /\ event.status = "ONGOING" /\ reg[r].status = "CONFIRMED"
                  THEN [reg[r] EXCEPT !.status = "NO_SHOW"] ELSE reg[r]]

NoShows(due) ==
  [r \in Regs |-> IF due = "COMPLETED" /\ reg[r].status = "CONFIRMED"
                  THEN [reg[r] EXCEPT !.status = "NO_SHOW"] ELSE reg[r]]

\* The walk: its first hop takes the row lock, the rest run under it, and all
\* of them commit together.  The hop to COMPLETED marks who never came.
AdvanceWalk(p) ==
  /\ pc[p] = "walk"
  /\ RowFree
  /\ StillAsRead(p)
  /\ Store([event EXCEPT !.status = DueFor(p)], NoShows(DueFor(p)), {})
  /\ Proceed(p, DueFor(p))
  /\ UNCHANGED <<now, clubStatus, lock>>

\* Another advance, or an operator, got there first: no row matches, the walk
\* breaks off and answers the status it still believes in.
AdvanceBeaten(p) ==
  /\ pc[p] = "walk"
  /\ ~StillAsRead(p)
  /\ Proceed(p, seen[p].status)
  /\ UNCHANGED <<now, clubStatus, dataVars, lock>>
-----------------------------------------------------------------------------
(***************************************************************************)
(* The operations under the event row lock                                 *)
(***************************************************************************)

\* SELECT ... FOR UPDATE: waits for the row, then reads it and the club, and
\* the registration the request is about is looked up.
LockEvent(p) ==
  /\ pc[p] = "lock"
  /\ RowFree
  /\ lock' = p
  /\ locked' = [locked EXCEPT ![p] = [event |-> event, club |-> clubStatus, rows |-> reg]]
  /\ pc' = [pc EXCEPT ![p] = "locked"]
  /\ UNCHANGED <<now, clubStatus, dataVars, req, seen>>

Holds(p, ops) == pc[p] = "locked" /\ req[p].op \in ops

\* Mutant: the transaction is left open and the row stays locked.
EndTransactionLeftOpen(p) ==
  /\ UNCHANGED lock
  /\ Finish(p)
  /\ UNCHANGED <<now, clubStatus>>

\* Commit, or roll back when nothing was written; either lets the row go.
EndTransaction(p) ==
  /\ lock' = None
  /\ Finish(p)
  /\ UNCHANGED <<now, clubStatus>>

\* The first n of the waitlist.  Ties in position fall either way.
FrontOfQueue(n) ==
  {front \in SUBSET Waiting :
     /\ Cardinality(front) = Min({n, Cardinality(Waiting)})
     /\ \A r \in front, s \in Waiting \ front : reg[r].position <= reg[s].position}

\* Those promoted when `seats` come free.
Promotable(seats) == IF seats <= 0 THEN {{}} ELSE FrontOfQueue(seats)

\* Mutant: the promoted leave the waitlist's order and keep its status.
PromotedPositionOnly(rows, chosen) ==
  [r \in Regs |-> IF r \in chosen THEN [rows[r] EXCEPT !.position = 0] ELSE rows[r]]

Promoted(rows, chosen) ==
  [r \in Regs |-> IF r \in chosen
                  THEN [rows[r] EXCEPT !.status = "CONFIRMED", !.position = 0] ELSE rows[r]]

\* Mutant: nobody is told of a promotion.
NoPromotionNotices(chosen) == {}

PromotionNotices(chosen) == {<<"registration.promoted", r>> : r \in chosen}

\* POST /events/:id/registrations ---------------------------------------------
SeatFree(p) == locked[p].event.confirmedCount < locked[p].event.capacity

Admissible(p) ==
  LET e == locked[p].event IN
  /\ OpenOf(locked[p].rows, req[p].user) = {}
  /\ e.status = "PUBLISHED"
  /\ now >= e.windows.registrationOpensAt
  /\ now < e.windows.registrationClosesAt
  /\ AcceptsNewActivity(locked[p].club)
  /\ req[p].op = "override" \/ req[p].user \in Eligible
  /\ SeatFree(p) \/ e.waitlistEnabled

\* Mutant: newcomers are numbered by counting those who wait.
WaitlistLengthPlusOne == Cardinality(Waiting) + 1

\* Mutant: newcomers are numbered downwards.
WaitlistPositionBelow == Max({0} \union {reg[r].position : r \in Waiting}) - 1

NextWaitlistPosition == Max({0} \union {reg[r].position : r \in Waiting}) + 1

RegisterConfirmed(p) ==
  /\ Holds(p, Registering)
  /\ Admissible(p)
  /\ SeatFree(p)
  /\ \E r \in Unused :
       Store([event EXCEPT !.confirmedCount = @ + 1],
             [reg EXCEPT ![r] = [user |-> req[p].user, status |-> "CONFIRMED", position |-> 0]],
             {<<"registration.confirmed", r>>})
  /\ EndTransaction(p)

RegisterWaitlisted(p) ==
  /\ Holds(p, Registering)
  /\ Admissible(p)
  /\ ~SeatFree(p)
  /\ \E r \in Unused :
       Store(event,
             [reg EXCEPT ![r] = [user |-> req[p].user, status |-> "WAITLISTED",
                                 position |-> NextWaitlistPosition]],
             {<<"registration.waitlisted", r>>})
  /\ EndTransaction(p)

\* Refused, or answered with the place already held: nothing is written.
RegisterUnchanged(p) ==
  /\ Holds(p, Registering)
  /\ ~Admissible(p)
  /\ EndTransaction(p)
  /\ UNCHANGED dataVars

\* DELETE /events/:id/registrations/me ------------------------------------------
Withdrawable(p) ==
  IF locked[p].event.status \in {"PUBLISHED", "REGISTRATION_CLOSED", "CANCELLED"}
  THEN {r \in OpenOf(locked[p].rows, req[p].user) :
          locked[p].rows[r].status \in {"CONFIRMED", "WAITLISTED"}}
  ELSE {}

\* Mutant: a withdrawn registration is deleted.
Deleted(r) == [reg EXCEPT ![r] = NoRow]

Cancelled(r) == [reg EXCEPT ![r].status = "CANCELLED"]

\* A confirmed seat comes free and goes to the head of the waitlist, unless
\* the event itself is off.
CancelSeat(p) ==
  /\ Holds(p, {"cancel"})
  /\ \E r \in Withdrawable(p) :
       /\ locked[p].rows[r].status = "CONFIRMED"
       /\ \E chosen \in Promotable(IF locked[p].event.status = "CANCELLED" THEN 0 ELSE 1) :
            Store([event EXCEPT !.confirmedCount = (@ - 1) + Cardinality(chosen)],
                  Promoted(Cancelled(r), chosen), PromotionNotices(chosen))
  /\ EndTransaction(p)

CancelWaitlisted(p) ==
  /\ Holds(p, {"cancel"})
  /\ \E r \in Withdrawable(p) :
       locked[p].rows[r].status = "WAITLISTED" /\ Store(event, Cancelled(r), {})
  /\ EndTransaction(p)

CancelRefused(p) ==
  /\ Holds(p, {"cancel"})
  /\ Withdrawable(p) = {}
  /\ EndTransaction(p)
  /\ UNCHANGED dataVars

\* PATCH /events/:id -------------------------------------------------------------
Merge(value, old) == IF value = Keep THEN old ELSE value

Merged(p) ==
  LET e == locked[p].event
      b == req[p].patch
      w == [field \in DOMAIN e.windows |-> Merge(b[field], e.windows[field])]
  IN [event EXCEPT !.capacity = Merge(b.capacity, @),
                   !.waitlistEnabled = Merge(b.waitlistEnabled, @), !.windows = w]

Reopens(p) ==
  /\ req[p].patch.registrationClosesAt # Keep
  /\ req[p].patch.registrationClosesAt > now
  /\ locked[p].event.status \in {"REGISTRATION_CLOSED", "ONGOING"}

Editable(p) ==
  /\ AcceptsEdits(locked[p].event.status, locked[p].club)
  /\ WindowsValid(Merged(p).windows)
  /\ ~Reopens(p)
  /\ Merged(p).capacity >= locked[p].event.confirmedCount

\* Mutant: raising the capacity promotes nobody.
NoHeadroom(p) == 0

\* The seats a raised capacity frees.
Headroom(p) ==
  IF Merged(p).capacity > locked[p].event.capacity
  THEN Merged(p).capacity - locked[p].event.confirmedCount ELSE 0

Update(p) ==
  /\ Holds(p, {"update"})
  /\ Editable(p)
  /\ \E chosen \in Promotable(Headroom(p)) :
       Store([Merged(p) EXCEPT !.confirmedCount = @ + Cardinality(chosen)],
             Promoted(reg, chosen), PromotionNotices(chosen))
  /\ EndTransaction(p)

UpdateRefused(p) ==
  /\ Holds(p, {"update"})
  /\ ~Editable(p)
  /\ EndTransaction(p)
  /\ UNCHANGED dataVars
-----------------------------------------------------------------------------
(***************************************************************************)
(* The operators' status writes: the row is read unlocked, then written    *)
(* without any condition on what was read                                  *)
(***************************************************************************)
ReadThenWrite(p, op) ==
  /\ p \in Clients
  /\ pc[p] = "idle"
  /\ pc' = [pc EXCEPT ![p] = "write"]
  /\ req' = [req EXCEPT ![p] = [op |-> op]]
  /\ UNCHANGED <<now, clubStatus, dataVars, lock, seen, locked>>

PublishRead(p) ==
  /\ AcceptsNewActivity(clubStatus)
  /\ CanTransition(event.status, "PUBLISHED")
  /\ ReadThenWrite(p, "publish")

\* Answering reads the event back, which advances it.
PublishWrite(p) ==
  /\ pc[p] = "write"
  /\ req[p].op = "publish"
  /\ RowFree
  /\ Store([event EXCEPT !.status = "PUBLISHED"], reg, {})
  /\ pc' = [pc EXCEPT ![p] = "advance"]
  /\ UNCHANGED <<now, clubStatus, lock, req, seen, locked>>

CancelEventRead(p) ==
  /\ CanTransition(event.status, "CANCELLED")
  /\ ReadThenWrite(p, "cancelEvent")

\* Mutant: only those holding a seat are told.
SeatedHolders == {reg[r].user : r \in Seated}

\* Those told of a cancellation: everyone with a place, read after the write
\* took the row.
Holders == {reg[r].user : r \in OpenRows}

CancelEventWrite(p) ==
  /\ pc[p] = "write"
  /\ req[p].op = "cancelEvent"
  /\ RowFree
  /\ Store([event EXCEPT !.status = "CANCELLED"], reg,
           {<<"event.cancelled", u>> : u \in Holders})
  /\ Finish(p)
  /\ UNCHANGED <<now, clubStatus, lock>>

\* A request dies part-way: the process goes, the connection drops or the
\* transaction times out.  What it had not committed is rolled back.
Die(p) ==
  /\ p \in Clients
  /\ pc[p] # "idle"
  /\ lock' = IF lock = p THEN None ELSE lock
  /\ Finish(p)
  /\ UNCHANGED <<now, clubStatus, dataVars>>
-----------------------------------------------------------------------------
Advance(p) == AdvanceRead(p) \/ AdvanceReread(p) \/ AdvanceWalk(p) \/ AdvanceBeaten(p)
Register(p) == RegisterConfirmed(p) \/ RegisterWaitlisted(p) \/ RegisterUnchanged(p)
Cancel(p) == CancelSeat(p) \/ CancelWaitlisted(p) \/ CancelRefused(p)
Patch(p) == Update(p) \/ UpdateRefused(p)
StatusWrite(p) == PublishWrite(p) \/ CancelEventWrite(p)

\* What a request that has begun still does.
Continue(p) ==
  Advance(p) \/ LockEvent(p) \/ Register(p) \/ Cancel(p) \/ Patch(p) \/ StatusWrite(p)

Step(p) ==
  Arrive(p) \/ SweepScan(p) \/ PublishRead(p) \/ CancelEventRead(p) \/ Continue(p) \/ Die(p)

Next == Tick \/ ClubStatusChange \/ \E p \in Procs : Step(p)

Spec == Init /\ [][Next]_vars
-----------------------------------------------------------------------------
(***************************************************************************)
(* Fairness.  A request that has begun is driven on by the server; the     *)
(* sweep is scheduled for ever; and Postgres grants a row lock in the      *)
(* order it was asked for, so nobody waits for one for ever.               *)
(***************************************************************************)
TakesRow(p) == LockEvent(p) \/ AdvanceWalk(p) \/ StatusWrite(p)

FairSpec ==
  /\ Spec
  /\ \A p \in Procs : WF_vars(Continue(p)) /\ SF_vars(TakesRow(p))
  /\ WF_vars(SweepScan(Sweeper))
-----------------------------------------------------------------------------
(***************************************************************************)
(* Properties                                                              *)
(***************************************************************************)
Notices == ({"registration.confirmed", "registration.waitlisted", "registration.promoted"} \X Regs)
           \union ({"event.cancelled"} \X Users)

DataTypeOK ==
  /\ event \in EventRow
  /\ reg \in [Regs -> RegRow]
  /\ \A r \in Regs : IsOpen(reg[r]) => reg[r].user \in Users
  /\ notices \subseteq Notices
  /\ tripped \in BOOLEAN

Reads == [status: EventStatuses, windows: Windows, at: Nat]
LockedReads == [event: EventRow, club: ClubStatuses, rows: [Regs -> RegRow]]

RequestTypeOK ==
  /\ lock \in Procs \union {None}
  /\ pc \in [Procs -> {"idle", "advance", "reread", "walk", "lock", "locked", "write", "desk"}]
  /\ req \in [Procs -> Requests]
  /\ seen \in [Procs -> Reads \union {None}]
  /\ locked \in [Procs -> LockedReads \union {None}]
  /\ \A p \in Procs : pc[p] \in {"reread", "walk"} => seen[p] \in Reads
  /\ \A p \in Procs : pc[p] = "locked" => locked[p] \in LockedReads

TypeOK ==
  /\ now \in 0 .. MaxTime
  /\ clubStatus \in ClubStatuses
  /\ DataTypeOK
  /\ RequestTypeOK

\* The counter on the event row is the number of rows holding a seat: every
\* write that gives or frees a seat moves both, in one transaction.
SeatCountExact == event.confirmedCount = Cardinality(Seated)

\* What a request read when it took the row is what is committed until it lets
\* the row go: the status, seats, windows and places it decides on are never
\* stale.
LockedReadIsCurrent ==
  \A p \in Procs :
    pc[p] = "locked" => lock = p /\ locked[p].event = event /\ locked[p].rows = reg

\* The row lock is enough.  No interleaving of requests ever makes a write
\* that event_capacity_bounds or the one-open-registration index must refuse:
\* the constraints are a guarantee, not the mechanism.
ConstraintsNeverFire == ~tripped

\* Nobody waits while a seat stands empty.  The one exception is an event that
\* was cancelled over its holders' heads: a seat given up then is not filled.
NoIdleSeat ==
  (\A u \in Users : <<"event.cancelled", u>> \notin notices)
    => Waiting = {} \/ event.confirmedCount = event.capacity

\* The waitlist is a queue: no two of those waiting share a position.
QueueIsStrict ==
  \A r, s \in Waiting : reg[r].position = reg[s].position => r = s

\* Once an event is over nobody is still expected: whoever was confirmed and
\* never came is a NO_SHOW.
NobodyExpectedAfterTheEnd ==
  event.status \in {"COMPLETED", "CERTIFIED"} => WithStatus(reg, "CONFIRMED") = {}

\* Everyone with a place at a cancelled event has been told so, whatever was
\* registering, withdrawing or promoting while the cancellation went through.
CancellationReachesHolders ==
  event.status = "CANCELLED" =>
    \A r \in OpenRows : <<"event.cancelled", reg[r].user>> \in notices

\* Everyone waiting was told they wait, and everyone holding a seat was told
\* they have it; promotion from the waitlist is news.
PlacesAnnounced ==
  /\ \A r \in Waiting : <<"registration.waitlisted", r>> \in notices
  /\ \A r \in Seated :
       \/ <<"registration.promoted", r>> \in notices
       \/ <<"registration.confirmed", r>> \in notices /\ <<"registration.waitlisted", r>> \notin notices

\* Time and cancellation only ever move an event onward.  Whatever read stale
\* data, a step that does not end in PUBLISHED goes forward along the chain or
\* to CANCELLED.
StatusNeverRewinds ==
  [][event'.status \notin {event.status, "PUBLISHED"}
       => event'.status = "CANCELLED" \/ (event.status # "CANCELLED"
                                          /\ Behind(event.status, event'.status))]_vars

\* "CERTIFIED and CANCELLED are terminal": what assertTransition's comment
\* promises of every status write.
TerminalStatusesStay ==
  [][event.status \in {"CANCELLED", "CERTIFIED"} => event'.status = event.status]_vars

\* Every transition but publication and cancellation is "a function of the
\* clock": an event is COMPLETED only once the end on its row has passed.
CompletedMeansOver == event.status = "COMPLETED" => now > event.windows.endsAt

\* An event nobody looks at is still driven on: the stored status does not lag
\* behind the clock for ever, because the sweep gets to it.
SweepCatchesUp == []<>~Overdue

\* No request waits for ever, on the row lock or on another request.
RequestsFinish == \A p \in Clients : pc[p] # "idle" ~> pc[p] = "idle"
=============================================================================
