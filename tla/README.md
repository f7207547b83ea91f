# A formal model of Majlis

Majlis runs the events of university clubs: an officer creates and publishes an
event, students register or join its waitlist, operators scan them in at the
door, and certificates are issued to those who came. The API (`src/apps/api`,
NestJS over Prisma and PostgreSQL) keeps every rule. The web client
(`src/apps/web`, Next.js) mostly shows what the API decided; where it decides
something itself (what a scan session shows, what a form sends, which control is
offered, when a call is retried) it is modelled too.

This directory holds TLA+ modules translated from both, the configurations
TLC checks them under, and theorems TLAPS proves about them. A name in
`monospace` is a definition of a module or a symbol of the code; `PROJECT.json`
gives the source lines of every definition.

Where the code lives, under `src/apps/api/src` unless said otherwise:

| short name | file |
|---|---|
| event-status | `events/event-status.ts` |
| lifecycle | `events/event-lifecycle.service.ts` |
| registrations | `events/registrations.service.ts`, `events/waitlist.ts` |
| events | `events/events.service.ts` |
| attendance | `attendance/attendance.service.ts` |
| certificates | `certificates/certificates.service.ts` |
| users | `users/users.service.ts` |
| auth | `auth/auth.service.ts`, `auth/session.guard.ts`, `auth/tokens.service.ts` |
| permissions | `auth/permissions.ts`, `auth/field-permissions.ts`, `auth/permissions.guard.ts` |
| team, membership, assignments | `clubs/team/team.service.ts`, `clubs/membership/membership.service.ts`, `events/assignments.service.ts` |
| clubs | `clubs/clubs.service.ts` |
| pass | `attendance/qr-pass.service.ts`, `attendance/qr-token.ts` |
| notifications | `notifications/notification.service.ts`, `brevo.channel.ts`, `notification-sweep.controller.ts` |
| constraints | `src/apps/api/prisma/migrations/*/migration.sql` |
| scan session | `src/apps/web/src/components/scanner/*.tsx` |
| event form, club profile | `src/apps/web/src/components/event/EventForm.tsx`, `EventFields.tsx`, `components/ClubProfile.tsx` |
| mirrors | `src/apps/web/src/lib/club-sections.ts`, `event-actions.ts`, `club-fields.ts`, `event-fields.ts` |
| join control, retry | `JoinControl.tsx` of a club's page, `src/apps/web/src/lib/api.ts` |

## 1. Inventory

### The parts and what they keep

| part | state | operations | what makes it correct |
|---|---|---|---|
| Event status rules | none | `assertTransition`, `dueStatus`, `assertEventAcceptsEdits`, `assertAcceptsNewActivity` | one step along the chain or to CANCELLED; due status a function of the windows and the clock |
| Event lifecycle | `event.status` | `advance` (before every read and write of an event), `sweep` (scheduled) | never backwards; no-shows marked exactly at COMPLETED; an unread event still moves |
| Registration and waitlist | `event.confirmed_count`, `event_registration` rows | `register` (and Admin override), `cancel`, `promoteFromWaitlist` | counter = rows holding a seat <= capacity; one open row per person; no idle seat while somebody waits; first come, first served |
| Event administration | the `event` row | `create`, `update`, `publish`, `cancel` | capacity never below the seats given; a raise promotes; everyone with a place hears of a move and of a cancellation; no save undoes another's |
| Attendance | `attendance_record` rows, registration status | `checkIn` (scan, manual), `correct` | records and statuses agree; nobody from the waitlist is let in; a withdrawal stays one |
| QR pass | `qr_pass.token_version` | `mine` (creates on first call), `rotate` | one pass per person; an old image is refused, for ever |
| Certificates | `certificate` rows | `issue`, `revoke`, `reissue`, `revokeForRegistration`, verify, download | one valid certificate per registration; none for somebody absent; holders are told |
| Clubs | `club` row | create, edit, `updateStatus` | a club that is not ACTIVE takes on nothing new |
| Team | `club_team_appointment` rows | `appointLead`, `invite`, `accept`, `decline`, `end` | one active Lead per club; an answer to an invitation is final; an officer is a member |
| Membership | `club_membership` rows | `request`, `addMember`, `decide`, `leave`, `remove` | one open membership per person and club; a closed one stays closed |
| Event assignments | `event_assignment` rows | `assign`, `remove` | one row per event, person and responsibility |
| Accounts | `user` row | `update`, `updateStatus`, `bootstrapAdmin` | once there is an active Admin, one always remains |
| Authentication | refresh tokens, reset tokens, `sessions_invalidated_at` | `signup`, `login`, `refresh`, `logout`, `forgotPassword`, `resetPassword` | a reset link works once; logout, a reset and a new address end the sessions; the platform is claimed once |
| Permissions | none | `PermissionsGuard`, `evaluate`, `assertFieldsAllowed` over static tables | the web client's copies of the tables agree with them |
| Notifications | `notification` rows | `record` and its bulk form, `markRead`, `deliverPending` (scheduled) | one row per dedupe key; what was announced is mailed; SENT is true |
| Audit | append-only rows | `record` | written with the change they describe |
| Scan session (web) | the event picked, the last images and verdict | pick, look, send, answer, clear | a verdict names only somebody let in |
| Event form, club profile (web) | what was loaded, what was typed | open, type, save, upload, discard, land | what is sent is what was typed; what is stored holds together |
| Departments, reporting, storage, configuration, HTTP, other pages | - | - | no interplay of their own |

### How they interact

* **One database.** Parts share rows, not messages. A request runs in
  transactions (`TransactionHost.run`, an AsyncLocalStorage transaction at READ
  COMMITTED) and there are no queues between parts.
* **The event row is the lock.** `register`, `cancel` of a registration and
  `update` take it with `SELECT ... FOR UPDATE` (`lockEvent`). The lifecycle's hops
  and the operators' status writes do not; they wait for its holder only because they
  are updates of that row.
* **Foreign keys share it.** Inserting an attendance record or a certificate
  takes `FOR KEY SHARE` on the event row. It waits for whoever holds the row `FOR
  UPDATE` and makes the next one wait, but it does not wait for a status update.
* **Everything advances the event first.** `register`, `cancel`, `update`, `checkIn`,
  `correct` and every read call `advance` in a transaction of its own, so what it
  found can be out of date when the operation's own transaction begins.
* **Desk operations lock nothing.** `checkIn`, `correct`, `issue`, `revoke` and `reissue`
  read rows, decide, and later write by id. Unique indexes are their only order.
* **Some counts need a lock of their own.** "One active Admin remains" is a property of
  the whole table, so `users` takes an advisory lock before it counts
  (`ADMIN_COUNT_LOCK_KEY`), and the first Admin is made under another
  (`BOOTSTRAP_LOCK_KEY`).
* **Offices and memberships are read, then written by id.** Partial unique indexes (one
  active Lead, one open membership) are the only order among those requests.
* **Screens are as old as their last load.** Nothing pushes to the client: what it
  sends is decided on what it was last served.
* **Notifications** are rows written in the same transaction, absorbed by a dedupe
  key, delivered later by a sweep.

### What is hard

1. Concurrent requests over the last seat, and over seats freed, given and resized
   at once.
2. Reads made before the lock (`advance`, `publish`, `cancel` of an event) and used
   after something else committed.
3. Several lifecycle walks over one event, across several boundaries at a time.
4. Desk transactions that never lock, against withdrawals, the end of the event, one
   another, and an issuance run that has inserted rows nobody sees.
5. A request that dies anywhere; a row lock everyone queues on; an event nobody
   reads.
6. Administrators acting on each other at once; user rows and token rows that logout
   locks in the opposite order to everybody else.
7. Answers and decisions written over a row that has moved on since it was read.
8. Answers that reach a screen after it has moved on; images of a pass that outlive its
   rotation.
9. A mail that leaves before the row that says so; an insert absorbed by a row whose
   transaction then rolls back.
10. Saves from screens loaded before each other's.

`PROJECT.json` lists each of these at its line, with the property that would catch
it going wrong.

## 2. The modules

```
EventStatus                     pure rules of the lifecycle
  Registrations                 one event under concurrent requests  (the core)
    RegistrationsLedger         ... refines SeatLedger
      MCRegistrations           instances for TLC
      RegistrationsProofs       theorems (with FiniteMaxima)
    Certificates                issue, revoke, reissue: actions on top
      Attendance                check-in, correct, and the composition of it all
        MCAttendance            instances for TLC
        AttendanceProofs        theorems (EXTENDS RegistrationsProofs too)
SeatLedger                      what registration promises, with no locks or clocks
Scanner                         pass, scan session and the check-in between them
  MCScanner, ScannerProofs
Accounts                        users, sessions, reset links, the locks they take
  MCAccounts, AccountsProofs
Permissions                     the permission tables and the web client's mirrors
  Offices                       appointments, memberships, assignments, club status
    MCOffices, OfficesProofs
  Editing                       the event form, the club profile, and their saves
    MCEditing, EditingProofs    (EXTENDS EventStatus too)
Delivery                        from the recorded row to the mail
  MCDelivery, DeliveryProofs
```

Each `MC` module only gives constants their values. What one component needs of
another it takes as little of as it can: in `Scanner` an event is open until it is
over, in `Editing` roles change by themselves, in `Registrations` who is a member is a
constant. Sections below say what is left out where.

### EventStatus

`ChainIndex` is `CHAIN` with CANCELLED below everything, as `indexOf`'s -1 makes it;
`Behind` is the lifecycle's comparison of indexes; `CanTransition`, `DueStatus`,
`AcceptsEdits`, `WindowsValid` and `AcceptsNewActivity` are the five checks. The order
of `DueStatus`'s tests matters, because registration may close as late as the end.

### Registrations

One event, its registrations, and any number of requests. The variables fall in three
groups.

* *The world*: `now`, `clubStatus`.
* *Committed data*: `event` (the row), `reg` (the registration rows; an unused id has
  status `"NONE"`), `notices` (notification rows, deduplicated, so a set), `tripped`
  (whether a database constraint ever refused a write).
* *Requests in flight*: `lock` (whose transaction holds the event row), and for each
  process `pc`, `req`, `seen` (what `advance` last read, and the time it read the
  clock) and `locked` (what was read when the row was taken).

| action | code |
|---|---|
| `Arrive` | a controller accepts a request that advances first |
| `AdvanceRead` | the first read of `advanceAndRead`, outside a transaction; the clock is read here only |
| `AdvanceReread` | the second read, inside the transaction, before any lock |
| `AdvanceWalk`, `AdvanceBeaten` | `advanceRow`: hops conditional on the status believed in; `count === 0` breaks off |
| `LockEvent` | `SELECT ... FOR UPDATE` and the look-up under it |
| `RegisterConfirmed`, `RegisterWaitlisted`, `RegisterUnchanged` | `register`, including the idempotent answer and every refusal |
| `CancelSeat`, `CancelWaitlisted`, `CancelRefused` | `cancel` and `promoteFromWaitlist` |
| `Update`, `UpdateRefused` | `update` of capacity, waitlist and windows, with the promotion a raise makes |
| `PublishRead`/`PublishWrite`, `CancelEventRead`/`CancelEventWrite` | `publish` and `cancel`: an unlocked read, then an unconditional write |
| `SweepScan` | the candidate query of `sweep` and its due-status filter |
| `ClubStatusChange` | `clubs.updateStatus`, as its events see it |
| `Die` | a crash, a dropped connection or a transaction timeout: uncommitted work is rolled back |
| `Tick` | the clock |

Every write goes through `Store`, which applies `event_capacity_bounds` and
`event_registration_one_open_per_user`: if either would refuse, the transaction leaves
no trace but `tripped`.

A transaction that runs wholly under the row lock is one step after `LockEvent`: no
other transaction can change what it reads, which is exactly what
`LockedReadNeverStale` proves. What such a transaction decides on (`Admissible`,
`Withdrawable`, `Editable`, `Headroom`) comes from `locked`, not from the committed
data, so the model would show a stale decision if one were possible. Promotion uses
`FOR UPDATE SKIP LOCKED`; the only transactions that lock a WAITLISTED row hold the event
row, so nothing is ever skipped and `FrontOfQueue` needs no locked rows.

### SeatLedger and RegistrationsLedger

`SeatLedger` is what registration promises in under a hundred lines, without locks, requests
or clocks: capacity, holders, a FIFO queue, those gone, and one atomic step per change.
The queue is a function from those waiting to the `ticket` each drew; a newcomer's is higher
than all of them, and nobody's ever changes. `Refill` seats those with the lowest tickets until the
seats are full. `RegistrationsLedger` maps `event` and `reg` to it (a ticket is the waitlist
position of an open row) and states `ImplementsLedger`.

### Certificates

Per request, `run` is an issuance run (`IssueRun`: the pending rows read, the rows
inserted, the attempt) and `desk` what a revoke or reissue loaded. `IssueRead`,
`IssuePending`, `IssueInsert` and `IssueFinish` are the steps of `issueCore`: the event read
outside the transaction, the read of who is pending, `INSERT ... ON CONFLICT DO NOTHING`,
and the retry up to `InsertAttempts` when fewer rows were inserted than wanted. Inserted rows
are in `mine` until the run commits: nobody sees them, but the partial unique index makes
others who insert for the same registration wait (`IndexFree`). `RevokeWrite` and `ReissueWrite`
write by the id they loaded, whatever the row has become; `ReissueConflict` is the index's
refusal.

### Attendance

Adds `records` and the actions of `checkIn` (`CheckInRead`, `CheckInRefused`,
`CheckInWrite`, `CheckInAlready`) and `correct` (`CorrectRead`, `CorrectRefused`,
`CorrectReadEvent`, `CorrectLocked`, `CorrectPresent`, `CorrectAbsent`,
`CorrectAbsentFails`), and composes everything: `AttendanceNext` interleaves the whole of
`Registrations` with the desk and with certificates. `EventKeyFree` and `KeyUnshared` are
the foreign keys' share of the event row, in either direction.

### Scanner

`Mine`, `Create` and `Rotate` are the pass; an *image* is a person and the version its
signature commits to, so a printed or photographed one stays about (`issued`) after
`Rotate` retires it. `Create` may lose to another first look. `Increment` and `Fits` are
the two bytes the version has in the token: a rotation past the last one fails.
A screen picks an event (`Pick`, `ChangeEvent`), looks (`Look`), does not send the same
image again for a while (`Repeats`, `RepeatOver`), types an address (`Manual`), and shows
whatever answer arrives (`Arrives`), or none (`Lost`). At the server a scan passes
`PassValid`, then `Gate`, then `Examine`, then `Insert`, which loses to the unique index
if another was first (`InsertLoses`).

Left out: the walk of the event, withdrawals and corrections, which are in `Attendance`;
the HMAC (an image nobody issued is refused); a club's suspension, which answers
like an unknown pass; wording and the counter of those let in.

### Accounts

A step is the run of statements between two lock waits. `holder` says who has each
advisory lock, user row and token row; a transaction's writes appear at its commit, and
`Ends` releases all it held. `UpdateRole`, `UpdateEmail` (which may carry a role too: one PATCH, one
transaction, both locks) and `UpdateStatus` arrive,
`TakeAdminLock` and `Examine` count what is committed under the lock, `WriteRole`,
`WriteEmail`, `Suspend` and `Reinstate` commit. `LogoutRevoke` then `LogoutStamp`,
`ResetSpend` then `ResetPassword` then `ResetRevoke`, are the multi-row transactions; they
take token and user rows in different orders, and `DeadlockVictim` (external) is
PostgreSQL ending one of two that wait for each other. That is enough for any number of
requests: a longer cycle always contains such a pair (`DeadlocksReduceToPairs`, section 4). `Referable` is the foreign key of a new token: it
waits for `FOR UPDATE`, not for an update. `Call`, `CallAnswered`, `CallUnauthorized`,
`RefreshRead`, `RefreshSign` and `SentToLogin` are the client's call with its one
refresh and retry; `Honoured` is `SessionGuard`.

Time is in half seconds, because a token tells only the second it was signed in while the
stamp that ends sessions has milliseconds. That a token of the very second of a stamp is refused
is `InvalidatedSince`, a comparison translated from the guard and no property of its own; what is checked is
which writes can put a stamp back (`OnlyOverlapsMoveStampsBack`). A patch that names the address an account
already has writes no stamp and is `UpdateRole` here. Passwords, names, avatars and the thirty-day
expiry of a refresh token are left out.

### Permissions

Operators only: `ClubColumn`, `EventColumn` and `Evaluate` are the matrix and its lookup,
`CLUB_FIELDS`, `EVENT_FIELDS` and `FieldsAllowed` the field gate, and `clubSectionsFor`,
`canCreateEvent`, `eventActionsFor`, `canEditField` with their tables the client's copies. `MirrorsAgree` compares
the two; it is about constant tables, so no run has it as a property: `MCOffices` evaluates it on every set of
facts as an assumption, and `TablesAlwaysAgree` proves it.
The reason an Admin must give for an override is left out.

### Offices

Every operation is a pair, `...Reads` and `...Writes`. The guard, the transaction's first
reads and the decision are one step (all on committed data, with no lock); the write
follows by id, whatever the row has become. Accepting has three: `AnswerReads`,
`AcceptActivates`, `AcceptJoins`, of which the first two are not yet visible to others.
`RoomToOpen` is the partial unique index. `overwritten` is history: the rows a write found
in another status than its request had read; `accept` writes no membership it saw ACTIVE. `told` is what the
student was last told of a membership; `Lapse` an invitation's expiry.

`decide` is the join control and `ShowsControl` where a page has it: in place of the Manage menu, which every
Admin and every officer with a section of the club sees, so of those who may open a club that is not ACTIVE only
an officer without a section (a CTO) meets it. `PressWorks` compares the label with the open row and the policy
the routes go by; `ControlsAreHonoured` is that, and leaves out the check of the club's status in `leave`, which
the control does not mirror (section 3, item 6). `OfficersWereAdmitted` admits LEFT: a pending request withdrawn
while its sender is being made an officer counts as one who was admitted and left.

### Delivery

`RecordMany` inserts under the dedupe key; an insert that meets an uncommitted row of
another transaction waits for it (`Undecided`), and one that meets a committed row is
absorbed. `SweepStarts` takes the oldest PENDING rows (`Batch`), `Attempt` mails the first and
`Save` writes what it met; between the two the process may `Die`. Calls overlap, with no
lock between them. `DeliverNow` is the password reset's immediate mail.

### Editing

`stored` is the event's and its club's columns. Each officer has one screen (`form`): the
columns as last loaded (`base`), as now shown (`values`), and which were typed since. A
call is a round trip of its own, a save, an image or an assignment, and as many as `Slots` may be
under way at once: an image and an assignment do not wait for a save nor for one another, and whichever ends first
frees the buttons, so that two saves may overlap too. `Submit` sends `ToPatch`, what differs from
`base` and may be edited. `SaveEvent` is the PATCH under the event's row lock: the
gates, `Merged`, `WindowsChecked` and `CertificateComplete` on the merged row, and the notice of
a material change to those who hold a place (`Hearing`) under `ChangeSubject`.
`ExamineClub` and `SaveClub` are the club's, with no lock between. `ReadBack` and `Land` bring
the row back, over whatever has been typed or loaded meanwhile; `Lost` loses a call
before or after its save.

`intended` (each column as it was last typed and saved) and `told` are history. `told` starts from the plan a
registration was made under: the notice of the registration carries neither date nor venue
(registrations.service.ts:166-177), and what the page showed when its student pressed Register, or shows
once it has reloaded (RegisterControl.tsx:67-68), is not modelled. `NobodyMissesAMove` is about the moves since. The same
officer in two tabs is two officers. Columns that differ only in name are one. Left out:
capacity and the reopening of registration (in `Registrations`), the reason of an Admin's
override, a picture's bytes, publish and cancel, which load like an assignment does, and
leaving a screen with a call under way. Two saves of one event are taken to have different
timestamps; `updated_at` has milliseconds and a save holds the row's lock.

### What the abstractions of the core leave out

* A transaction's writes appear together at its commit. Reads it makes earlier without a
  lock are separate steps where something else can commit in between, except that
  check-in's look-ups of the registration and of its record are one step (a second
  check-in between them ends in the same answer).
* The club's columns are taken at the lock. The code reads them with it; no property
  depends on a change in that instant.
* Who is a member is the constant `Eligible`; who may perform an operation is decided
  before it (guards) and left out. The Admin override of the certificate lock on
  corrections is a nondeterministic choice: `CorrectLocked` may refuse, and need not.
* `certificateEnabled` is assumed and the CHECK_IN_ONLY policy applies, the only one there
  is. A reissue's retry after a collision of random codes is left out.
* Slugs, posters, texts, audit rows and the `event.published` notice are left out;
  `event.changed` is in `Editing`.
* The club's other events, and other clubs, share no row with this event.

## 3. The runs

| run | question | instance |
|---|---|---|
| `seats` | Do seats, waitlist, capacity and notices stay in order under any two concurrent requests, and is that what the ledger promises? | 3 people, 3 rows, 2 requests beside the sweep, capacity 1 or 2, waitlist on or off, capacity patches both ways, the club archived and back; clock still, inside the window |
| `lifecycle` | Does an event's status only move onward, with walks, patches, cancellations and publications racing at every boundary; does the sweep catch up with an unread event; does every request end? | 1 person, 2 requests and the sweep, clock 0..3, a patch that puts the event off |
| `queue` | Is the waitlist a queue over a long life of joining, leaving and coming back, and is nobody still expected at the end? | 3 people, 4 rows (so somebody returns), 1 request beside the sweep, clock 0..3 |
| `door` | Do records and statuses agree when scans meet scans, withdrawals, cancellation of the event and its end? | 2 people, capacity 1 with a waitlist, 2 requests and the sweep, clock 0..3 |
| `certificates` | Is there one valid certificate per registration, announced, when runs, reissues, revocations and corrections overlap? | the event over, 2 registrations each attended, missed or withdrawn, 3 certificates, 2 requests |
| `accounts` | Does an active Admin remain, is the platform claimed once, does the audit trail tell the account's history, and what can put the recorded end of its sessions back? | 2 people, 2 sign-ins, 2 requests, 2 status changes an account, a clock of one half second |
| `sessions` | Does a reset link work once, and does every request end although rows are locked in opposite orders? | 1 person, 2 sign-ins, 1 link, 2 requests |
| `offices` | Is there one active Lead and one open membership; does authority trace to an Admin; are officers members, notices true, and does the membership button find the row it is about? | an Admin and 2 others, roles LEAD and OPERATIONS, 2 appointments, 2 memberships, 1 assignment, 5 requests two at a time, the club archived and back, two policies |
| `scanner` | Do screens name only people let in, is "checked in" said once, is a rotated image dead? | 1 person, 2 events, 2 screens (one fixed to its event), 2 check-ins, versions up to 2 |
| `delivery` | Is SENT true, and is what was announced mailed and settled? | 3 keys (one of a password reset), 2 transactions, 2 overlapping sweep calls, batches of 1 |
| `editing` | Does no save undo another's edit, does the stored event hold together, is everyone with a place told of each move? | 2 officers, 2 students (one registered), a Lead's and a Marketing officer's roles, 2 windows beside the stored ones, 2 edits, 2 calls, both of one screen if need be, 1 event around them |
| `terminal_status_overwritten` | *(violated)* Are CANCELLED and CERTIFIED terminal? | as `lifecycle` |

**The bounds, and why they are enough.** `MaxTime` stops the clock after the last
boundary of every schedule in the run; a clock tick is never forced, so every boundary can fall
between any two steps. `Regs` and `Certs` are row ids: a registering request arrives only while
a row is left for it (`RowLeftFor`), so no run is cut short by running out, and an issuance or
reissue with no id left simply waits. Two requests beside the sweep are three concurrent
transactions on one row. Every race found in this code, and every mutant, needs two; a third
request would only queue behind the same lock. Three people with capacity 1 give a
waitlist with an order, and capacity 2 a raise and a lowering. Where people never register
(`lifecycle`) registration is by override, which differs only in skipping the membership
check. `MCAttendance!AfterTheEnd` starts the `certificates` run from the states a finished
event can be in, so that it does not replay registration; the `door` run shows how those states
come about.

In the other runs, `accounts` has two requests because every wait there is of one on
another, and two status changes an account so that a suspension can be undone and meet
another; `MaxTick` 1 puts two instants in one second. In `offices` five requests are an
appointment, its answer, a membership and two that race; an invitation that lapses takes none.
`scanner` bounds the version by 2 where the code has 65535: what matters is that there is a
last one, and the theorem has no bound. `delivery` has batches smaller than the rows waiting, so a call
leaves some behind. In `editing` two edits and two calls are two officers
saving over each other, or one moving the event there and back; its windows are such that one officer's earlier end and
another's later start, or later end of registration, are each right alone and wrong together. The theorems have no bound.

What a run does not reach although its property speaks of it: in `sessions` there is nobody to suspend the one person
or to change their role; in `certificates` nobody scans; in `terminal_status_overwritten` nothing is CERTIFIED, so
the overwritten status is CANCELLED. `LinkSpentOnce` and `PresentHaveRecords` are proved for those cases too. Notices are a set
under their unique key in `Registrations`: that each place is announced is checked, that it is announced once is the key's work.
`ToldWhatStands` excepts rows written over by a second decision; item 7 below shows that they happen.

Symmetry is over clients, users, officers and row ids, none of which is
compared or named by a definition, and is not used where liveness is checked.

Deadlock is checked in the runs of `Accounts`, `Scanner`, `Delivery` and `Editing`. In the others it is not:
once the clock has stopped, the event is over and no request is open, or the club's requests are
used up, the system may rest.

**Fairness** of `lifecycle` (`Registrations!FairSpec`).
`WF(Continue(p))`: the server drives a request it has begun.
`SF(TakesRow(p))`: PostgreSQL grants a row lock in the order it was asked for, so a request that
finds the row free again and again gets it; weak fairness would be too little, because the
row is taken in between. `WF(SweepScan)`: the sweep is scheduled for ever. Nothing is assumed
of `Arrive`, `Tick`, `Die` or `ClubStatusChange`: nobody has to come, time may stop, and a
request may die at any step or never.

Of `sessions` (`Accounts!FairSpec`): `SF(Locking(r))`, as above for row and advisory locks, and
`WF(Proceeding(r))` for a request that waits for nothing. Of `delivery`: `WF` of `SweepStarts`, the
scheduler keeps calling; `SF` of `Attempt` and of `Save`, since not every call dies at the same
point. `Die` stays free in both.

### Disagreements between code and documentation

1. **`terminal_status_overwritten`.** `publish` and `cancel` (events) check `assertTransition` on an
   unlocked read and then update by id. A publication that read DRAFT turns a CANCELLED event
   back into PUBLISHED. event-status calls the check "the only gate" and CANCELLED and
   CERTIFIED "terminal".
The other disagreements are kept as configurations to run by hand
(`tlc -config <cfg> <module>`), each ending in a counterexample.

2. **`CompletedMeansOver`** (`RegistrationsOver.cfg`, `MCRegistrations`). A hop of the walk is conditional on the status, not on the
   schedule it was computed from. A patch that puts the event off between the re-read and the hop
   is followed by COMPLETED and its no-shows, though the end lies ahead.
3. **`WithdrawnStayWithdrawn`** (`AttendanceWithdrawn.cfg`, `MCAttendance`). `correct` and `checkIn` write a registration by id, with no condition
   on the status they read. A withdrawal in between is undone while its seat is already
   given back. The comment at `CORRECTABLE` says such rows are refused "rather than
   overwritten".
4. **`AbsenteesHoldNoCertificate`** (`AttendanceAbsentees.cfg`, `MCAttendance`). A correction to absent that commits while an issuance run is open finds
   no certificate to revoke, and the run then certifies a NO_SHOW.
5. **`SignedOutEverywhere`** (`AccountsEverywhere.cfg`, `MCAccounts`). `logout` stamps the account so
   that older access tokens die, and revokes only its own refresh token: another device's next call
   refreshes and goes on. The comment at auth.service.ts:283 and the design document (line 1146) say every
   other device is signed out.

6. **`ButtonsAreTrue`** (`OfficesArchived.cfg`, `MCOffices`). JoinControl.tsx:22-23 says the control's "enabled state states whether
   this viewer can act". In an archived club a CTO who is a member is offered "Leave club", and `leave` refuses: it loads
   the club under `assertAcceptsEdits` (membership.service.ts:203), which `decide` (JoinControl.tsx:29-35) does not mirror.
7. **`ToldOnceForAll`** (`OfficesOverwritten.cfg`, `MCOffices`). `decide` reads a request and writes it by id (membership.service.ts:170). Of two
   officers who decide at once the second stands, and the one notice of the row tells the first: a student told
   REJECTED is a member.
8. **`EndedTokensStayEnded`** (`AccountsStamps.cfg`, `MCAccounts`). session.guard.ts:18-19 has every token up to the instant an account's
   sessions were last invalidated refused. `logout` and `resetPassword` fix that instant before they wait
   for rows, so the one that is written last may be the earlier, and a token refused for the later is honoured
   again until it expires.
9. **`SuspensionTakesEveryToken`** (`AccountsSuspended.cfg`, `MCAccounts`). users.service.ts:316-317 says a suspension took every live token.
   `login` verifies the password outside the transaction that mints the token, so a suspension in between leaves a
   live refresh token, which works again once the account is reinstated.

Seen while modelling and not the subject of a run:

* *Attendance and certificates.* `correct` is accepted before the event starts, where absent makes a
  NO_SHOW of somebody whose event is still to come, although a comment there calls it bound to the
  window after the end. Pressing Issue again re-issues for a registration whose certificate was
  revoked. With corrections in play a CONFIRMED row can be written after the walk to COMPLETED.
* *Sessions.* A reset link is mailed before its row exists.
* *Offices.* Several invitations to one role may be accepted, and `end` cannot revoke one that is still
  INVITED. `leave` may write LEFT over REMOVED.
* *Scanner.* The pause between two sends of one image counts from the send, not from the answer; after
  Change event the verdict shown may be of the event before.
* *Delivery.* Overlapping sweep calls mail a row twice; nothing promises otherwise.
* *Editing.* The form's reload after publish, an assignment or a poster discards what was typed and
  not saved, and says "Saved". An assignment's reload that began before a save may land after it and
  show the old row. A cleared date range is silently left out of the PATCH. A second press of
  Create after a lost answer makes a second event unless it has a poster. A poster or logo URL minted
  before an archive still overwrites the image.
* *Paging.* `cursorArgs` skips the cursor's row; where that row no longer matches the filter, one unseen
  row is skipped. The inbox and the audit table do not discard an answer that arrives after the
  filter changed, which the other browsers do.

## 4. What is proved

TLAPS checks these for every number of users, rows, requests, every draft, patch and clock
bound, from the named `ASSUME`s of the modules alone (finite row ids, the sweeper apart from the clients, `Keep`
no value, valid drafts, `None` no read of the desk and so on, each evaluated by TLC in the runs). One
theorem, `DoorAlwaysAgrees`, assumes more in its own statement.

| theorem | module | establishes |
|---|---|---|
| `TypeCorrect` | RegistrationsProofs | `Spec => []TypeOK` |
| `LockedReadNeverStale` | RegistrationsProofs | what a transaction read under the row lock is what is committed when it decides |
| `SeatCountAlwaysExact` | RegistrationsProofs | `confirmed_count` is the number of rows holding a seat |
| `ConstraintsAreNeverTheMechanism` | RegistrationsProofs | neither the capacity check nor the one-open-registration index ever has to refuse a write |
| `Serializable` | RegistrationsProofs | every commit is one of eight whole operations on what is committed then |
| `WalksAlwaysAhead` | RegistrationsProofs | a walk is only under way towards a later status than it read |
| `StatusesNeverRewind` | RegistrationsProofs | time and cancellation only move an event on |
| `QueueAlwaysStrict` | RegistrationsProofs | no two of those waiting share a position |
| `NoSeatStandsIdle` | RegistrationsProofs | nobody waits for a seat that is empty |
| `PlacesAlwaysAnnounced` | RegistrationsProofs | whoever waits or has a seat was told so |
| `CancellationAlwaysReachesHolders` | RegistrationsProofs | whoever has a place at a cancelled event was told |
| `NobodyIsExpectedAfterTheEnd` | RegistrationsProofs | no registration is CONFIRMED once the event is over |
| `LedgerIsImplemented` | RegistrationsProofs | `Spec => Ledger!Spec`: registration refines the seat ledger |
| `DeskTypeCorrect` | AttendanceProofs | `AttendanceTypeOK` always, under the whole composition |
| `ThePresentAreRecorded` | AttendanceProofs | nobody counts as present without a record |
| `TheAdmittedHeldSeats` | AttendanceProofs | whoever has a record was told of a seat |
| `DoorAlwaysAgrees` | AttendanceProofs | where nobody corrects, records and statuses agree |
| `HoldersAlwaysTold` | AttendanceProofs | each certificate's holder was told of it and of its end |
| `OneValidCertificate` | AttendanceProofs | no registration has two valid certificates, under the whole composition |
| `AccountsTypeCorrect` | AccountsProofs | `AccountsTypeOK` always |
| `AnAdminRemains` | AccountsProofs | once claimed, the platform has an administrator who can sign in |
| `ClaimedOnce` | AccountsProofs | one of however many racing claims succeeds, ever |
| `TrailTellsStatus` | AccountsProofs | audit rows of suspensions and reinstatements alternate and end at the account's status |
| `StampsMoveBackOnlyByOverlap` | AccountsProofs | the end of an account's sessions is put back by an overlapping logout or reset alone |
| `LinksSpentOnce` | AccountsProofs | a reset link changes one password once |
| `LinksNeverReopen` | AccountsProofs | a used or expired link is never written again (an action property) |
| `NoLockOutlivesItsRequest` | AccountsProofs | however a request ends, it leaves no lock behind |
| `LocksAreTakenInOrder` | AccountsProofs | all but logout lock in one order: advisory, links, accounts, sign-ins |
| `OnlyLogoutDeadlocks` | AccountsProofs | of two requests that wait for each other, one is signing out |
| `DeadlocksReduceToPairs` | AccountsProofs | any set of requests in a deadlock has two that wait for each other |
| `ScannerTypeCorrect` | ScannerProofs | `ScannerTypeOK` always; the version never leaves its field |
| `DeskTellsTheTruth` | ScannerProofs | whoever a screen names has a record; "checked in" is said to one operator |
| `RotationIsFinal` | ScannerProofs | nobody is let in by a scan sent after the rotation of the image it shows |
| `OfficesTypesHold` | OfficesProofs | `OfficesTypeOK` always |
| `IndexesAlwaysHold` | OfficesProofs | one active Lead, one open membership a person, however acceptances race |
| `AuthorityAlwaysTraces` | OfficesProofs | every office and every admission traces through officers to an Admin |
| `OfficersAlwaysAdmitted` | OfficesProofs | behind whoever is in office stands a membership that is or was open, but for a row written over |
| `NoticesStand` | OfficesProofs | the one notice of a decision tells the one that stands, but for a row written over |
| `ControlsAlwaysHonoured` | OfficesProofs | the membership button agrees with the open row and the policy, but for a row written over |
| `TablesAlwaysAgree` | OfficesProofs | the client's tables of sections, actions and fields are the API's, on all facts |
| `SentIsTrue` | DeliveryProofs | SENT is only said of an accepted mail |
| `EditingTypeCorrect` | EditingProofs | `EditingTypeOK` always |
| `EditsStand` | EditingProofs | each column stays as it was last typed and saved |
| `StoredRowAlwaysHolds` | EditingProofs | no partial saves add up to a row that does not hold together |
| `MovesReachHolders` | EditingProofs | whoever holds a place has been told of every move since they registered |

**Types.** `TypeOK` is inductive as it stands: `NextType` splits `Next` by action, with one lemma per
operation. `FiniteMaxima` supplies what the library lacks, that `Max` and `Min` of a finite set of integers are members
of it and bound it; `NextWaitlistPositionType` and `PromotableBound` rest on it.

**Locked reads.** `LockedReadIsCurrent` is inductive given `TypeOK`. Every write of committed
data outside the holder's own step is guarded by `RowFree` (`OutsideLock`), and the holder's
own step ends its claim (`HolderLetsGo`).

**Seats.** Neither the exact count nor the silence of the constraints is inductive alone: each write
is stored only if the constraints allow it, and they allow it only because the count was
exact and the lock kept the decision fresh. `SeatsInOrder` conjoins `SeatCountExact`, `CapacityBounds`,
`OneOpenPerUser` and `ConstraintsNeverFire`, and is preserved given `TypeOK` and `LockedReadIsCurrent`. Registering
uses the last of these to carry "a seat is free" and "has no open row" from the lock to
the write; promotion uses `PromotableBound`, that at most the freed seats are filled, and
`DisjointCount`, that the promoted were not seated before.

**Serializability, and what follows.** The rest of the core is argued once and for all on commits. `SerialStep`
names the eight things a commit can be (`MovesOn`, `TakesSeat`, `JoinsWaitlist`, `GivesUpSeat`, `LeavesWaitlist`,
`Amends`, `IsPublished`, `IsCalledOff`), each a relation between what is committed before and after with no request
in it. `Serializable` shows that every step is one of them or changes nothing, from `SeatsInOrder`,
`LockedReadIsCurrent` and `WalksAhead`: a walk's hop is the one write of the core that is not under the lock,
and it is sound because it is conditional on the status and its target lies ahead. The queue, the notices,
the end, the cancellation and the idle seat are each then preserved by eight short cases instead of by every
step of every request. `PlacesAnnounced` needs `NothingSaidYet` (only a row about which nothing was
said is given out). `CancellationReachesHolders` needs that a cancelled event gives no places.
`StatusNeverRewinds` excepts what ends in PUBLISHED: a publication does rewind (section 3).

**The ledger.** `LedgerIsImplemented` maps initial states, then each of the eight commits to the ledger's step
or a stutter. What a request promotes is `Refill`'s choice because the chosen precede, by position, all others
who wait, and because the headroom computed under the lock is the number of seats left. This is where
`NoIdleSeat` and `QueueIsStrict` are used: a newcomer takes a seat only past an empty queue, and a lower position
is an earlier one.

**The desk.** `AttendanceTypeOK` is not inductive: what a request has read must be of its operation and of a row that
exists (`DeskInOrder`, with `ReadFits` and `RowsInUse`). `RowMoves` lists what a step of registration can do to a
row between a desk's read and its write. `AdmissionInOrder` adds that whoever has a record, a seat or a request at the desk
was told of the seat, which survives whatever the row becomes in between. `DoorInOrder` adds `LockedReadIsCurrent` of the
composition: the insert of a record and the change of status are one commit that waits for whoever holds the event row,
so a withdrawal never writes CANCELLED over somebody checked in since it read. `DoorAlwaysAgrees`
assumes that no correction is among the operations, as the `door` run
does: with corrections the property is false (section 3, item 3). `HoldersAreTold` is inductive given
the types.

**Certificates.** `OneActivePerRegistration` is not inductive, because a run's inserted rows turn
valid only at its commit. `OneActiveInv` adds `InsertsApart`: what open runs have inserted is for
registrations with no valid certificate, disjoint between runs. `InsertSafe` needs
`IndexFree`, `ReissueSafe` needs it and `Replaceable`, `FinishSafe` turns the one into the other.
The theorem is about `AttendanceSpec`, so it covers every interleaving with corrections,
check-ins and the lifecycle.

**Accounts.** `Inv` conjoins the types, the ownership of sessions and links (`OwnersExist`, `LinkOwned`), the
two goals and, for each request, `Sound(r)`: what a request that holds the advisory lock has
counted is still so. `AdminRemains` needs it because the count and the write are two steps;
`BootstrappedOnce` needs "there is an Admin row" to imply "there was a claim". Steps that change no role and no
status keep every other request's `Sound` (`StaysSound`, `QuietStep`), edits by `EditKeeps`.
`OnlyOverlapsMoveStampsBack` needs `StampsInOrder`: no stamp and no instant a request has fixed lies ahead of the clock, a
change of address about to commit has fixed its own under the account's lock and after every stamp on it, and a reset
past the password still holds its account.
`LinkSpentOnce` needs `LinksInOrder`: a reset past the row holds its link, which is still open, and the request that
mailed a link is the only one that will record it.

**Locks.** `MayHold` is what a request may hold at each step; `HeldInTurn`, that it holds no more, is inductive once a link
keeps its owner. Comparing it with `Needs` by `Rank` gives `LockOrder`. Logout is outside that order, but
`SignInsInOrder` (a locked sign-in is live, and whoever is past the first step of signing out of a live one holds it)
makes its waits mutual: whoever holds the account and waits for anything waits for that sign-in too. A deadlock with
no such pair would have to climb the four ranks for ever. A new session or link that waits for its
account's row (`Referable`) holds nothing itself, so it is in no cycle and not in `Needs`.

**Scanner.** `Inv` adds to the goals `RetiredIsPast` (a retired image is of a version already passed), `RequestsSound` (a
scan past the pass check was of an image alive when it was sent) and `LookingAtEvent`. `RetiredImagesStayDead`
rests on `Fits`: without the last version's check the row would wrap.

**Offices.** Requests go by what they read, so `Inv` keeps `Sound(r)`: the rows a request names exist and are whose
it thinks, and its sender has held the office it needs. `Grows` says what no step takes back (a row's person and
role, an office once held, a membership once admitted), so every other request stays sound. An ended or overwritten
office still counts as held: authority is traced to when it was used. `LeadReserved` (an acceptance of the lead that is
under way excludes every other Lead) carries the index from the update to the commit. Steps that enter nobody
into office go through `Preserved`; the two halves of an acceptance have lemmas of their own. For the button, `Ordered`
makes an open membership its person's latest row; `TablesAlwaysAgree` is a case for each entry of the tables.

**Delivery.** `Shaped`, `OutcomesTrue` (the outcome a call holds is of its own mail) and
`UncommittedTrue` carry `SentMeansAccepted` from the mail to the row.

**Editing.** `stored = intended` is inductive with `ScreensSound`: what a screen shows differently from what it
loaded was typed by its officer, and so was all that its calls carry, however many are under way. `MovesReachHolders` needs `StampsPast`: no
notice bears the stamp of a save to come, so none is absorbed. `RowSound` keeps the row whole through
images, which carry no column, and through the club's saves, which change none of the event's.

**Only model-checked.** Liveness: `SweepCatchesUp`, `RequestsFinish`, `EveryRequestEnds` and
`EverythingAnnouncedIsMailed`. Fairness, and the ENABLED in it, are beyond the prover. What the theorems above add to
`EveryRequestEnds` is its safety part: locks are let go, and a deadlock has a pair to break. Every
other property of a passing run is stated by a theorem; items 2 to 9 of section 3 are counterexamples found by TLC.

## 5. Plan

Done: EventStatus, Registrations with its refinement, Certificates, Attendance, Scanner, Accounts, Permissions,
Offices, Delivery and Editing, with the proofs of section 4.

Next, in order of weight:

1. An abstract specification of certificates (per registration: none, valid, revoked, and its notices)
   and the proof that the composition implements it.
2. More action properties as theorems: a revoked sign-in stays revoked, a closed membership stays closed.
3. The inbox and the cursor paging behind every list, with rows that change between pages.

### Not modelled

* The inbox (`list`, `markRead`) and audit rows other than those `Accounts` counts: nothing reads them to decide.
* Departments, reporting and health: single statements without interplay.
* Storage: calls to an object store, no state of its own.
* Configuration, error mapping, routing and other HTTP plumbing: shapes of data.
* PDF rendering and random certificate codes: layout and entropy.
* A club's or an event's creation beyond the initial row: slugs and upload URLs.
* Seed data, and the web client's pages, tables, dialogs and charts other than those named above: they present what
  the API answers, and hold no state that outlives a render.
