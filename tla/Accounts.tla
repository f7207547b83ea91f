------------------------------ MODULE Accounts ------------------------------
(***************************************************************************)
(* Accounts, their administration, and the sessions opened on them:        *)
(* apps/api/src/users/users.service.ts, auth/auth.service.ts,              *)
(* auth/session.guard.ts and the retry in apps/web/src/lib/api.ts.         *)
(*                                                                         *)
(* Several requests run at once.  A request that writes runs in one        *)
(* Postgres transaction at READ COMMITTED: it sees what is committed, its  *)
(* own writes reach the store when it commits, and the advisory locks and  *)
(* row locks it took are held until then.  A step below is the run of      *)
(* statements between two of those waits.                                  *)
(*                                                                         *)
(* A person is an e-mail address that may own an account.  A family is one *)
(* sign-in on one device: its refresh token, which is never rotated, and   *)
(* the access token now in that device's cookie.  Passwords, names and     *)
(* the 30-day expiry of a refresh token are left out.                      *)
(***************************************************************************)
EXTENDS Integers, FiniteSets

CONSTANTS
    People,      \* addresses that may hold an account
    Families,    \* refresh-token families (one device's sign-in each)
    Links,       \* password reset links that may be mailed
    Requests,    \* requests the API serves at once
    MaxTick,     \* BOUND: half seconds of the clock
    MaxChanges   \* BOUND: status changes recorded for one account

AdminCount == "ADMIN_COUNT_LOCK_KEY"
Bootstrap  == "BOOTSTRAP_LOCK_KEY"
Lockable   == People \cup Families \cup Links \cup {AdminCount, Bootstrap}

CONSTANTS Nobody, Free

ASSUME AccountsAssumption ==
    /\ IsFiniteSet(People)
    /\ MaxTick \in Nat
    /\ MaxChanges \in Nat
    /\ Free \notin Requests
    /\ Nobody \notin People \cup Families \cup Links
    /\ People \cap (Families \cup Links) = {}
    /\ Families \cap Links = {}
    /\ {AdminCount, Bootstrap} \cap (People \cup Families \cup Links) = {}

VARIABLES
    users,      \* the user table
    sessions,   \* refresh_token rows and the access token each device carries
    links,      \* password_reset_token rows
    trail,      \* audit rows that record a change of status or a first admin
    holder,     \* who holds each lock
    requests,   \* the requests in flight
    now         \* the server's clock, in half seconds

vars == <<users, sessions, links, trail, holder, requests, now>>

Roles    == {"STUDENT", "ADMIN"}
Statuses == {"ACTIVE", "SUSPENDED"}
Never    == -1                       \* a null timestamp, or an expired token
Instants == Never .. MaxTick

UserRow == [role : Roles, status : Statuses, sessionsInvalidatedAt : Instants]
NoUser  == [role |-> "none", status |-> "none", sessionsInvalidatedAt |-> Never]

SessionRow == [owner : People, live : BOOLEAN, opened : Instants, issued : Instants]
NoSession  == [owner |-> Nobody, live |-> FALSE, opened |-> Never, issued |-> Never]

LinkStates == {"none", "mailed", "open", "used", "expired"}
LinkRow    == [owner : People \cup {Nobody}, state : LinkStates, spent : Nat]
NoLink     == [owner |-> Nobody, state |-> "none", spent |-> 0]

Operations == {"call", "role", "status", "email", "bootstrap", "login",
               "logout", "forgot", "reset", "none"}
Steps      == {"send", "renew", "sign", "resend", "lock", "row", "write",
               "mint", "record", "revoke", "done"}

RequestRow == [op : Operations, step : Steps, by : Families \cup {Nobody},
               on : People \cup Links \cup {Nobody},
               to : Roles \cup Statuses \cup {"none"}, at : Instants]
Idle == [op |-> "none", step |-> "done", by |-> Nobody, on |-> Nobody,
         to |-> "none", at |-> Never]

Exists(u)    == users[u] # NoUser
Admins       == {u \in People : users[u].role = "ADMIN"}
ActiveAdmins == {u \in Admins : users[u].status = "ACTIVE"}
OpenedBy(u)  == {f \in Families : sessions[f].owner = u}

At(r, op, step) == requests[r].op = op /\ requests[r].step = step

(***************************************************************************)
(* Locks.  A request waits until every other holder has let go; the end of *)
(* its transaction, however it ends, lets go of all it holds.              *)
(***************************************************************************)
Available(r, x) == holder[x] \in {Free, r}
Taking(r, x)    == [holder EXCEPT ![x] = r]
\* Mutant: advisory locks are held by the session, not by the transaction.
ReleasedRows(r) ==
    [x \in Lockable |-> IF holder[x] = r /\ x \notin {AdminCount, Bootstrap} THEN Free ELSE holder[x]]

Released(r)     == [x \in Lockable |-> IF holder[x] = r THEN Free ELSE holder[x]]

\* Inserting a row that refers to user u waits for SELECT ... FOR UPDATE on u,
\* not for a plain UPDATE of it.
Referable(u) == holder[u] # Free => requests[holder[u]].op \in {"logout", "reset"}

Ends(r) ==
    /\ requests' = [requests EXCEPT ![r] = Idle]
    /\ holder' = Released(r)

GoesTo(r, step) == requests' = [requests EXCEPT ![r].step = step]

\* A refusal, a conflict or a crash: the transaction rolls back.
RollsBack(r) == Ends(r) /\ UNCHANGED <<users, sessions, links, trail, now>>

Init ==
    /\ users = [u \in People |-> NoUser]
    /\ sessions = [f \in Families |-> NoSession]
    /\ links = [l \in Links |-> NoLink]
    /\ trail = [bootstraps |-> 0,
                suspended  |-> [u \in People |-> 0],
                reinstated |-> [u \in People |-> 0]]
    /\ holder = [x \in Lockable |-> Free]
    /\ requests = [r \in Requests |-> Idle]
    /\ now = 0

(***************************************************************************)
(* Opening a session.                                                      *)
(***************************************************************************)

\* BOUND: no sign-in starts that would have no family left to open.
FamilyLeft ==
    Cardinality({r \in Requests : requests[r].op \in {"login", "bootstrap"}})
        < Cardinality({f \in Families : sessions[f] = NoSession})

\* mintRefreshTokenRow and signAccessToken: a new family and its first token.
IssueSession(f, u) ==
    /\ sessions[f] = NoSession
    /\ sessions' = [sessions EXCEPT ![f] =
           [owner |-> u, live |-> TRUE, opened |-> now, issued |-> now]]

\* signup: one transaction; an address already held is a conflict.
Signup(u, f) ==
    /\ ~Exists(u) /\ FamilyLeft
    /\ users' = [users EXCEPT ![u] =
           [role |-> "STUDENT", status |-> "ACTIVE", sessionsInvalidatedAt |-> Never]]
    /\ IssueSession(f, u)
    /\ UNCHANGED <<links, trail, holder, requests, now>>

BootstrapArrives(r, u) ==
    /\ requests[r] = Idle /\ FamilyLeft
    /\ requests' = [requests EXCEPT ![r] = [Idle EXCEPT !.op = "bootstrap", !.step = "lock", !.on = u]]
    /\ UNCHANGED <<users, sessions, links, trail, holder, now>>

\* Mutant: the guard is read without the advisory lock.
BootstrapClaimUnlocked(r) ==
    /\ At(r, "bootstrap", "lock")
    /\ Admins = {}
    /\ GoesTo(r, "write")
    /\ UNCHANGED <<users, sessions, links, trail, holder, now>>

\* bootstrapAdmin up to the guard: the advisory lock, then adminExists, which
\* counts by role alone.
BootstrapClaim(r) ==
    /\ At(r, "bootstrap", "lock")
    /\ Available(r, Bootstrap)
    /\ Admins = {}
    /\ holder' = Taking(r, Bootstrap)
    /\ GoesTo(r, "write")
    /\ UNCHANGED <<users, sessions, links, trail, now>>

BootstrapRefused(r) ==
    /\ At(r, "bootstrap", "lock")
    /\ Available(r, Bootstrap)
    /\ Admins # {}
    /\ RollsBack(r)

\* The insert, its audit row and the session commit together.
BootstrapWrite(r, f) ==
    /\ At(r, "bootstrap", "write")
    /\ ~Exists(requests[r].on)
    /\ users' = [users EXCEPT ![requests[r].on] =
           [role |-> "ADMIN", status |-> "ACTIVE", sessionsInvalidatedAt |-> Never]]
    /\ trail' = [trail EXCEPT !.bootstraps = @ + 1]
    /\ IssueSession(f, requests[r].on)
    /\ Ends(r)
    /\ UNCHANGED <<links, now>>

BootstrapConflict(r) ==
    /\ At(r, "bootstrap", "write")
    /\ Exists(requests[r].on)
    /\ RollsBack(r)

\* login: the row is read and the password verified outside any transaction.
LoginVerify(r, u) ==
    /\ requests[r] = Idle /\ FamilyLeft
    /\ users[u].status = "ACTIVE"
    /\ requests' = [requests EXCEPT ![r] = [Idle EXCEPT !.op = "login", !.step = "mint", !.on = u]]
    /\ UNCHANGED <<users, sessions, links, trail, holder, now>>

LoginMint(r, f) ==
    /\ At(r, "login", "mint")
    /\ Referable(requests[r].on)
    /\ IssueSession(f, requests[r].on)
    /\ Ends(r)
    /\ UNCHANGED <<users, links, trail, now>>

(***************************************************************************)
(* A page's request on a session: SessionGuard, and the one refresh and    *)
(* one retry that lib/api.ts makes when the guard answers 401.             *)
(***************************************************************************)

\* sessionsInvalidatedSince: iat is in whole seconds, the stamp is not.
Second(t) == t \div 2

InvalidatedSince(stamp, issued) == stamp # Never /\ Second(issued) <= Second(stamp)

\* SessionGuard.canActivate on the access token of family f.
Honoured(f) ==
    LET u == sessions[f].owner IN
    /\ sessions[f].issued # Never
    /\ users[u].status = "ACTIVE"
    /\ ~InvalidatedSince(users[u].sessionsInvalidatedAt, sessions[f].issued)

\* The 15 minutes of an access token run out.
AccessExpires(f) ==
    /\ sessions[f].issued # Never
    /\ sessions' = [sessions EXCEPT ![f].issued = Never]
    /\ UNCHANGED <<users, links, trail, holder, requests, now>>

Call(r, f) ==
    /\ requests[r] = Idle
    /\ sessions[f] # NoSession
    /\ requests' = [requests EXCEPT ![r] = [Idle EXCEPT !.op = "call", !.step = "send", !.by = f]]
    /\ UNCHANGED <<users, sessions, links, trail, holder, now>>

Sent(r) == At(r, "call", "send") \/ At(r, "call", "resend")

\* A read, or a write this module has no state for, is answered.
CallAnswered(r) ==
    /\ Sent(r)
    /\ Honoured(requests[r].by)
    /\ RollsBack(r)

CallUnauthorized(r) ==
    /\ At(r, "call", "send")
    /\ ~Honoured(requests[r].by)
    /\ GoesTo(r, "renew")
    /\ UNCHANGED <<users, sessions, links, trail, holder, now>>

\* refresh reads the token row first and the user after it.
RefreshRead(r) ==
    /\ At(r, "call", "renew")
    /\ sessions[requests[r].by].live
    /\ GoesTo(r, "sign")
    /\ UNCHANGED <<users, sessions, links, trail, holder, now>>

RefreshSign(r) ==
    LET f == requests[r].by IN
    /\ At(r, "call", "sign")
    /\ users[sessions[f].owner].status = "ACTIVE"
    /\ sessions' = [sessions EXCEPT ![f].issued = now]
    /\ GoesTo(r, "resend")
    /\ UNCHANGED <<users, links, trail, holder, now>>

\* The refresh is refused, or the retry is: the page goes to /login.
SentToLogin(r) ==
    LET f == requests[r].by IN
    /\ \/ At(r, "call", "renew") /\ ~sessions[f].live
       \/ At(r, "call", "sign") /\ users[sessions[f].owner].status # "ACTIVE"
       \/ At(r, "call", "resend") /\ ~Honoured(f)
    /\ RollsBack(r)

(***************************************************************************)
(* An administrator's edit.  The actor is the row the guard loaded.        *)
(***************************************************************************)

\* The guards pass an active administrator, who is decided here and not again.
AsAdmin(r) ==
    /\ Sent(r)
    /\ Honoured(requests[r].by)
    /\ users[sessions[requests[r].by].owner].role = "ADMIN"

Becomes(r, op, step, u, to) ==
    /\ requests' = [requests EXCEPT ![r].op = op, ![r].step = step, ![r].on = u, ![r].to = to]
    /\ UNCHANGED <<users, sessions, links, trail, holder, now>>

IsSelf(r, u) == sessions[requests[r].by].owner = u

\* PATCH /users/{id} with a platformRole and the address as it is.
UpdateRole(r, u, role) ==
    /\ AsAdmin(r)
    /\ ~IsSelf(r, u)
    /\ Becomes(r, "role", "lock", u, role)

\* PATCH /users/{id} with a new email, alone or with a platformRole.
UpdateEmail(r, u, role) ==
    /\ AsAdmin(r)
    /\ role # "none" => ~IsSelf(r, u)
    /\ Becomes(r, "email", IF role = "none" THEN "row" ELSE "lock", u, role)

\* PATCH /users/{id}/status.  Only a suspension can lower the count of admins.
UpdateStatus(r, u, status) ==
    /\ AsAdmin(r)
    /\ ~IsSelf(r, u)
    /\ trail.suspended[u] < MaxChanges
    /\ Becomes(r, "status", IF status = "SUSPENDED" THEN "lock" ELSE "row", u, status)

Edit == {"role", "status", "email"}

\* Mutant: only the row lock serialises the edits.
TakeNoAdminLock(r) ==
    /\ requests[r].op \in Edit /\ requests[r].step = "lock"
    /\ GoesTo(r, "row")
    /\ UNCHANGED <<users, sessions, links, trail, holder, now>>

TakeAdminLock(r) ==
    /\ requests[r].op \in Edit /\ requests[r].step = "lock"
    /\ Available(r, AdminCount)
    /\ holder' = Taking(r, AdminCount)
    /\ GoesTo(r, "row")
    /\ UNCHANGED <<users, sessions, links, trail, now>>

\* The write takes an administrator out of service.
Lowers(op, row, to) ==
    /\ row.role = "ADMIN"
    /\ \/ op \in {"role", "email"} /\ to = "STUDENT"
       \/ op = "status" /\ to = "SUSPENDED"

LastAdmin == Cardinality(ActiveAdmins) <= 1

\* Mutant: the status is not compared with the one asked for.
RefusedIfLast(op, u, to) == ~Exists(u) \/ (Lowers(op, users[u], to) /\ LastAdmin)

\* What update and updateStatus refuse once they hold the row.
Refused(op, u, to) ==
    \/ ~Exists(u)
    \/ op = "status" /\ users[u].status = to
    \/ Lowers(op, users[u], to) /\ LastAdmin

\* Mutant: the row is read without FOR UPDATE.
ExamineUnlocked(r) ==
    LET q == requests[r] IN
    /\ q.op \in Edit /\ q.step = "row"
    /\ ~Refused(q.op, q.on, q.to)
    /\ requests' = [requests EXCEPT ![r].step = "write", ![r].at = now]
    /\ UNCHANGED <<users, sessions, links, trail, holder, now>>

\* SELECT ... FOR UPDATE, the read under it, and the count; the instant a change
\* of address ends the sessions at is taken here, under the row's lock.
Examine(r) ==
    LET q == requests[r] IN
    /\ q.op \in Edit /\ q.step = "row"
    /\ Available(r, q.on)
    /\ ~Refused(q.op, q.on, q.to)
    /\ holder' = Taking(r, q.on)
    /\ requests' = [requests EXCEPT ![r].step = "write", ![r].at = now]
    /\ UNCHANGED <<users, sessions, links, trail, now>>

ExamineRefused(r) ==
    LET q == requests[r] IN
    /\ q.op \in Edit /\ q.step = "row"
    /\ Available(r, q.on)
    /\ Refused(q.op, q.on, q.to)
    /\ RollsBack(r)

\* refreshToken.updateMany over an account: waits for each row it revokes.
Revocable(r, u) == \A f \in OpenedBy(u) : sessions[f].live => Available(r, f)
RevokedFor(u)   == [f \in Families |->
    IF f \in OpenedBy(u) THEN [sessions[f] EXCEPT !.live = FALSE] ELSE sessions[f]]

WriteRole(r) ==
    LET q == requests[r] IN
    /\ At(r, "role", "write")
    /\ users' = [users EXCEPT ![q.on].role = q.to]
    /\ Ends(r)
    /\ UNCHANGED <<sessions, links, trail, now>>

\* A patch without a platformRole leaves it.
RoleAfter(u, role) == IF role = "none" THEN users[u].role ELSE role

\* Mutant: the role key, absent from the patch, is written all the same.
WriteEmailAndRole(r) ==
    LET q == requests[r] IN
    /\ At(r, "email", "write")
    /\ Revocable(r, q.on)
    /\ sessions' = RevokedFor(q.on)
    /\ users' = [users EXCEPT ![q.on].sessionsInvalidatedAt = q.at, ![q.on].role = q.to]
    /\ Ends(r)
    /\ UNCHANGED <<links, trail, now>>

WriteEmail(r) ==
    LET q == requests[r] IN
    /\ At(r, "email", "write")
    /\ Revocable(r, q.on)
    /\ sessions' = RevokedFor(q.on)
    /\ users' = [users EXCEPT ![q.on].sessionsInvalidatedAt = q.at,
                              ![q.on].role = RoleAfter(q.on, q.to)]
    /\ Ends(r)
    /\ UNCHANGED <<links, trail, now>>

\* The status, its audit row and, for a suspension, the revocations.
Suspend(r) ==
    LET u == requests[r].on IN
    /\ At(r, "status", "write") /\ requests[r].to = "SUSPENDED"
    /\ Revocable(r, u)
    /\ users' = [users EXCEPT ![u].status = "SUSPENDED"]
    /\ sessions' = RevokedFor(u)
    /\ trail' = [trail EXCEPT !.suspended[u] = @ + 1]
    /\ Ends(r)
    /\ UNCHANGED <<links, now>>

Reinstate(r) ==
    LET u == requests[r].on IN
    /\ At(r, "status", "write") /\ requests[r].to = "ACTIVE"
    /\ users' = [users EXCEPT ![u].status = "ACTIVE"]
    /\ trail' = [trail EXCEPT !.reinstated[u] = @ + 1]
    /\ Ends(r)
    /\ UNCHANGED <<sessions, links, now>>

(***************************************************************************)
(* Signing out.  The family's row is locked first and the user's after it, *)
(* the other way about from every transaction above.                       *)
(***************************************************************************)
LogoutArrives(r, f) ==
    /\ requests[r] = Idle
    /\ sessions[f] # NoSession
    /\ requests' = [requests EXCEPT ![r] = [Idle EXCEPT !.op = "logout", !.step = "revoke", !.by = f]]
    /\ UNCHANGED <<users, sessions, links, trail, holder, now>>

\* A family already revoked matches no row, so no row of it is locked.
LogoutRevoke(r) ==
    LET f == requests[r].by IN
    /\ At(r, "logout", "revoke")
    /\ sessions[f].live => Available(r, f)
    /\ holder' = IF sessions[f].live THEN Taking(r, f) ELSE holder
    /\ requests' = [requests EXCEPT ![r].step = "write", ![r].at = now]
    /\ UNCHANGED <<users, sessions, links, trail, now>>

LogoutStamp(r) ==
    LET f == requests[r].by
        u == sessions[f].owner IN
    /\ At(r, "logout", "write")
    /\ Available(r, u)
    /\ sessions' = [sessions EXCEPT ![f].live = FALSE]
    /\ users' = [users EXCEPT ![u].sessionsInvalidatedAt = requests[r].at]
    /\ Ends(r)
    /\ UNCHANGED <<links, trail, now>>

(***************************************************************************)
(* Password reset.  The link is mailed before the row that makes it good.  *)
(***************************************************************************)
ForgotSend(r, u, l) ==
    /\ requests[r] = Idle
    /\ users[u].status = "ACTIVE"
    /\ links[l] = NoLink
    /\ links' = [links EXCEPT ![l] = [NoLink EXCEPT !.owner = u, !.state = "mailed"]]
    /\ requests' = [requests EXCEPT ![r] = [Idle EXCEPT !.op = "forgot", !.step = "record", !.on = l]]
    /\ UNCHANGED <<users, sessions, trail, holder, now>>

ForgotRecord(r) ==
    LET l == requests[r].on IN
    /\ At(r, "forgot", "record")
    /\ Referable(links[l].owner)
    /\ links' = [links EXCEPT ![l].state = "open"]
    /\ Ends(r)
    /\ UNCHANGED <<users, sessions, trail, now>>

LinkExpires(l) ==
    /\ links[l].state = "open"
    /\ holder[l] = Free
    /\ links' = [links EXCEPT ![l].state = "expired"]
    /\ UNCHANGED <<users, sessions, trail, holder, requests, now>>

ResetArrives(r, l) ==
    /\ requests[r] = Idle
    /\ links[l] # NoLink
    /\ requests' = [requests EXCEPT ![r] = [Idle EXCEPT !.op = "reset", !.step = "row", !.on = l]]
    /\ UNCHANGED <<users, sessions, links, trail, holder, now>>

\* Mutant: the update does not ask for an unused link.
SpendableUsed(l) == links[l].state \in {"open", "used"}

\* updateMany where usedAt is null: the loser of a race on the row matches none.
Spendable(l) == links[l].state = "open"

\* The link is spent, uncommitted, and the account behind it must be active.
ResetSpend(r) ==
    LET l == requests[r].on IN
    /\ At(r, "reset", "row")
    /\ Available(r, l)
    /\ Spendable(l) /\ users[links[l].owner].status = "ACTIVE"
    /\ holder' = Taking(r, l)
    /\ requests' = [requests EXCEPT ![r].step = "write", ![r].at = now]
    /\ UNCHANGED <<users, sessions, links, trail, now>>

ResetRefused(r) ==
    LET l == requests[r].on IN
    /\ At(r, "reset", "row")
    /\ Available(r, l)
    /\ ~(Spendable(l) /\ users[links[l].owner].status = "ACTIVE")
    /\ RollsBack(r)

\* The new password and the stamp are written, which locks the user's row.
ResetPassword(r) ==
    LET u == links[requests[r].on].owner IN
    /\ At(r, "reset", "write")
    /\ Available(r, u)
    /\ holder' = Taking(r, u)
    /\ GoesTo(r, "revoke")
    /\ UNCHANGED <<users, sessions, links, trail, now>>

ResetRevoke(r) ==
    LET l == requests[r].on
        u == links[l].owner IN
    /\ At(r, "reset", "revoke")
    /\ Revocable(r, u)
    /\ links' = [links EXCEPT ![l].state = "used", ![l].spent = @ + 1]
    /\ users' = [users EXCEPT ![u].sessionsInvalidatedAt = requests[r].at]
    /\ sessions' = RevokedFor(u)
    /\ Ends(r)
    /\ UNCHANGED <<trail, now>>

(***************************************************************************)
(* The server dies under a request, and Postgres breaks a lock cycle.      *)
(***************************************************************************)
Die(r) == requests[r] # Idle /\ RollsBack(r)

\* The locks request r is waiting for.
Needs(r) ==
    LET q == requests[r]
        Live(u) == {f \in OpenedBy(u) : sessions[f].live} IN
    CASE q.step = "lock" /\ q.op = "bootstrap"   -> {Bootstrap}
      [] q.step = "lock" /\ q.op # "bootstrap"   -> {AdminCount}
      [] q.step = "row"                          -> {q.on}
      [] q.op = "email" /\ q.step = "write"      -> Live(q.on)
      [] q.op = "status" /\ q.step = "write"     -> IF q.to = "SUSPENDED" THEN Live(q.on) ELSE {}
      [] q.op = "logout" /\ q.step = "revoke"    -> Live(sessions[q.by].owner) \cap {q.by}
      [] q.op = "logout" /\ q.step = "write"     -> {sessions[q.by].owner}
      [] q.op = "reset" /\ q.step = "write"      -> {links[q.on].owner}
      [] q.op = "reset" /\ q.step = "revoke"     -> Live(links[q.on].owner)
      [] OTHER                                   -> {}

WaitsFor(r) == {holder[x] : x \in Needs(r)} \ {Free, r}

DeadlockVictim(r) ==
    /\ \E s \in WaitsFor(r) : r \in WaitsFor(s)
    /\ RollsBack(r)

Tick ==
    /\ now < MaxTick
    /\ now' = now + 1
    /\ UNCHANGED <<users, sessions, links, trail, holder, requests>>

(***************************************************************************)
(* The specification.                                                      *)
(***************************************************************************)
Arrivals(r) ==
    \/ \E u \in People : BootstrapArrives(r, u) \/ LoginVerify(r, u)
    \/ \E f \in Families : Call(r, f) \/ LogoutArrives(r, f)
    \/ \E l \in Links : ResetArrives(r, l) \/ \E u \in People : ForgotSend(r, u, l)

Edits(r) ==
    \E u \in People :
        \/ \E role \in Roles : UpdateRole(r, u, role)
        \/ \E status \in Statuses : UpdateStatus(r, u, status)
        \/ \E role \in Roles \cup {"none"} : UpdateEmail(r, u, role)

\* The steps of a request that may wait for a lock.
Locking(r) ==
    \/ BootstrapClaim(r) \/ BootstrapRefused(r)
    \/ TakeAdminLock(r) \/ Examine(r) \/ ExamineRefused(r)
    \/ WriteEmail(r) \/ Suspend(r)
    \/ LogoutRevoke(r) \/ LogoutStamp(r)
    \/ ForgotRecord(r) \/ \E f \in Families : LoginMint(r, f)
    \/ ResetSpend(r) \/ ResetRefused(r) \/ ResetPassword(r) \/ ResetRevoke(r)

\* The steps that wait for nobody.
Proceeding(r) ==
    \/ BootstrapConflict(r) \/ \E f \in Families : BootstrapWrite(r, f)
    \/ CallAnswered(r) \/ CallUnauthorized(r) \/ RefreshRead(r) \/ RefreshSign(r)
    \/ SentToLogin(r) \/ WriteRole(r) \/ Reinstate(r) \/ DeadlockVictim(r)

Environment ==
    \/ \E u \in People, f \in Families : Signup(u, f)
    \/ \E f \in Families : AccessExpires(f)
    \/ \E l \in Links : LinkExpires(l)
    \/ \E r \in Requests : Die(r)
    \/ Tick

Next ==
    \/ Environment
    \/ \E r \in Requests : Arrivals(r) \/ Edits(r) \/ Locking(r) \/ Proceeding(r)

Spec == Init /\ [][Next]_vars

\* A request that can go on does, and Postgres grants a lock in the order it
\* was asked for, so a request that waits is not passed over for ever.
FairSpec ==
    /\ Spec
    /\ \A r \in Requests : SF_vars(Locking(r)) /\ WF_vars(Proceeding(r))

(***************************************************************************)
(* Properties.                                                             *)
(***************************************************************************)

\* Every variable has its type.
AccountsTypeOK ==
    /\ users \in [People -> UserRow \cup {NoUser}]
    /\ sessions \in [Families -> SessionRow \cup {NoSession}]
    /\ links \in [Links -> LinkRow]
    /\ trail \in [bootstraps : Nat, suspended : [People -> Nat], reinstated : [People -> Nat]]
    /\ holder \in [Lockable -> Requests \cup {Free}]
    /\ requests \in [Requests -> RequestRow]
    /\ now \in 0 .. MaxTick

\* Once the platform has been claimed it always has an administrator who can
\* sign in, whatever demotions and suspensions run at once, by each other's
\* hands included (users.service.ts, ADMIN_COUNT_LOCK_KEY).
AdminRemains == trail.bootstraps > 0 => ActiveAdmins # {}

\* However many claims of a fresh platform race, one of them makes the first
\* administrator (auth.service.ts, BOOTSTRAP_LOCK_KEY).
BootstrappedOnce == trail.bootstraps <= 1

\* The audit log holds one row for each transition of an account's status: its
\* suspensions and reinstatements alternate and end at the state the account
\* is in, even when two administrators act on it at once (updateStatus).
TrailMatches ==
    \A u \in People :
        trail.suspended[u] = trail.reinstated[u]
                             + (IF users[u].status = "SUSPENDED" THEN 1 ELSE 0)

\* A reset link changes the password at most once, however many requests carry
\* it (resetPassword's conditional update).
LinkSpentOnce == \A l \in Links : links[l].spent <= 1

\* The instant an account's sessions were last ended at moves back only by a
\* sign-out or a reset that took its instant before it waited for the account's
\* row, while another ended them; a change of address, which takes its instant
\* under the row's lock, never brings an ended session back (UsersService.update
\* against logout and resetPassword).
OnlyOverlapsMoveStampsBack ==
    [][\A u \in People :
           users'[u].sessionsInvalidatedAt < users[u].sessionsInvalidatedAt =>
               \E r \in Requests :
                   /\ At(r, "logout", "write") \/ At(r, "reset", "revoke")
                   /\ requests[r].at = users'[u].sessionsInvalidatedAt
                   /\ requests'[r] = Idle]_vars

\* A request ends: no cycle of waits over the advisory locks, user rows and
\* token rows holds requests for ever (lock order of logout against the rest).
EveryRequestEnds == \A r \in Requests : requests[r] # Idle ~> requests[r] = Idle

\* The token of family f is refused because its account's sessions were ended.
EndedByStamp(f) ==
    /\ sessions[f].issued # Never
    /\ InvalidatedSince(users[sessions[f].owner].sessionsInvalidatedAt, sessions[f].issued)

\* What session.guard.ts:18-19 says of the stamp, the instant the account's
\* sessions were last invalidated: a token once refused for it stays refused.
EndedTokensStayEnded ==
    [][\A f \in Families :
           sessions[f] # NoSession /\ EndedByStamp(f) /\ sessions'[f].issued = sessions[f].issued
               => EndedByStamp(f)']_vars

\* What users.service.ts:316-317 says of a suspension: it took every live token.
SuspensionTakesEveryToken ==
    \A f \in Families :
        sessions[f] # NoSession /\ sessions[f].live => users[sessions[f].owner].status = "ACTIVE"

\* What auth.service.ts:283 says of signing out: every other device signed in
\* before the account's sessions were ended is signed out too.
SignedOutEverywhere ==
    \A f \in Families :
        sessions[f] # NoSession /\ sessions[f].live /\ Honoured(f) =>
            sessions[f].opened > users[sessions[f].owner].sessionsInvalidatedAt
=============================================================================
