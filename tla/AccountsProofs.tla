--------------------------- MODULE AccountsProofs ---------------------------
(***************************************************************************)
(* For any number of people, sign-ins, links and requests: the platform is *)
(* claimed once, an active administrator remains from then on, the audit   *)
(* trail tells each account's status, a link changes one password once,    *)
(* and only a sign-out or a reset that waited moves the end of an          *)
(* account's sessions back.                                                *)
(*                                                                         *)
(* What the decisions rest on is the locks: Sound says what a request has  *)
(* made sure of by the time it writes, and which lock keeps it so;         *)
(* LinksInOrder says the same of the row of a link that is being spent.    *)
(* The last part is about the locks alone: which ones a request may hold   *)
(* at each step (MayHold), and the order they are taken in.                *)
(***************************************************************************)
EXTENDS Accounts, FiniteSetTheorems, TLAPS

\* The edits made under ADMIN_COUNT_LOCK_KEY.
Counted(q) ==
    \/ q.op = "role"
    \/ q.op = "email" /\ q.to # "none"
    \/ q.op = "status" /\ q.to = "SUSPENDED"

\* What an edit established when it took the row.
Permitted(q) ==
    /\ Exists(q.on)
    /\ q.op = "status" => users[q.on].status # q.to
    /\ Lowers(q.op, users[q.on], q.to) => \E v \in ActiveAdmins : v # q.on

\* A request acts on rows there are; the locks its decision rests on are its own.
Sound(r) ==
    LET q == requests[r] IN
    /\ q.op \in Edit \cup {"bootstrap", "login"} => q.on \in People
    /\ q.op \in Edit \cup {"call", "logout"} => q.by \in Families /\ sessions[q.by].owner \in People
    /\ q.op \in {"forgot", "reset"} => q.on \in Links /\ links[q.on].owner \in People
    /\ q.op = "role" => q.to \in Roles
    /\ q.op = "email" => q.to \in Roles \cup {"none"}
    /\ q.op = "status" => q.to \in Statuses
    /\ q.op = "login" => Exists(q.on)
    /\ q.op \in Edit => trail.bootstraps > 0
    /\ Counted(q) /\ q.step \in {"row", "write"} => holder[AdminCount] = r
    /\ q.op \in Edit /\ q.step = "write" => holder[q.on] = r /\ Permitted(q)
    /\ q.op = "bootstrap" /\ q.step = "write" => holder[Bootstrap] = r /\ trail.bootstraps = 0

\* Only an unused link belongs to nobody.
LinkOwned == \A l \in Links : links[l] # NoLink => links[l].owner \in People

OwnersExist ==
    /\ \A f \in Families : sessions[f].owner \in People => Exists(sessions[f].owner)
    /\ \A l \in Links : links[l].owner \in People => Exists(links[l].owner)

Inv ==
    /\ AccountsTypeOK
    /\ OwnersExist /\ LinkOwned
    /\ \A r \in Requests : Sound(r)
    /\ Admins # {} => trail.bootstraps > 0
    /\ AdminRemains
    /\ BootstrappedOnce
    /\ TrailMatches

\* A step leaves request s as it was, with every lock it held.
Undisturbed(s) ==
    /\ requests'[s] = requests[s]
    /\ \A x \in Lockable : holder[x] = s => holder'[x] = s

\* Sign-ins and links keep their owners, and find new ones among the accounts.
OwnersStay ==
    /\ \A f \in Families :
         \/ sessions'[f].owner = sessions[f].owner
         \/ sessions[f].owner \notin People /\ sessions'[f].owner \in People /\ users'[sessions'[f].owner] # NoUser
    /\ \A l \in Links :
         \/ links'[l].owner = links[l].owner /\ (links[l] = NoLink => links'[l] = NoLink)
         \/ links[l].owner \notin People /\ links'[l].owner \in People /\ users'[links'[l].owner] # NoUser

\* No account is taken away.
AccountsStay == \A u \in People : users[u] # NoUser => users'[u] # NoUser

\* An account keeps its role and its status.
Stands(u) == users'[u].role = users[u].role /\ users'[u].status = users[u].status

-----------------------------------------------------------------------------
\* There is a row where there is a role.
LEMMA RowHasRole ==
    ASSUME AccountsTypeOK, NEW u \in People
    PROVE  /\ Exists(u) <=> users[u].role \in Roles
           /\ Exists(u) => users[u] \in UserRow
  BY DEF AccountsTypeOK, Exists, UserRow, NoUser, Roles

\* A second active administrator beside any one of several.
LEMMA AnotherAdmin ==
    ASSUME AccountsTypeOK, ~LastAdmin, NEW u
    PROVE  \E v \in ActiveAdmins : v # u
  <1>1. IsFiniteSet(ActiveAdmins)
    <2>1. ActiveAdmins \subseteq People
      BY DEF ActiveAdmins, Admins
    <2> QED
      BY <2>1, AccountsAssumption, FS_Subset
  <1>2. Cardinality(ActiveAdmins) \in Nat
    BY <1>1, FS_CardinalityType
  <1> SUFFICES ASSUME ActiveAdmins \subseteq {u} PROVE FALSE
    OBVIOUS
  <1>3. IsFiniteSet({u}) /\ Cardinality({u}) = 1
    BY FS_Singleton
  <1>4. Cardinality(ActiveAdmins) <= Cardinality({u})
    BY <1>3, FS_Subset
  <1> QED
    BY <1>2, <1>3, <1>4 DEF LastAdmin

\* A request that a step leaves alone stays sound, if the step keeps the row it
\* has locked and, where it may lower their number, the active administrators.
LEMMA StaysSound ==
    ASSUME Inv, AccountsTypeOK', OwnersStay, AccountsStay, NEW s \in Requests, Undisturbed(s),
           trail'.bootstraps >= trail.bootstraps,
           requests[s].op = "bootstrap" /\ requests[s].step = "write" =>
               trail'.bootstraps = trail.bootstraps,
           requests[s].op \in Edit /\ requests[s].step = "write" =>
               Stands(requests[s].on),
           Counted(requests[s]) /\ requests[s].step = "write" => ActiveAdmins \subseteq ActiveAdmins'
    PROVE  Sound(s)'
  <1> DEFINE q == requests[s]
  <1>1. Sound(s) /\ q \in RequestRow /\ q = requests'[s]
    BY DEF Inv, AccountsTypeOK, Undisturbed
  <1>2. trail.bootstraps \in Nat /\ trail'.bootstraps \in Nat
    BY DEF Inv, AccountsTypeOK
  <1>3. /\ q.op \in Edit \cup {"call", "logout"} => sessions'[q.by].owner \in People
        /\ q.op \in {"forgot", "reset"} => links'[q.on].owner \in People
        /\ q.op = "login" => users'[q.on] # NoUser
    BY <1>1 DEF Sound, OwnersStay, AccountsStay, Exists
  <1>4. /\ Counted(q) /\ q.step \in {"row", "write"} => holder'[AdminCount] = s
        /\ q.op \in Edit /\ q.step = "write" => holder'[q.on] = s
        /\ q.op = "bootstrap" /\ q.step = "write" => holder'[Bootstrap] = s
    BY <1>1 DEF Sound, Undisturbed, Lockable
  <1>5. ASSUME q.op \in Edit, q.step = "write" PROVE Permitted(requests[s])'
    <2>1. q.on \in People /\ Permitted(q)
      BY <1>1, <1>5 DEF Sound
    <2>2. /\ users'[q.on].role = users[q.on].role
          /\ users'[q.on].status = users[q.on].status
      BY <1>5 DEF Stands
    <2>3. Exists(q.on)'
      <3>1. users[q.on].role \in Roles
        BY <2>1, RowHasRole DEF Permitted, Inv
      <3> QED
        BY <2>1, <2>2, <3>1, <1>1 DEF AccountsTypeOK, Exists, NoUser, Roles
    <2>4. Lowers(q.op, users'[q.on], q.to) => \E v \in ActiveAdmins' : v # q.on
      BY <1>1, <1>5, <2>1, <2>2 DEF Permitted, Lowers, Counted
    <2> QED
      BY <1>1, <2>1, <2>2, <2>3, <2>4 DEF Permitted
  <1>6. Counted(requests[s])' <=> Counted(q)
    BY <1>1 DEF Counted
  <1> QED
    BY <1>1, <1>2, <1>3, <1>4, <1>5, <1>6 DEF Sound, Exists

\* Whoever owns a sign-in or a link has an account, and goes on having it.
LEMMA OwnersKept ==
    ASSUME Inv, OwnersStay, AccountsStay
    PROVE  OwnersExist' /\ LinkOwned'
  <1>1. OwnersExist'
    BY DEF OwnersStay, AccountsStay, OwnersExist, Inv, Exists
  <1>2. LinkOwned'
    BY DEF OwnersStay, LinkOwned, Inv
  <1> QED
    BY <1>1, <1>2

\* A step that changes nobody's role or status.
LEMMA QuietStep ==
    ASSUME Inv, AccountsTypeOK', OwnersStay, UNCHANGED trail,
           \A u \in People : Stands(u),
           \A s \in Requests : Sound(s)' \/ Undisturbed(s)
    PROVE  Inv'
  <1>1. \A u \in People : users'[u].role = users[u].role /\ users'[u].status = users[u].status
    BY DEF Stands
  <1>2. Admins' = Admins /\ ActiveAdmins' = ActiveAdmins
    BY <1>1 DEF Admins, ActiveAdmins
  <1>4. AccountsStay
    <2> SUFFICES ASSUME NEW u \in People, Exists(u) PROVE users'[u] # NoUser
      BY DEF AccountsStay, Exists
    <2>1. users[u].role \in Roles
      BY RowHasRole DEF Inv
    <2> QED
      BY <1>1, <2>1 DEF NoUser, Roles
  <1>5. OwnersExist' /\ LinkOwned'
    BY <1>4, OwnersKept
  <1>3. ASSUME NEW s \in Requests PROVE Sound(s)'
    <2>1. CASE Undisturbed(s)
      <3>1. trail.bootstraps \in Nat /\ trail'.bootstraps = trail.bootstraps
        BY DEF Inv, AccountsTypeOK
      <3>2. requests[s].op \in Edit => requests[s].on \in People
        BY DEF Inv, Sound
      <3>3. requests[s].op \in Edit => Stands(requests[s].on)
        BY <3>2
      <3> HIDE DEF Stands
      <3> QED
        BY <1>2, <1>4, <2>1, <3>1, <3>3, StaysSound
    <2> QED
      BY <2>1
  <1>6. AdminRemains' /\ BootstrappedOnce' /\ TrailMatches'
    BY <1>1, <1>2 DEF AdminRemains, BootstrappedOnce, TrailMatches, Inv
  <1>7. Admins' # {} => trail'.bootstraps > 0
    BY <1>2 DEF Inv
  <1> QED
    BY <1>3, <1>5, <1>6, <1>7 DEF Inv

-----------------------------------------------------------------------------
\* The rows a request starts from and is given.
LEMMA IdleIsRow == Idle \in RequestRow
  BY AccountsAssumption DEF Idle, RequestRow, Operations, Steps, Instants, Never

LEMMA RowWith ==
    ASSUME NEW q \in RequestRow, NEW op \in Operations, NEW step \in Steps,
           NEW by \in Families \cup {Nobody}, NEW on \in People \cup Links \cup {Nobody}
    PROVE  /\ [q EXCEPT !.op = op, !.step = step, !.by = by] \in RequestRow
           /\ [q EXCEPT !.op = op, !.step = step, !.on = on] \in RequestRow
  BY DEF RequestRow

\* The locks of a transaction that ends, and of one that takes another lock,
\* leave those of the others alone.
LEMMA Letting ==
    ASSUME Inv, NEW r \in Requests, Ends(r)
    PROVE  /\ requests' \in [Requests -> RequestRow]
           /\ holder' \in [Lockable -> Requests \cup {Free}]
           /\ Sound(r)'
           /\ \A s \in Requests \ {r} : Undisturbed(s)
  <1>1. Idle \in RequestRow
    BY IdleIsRow
  <1>2. requests' \in [Requests -> RequestRow] /\ requests'[r] = Idle
    BY <1>1 DEF Ends, Inv, AccountsTypeOK
  <1>3. holder' \in [Lockable -> Requests \cup {Free}]
    BY DEF Ends, Released, Inv, AccountsTypeOK
  <1>4. Sound(r)'
    BY <1>2 DEF Sound, Idle, Edit, Counted
  <1>5. ASSUME NEW s \in Requests \ {r} PROVE Undisturbed(s)
    BY AccountsAssumption DEF Ends, Released, Undisturbed, Inv, AccountsTypeOK
  <1> QED
    BY <1>2, <1>3, <1>4, <1>5

LEMMA Locked ==
    ASSUME Inv, NEW r \in Requests, NEW x \in Lockable, Available(r, x), holder' = Taking(r, x)
    PROVE  /\ holder' \in [Lockable -> Requests \cup {Free}]
           /\ holder'[x] = r
           /\ \A y \in Lockable : holder[y] \in Requests => holder'[y] = holder[y]
  BY AccountsAssumption DEF Available, Taking, Inv, AccountsTypeOK

\* A request moves on, with the locks it has or with more.
LEMMA MovesOn ==
    ASSUME Inv, NEW r \in Requests, NEW row \in RequestRow,
           requests' = [requests EXCEPT ![r] = row],
           holder' \in [Lockable -> Requests \cup {Free}],
           \A y \in Lockable : holder[y] \in Requests => holder'[y] = holder[y],
           UNCHANGED <<users, sessions, links, trail, now>>,
           Sound(r)'
    PROVE  Inv'
  <1>1. AccountsTypeOK'
    BY DEF Inv, AccountsTypeOK
  <1>2. OwnersStay /\ \A u \in People : Stands(u)
    BY DEF OwnersStay, Stands
  <1>3. ASSUME NEW s \in Requests \ {r} PROVE Undisturbed(s)
    BY DEF Undisturbed, Inv, AccountsTypeOK
  <1> QED
    BY <1>1, <1>2, <1>3, QuietStep

\* A transaction that rolls back.
LEMMA RollBackKeeps ==
    ASSUME Inv, NEW r \in Requests, RollsBack(r)
    PROVE  Inv'
  <1>1. AccountsTypeOK'
    BY Letting DEF RollsBack, Inv, AccountsTypeOK
  <1>2. OwnersStay /\ \A u \in People : Stands(u)
    BY DEF RollsBack, OwnersStay, Stands
  <1> QED
    BY <1>1, <1>2, Letting, QuietStep DEF RollsBack

-----------------------------------------------------------------------------
\* A request that has just arrived has decided nothing.
LEMMA Arriving ==
    ASSUME Inv, NEW r \in Requests, NEW row \in RequestRow,
           requests' = [requests EXCEPT ![r] = row],
           UNCHANGED <<users, sessions, links, trail, holder, now>>,
           \/ /\ row.op \in {"bootstrap", "login"} /\ row.step \in {"lock", "mint"}
              /\ row.on \in People
              /\ row.op = "login" => Exists(row.on)
           \/ row.op \in {"call", "logout"} /\ row.by \in Families /\ sessions[row.by].owner \in People
           \/ row.op = "reset" /\ row.on \in Links /\ links[row.on].owner \in People
    PROVE  Inv'
  <1>1. Sound(r)'
    BY DEF Sound, Inv, AccountsTypeOK, Edit, Counted, Exists
  <1> QED
    BY <1>1, MovesOn DEF Inv, AccountsTypeOK

LEMMA ArrivalKeeps ==
    ASSUME Inv, NEW r \in Requests, Arrivals(r)
    PROVE  Inv'
  <1>1. ASSUME NEW u \in People, BootstrapArrives(r, u) \/ LoginVerify(r, u) PROVE Inv'
    <2> DEFINE row(op, step) == [Idle EXCEPT !.op = op, !.step = step, !.on = u]
    <2>1. PICK op \in {"bootstrap", "login"}, step \in {"lock", "mint"} :
             /\ requests' = [requests EXCEPT ![r] = row(op, step)]
             /\ op = "login" => Exists(u)
             /\ UNCHANGED <<users, sessions, links, trail, holder, now>>
      BY <1>1 DEF BootstrapArrives, LoginVerify, Exists, NoUser
    <2>2. row(op, step) \in RequestRow
      BY RowWith, IdleIsRow DEF Operations, Steps
    <2>3. row(op, step).op = op /\ row(op, step).step = step /\ row(op, step).on = u
      BY DEF Idle
    <2> HIDE DEF row
    <2> QED
      BY <2>1, <2>2, <2>3, Arriving
  <1>2. ASSUME NEW f \in Families, Call(r, f) \/ LogoutArrives(r, f) PROVE Inv'
    <2> DEFINE row(op, step) == [Idle EXCEPT !.op = op, !.step = step, !.by = f]
    <2>1. PICK op \in {"call", "logout"}, step \in {"send", "revoke"} :
             /\ requests' = [requests EXCEPT ![r] = row(op, step)]
             /\ UNCHANGED <<users, sessions, links, trail, holder, now>>
      BY <1>2 DEF Call, LogoutArrives
    <2>2. row(op, step) \in RequestRow
      BY RowWith, IdleIsRow DEF Operations, Steps
    <2>3. row(op, step).op = op /\ row(op, step).by = f
      BY DEF Idle
    <2>4. sessions[f].owner \in People
      BY <1>2 DEF Call, LogoutArrives, Inv, AccountsTypeOK, SessionRow
    <2> HIDE DEF row
    <2> QED
      BY <2>1, <2>2, <2>3, <2>4, Arriving
  <1>3. ASSUME NEW l \in Links, ResetArrives(r, l) PROVE Inv'
    <2> DEFINE row == [Idle EXCEPT !.op = "reset", !.step = "row", !.on = l]
    <2>1. row \in RequestRow
      BY RowWith, IdleIsRow DEF Operations, Steps
    <2>2. row.op = "reset" /\ row.on = l
      BY DEF Idle
    <2>3. requests' = [requests EXCEPT ![r] = row] /\ UNCHANGED <<users, sessions, links, trail, holder, now>>
      BY <1>3 DEF ResetArrives
    <2>4. links[l].owner \in People
      BY <1>3 DEF ResetArrives, LinkOwned, Inv
    <2> HIDE DEF row
    <2> QED
      BY <2>1, <2>2, <2>3, <2>4, Arriving
  <1>4. ASSUME NEW u \in People, NEW l \in Links, ForgotSend(r, u, l) PROVE Inv'
    <2> DEFINE row == [Idle EXCEPT !.op = "forgot", !.step = "record", !.on = l]
               link == [NoLink EXCEPT !.owner = u, !.state = "mailed"]
    <2>1. row \in RequestRow
      BY RowWith, IdleIsRow DEF Operations, Steps
    <2>2. row.op = "forgot" /\ row.on = l
      BY DEF Idle
    <2>3. link \in LinkRow /\ link.owner = u
      BY DEF NoLink, LinkRow, LinkStates
    <2>4. /\ requests' = [requests EXCEPT ![r] = row]
          /\ links' = [links EXCEPT ![l] = link]
          /\ links[l] = NoLink /\ users[u].status = "ACTIVE"
          /\ UNCHANGED <<users, sessions, trail, holder, now>>
      BY <1>4 DEF ForgotSend
    <2> HIDE DEF row, link
    <2>5. AccountsTypeOK'
      BY <2>1, <2>3, <2>4 DEF Inv, AccountsTypeOK
    <2>6. Sound(r)'
      BY <2>2, <2>3, <2>4 DEF Sound, Inv, AccountsTypeOK, Edit, Counted
    <2>7. OwnersStay
      BY <2>3, <2>4, AccountsAssumption DEF OwnersStay, NoLink, NoUser, Inv, AccountsTypeOK
    <2>8. \A s \in Requests \ {r} : Undisturbed(s)
      BY <2>4 DEF Undisturbed
    <2>9. \A x \in People : Stands(x)
      BY <2>4 DEF Stands
    <2> QED
      BY <2>4, <2>5, <2>6, <2>7, <2>8, <2>9, QuietStep
  <1> QED
    BY <1>1, <1>2, <1>3, <1>4 DEF Arrivals

-----------------------------------------------------------------------------
\* Steps that only take a request further, and the locks they take.
LEMMA CallGoesOn ==
    ASSUME Inv, NEW r \in Requests, CallUnauthorized(r) \/ RefreshRead(r)
    PROVE  Inv'
  <1>1. PICK step \in {"renew", "sign"} :
           /\ requests' = [requests EXCEPT ![r].step = step]
           /\ requests[r].op = "call"
           /\ UNCHANGED <<users, sessions, links, trail, holder, now>>
    BY DEF CallUnauthorized, RefreshRead, GoesTo, At
  <1> DEFINE row == [requests[r] EXCEPT !.step = step]
  <1>2. requests[r] \in RequestRow /\ Sound(r)
    BY DEF Inv, AccountsTypeOK
  <1>3. row \in RequestRow
    BY <1>2 DEF RequestRow, Steps
  <1>4. Sound(r)'
    BY <1>1, <1>2 DEF Sound, Inv, AccountsTypeOK, RequestRow, Edit, Counted
  <1>5. requests' = [requests EXCEPT ![r] = row]
    BY <1>1
  <1> HIDE DEF row
  <1> QED
    BY <1>1, <1>3, <1>4, <1>5, MovesOn DEF Inv, AccountsTypeOK

LEMMA EditBegins ==
    ASSUME Inv, NEW r \in Requests, Edits(r)
    PROVE  Inv'
  <1>1. PICK op \in Edit, step \in {"lock", "row"}, u \in People, to \in Roles \cup Statuses \cup {"none"} :
           /\ AsAdmin(r)
           /\ Becomes(r, op, step, u, to)
           /\ op = "role" => to \in Roles /\ step = "lock"
           /\ op = "email" => to \in Roles \cup {"none"} /\ (to # "none" => step = "lock")
           /\ op = "status" => to \in Statuses /\ (to = "SUSPENDED" => step = "lock")
    BY DEF Edits, UpdateRole, UpdateStatus, UpdateEmail, Edit
  <1> DEFINE row == [requests[r] EXCEPT !.op = op, !.step = step, !.on = u, !.to = to]
  <1>2. requests[r] \in RequestRow /\ Sound(r) /\ requests[r].op = "call"
    BY <1>1 DEF Inv, AccountsTypeOK, AsAdmin, Sent, At
  <1>3. row \in RequestRow
    BY <1>2 DEF RequestRow, Steps, Operations, Edit
  <1>4. requests[r].by \in Families /\ sessions[requests[r].by].owner \in People
    BY <1>2 DEF Sound
  <1>5. trail.bootstraps > 0
    <2>1. sessions[requests[r].by].owner \in Admins
      BY <1>1, <1>4 DEF AsAdmin, Admins
    <2> QED
      BY <2>1 DEF Inv
  <1>6. /\ requests' = [requests EXCEPT ![r] = row]
        /\ UNCHANGED <<users, sessions, links, trail, holder, now>>
    BY <1>1 DEF Becomes
  <1>7. row.op = op /\ row.step = step /\ row.on = u /\ row.to = to /\ row.by = requests[r].by
    BY <1>2 DEF RequestRow
  <1> HIDE DEF row
  <1>8. requests'[r] = row
    BY <1>6 DEF Inv, AccountsTypeOK
  <1>9. Sound(r)'
    BY <1>1, <1>4, <1>5, <1>6, <1>7, <1>8 DEF Sound, Edit, Counted
  <1> QED
    BY <1>3, <1>6, <1>9, MovesOn DEF Inv, AccountsTypeOK

LEMMA CountLockTaken ==
    ASSUME Inv, NEW r \in Requests, TakeAdminLock(r)
    PROVE  Inv'
  <1> DEFINE row == [requests[r] EXCEPT !.step = "row"]
  <1>1. requests[r] \in RequestRow /\ Sound(r) /\ requests[r].op \in Edit
    BY DEF Inv, AccountsTypeOK, TakeAdminLock
  <1>2. row \in RequestRow
    BY <1>1 DEF RequestRow, Steps
  <1>3. requests' = [requests EXCEPT ![r] = row] /\ UNCHANGED <<users, sessions, links, trail, now>>
    BY DEF TakeAdminLock, GoesTo
  <1>4. /\ holder' \in [Lockable -> Requests \cup {Free}]
        /\ holder'[AdminCount] = r
        /\ \A y \in Lockable : holder[y] \in Requests => holder'[y] = holder[y]
    BY Locked DEF TakeAdminLock, Lockable
  <1>5. /\ row.op = requests[r].op /\ row.step = "row" /\ row.by = requests[r].by
        /\ row.on = requests[r].on /\ row.to = requests[r].to
    BY <1>1 DEF RequestRow
  <1> HIDE DEF row
  <1>6. requests'[r] = row
    BY <1>3 DEF Inv, AccountsTypeOK
  <1>7. Sound(r)'
    BY <1>1, <1>3, <1>4, <1>5, <1>6 DEF Sound, Edit, Counted
  <1> QED
    BY <1>2, <1>3, <1>4, <1>7, MovesOn

LEMMA RowExamined ==
    ASSUME Inv, NEW r \in Requests, Examine(r)
    PROVE  Inv'
  <1> DEFINE q == requests[r]
             row == [q EXCEPT !.step = "write", !.at = now]
  <1>1. q \in RequestRow /\ Sound(r) /\ q.op \in Edit /\ q.step = "row"
    BY DEF Inv, AccountsTypeOK, Examine, Edit
  <1>2. row \in RequestRow
    <2>1. now \in Instants
      BY AccountsAssumption DEF Inv, AccountsTypeOK, Instants, Never
    <2> QED
      BY <1>1, <2>1 DEF RequestRow, Steps
  <1>3. requests' = [requests EXCEPT ![r] = row] /\ UNCHANGED <<users, sessions, links, trail, now>>
    BY DEF Examine
  <1>4. q.on \in People
    BY <1>1 DEF Sound
  <1>5. /\ holder' \in [Lockable -> Requests \cup {Free}]
        /\ holder'[q.on] = r
        /\ \A y \in Lockable : holder[y] \in Requests => holder'[y] = holder[y]
    BY <1>4, Locked DEF Examine, Lockable
  <1>6. /\ row.op = q.op /\ row.step = "write" /\ row.by = q.by
        /\ row.on = q.on /\ row.to = q.to
    BY <1>1 DEF RequestRow
  <1>7. Permitted(q)
    BY <1>4, AnotherAdmin DEF Examine, Refused, Permitted, Inv
  <1>8. Counted(q) => holder'[AdminCount] = r
    BY <1>1, <1>5 DEF Sound, Lockable
  <1> HIDE DEF row
  <1>9. requests'[r] = row
    BY <1>3 DEF Inv, AccountsTypeOK
  <1>10. Permitted(requests[r])'
    <2>1. ActiveAdmins' = ActiveAdmins
      BY <1>3 DEF ActiveAdmins, Admins
    <2> QED
      BY <1>3, <1>6, <1>7, <1>9, <2>1 DEF Permitted, Exists, Lowers
  <1>11. Sound(r)'
    BY <1>1, <1>3, <1>4, <1>5, <1>6, <1>8, <1>9, <1>10 DEF Sound, Edit, Counted
  <1> QED
    BY <1>2, <1>3, <1>5, <1>11, MovesOn

LEMMA ClaimKeeps ==
    ASSUME Inv, NEW r \in Requests, BootstrapClaim(r)
    PROVE  Inv'
  <1> DEFINE row == [requests[r] EXCEPT !.step = "write"]
  <1>1. requests[r] \in RequestRow /\ Sound(r) /\ requests[r].op = "bootstrap"
    BY DEF Inv, AccountsTypeOK, BootstrapClaim, At
  <1>2. row \in RequestRow
    BY <1>1 DEF RequestRow, Steps
  <1>3. requests' = [requests EXCEPT ![r] = row] /\ UNCHANGED <<users, sessions, links, trail, now>>
    BY DEF BootstrapClaim, GoesTo
  <1>4. /\ holder' \in [Lockable -> Requests \cup {Free}]
        /\ holder'[Bootstrap] = r
        /\ \A y \in Lockable : holder[y] \in Requests => holder'[y] = holder[y]
    BY Locked DEF BootstrapClaim, Lockable
  <1>5. trail.bootstraps = 0
    <2>1. ActiveAdmins = {}
      BY DEF BootstrapClaim, ActiveAdmins
    <2> QED
      BY <2>1 DEF Inv, AdminRemains, AccountsTypeOK
  <1>6. row.op = "bootstrap" /\ row.step = "write" /\ row.on = requests[r].on
    BY <1>1 DEF RequestRow
  <1> HIDE DEF row
  <1>7. requests'[r] = row
    BY <1>3 DEF Inv, AccountsTypeOK
  <1>8. Sound(r)'
    BY <1>1, <1>3, <1>4, <1>5, <1>6, <1>7 DEF Sound, Edit, Counted
  <1> QED
    BY <1>2, <1>3, <1>4, <1>8, MovesOn

\* A sign-out, and the first two steps of a reset.
LEMMA LocksOfOthers ==
    ASSUME Inv, NEW r \in Requests, LogoutRevoke(r) \/ ResetSpend(r) \/ ResetPassword(r)
    PROVE  Inv'
  <1>1. requests[r] \in RequestRow /\ Sound(r) /\ requests[r].op \in {"logout", "reset"}
    BY DEF Inv, AccountsTypeOK, LogoutRevoke, ResetSpend, ResetPassword, At
  <1>2. PICK row \in RequestRow :
           /\ requests' = [requests EXCEPT ![r] = row]
           /\ row.op = requests[r].op /\ row.by = requests[r].by /\ row.on = requests[r].on
    <2>1. now \in Instants
      BY AccountsAssumption DEF Inv, AccountsTypeOK, Instants, Never
    <2>2. CASE LogoutRevoke(r) \/ ResetSpend(r)
      <3> DEFINE row == [requests[r] EXCEPT !.step = "write", !.at = now]
      <3>1. row \in RequestRow /\ requests' = [requests EXCEPT ![r] = row]
        BY <1>1, <2>1, <2>2 DEF RequestRow, Steps, LogoutRevoke, ResetSpend
      <3>2. row.op = requests[r].op /\ row.by = requests[r].by /\ row.on = requests[r].on
        BY <1>1 DEF RequestRow
      <3> QED
        BY <3>1, <3>2
    <2>3. CASE ResetPassword(r)
      <3> DEFINE row == [requests[r] EXCEPT !.step = "revoke"]
      <3>1. row \in RequestRow /\ requests' = [requests EXCEPT ![r] = row]
        BY <1>1, <2>3 DEF RequestRow, Steps, ResetPassword, GoesTo
      <3>2. row.op = requests[r].op /\ row.by = requests[r].by /\ row.on = requests[r].on
        BY <1>1 DEF RequestRow
      <3> QED
        BY <3>1, <3>2
    <2> QED
      BY <2>2, <2>3
  <1>3. UNCHANGED <<users, sessions, links, trail, now>>
    BY DEF LogoutRevoke, ResetSpend, ResetPassword
  <1>4. /\ holder' \in [Lockable -> Requests \cup {Free}]
        /\ \A y \in Lockable : holder[y] \in Requests => holder'[y] = holder[y]
    <2>1. CASE LogoutRevoke(r)
      <3>1. requests[r].by \in Lockable
        BY <2>1, <1>1 DEF LogoutRevoke, At, Sound, Lockable
      <3>2. CASE sessions[requests[r].by].live
        BY <2>1, <3>1, <3>2, Locked DEF LogoutRevoke
      <3>3. CASE ~sessions[requests[r].by].live
        BY <2>1, <3>3 DEF LogoutRevoke, Inv, AccountsTypeOK
      <3> QED
        BY <3>2, <3>3
    <2>2. CASE ResetSpend(r)
      <3>1. requests[r].on \in Lockable
        BY <2>2, <1>1 DEF ResetSpend, At, Sound, Lockable
      <3> QED
        BY <2>2, <3>1, Locked DEF ResetSpend
    <2>3. CASE ResetPassword(r)
      <3>1. links[requests[r].on].owner \in Lockable
        BY <2>3, <1>1 DEF ResetPassword, At, Sound, Lockable
      <3> QED
        BY <2>3, <3>1, Locked DEF ResetPassword
    <2> QED
      BY <2>1, <2>2, <2>3
  <1>5. requests'[r] = row
    BY <1>2 DEF Inv, AccountsTypeOK
  <1>6. Sound(r)'
    BY <1>1, <1>2, <1>3, <1>5 DEF Sound, Edit, Counted
  <1> QED
    BY <1>2, <1>3, <1>4, <1>6, MovesOn

-----------------------------------------------------------------------------
\* Steps that end a request, or come from outside, and leave every role and
\* status alone.
LEMMA RevokeKeeps ==
    ASSUME Inv, NEW u \in People, sessions' = RevokedFor(u)
    PROVE  /\ sessions' \in [Families -> SessionRow \cup {NoSession}]
           /\ \A f \in Families : sessions'[f].owner = sessions[f].owner
  <1> SUFFICES ASSUME NEW f \in Families
               PROVE  sessions'[f] \in SessionRow \cup {NoSession} /\ sessions'[f].owner = sessions[f].owner
    BY DEF RevokedFor
  <1>1. sessions[f] \in SessionRow \cup {NoSession}
    BY DEF Inv, AccountsTypeOK
  <1>2. CASE f \in OpenedBy(u)
    <2>1. sessions[f] \in SessionRow
      BY <1>1, <1>2, AccountsAssumption DEF OpenedBy, NoSession
    <2>2. sessions'[f] = [sessions[f] EXCEPT !.live = FALSE]
      BY <1>2 DEF RevokedFor
    <2> QED
      BY <2>1, <2>2 DEF SessionRow
  <1>3. CASE f \notin OpenedBy(u)
    BY <1>1, <1>3 DEF RevokedFor
  <1> QED
    BY <1>2, <1>3

\* The stamp is all that changes in the user table.
LEMMA StampKeeps ==
    ASSUME Inv, NEW u \in People, Exists(u), NEW at \in Instants,
           users' = [users EXCEPT ![u].sessionsInvalidatedAt = at]
    PROVE  /\ users' \in [People -> UserRow \cup {NoUser}]
           /\ \A v \in People : Stands(v)
  <1>1. users[u] \in UserRow
    BY RowHasRole DEF Inv
  <1>2. [users[u] EXCEPT !.sessionsInvalidatedAt = at] \in UserRow
    BY <1>1 DEF UserRow
  <1>3. users' \in [People -> UserRow \cup {NoUser}]
    BY <1>2 DEF Inv, AccountsTypeOK
  <1>4. ASSUME NEW v \in People PROVE Stands(v)
    BY <1>1 DEF Stands, Inv, AccountsTypeOK, UserRow
  <1> QED
    BY <1>3, <1>4

\* A request that ends without a word on roles and statuses.
LEMMA QuietEnd ==
    ASSUME Inv, NEW r \in Requests, Ends(r), UNCHANGED <<trail, now>>,
           users' \in [People -> UserRow \cup {NoUser}], \A v \in People : Stands(v),
           sessions' \in [Families -> SessionRow \cup {NoSession}],
           links' \in [Links -> LinkRow], OwnersStay
    PROVE  Inv'
  <1>1. AccountsTypeOK'
    BY Letting DEF Inv, AccountsTypeOK
  <1> QED
    BY <1>1, Letting, QuietStep

LEMMA MintKeeps ==
    ASSUME Inv, NEW r \in Requests, NEW f \in Families, LoginMint(r, f)
    PROVE  Inv'
  <1> DEFINE u == requests[r].on
             row == [owner |-> u, live |-> TRUE, opened |-> now, issued |-> now]
  <1>1. u \in People /\ Exists(u)
    BY DEF Inv, Sound, LoginMint, At
  <1>2. row \in SessionRow /\ row.owner = u
    BY <1>1, AccountsAssumption DEF Inv, AccountsTypeOK, SessionRow, Instants, Never
  <1>3. /\ sessions' = [sessions EXCEPT ![f] = row] /\ sessions[f] = NoSession
        /\ Ends(r) /\ UNCHANGED <<users, links, trail, now>>
    BY DEF LoginMint, IssueSession
  <1> HIDE DEF row
  <1>4. sessions' \in [Families -> SessionRow \cup {NoSession}]
    BY <1>2, <1>3 DEF Inv, AccountsTypeOK
  <1>5. OwnersStay
    BY <1>1, <1>2, <1>3, AccountsAssumption DEF OwnersStay, NoSession, Exists, Inv, AccountsTypeOK
  <1>6. \A v \in People : Stands(v)
    BY <1>3 DEF Stands
  <1> QED
    BY <1>3, <1>4, <1>5, <1>6, QuietEnd DEF Inv, AccountsTypeOK

LEMMA SignKeeps ==
    ASSUME Inv, NEW r \in Requests, RefreshSign(r)
    PROVE  Inv'
  <1> DEFINE f == requests[r].by
             row == [requests[r] EXCEPT !.step = "resend"]
             issued == [sessions[f] EXCEPT !.issued = now]
  <1>1. /\ requests[r] \in RequestRow /\ Sound(r) /\ requests[r].op = "call"
        /\ sessions' = [sessions EXCEPT ![f] = issued]
        /\ requests' = [requests EXCEPT ![r] = row]
        /\ UNCHANGED <<users, links, trail, holder, now>>
    BY DEF Inv, AccountsTypeOK, RefreshSign, GoesTo, At
  <1>2. f \in Families /\ sessions[f].owner \in People
    BY <1>1 DEF Sound
  <1>3. sessions[f] \in SessionRow
    BY <1>2, AccountsAssumption DEF Inv, AccountsTypeOK, NoSession
  <1>4. issued \in SessionRow /\ issued.owner = sessions[f].owner
    BY <1>3, AccountsAssumption DEF SessionRow, Inv, AccountsTypeOK, Instants, Never
  <1>5. row \in RequestRow /\ row.op = "call" /\ row.by = f
    BY <1>1 DEF RequestRow, Steps
  <1> HIDE DEF row, issued, f
  <1>6. AccountsTypeOK'
    BY <1>1, <1>4, <1>5 DEF Inv, AccountsTypeOK
  <1>7. OwnersStay
    BY <1>1, <1>4 DEF OwnersStay, Inv, AccountsTypeOK
  <1>8. Sound(r)'
    BY <1>1, <1>2, <1>4, <1>5 DEF Sound, Inv, AccountsTypeOK, Edit, Counted
  <1>9. \A s \in Requests \ {r} : Undisturbed(s)
    BY <1>1 DEF Undisturbed
  <1>10. \A v \in People : Stands(v)
    BY <1>1 DEF Stands
  <1> QED
    BY <1>1, <1>6, <1>7, <1>8, <1>9, <1>10, QuietStep

LEMMA LogoutKeeps ==
    ASSUME Inv, NEW r \in Requests, LogoutStamp(r)
    PROVE  Inv'
  <1> DEFINE f == requests[r].by
             u == sessions[f].owner
             ended == [sessions[f] EXCEPT !.live = FALSE]
  <1>1. /\ requests[r] \in RequestRow /\ Sound(r) /\ requests[r].op = "logout"
        /\ sessions' = [sessions EXCEPT ![f] = ended]
        /\ users' = [users EXCEPT ![u].sessionsInvalidatedAt = requests[r].at]
        /\ Ends(r) /\ UNCHANGED <<links, trail, now>>
    BY DEF Inv, AccountsTypeOK, LogoutStamp, At
  <1>2. f \in Families /\ u \in People /\ Exists(u)
    BY <1>1 DEF Sound, Inv, OwnersExist
  <1>3. sessions[f] \in SessionRow
    BY <1>2, AccountsAssumption DEF Inv, AccountsTypeOK, NoSession
  <1>4. ended \in SessionRow /\ ended.owner = u
    BY <1>3 DEF SessionRow
  <1>5. requests[r].at \in Instants
    BY <1>1 DEF RequestRow
  <1>6. users' \in [People -> UserRow \cup {NoUser}] /\ \A v \in People : Stands(v)
    BY <1>1, <1>2, <1>5, StampKeeps
  <1> HIDE DEF ended
  <1>7. sessions' \in [Families -> SessionRow \cup {NoSession}]
    BY <1>1, <1>4 DEF Inv, AccountsTypeOK
  <1>8. OwnersStay
    BY <1>1, <1>4 DEF OwnersStay, Inv, AccountsTypeOK
  <1> QED
    BY <1>1, <1>6, <1>7, <1>8, QuietEnd DEF Inv, AccountsTypeOK

LEMMA RecordKeeps ==
    ASSUME Inv, NEW r \in Requests, ForgotRecord(r)
    PROVE  Inv'
  <1> DEFINE l == requests[r].on
             row == [links[l] EXCEPT !.state = "open"]
  <1>1. /\ Sound(r) /\ requests[r].op = "forgot"
        /\ links' = [links EXCEPT ![l] = row]
        /\ Ends(r) /\ UNCHANGED <<users, sessions, trail, now>>
    BY DEF Inv, ForgotRecord, At
  <1>2. l \in Links /\ links[l] \in LinkRow /\ links[l].owner \in People
    BY <1>1 DEF Sound, Inv, AccountsTypeOK
  <1>3. row \in LinkRow /\ row.owner = links[l].owner
    BY <1>2 DEF LinkRow, LinkStates
  <1>4. links[l] # NoLink
    BY <1>2, AccountsAssumption DEF NoLink
  <1> HIDE DEF row
  <1>5. links' \in [Links -> LinkRow]
    BY <1>1, <1>3 DEF Inv, AccountsTypeOK
  <1>6. OwnersStay
    BY <1>1, <1>3, <1>4 DEF OwnersStay, Inv, AccountsTypeOK
  <1>7. \A v \in People : Stands(v)
    BY <1>1 DEF Stands
  <1> QED
    BY <1>1, <1>5, <1>6, <1>7, QuietEnd DEF Inv, AccountsTypeOK

LEMMA ResetKeeps ==
    ASSUME Inv, NEW r \in Requests, ResetRevoke(r)
    PROVE  Inv'
  <1> DEFINE l == requests[r].on
             u == links[l].owner
             row == [links[l] EXCEPT !.state = "used", !.spent = @ + 1]
  <1>1. /\ requests[r] \in RequestRow /\ Sound(r) /\ requests[r].op = "reset"
        /\ links' = [links EXCEPT ![l] = row]
        /\ users' = [users EXCEPT ![u].sessionsInvalidatedAt = requests[r].at]
        /\ sessions' = RevokedFor(u)
        /\ Ends(r) /\ UNCHANGED <<trail, now>>
    BY DEF Inv, AccountsTypeOK, ResetRevoke, At
  <1>2. l \in Links /\ links[l] \in LinkRow /\ u \in People /\ Exists(u)
    BY <1>1 DEF Sound, Inv, AccountsTypeOK, OwnersExist
  <1>3. row \in LinkRow /\ row.owner = u
    <2> DEFINE n == links[l].spent + 1
               used == [links[l] EXCEPT !.state = "used"]
    <2>1. n \in Nat
      BY <1>2 DEF LinkRow
    <2>2. used \in LinkRow /\ used.owner = u /\ used.spent = links[l].spent
      BY <1>2 DEF LinkRow, LinkStates
    <2>3. row = [used EXCEPT !.spent = n]
      BY <2>2
    <2> HIDE DEF n, used
    <2>4. [used EXCEPT !.spent = n] \in LinkRow /\ [used EXCEPT !.spent = n].owner = u
      BY <2>1, <2>2 DEF LinkRow
    <2> QED
      BY <2>3, <2>4
  <1>4. links[l] # NoLink
    BY <1>2, AccountsAssumption DEF NoLink
  <1>5. requests[r].at \in Instants
    BY <1>1 DEF RequestRow
  <1>6. users' \in [People -> UserRow \cup {NoUser}] /\ \A v \in People : Stands(v)
    BY <1>1, <1>2, <1>5, StampKeeps
  <1>7. /\ sessions' \in [Families -> SessionRow \cup {NoSession}]
        /\ \A f \in Families : sessions'[f].owner = sessions[f].owner
    BY <1>1, <1>2, RevokeKeeps
  <1> HIDE DEF row
  <1>8. links' \in [Links -> LinkRow]
    BY <1>1, <1>3 DEF Inv, AccountsTypeOK
  <1>9. OwnersStay
    BY <1>1, <1>3, <1>4, <1>7 DEF OwnersStay, Inv, AccountsTypeOK
  <1> QED
    BY <1>1, <1>6, <1>7, <1>8, <1>9, QuietEnd

LEMMA TimePasses ==
    ASSUME Inv,
           Tick \/ (\E f \in Families : AccessExpires(f)) \/ (\E l \in Links : LinkExpires(l))
    PROVE  Inv'
  <1>1. UNCHANGED <<users, trail, holder, requests>>
    BY DEF Tick, AccessExpires, LinkExpires
  <1>2. /\ sessions' \in [Families -> SessionRow \cup {NoSession}]
        /\ \A f \in Families : sessions'[f].owner = sessions[f].owner
    <2>1. CASE UNCHANGED sessions
      BY <2>1 DEF Inv, AccountsTypeOK
    <2>2. ASSUME NEW f \in Families, AccessExpires(f)
          PROVE  /\ sessions' \in [Families -> SessionRow \cup {NoSession}]
                 /\ \A g \in Families : sessions'[g].owner = sessions[g].owner
      <3>1. sessions[f] \in SessionRow
        BY <2>2 DEF AccessExpires, Inv, AccountsTypeOK, NoSession
      <3> DEFINE row == [sessions[f] EXCEPT !.issued = Never]
      <3>2. row \in SessionRow /\ row.owner = sessions[f].owner
        BY <3>1, AccountsAssumption DEF SessionRow, Instants, Never
      <3>3. sessions' = [sessions EXCEPT ![f] = row]
        BY <2>2 DEF AccessExpires
      <3> HIDE DEF row
      <3> QED
        BY <3>2, <3>3 DEF Inv, AccountsTypeOK
    <2> QED
      BY <2>1, <2>2 DEF Tick, LinkExpires
  <1>3. /\ links' \in [Links -> LinkRow]
        /\ \A l \in Links : links'[l].owner = links[l].owner /\ (links[l] = NoLink => links'[l] = NoLink)
    <2>1. CASE UNCHANGED links
      BY <2>1 DEF Inv, AccountsTypeOK
    <2>2. ASSUME NEW l \in Links, LinkExpires(l)
          PROVE  /\ links' \in [Links -> LinkRow]
                 /\ \A m \in Links : links'[m].owner = links[m].owner /\ (links[m] = NoLink => links'[m] = NoLink)
      <3> DEFINE row == [links[l] EXCEPT !.state = "expired"]
      <3>1. row \in LinkRow /\ row.owner = links[l].owner
        BY DEF LinkRow, LinkStates, Inv, AccountsTypeOK
      <3>2. links' = [links EXCEPT ![l] = row] /\ links[l] # NoLink
        BY <2>2 DEF LinkExpires, NoLink
      <3> HIDE DEF row
      <3> QED
        BY <3>1, <3>2 DEF Inv, AccountsTypeOK
    <2> QED
      BY <2>1, <2>2 DEF Tick, AccessExpires
  <1>4. now' \in 0 .. MaxTick
    BY AccountsAssumption DEF Tick, AccessExpires, LinkExpires, Inv, AccountsTypeOK
  <1>5. AccountsTypeOK'
    BY <1>1, <1>2, <1>3, <1>4 DEF Inv, AccountsTypeOK
  <1>6. OwnersStay
    BY <1>2, <1>3 DEF OwnersStay
  <1>7. (\A s \in Requests : Undisturbed(s)) /\ \A v \in People : Stands(v)
    BY <1>1 DEF Undisturbed, Stands
  <1> QED
    BY <1>1, <1>5, <1>6, <1>7, QuietStep

-----------------------------------------------------------------------------
\* The writes of roles and statuses.

\* Two edits about to write have different rows, and at most one is counted.
LEMMA RowsApart ==
    ASSUME Inv, NEW r \in Requests, NEW s \in Requests \ {r},
           requests[r].op \in Edit, requests[r].step = "write",
           requests[s].op \in Edit, requests[s].step = "write"
    PROVE  /\ requests[s].on # requests[r].on
           /\ ~(Counted(requests[r]) /\ Counted(requests[s]))
  BY DEF Inv, Sound

\* An edit writes the row it examined.
LEMMA EditKeeps ==
    ASSUME Inv, NEW r \in Requests, AccountsTypeOK', OwnersStay, Ends(r),
           requests[r].op \in Edit, requests[r].step = "write",
           trail'.bootstraps = trail.bootstraps,
           users'[requests[r].on] # NoUser,
           \A u \in People : u # requests[r].on => users'[u] = users[u],
           Counted(requests[r]) \/ ActiveAdmins \subseteq ActiveAdmins',
           ActiveAdmins' # {}, TrailMatches'
    PROVE  Inv'
  <1>1. Sound(r) /\ trail.bootstraps \in Nat
    BY DEF Inv, AccountsTypeOK
  <1>2. AccountsStay
    BY DEF AccountsStay
  <1>3. ASSUME NEW s \in Requests \ {r} PROVE Sound(s)'
    <2>1. Undisturbed(s)
      BY Letting
    <2>2. requests[s].op \in Edit /\ requests[s].step = "write" => Stands(requests[s].on)
      <3> SUFFICES ASSUME requests[s].op \in Edit, requests[s].step = "write"
                   PROVE  Stands(requests[s].on)
        OBVIOUS
      <3>1. requests[s].on \in People /\ requests[s].on # requests[r].on
        BY RowsApart DEF Inv, Sound
      <3> QED
        BY <3>1 DEF Stands
    <2>3. Counted(requests[s]) /\ requests[s].step = "write" => ActiveAdmins \subseteq ActiveAdmins'
      BY RowsApart DEF Counted, Edit
    <2> HIDE DEF Stands
    <2> QED
      BY <1>1, <1>2, <2>1, <2>2, <2>3, StaysSound
  <1>4. Sound(r)'
    BY Letting
  <1>5. trail.bootstraps > 0
    BY <1>1 DEF Sound
  <1>6. AdminRemains' /\ BootstrappedOnce' /\ (Admins' # {} => trail'.bootstraps > 0)
    BY <1>5 DEF AdminRemains, BootstrappedOnce, Inv
  <1> QED
    BY <1>2, <1>3, <1>4, <1>6, OwnersKept DEF Inv

LEMMA RoleKeeps ==
    ASSUME Inv, NEW r \in Requests, WriteRole(r)
    PROVE  Inv'
  <1> DEFINE u == requests[r].on
             row == [users[u] EXCEPT !.role = requests[r].to]
  <1>1. /\ requests[r].op = "role" /\ requests[r].step = "write"
        /\ users' = [users EXCEPT ![u] = row]
        /\ Ends(r) /\ UNCHANGED <<sessions, links, trail, now>>
    BY DEF WriteRole, At
  <1>2. u \in People /\ Permitted(requests[r]) /\ requests[r].to \in Roles /\ trail.bootstraps > 0
    BY <1>1 DEF Inv, Sound, Edit
  <1>3. users[u] \in UserRow
    BY <1>2, RowHasRole DEF Permitted, Inv
  <1>4. row \in UserRow /\ row.role = requests[r].to /\ row.status = users[u].status
    BY <1>2, <1>3 DEF UserRow
  <1> HIDE DEF row
  <1>5. AccountsTypeOK'
    BY <1>1, <1>4, Letting DEF Inv, AccountsTypeOK
  <1>6. users'[u] = row /\ \A v \in People : v # u => users'[v] = users[v]
    BY <1>1, <1>2 DEF Inv, AccountsTypeOK
  <1>7. users'[u] # NoUser
    BY <1>2, <1>4, <1>6 DEF NoUser, Roles
  <1>8. OwnersStay
    BY <1>1 DEF OwnersStay
  <1>9. ActiveAdmins' # {}
    <2>1. PICK v \in ActiveAdmins : TRUE
      BY <1>2 DEF Inv, AdminRemains
    <2>2. \E w \in ActiveAdmins : w # u \/ requests[r].to = "ADMIN"
      <3>1. CASE v # u \/ requests[r].to = "ADMIN"
        BY <2>1, <3>1
      <3>2. CASE v = u /\ requests[r].to = "STUDENT"
        BY <1>1, <1>2, <2>1, <3>2 DEF Permitted, Lowers, ActiveAdmins, Admins
      <3> QED
        BY <1>2, <3>1, <3>2 DEF Roles
    <2> QED
      BY <1>4, <1>6, <2>2 DEF ActiveAdmins, Admins
  <1>10. TrailMatches'
    BY <1>1, <1>4, <1>6 DEF TrailMatches, Inv
  <1>11. Counted(requests[r]) /\ requests[r].op \in Edit
    BY <1>1 DEF Counted, Edit
  <1> QED
    BY <1>1, <1>5, <1>6, <1>7, <1>8, <1>9, <1>10, <1>11, EditKeeps

\* A change of address, and of the role where the patch carries one.
LEMMA EmailKeeps ==
    ASSUME Inv, NEW r \in Requests, WriteEmail(r)
    PROVE  Inv'
  <1> DEFINE u == requests[r].on
             to == requests[r].to
             role == RoleAfter(u, to)
             row == [users[u] EXCEPT !.sessionsInvalidatedAt = requests[r].at, !.role = role]
  <1>1. /\ requests[r].op = "email" /\ requests[r].step = "write" /\ requests[r] \in RequestRow
        /\ sessions' = RevokedFor(u)
        /\ users' = [users EXCEPT ![u] = row]
        /\ Ends(r) /\ UNCHANGED <<links, trail, now>>
    BY DEF WriteEmail, At, Inv, AccountsTypeOK
  <1>2. u \in People /\ Permitted(requests[r]) /\ to \in Roles \cup {"none"} /\ trail.bootstraps > 0
    BY <1>1 DEF Inv, Sound, Edit
  <1>3. users[u] \in UserRow /\ requests[r].at \in Instants
    BY <1>1, <1>2, RowHasRole DEF Permitted, Inv, RequestRow
  <1>4. role \in Roles /\ (to \in Roles => role = to) /\ (to = "none" => role = users[u].role)
    BY <1>2, <1>3 DEF RoleAfter, UserRow, Roles
  <1> HIDE DEF role
  <1>5. row \in UserRow /\ row.role = role /\ row.status = users[u].status
    BY <1>3, <1>4 DEF UserRow
  <1> HIDE DEF row
  <1>6. /\ sessions' \in [Families -> SessionRow \cup {NoSession}]
        /\ \A f \in Families : sessions'[f].owner = sessions[f].owner
    BY <1>1, <1>2, RevokeKeeps
  <1>7. AccountsTypeOK'
    BY <1>1, <1>5, <1>6, Letting DEF Inv, AccountsTypeOK
  <1>8. users'[u] = row /\ \A v \in People : v # u => users'[v] = users[v]
    BY <1>1, <1>2 DEF Inv, AccountsTypeOK
  <1>9. users'[u] # NoUser
    BY <1>4, <1>5, <1>8 DEF NoUser, Roles
  <1>10. OwnersStay
    BY <1>1, <1>6 DEF OwnersStay
  <1>11. to = "none" => ActiveAdmins' = ActiveAdmins
    BY <1>4, <1>5, <1>8 DEF ActiveAdmins, Admins
  <1>12. ActiveAdmins' # {}
    <2>1. PICK v \in ActiveAdmins : TRUE
      BY <1>2 DEF Inv, AdminRemains
    <2>2. CASE to = "none"
      BY <1>11, <2>1, <2>2
    <2>3. CASE to = "ADMIN" \/ v # u
      BY <1>2, <1>4, <1>5, <1>8, <1>11, <2>1, <2>3 DEF ActiveAdmins, Admins, Roles
    <2>4. CASE to = "STUDENT" /\ v = u
      <3>1. \E w \in ActiveAdmins : w # u
        BY <1>1, <1>2, <2>1, <2>4 DEF Permitted, Lowers, ActiveAdmins, Admins
      <3> QED
        BY <1>8, <3>1 DEF ActiveAdmins, Admins
    <2> QED
      BY <1>2, <2>2, <2>3, <2>4 DEF Roles
  <1>13. TrailMatches'
    BY <1>1, <1>5, <1>8 DEF TrailMatches, Inv
  <1>14. (Counted(requests[r]) \/ ActiveAdmins \subseteq ActiveAdmins') /\ requests[r].op \in Edit
    BY <1>1, <1>11 DEF Counted, Edit
  <1> QED
    BY <1>1, <1>7, <1>8, <1>9, <1>10, <1>12, <1>13, <1>14, EditKeeps

LEMMA SuspendKeeps ==
    ASSUME Inv, NEW r \in Requests, Suspend(r)
    PROVE  Inv'
  <1> DEFINE u == requests[r].on
             row == [users[u] EXCEPT !.status = "SUSPENDED"]
             more == [trail.suspended EXCEPT ![u] = @ + 1]
  <1>1. /\ requests[r].op = "status" /\ requests[r].step = "write" /\ requests[r].to = "SUSPENDED"
        /\ users' = [users EXCEPT ![u] = row]
        /\ sessions' = RevokedFor(u)
        /\ trail' = [trail EXCEPT !.suspended = more]
        /\ Ends(r) /\ UNCHANGED <<links, now>>
    BY DEF Suspend, At
  <1>2. u \in People /\ Permitted(requests[r]) /\ trail.bootstraps > 0
    BY <1>1 DEF Inv, Sound, Edit
  <1>3. users[u] \in UserRow /\ users[u].status = "ACTIVE"
    BY <1>1, <1>2, RowHasRole DEF Permitted, Inv, UserRow, Statuses
  <1>4. row \in UserRow /\ row.role = users[u].role /\ row.status = "SUSPENDED"
    BY <1>3 DEF UserRow, Statuses
  <1>5. /\ more \in [People -> Nat]
        /\ more[u] = trail.suspended[u] + 1
        /\ \A v \in People : v # u => more[v] = trail.suspended[v]
    BY <1>2 DEF Inv, AccountsTypeOK
  <1> HIDE DEF row, more
  <1>6. /\ trail'.bootstraps = trail.bootstraps /\ trail'.suspended = more
        /\ trail'.reinstated = trail.reinstated
        /\ trail' \in [bootstraps : Nat, suspended : [People -> Nat], reinstated : [People -> Nat]]
    BY <1>1, <1>5 DEF Inv, AccountsTypeOK
  <1>7. /\ sessions' \in [Families -> SessionRow \cup {NoSession}]
        /\ \A f \in Families : sessions'[f].owner = sessions[f].owner
    BY <1>1, <1>2, RevokeKeeps
  <1>8. AccountsTypeOK'
    BY <1>1, <1>4, <1>6, <1>7, Letting DEF Inv, AccountsTypeOK
  <1>9. users'[u] = row /\ \A v \in People : v # u => users'[v] = users[v]
    BY <1>1, <1>2 DEF Inv, AccountsTypeOK
  <1>10. users'[u] # NoUser
    BY <1>4, <1>9 DEF NoUser
  <1>11. OwnersStay
    BY <1>1, <1>7 DEF OwnersStay
  <1>12. ActiveAdmins' # {}
    <2>1. PICK v \in ActiveAdmins : TRUE
      BY <1>2 DEF Inv, AdminRemains
    <2>2. \E w \in ActiveAdmins : w # u
      BY <1>1, <1>2, <2>1 DEF Permitted, Lowers, ActiveAdmins, Admins
    <2> QED
      BY <1>9, <2>2 DEF ActiveAdmins, Admins
  <1>13. TrailMatches'
    <2> SUFFICES ASSUME NEW v \in People
                 PROVE  trail'.suspended[v] = trail'.reinstated[v]
                            + (IF users'[v].status = "SUSPENDED" THEN 1 ELSE 0)
      BY DEF TrailMatches
    <2>1. /\ trail.suspended[v] = trail.reinstated[v] + (IF users[v].status = "SUSPENDED" THEN 1 ELSE 0)
          /\ trail.suspended[v] \in Nat /\ trail.reinstated[v] \in Nat
      BY DEF TrailMatches, Inv, AccountsTypeOK
    <2> QED
      BY <1>3, <1>4, <1>5, <1>6, <1>9, <2>1
  <1>14. Counted(requests[r]) /\ requests[r].op \in Edit
    BY <1>1 DEF Counted, Edit
  <1> QED
    BY <1>1, <1>6, <1>8, <1>9, <1>10, <1>11, <1>12, <1>13, <1>14, EditKeeps

LEMMA ReinstateKeeps ==
    ASSUME Inv, NEW r \in Requests, Reinstate(r)
    PROVE  Inv'
  <1> DEFINE u == requests[r].on
             row == [users[u] EXCEPT !.status = "ACTIVE"]
             more == [trail.reinstated EXCEPT ![u] = @ + 1]
  <1>1. /\ requests[r].op = "status" /\ requests[r].step = "write" /\ requests[r].to = "ACTIVE"
        /\ users' = [users EXCEPT ![u] = row]
        /\ trail' = [trail EXCEPT !.reinstated = more]
        /\ Ends(r) /\ UNCHANGED <<sessions, links, now>>
    BY DEF Reinstate, At
  <1>2. u \in People /\ Permitted(requests[r]) /\ trail.bootstraps > 0
    BY <1>1 DEF Inv, Sound, Edit
  <1>3. users[u] \in UserRow /\ users[u].status = "SUSPENDED"
    BY <1>1, <1>2, RowHasRole DEF Permitted, Inv, UserRow, Statuses
  <1>4. row \in UserRow /\ row.role = users[u].role /\ row.status = "ACTIVE"
    BY <1>3 DEF UserRow, Statuses
  <1>5. /\ more \in [People -> Nat]
        /\ more[u] = trail.reinstated[u] + 1
        /\ \A v \in People : v # u => more[v] = trail.reinstated[v]
    BY <1>2 DEF Inv, AccountsTypeOK
  <1> HIDE DEF row, more
  <1>6. /\ trail'.bootstraps = trail.bootstraps /\ trail'.reinstated = more
        /\ trail'.suspended = trail.suspended
        /\ trail' \in [bootstraps : Nat, suspended : [People -> Nat], reinstated : [People -> Nat]]
    BY <1>1, <1>5 DEF Inv, AccountsTypeOK
  <1>7. AccountsTypeOK'
    BY <1>1, <1>4, <1>6, Letting DEF Inv, AccountsTypeOK
  <1>8. users'[u] = row /\ \A v \in People : v # u => users'[v] = users[v]
    BY <1>1, <1>2 DEF Inv, AccountsTypeOK
  <1>9. users'[u] # NoUser
    BY <1>4, <1>8 DEF NoUser
  <1>10. OwnersStay
    BY <1>1 DEF OwnersStay
  <1>11. ActiveAdmins \subseteq ActiveAdmins'
    BY <1>4, <1>8 DEF ActiveAdmins, Admins
  <1>12. ActiveAdmins' # {}
    BY <1>2, <1>11 DEF Inv, AdminRemains
  <1>13. TrailMatches'
    <2> SUFFICES ASSUME NEW v \in People
                 PROVE  trail'.suspended[v] = trail'.reinstated[v]
                            + (IF users'[v].status = "SUSPENDED" THEN 1 ELSE 0)
      BY DEF TrailMatches
    <2>1. /\ trail.suspended[v] = trail.reinstated[v] + (IF users[v].status = "SUSPENDED" THEN 1 ELSE 0)
          /\ trail.suspended[v] \in Nat /\ trail.reinstated[v] \in Nat
      BY DEF TrailMatches, Inv, AccountsTypeOK
    <2> QED
      BY <1>3, <1>4, <1>5, <1>6, <1>8, <2>1
  <1>14. requests[r].op \in Edit
    BY <1>1 DEF Edit
  <1> QED
    BY <1>1, <1>6, <1>7, <1>8, <1>9, <1>10, <1>11, <1>12, <1>13, <1>14, EditKeeps

-----------------------------------------------------------------------------
\* New accounts.
LEMMA NewAccount ==
    ASSUME Inv, NEW u \in People, NEW f \in Families, ~Exists(u), NEW role \in Roles,
           users' = [users EXCEPT ![u] =
               [role |-> role, status |-> "ACTIVE", sessionsInvalidatedAt |-> Never]],
           IssueSession(f, u), UNCHANGED links
    PROVE  /\ users' \in [People -> UserRow \cup {NoUser}]
           /\ sessions' \in [Families -> SessionRow \cup {NoSession}]
           /\ users'[u].role = role /\ users'[u].status = "ACTIVE" /\ users[u].status = "none"
           /\ \A v \in People : v # u => users'[v] = users[v]
           /\ OwnersStay /\ AccountsStay
           /\ ActiveAdmins \subseteq ActiveAdmins'
  <1> DEFINE row == [role |-> role, status |-> "ACTIVE", sessionsInvalidatedAt |-> Never]
             new == [owner |-> u, live |-> TRUE, opened |-> now, issued |-> now]
  <1>1. row \in UserRow /\ row.role = role /\ row.status = "ACTIVE" /\ row # NoUser
    BY AccountsAssumption DEF UserRow, Statuses, Instants, Never, NoUser
  <1>2. new \in SessionRow /\ new.owner = u
    BY AccountsAssumption DEF SessionRow, Instants, Never, Inv, AccountsTypeOK
  <1>3. users' = [users EXCEPT ![u] = row] /\ users[u] = NoUser
    BY DEF Exists
  <1>4. sessions' = [sessions EXCEPT ![f] = new] /\ sessions[f] = NoSession
    BY DEF IssueSession
  <1> HIDE DEF row, new
  <1>5. /\ users' \in [People -> UserRow \cup {NoUser}]
        /\ users'[u] = row /\ \A v \in People : v # u => users'[v] = users[v]
    BY <1>1, <1>3 DEF Inv, AccountsTypeOK
  <1>6. sessions' \in [Families -> SessionRow \cup {NoSession}]
    BY <1>2, <1>4 DEF Inv, AccountsTypeOK
  <1>7. AccountsStay
    BY <1>1, <1>3, <1>5 DEF AccountsStay
  <1>8. OwnersStay
    BY <1>1, <1>2, <1>4, <1>5, AccountsAssumption DEF OwnersStay, NoSession, Inv, AccountsTypeOK
  <1>9. ActiveAdmins \subseteq ActiveAdmins'
    BY <1>3, <1>5 DEF ActiveAdmins, Admins, NoUser
  <1> QED
    BY <1>1, <1>3, <1>5, <1>6, <1>7, <1>8, <1>9 DEF NoUser

LEMMA SignupKeeps ==
    ASSUME Inv, NEW u \in People, NEW f \in Families, Signup(u, f)
    PROVE  Inv'
  <1>1. UNCHANGED <<links, trail, holder, requests, now>> /\ ~Exists(u)
    BY DEF Signup
  <1>2. /\ users' \in [People -> UserRow \cup {NoUser}]
        /\ sessions' \in [Families -> SessionRow \cup {NoSession}]
        /\ users'[u].role = "STUDENT" /\ users'[u].status = "ACTIVE" /\ users[u].status = "none"
        /\ \A v \in People : v # u => users'[v] = users[v]
        /\ OwnersStay /\ AccountsStay
        /\ ActiveAdmins \subseteq ActiveAdmins'
    BY NewAccount DEF Signup, Roles
  <1>3. AccountsTypeOK'
    BY <1>1, <1>2 DEF Inv, AccountsTypeOK
  <1>4. ASSUME NEW s \in Requests PROVE Sound(s)'
    <2>1. Undisturbed(s)
      BY <1>1 DEF Undisturbed
    <2>2. requests[s].op \in Edit /\ requests[s].step = "write" => Stands(requests[s].on)
      BY <1>1, <1>2 DEF Inv, Sound, Permitted, Stands
    <2>3. trail.bootstraps \in Nat /\ trail'.bootstraps = trail.bootstraps
      BY <1>1 DEF Inv, AccountsTypeOK
    <2> HIDE DEF Stands
    <2> QED
      BY <1>2, <1>3, <2>1, <2>2, <2>3, StaysSound
  <1>5. Admins' # {} => trail'.bootstraps > 0
    BY <1>1, <1>2 DEF Admins, Inv
  <1>6. AdminRemains' /\ BootstrappedOnce'
    BY <1>1, <1>2 DEF AdminRemains, BootstrappedOnce, Inv
  <1>7. TrailMatches'
    BY <1>1, <1>2 DEF TrailMatches, Inv
  <1> QED
    BY <1>2, <1>3, <1>4, <1>5, <1>6, <1>7, OwnersKept DEF Inv

LEMMA FirstAdminKeeps ==
    ASSUME Inv, NEW r \in Requests, NEW f \in Families, BootstrapWrite(r, f)
    PROVE  Inv'
  <1> DEFINE u == requests[r].on
  <1>1. /\ requests[r].op = "bootstrap" /\ requests[r].step = "write" /\ ~Exists(u)
        /\ trail' = [trail EXCEPT !.bootstraps = @ + 1]
        /\ Ends(r) /\ UNCHANGED <<links, now>>
    BY DEF BootstrapWrite, At
  <1>2. u \in People /\ holder[Bootstrap] = r /\ trail.bootstraps = 0
    BY <1>1 DEF Inv, Sound
  <1>3. /\ users' \in [People -> UserRow \cup {NoUser}]
        /\ sessions' \in [Families -> SessionRow \cup {NoSession}]
        /\ users'[u].role = "ADMIN" /\ users'[u].status = "ACTIVE" /\ users[u].status = "none"
        /\ \A v \in People : v # u => users'[v] = users[v]
        /\ OwnersStay /\ AccountsStay
        /\ ActiveAdmins \subseteq ActiveAdmins'
    BY <1>1, <1>2, NewAccount DEF BootstrapWrite, Roles
  <1>4. /\ trail'.bootstraps = 1 /\ trail'.suspended = trail.suspended
        /\ trail'.reinstated = trail.reinstated
        /\ trail' \in [bootstraps : Nat, suspended : [People -> Nat], reinstated : [People -> Nat]]
    BY <1>1, <1>2 DEF Inv, AccountsTypeOK
  <1>5. AccountsTypeOK'
    BY <1>1, <1>3, <1>4, Letting DEF Inv, AccountsTypeOK
  <1>6. ASSUME NEW s \in Requests \ {r} PROVE Sound(s)'
    <2>1. Undisturbed(s)
      BY <1>1, Letting
    <2>2. requests[s].op \notin Edit
      BY <1>2 DEF Inv, Sound
    <2>3. ~(requests[s].op = "bootstrap" /\ requests[s].step = "write")
      BY <1>2 DEF Inv, Sound
    <2>4. trail'.bootstraps >= trail.bootstraps
      BY <1>2, <1>4
    <2>5. ~Counted(requests[s])
      BY <2>2 DEF Counted, Edit
    <2> QED
      BY <1>3, <1>5, <2>1, <2>2, <2>3, <2>4, <2>5, StaysSound
  <1>7. Sound(r)'
    BY <1>1, Letting
  <1>8. ActiveAdmins' # {}
    BY <1>2, <1>3 DEF ActiveAdmins, Admins
  <1>9. AdminRemains' /\ BootstrappedOnce' /\ (Admins' # {} => trail'.bootstraps > 0)
    BY <1>4, <1>8 DEF AdminRemains, BootstrappedOnce
  <1>10. TrailMatches'
    BY <1>3, <1>4 DEF TrailMatches, Inv
  <1> QED
    BY <1>3, <1>5, <1>6, <1>7, <1>9, <1>10, OwnersKept DEF Inv

-----------------------------------------------------------------------------
\* The whole next-state relation.
LEMMA InitInv == Init => Inv
  <1> SUFFICES ASSUME Init PROVE Inv
    OBVIOUS
  <1>1. AccountsTypeOK
    <2>1. NoLink \in LinkRow
      BY DEF NoLink, LinkRow, LinkStates
    <2> QED
      BY <2>1, IdleIsRow, AccountsAssumption DEF Init, AccountsTypeOK
  <1>2. OwnersExist /\ LinkOwned
    BY AccountsAssumption DEF Init, OwnersExist, LinkOwned, NoSession, NoLink
  <1>3. \A r \in Requests : Sound(r)
    BY DEF Init, Sound, Idle, Edit, Counted
  <1>4. Admins = {}
    BY DEF Init, Admins, NoUser
  <1>5. AdminRemains /\ BootstrappedOnce /\ TrailMatches
    BY DEF Init, AdminRemains, BootstrappedOnce, TrailMatches, NoUser
  <1> QED
    BY <1>1, <1>2, <1>3, <1>4, <1>5 DEF Inv

LEMMA NextInv == Inv /\ [Next]_vars => Inv'
  <1> SUFFICES ASSUME Inv, [Next]_vars PROVE Inv'
    OBVIOUS
  <1>1. CASE Environment
    <2>1. ASSUME NEW r \in Requests, Die(r) PROVE Inv'
      BY <2>1, RollBackKeeps DEF Die
    <2> QED
      BY <1>1, <2>1, SignupKeeps, TimePasses DEF Environment
  <1>2. ASSUME NEW r \in Requests, Arrivals(r) \/ Edits(r) PROVE Inv'
    BY <1>2, ArrivalKeeps, EditBegins
  <1>3. ASSUME NEW r \in Requests, Locking(r) PROVE Inv'
    <2>1. CASE BootstrapRefused(r) \/ ExamineRefused(r) \/ ResetRefused(r)
      BY <2>1, RollBackKeeps DEF BootstrapRefused, ExamineRefused, ResetRefused
    <2>2. CASE BootstrapClaim(r) \/ TakeAdminLock(r) \/ Examine(r)
      BY <2>2, ClaimKeeps, CountLockTaken, RowExamined
    <2>3. CASE WriteEmail(r) \/ Suspend(r)
      BY <2>3, EmailKeeps, SuspendKeeps
    <2>4. CASE LogoutRevoke(r) \/ ResetSpend(r) \/ ResetPassword(r)
      BY <2>4, LocksOfOthers
    <2>5. CASE LogoutStamp(r) \/ ForgotRecord(r) \/ ResetRevoke(r) \/ \E f \in Families : LoginMint(r, f)
      BY <2>5, LogoutKeeps, RecordKeeps, ResetKeeps, MintKeeps
    <2> QED
      BY <1>3, <2>1, <2>2, <2>3, <2>4, <2>5 DEF Locking
  <1>4. ASSUME NEW r \in Requests, Proceeding(r) PROVE Inv'
    <2>1. CASE BootstrapConflict(r) \/ CallAnswered(r) \/ SentToLogin(r) \/ DeadlockVictim(r)
      BY <2>1, RollBackKeeps DEF BootstrapConflict, CallAnswered, SentToLogin, DeadlockVictim
    <2>2. CASE CallUnauthorized(r) \/ RefreshRead(r) \/ RefreshSign(r)
      BY <2>2, CallGoesOn, SignKeeps
    <2>3. CASE WriteRole(r) \/ Reinstate(r) \/ \E f \in Families : BootstrapWrite(r, f)
      BY <2>3, RoleKeeps, ReinstateKeeps, FirstAdminKeeps
    <2> QED
      BY <1>4, <2>1, <2>2, <2>3 DEF Proceeding
  <1>5. CASE UNCHANGED vars
    <2>1. AccountsTypeOK' /\ OwnersStay /\ \A u \in People : Stands(u)
      BY <1>5 DEF vars, Inv, AccountsTypeOK, OwnersStay, Stands
    <2>2. \A s \in Requests : Undisturbed(s)
      BY <1>5 DEF vars, Undisturbed
    <2> QED
      BY <1>5, <2>1, <2>2, QuietStep DEF vars
  <1> QED
    BY <1>1, <1>2, <1>3, <1>4, <1>5 DEF Next

LEMMA InvHolds == Spec => []Inv
  BY InitInv, NextInv, PTL DEF Spec

-----------------------------------------------------------------------------
\* Users, sessions, links, the trail, the locks and the requests keep their types.
THEOREM AccountsTypeCorrect == Spec => []AccountsTypeOK
  <1>1. Inv => AccountsTypeOK
    BY DEF Inv
  <1> QED
    BY <1>1, InvHolds, PTL

\* From the first claim on there is always an administrator who can sign in,
\* however many demotions and suspensions run at once (users.service.ts:
\* the advisory lock, the row lock and the count under both).
THEOREM AnAdminRemains == Spec => []AdminRemains
  <1>1. Inv => AdminRemains
    BY DEF Inv
  <1> QED
    BY <1>1, InvHolds, PTL

\* The platform is claimed once, however many claims race (auth.service.ts:
\* bootstrapAdmin's advisory lock; it counts on an administrator remaining).
THEOREM ClaimedOnce == Spec => []BootstrappedOnce
  <1>1. Inv => BootstrappedOnce
    BY DEF Inv
  <1> QED
    BY <1>1, InvHolds, PTL

\* The audit rows of suspensions and reinstatements alternate and tell each
\* account's status, under any number of administrators (updateStatus).
THEOREM TrailTellsStatus == Spec => []TrailMatches
  <1>1. Inv => TrailMatches
    BY DEF Inv
  <1> QED
    BY <1>1, InvHolds, PTL

-----------------------------------------------------------------------------
\* What makes a link good for one change of password: whoever has spent it but
\* not committed holds its row, and whoever still has to record it is alone.
LinksInOrder ==
    /\ \A l \in Links : links[l].spent = IF links[l].state = "used" THEN 1 ELSE 0
    /\ \A r \in Requests :
         LET q == requests[r] IN
         /\ q.op = "reset" /\ q.step \in {"write", "revoke"} =>
                holder[q.on] = r /\ links[q.on].state = "open"
         /\ q.op = "forgot" =>
                /\ links[q.on].state = "mailed"
                /\ \A s \in Requests : requests[s].op = "forgot" /\ requests[s].on = q.on => s = r

\* A step of r that writes no link, takes no lock from another and, if it is a
\* reset past the row, holds the open link it spends.
LinksQuiet(r) ==
    /\ UNCHANGED links
    /\ \A s \in Requests \ {r} : Undisturbed(s)
    /\ requests'[r].op = "reset" /\ requests'[r].step \in {"write", "revoke"} =>
           holder'[requests'[r].on] = r /\ links[requests'[r].on].state = "open"
    /\ requests'[r].op = "forgot" =>
           requests[r].op = "forgot" /\ requests'[r].on = requests[r].on

LEMMA QuietLinks ==
    ASSUME Inv, LinksInOrder, NEW r \in Requests, LinksQuiet(r)
    PROVE  LinksInOrder'
  <1>1. \A s \in Requests : requests[s].op \in {"forgot", "reset"} => requests[s].on \in Lockable
    BY DEF Inv, Sound, Lockable
  <1>2. ASSUME NEW s \in Requests \ {r}, requests'[s].op = "reset", requests'[s].step \in {"write", "revoke"}
        PROVE  holder'[requests'[s].on] = s /\ links'[requests'[s].on].state = "open"
    BY <1>1, <1>2 DEF LinksQuiet, LinksInOrder, Undisturbed
  <1>3. \A s \in Requests : requests'[s].op = "forgot" =>
            requests[s].op = "forgot" /\ requests'[s].on = requests[s].on
    BY DEF LinksQuiet, Undisturbed
  <1>4. ASSUME NEW s \in Requests, requests'[s].op = "forgot"
        PROVE  /\ links'[requests'[s].on].state = "mailed"
               /\ \A t \in Requests : requests'[t].op = "forgot" /\ requests'[t].on = requests'[s].on => t = s
    BY <1>3, <1>4 DEF LinksInOrder, LinksQuiet
  <1>5. \A l \in Links : links'[l].spent = IF links'[l].state = "used" THEN 1 ELSE 0
    BY DEF LinksInOrder, LinksQuiet
  <1> QED
    BY <1>2, <1>4, <1>5 DEF LinksInOrder, LinksQuiet

\* The end of a transaction that wrote no link.
LEMMA LinksLeft ==
    ASSUME Inv, LinksInOrder, NEW r \in Requests, Ends(r), UNCHANGED links
    PROVE  LinksInOrder'
  <1>1. requests'[r] = Idle
    BY DEF Ends, Inv, AccountsTypeOK
  <1>2. LinksQuiet(r)
    BY <1>1, Letting DEF LinksQuiet, Idle
  <1> QED
    BY <1>2, QuietLinks

\* A request that moves on under the locks it has, on no link.
LEMMA LinksPassedBy ==
    ASSUME Inv, LinksInOrder, NEW r \in Requests, UNCHANGED <<links, holder>>,
           \A s \in Requests \ {r} : requests'[s] = requests[s],
           requests'[r].op # "forgot",
           requests'[r].op = "reset" => requests'[r].step = "row"
    PROVE  LinksInOrder'
  <1>1. LinksQuiet(r)
    BY DEF LinksQuiet, Undisturbed
  <1> QED
    BY <1>1, QuietLinks

\* A request that takes one more lock.
LEMMA LinksUnderLock ==
    ASSUME Inv, LinksInOrder, NEW r \in Requests, NEW x \in Lockable,
           Available(r, x), holder' = Taking(r, x), UNCHANGED links,
           \A s \in Requests \ {r} : requests'[s] = requests[s],
           requests'[r].op # "forgot",
           requests'[r].op = "reset" =>
               /\ requests'[r].on \in Lockable
               /\ links[requests'[r].on].state = "open"
               /\ requests'[r].on = x \/ holder[requests'[r].on] = r
    PROVE  LinksInOrder'
  <1>1. /\ holder'[x] = r
        /\ \A y \in Lockable : holder[y] \in Requests => holder'[y] = holder[y]
    BY Locked
  <1>2. LinksQuiet(r)
    BY <1>1 DEF LinksQuiet, Undisturbed
  <1> QED
    BY <1>2, QuietLinks

-----------------------------------------------------------------------------
\* Requests that arrive and edits that begin touch no link; a mailed link is new.
LEMMA LinksWhenArriving ==
    ASSUME Inv, LinksInOrder, NEW r \in Requests, Arrivals(r) \/ Edits(r)
    PROVE  LinksInOrder'
  <1>1. ASSUME NEW u \in People, BootstrapArrives(r, u) \/ LoginVerify(r, u) PROVE LinksInOrder'
    <2>1. UNCHANGED <<links, holder>> /\ requests'[r].op \in {"bootstrap", "login"}
      BY <1>1 DEF BootstrapArrives, LoginVerify, Idle, Inv, AccountsTypeOK
    <2>2. \A s \in Requests \ {r} : requests'[s] = requests[s]
      BY <1>1 DEF BootstrapArrives, LoginVerify, Inv, AccountsTypeOK
    <2> QED
      BY <2>1, <2>2, LinksPassedBy
  <1>2. ASSUME NEW f \in Families, Call(r, f) \/ LogoutArrives(r, f) PROVE LinksInOrder'
    <2>1. UNCHANGED <<links, holder>> /\ requests'[r].op \in {"call", "logout"}
      BY <1>2 DEF Call, LogoutArrives, Idle, Inv, AccountsTypeOK
    <2>2. \A s \in Requests \ {r} : requests'[s] = requests[s]
      BY <1>2 DEF Call, LogoutArrives, Inv, AccountsTypeOK
    <2> QED
      BY <2>1, <2>2, LinksPassedBy
  <1>3. ASSUME NEW l \in Links, ResetArrives(r, l) PROVE LinksInOrder'
    BY <1>3, LinksPassedBy DEF ResetArrives, Idle, Inv, AccountsTypeOK
  <1>4. ASSUME NEW u \in People, NEW l \in Links, ForgotSend(r, u, l) PROVE LinksInOrder'
    <2>1. /\ requests'[r].op = "forgot" /\ requests'[r].on = l
          /\ \A s \in Requests \ {r} : requests'[s] = requests[s]
          /\ UNCHANGED holder
      BY <1>4 DEF ForgotSend, Idle, Inv, AccountsTypeOK
    <2>2. /\ links'[l].state = "mailed" /\ links'[l].spent = 0
          /\ \A k \in Links \ {l} : links'[k] = links[k]
      BY <1>4 DEF ForgotSend, NoLink, Inv, AccountsTypeOK
    <2>3. links[l].state = "none"
      BY <1>4 DEF ForgotSend, NoLink
    <2>4. \A s \in Requests : requests[s].op \in {"forgot", "reset"} => requests[s].on \in Links
      BY DEF Inv, Sound
    <2>5. \A s \in Requests \ {r} :
              \/ requests[s].op = "forgot"
              \/ requests[s].op = "reset" /\ requests[s].step \in {"write", "revoke"}
              => requests[s].on \in Links \ {l}
      BY <2>3, <2>4 DEF LinksInOrder
    <2>6. \A k \in Links : links'[k].spent = IF links'[k].state = "used" THEN 1 ELSE 0
      BY <2>2 DEF LinksInOrder
    <2>7. ASSUME NEW s \in Requests, requests'[s].op = "reset", requests'[s].step \in {"write", "revoke"}
          PROVE  holder'[requests'[s].on] = s /\ links'[requests'[s].on].state = "open"
      BY <2>1, <2>2, <2>5, <2>7 DEF LinksInOrder
    <2>8. ASSUME NEW s \in Requests, requests'[s].op = "forgot"
          PROVE  /\ links'[requests'[s].on].state = "mailed"
                 /\ \A t \in Requests : requests'[t].op = "forgot" /\ requests'[t].on = requests'[s].on => t = s
      BY <2>1, <2>2, <2>5, <2>8 DEF LinksInOrder
    <2> QED
      BY <2>6, <2>7, <2>8 DEF LinksInOrder
  <1>5. ASSUME NEW op \in Edit, NEW step, NEW u, NEW to, Becomes(r, op, step, u, to) PROVE LinksInOrder'
    <2>1. requests[r] \in RequestRow
      BY DEF Inv, AccountsTypeOK
    <2>2. requests'[r].op = op
      BY <1>5, <2>1 DEF Becomes, RequestRow, Inv, AccountsTypeOK
    <2>3. \A s \in Requests \ {r} : requests'[s] = requests[s]
      BY <1>5 DEF Becomes, Inv, AccountsTypeOK
    <2> QED
      BY <1>5, <2>2, <2>3, LinksPassedBy DEF Becomes, Edit
  <1>6. CASE Edits(r)
    <2>1. ASSUME NEW u \in People, NEW role \in Roles, UpdateRole(r, u, role) PROVE LinksInOrder'
      BY <1>5, <2>1 DEF UpdateRole, Edit
    <2>2. ASSUME NEW u \in People, NEW status \in Statuses, UpdateStatus(r, u, status) PROVE LinksInOrder'
      BY <1>5, <2>2 DEF UpdateStatus, Edit
    <2>3. ASSUME NEW u \in People, NEW role \in Roles \cup {"none"}, UpdateEmail(r, u, role)
          PROVE  LinksInOrder'
      BY <1>5, <2>3 DEF UpdateEmail, Edit
    <2> QED
      BY <1>6, <2>1, <2>2, <2>3 DEF Edits
  <1> QED
    BY <1>1, <1>2, <1>3, <1>4, <1>6 DEF Arrivals

\* A link is recorded by the one request that mailed it.
LEMMA LinkRecorded ==
    ASSUME Inv, LinksInOrder, NEW r \in Requests, ForgotRecord(r)
    PROVE  LinksInOrder'
  <1> DEFINE l == requests[r].on
  <1>1. l \in Links /\ requests[r].op = "forgot"
    BY DEF ForgotRecord, At, Inv, Sound
  <1>2. links[l].state = "mailed" /\ \A s \in Requests \ {r} : requests[s].op = "forgot" => requests[s].on # l
    BY <1>1 DEF LinksInOrder
  <1>3. links[l] \in LinkRow /\ links' = [links EXCEPT ![l].state = "open"]
    BY <1>1 DEF ForgotRecord, Inv, AccountsTypeOK
  <1>4. /\ links'[l].state = "open" /\ links'[l].spent = links[l].spent
        /\ \A k \in Links \ {l} : links'[k] = links[k]
    BY <1>1, <1>3 DEF LinkRow, Inv, AccountsTypeOK
  <1>5. requests'[r] = Idle /\ \A s \in Requests \ {r} : Undisturbed(s)
    BY Letting DEF ForgotRecord, Ends, Inv, AccountsTypeOK
  <1>6. \A s \in Requests : requests[s].op \in {"forgot", "reset"} => requests[s].on \in Links
    BY DEF Inv, Sound
  <1>7. \A k \in Links : links'[k].spent = IF links'[k].state = "used" THEN 1 ELSE 0
    BY <1>1, <1>2, <1>4 DEF LinksInOrder
  <1>8. ASSUME NEW s \in Requests, requests'[s].op = "reset", requests'[s].step \in {"write", "revoke"}
        PROVE  holder'[requests'[s].on] = s /\ links'[requests'[s].on].state = "open"
    BY <1>4, <1>5, <1>6, <1>8 DEF LinksInOrder, Undisturbed, Idle, Lockable
  <1>9. ASSUME NEW s \in Requests, requests'[s].op = "forgot"
        PROVE  /\ links'[requests'[s].on].state = "mailed"
               /\ \A t \in Requests : requests'[t].op = "forgot" /\ requests'[t].on = requests'[s].on => t = s
    BY <1>2, <1>4, <1>5, <1>6, <1>9 DEF LinksInOrder, Undisturbed, Idle
  <1> QED
    BY <1>7, <1>8, <1>9 DEF LinksInOrder

\* A link that is spent was held by the one that spends it, so by no other.
LEMMA LinkUsed ==
    ASSUME Inv, LinksInOrder, NEW r \in Requests, ResetRevoke(r)
    PROVE  LinksInOrder'
  <1> DEFINE l == requests[r].on
  <1>1. l \in Links /\ holder[l] = r /\ links[l].state = "open"
    BY DEF ResetRevoke, At, Inv, Sound, LinksInOrder
  <1>2. links[l] \in LinkRow /\ links[l].spent = 0
    BY <1>1 DEF LinksInOrder, Inv, AccountsTypeOK
  <1>3. links' = [links EXCEPT ![l].state = "used", ![l].spent = @ + 1]
    BY DEF ResetRevoke
  <1>4. /\ links'[l].state = "used" /\ links'[l].spent = 1
        /\ \A k \in Links \ {l} : links'[k] = links[k]
    BY <1>1, <1>2, <1>3 DEF LinkRow, Inv, AccountsTypeOK
  <1>5. requests'[r] = Idle /\ \A s \in Requests \ {r} : Undisturbed(s)
    BY Letting DEF ResetRevoke, Ends, Inv, AccountsTypeOK
  <1>6. \A s \in Requests : requests[s].op \in {"forgot", "reset"} => requests[s].on \in Links
    BY DEF Inv, Sound
  <1>7. \A k \in Links : links'[k].spent = IF links'[k].state = "used" THEN 1 ELSE 0
    BY <1>4 DEF LinksInOrder
  <1>8. ASSUME NEW s \in Requests, requests'[s].op = "reset", requests'[s].step \in {"write", "revoke"}
        PROVE  holder'[requests'[s].on] = s /\ links'[requests'[s].on].state = "open"
    BY <1>1, <1>4, <1>5, <1>6, <1>8 DEF LinksInOrder, Undisturbed, Idle, Lockable
  <1>9. ASSUME NEW s \in Requests, requests'[s].op = "forgot"
        PROVE  /\ links'[requests'[s].on].state = "mailed"
               /\ \A t \in Requests : requests'[t].op = "forgot" /\ requests'[t].on = requests'[s].on => t = s
    BY <1>1, <1>4, <1>5, <1>6, <1>9 DEF LinksInOrder, Undisturbed, Idle
  <1> QED
    BY <1>7, <1>8, <1>9 DEF LinksInOrder

\* A link expires only while nobody is spending it.
LEMMA LinkLapses ==
    ASSUME Inv, LinksInOrder, NEW l \in Links, LinkExpires(l)
    PROVE  LinksInOrder'
  <1>1. links[l] \in LinkRow /\ links[l].state = "open" /\ holder[l] \notin Requests
    BY AccountsAssumption DEF LinkExpires, Inv, AccountsTypeOK
  <1>2. /\ links'[l].state = "expired" /\ links'[l].spent = links[l].spent
        /\ \A k \in Links \ {l} : links'[k] = links[k]
    BY <1>1 DEF LinkExpires, LinkRow, Inv, AccountsTypeOK
  <1>3. \A s \in Requests : requests[s].op \in {"forgot", "reset"} => requests[s].on \in Links
    BY DEF Inv, Sound
  <1>4. UNCHANGED <<holder, requests>>
    BY DEF LinkExpires
  <1> QED
    BY <1>1, <1>2, <1>3, <1>4 DEF LinksInOrder

\* The steps that lock a row or wait for nobody.
LEMMA LinksWhileLocking ==
    ASSUME Inv, LinksInOrder, NEW r \in Requests, Locking(r) \/ Proceeding(r)
    PROVE  LinksInOrder'
  <1>0. requests[r] \in RequestRow /\ requests \in [Requests -> RequestRow]
    BY DEF Inv, AccountsTypeOK
  <1>1. CASE BootstrapClaim(r)
    <2>1. requests'[r].op = "bootstrap" /\ \A s \in Requests \ {r} : requests'[s] = requests[s]
      BY <1>0, <1>1 DEF BootstrapClaim, GoesTo, At, RequestRow
    <2> QED
      BY <1>1, <2>1, LinksUnderLock DEF BootstrapClaim, Lockable
  <1>2. CASE TakeAdminLock(r)
    <2>1. requests'[r].op \in Edit /\ \A s \in Requests \ {r} : requests'[s] = requests[s]
      BY <1>0, <1>2 DEF TakeAdminLock, GoesTo, RequestRow
    <2> QED
      BY <1>2, <2>1, LinksUnderLock DEF TakeAdminLock, Lockable, Edit
  <1>3. CASE Examine(r)
    <2>1. requests'[r].op \in Edit /\ \A s \in Requests \ {r} : requests'[s] = requests[s]
      BY <1>0, <1>3 DEF Examine, RequestRow, Edit
    <2>2. requests[r].on \in Lockable
      BY <1>3 DEF Examine, Inv, Sound, Edit, Lockable
    <2> QED
      BY <1>3, <2>1, <2>2, LinksUnderLock DEF Examine, Edit
  <1>4. CASE LogoutRevoke(r)
    <2> DEFINE f == requests[r].by
    <2>1. requests'[r].op = "logout" /\ \A s \in Requests \ {r} : requests'[s] = requests[s]
      BY <1>0, <1>4 DEF LogoutRevoke, At, RequestRow
    <2>2. f \in Lockable
      BY <1>4 DEF LogoutRevoke, At, Inv, Sound, Lockable
    <2>3. CASE sessions[f].live
      BY <1>4, <2>1, <2>2, <2>3, LinksUnderLock DEF LogoutRevoke
    <2>4. CASE ~sessions[f].live
      BY <1>4, <2>1, <2>4, LinksPassedBy DEF LogoutRevoke
    <2> QED
      BY <2>3, <2>4
  <1>5. CASE ResetSpend(r)
    <2> DEFINE l == requests[r].on
    <2>1. requests'[r].op = "reset" /\ requests'[r].on = l /\ \A s \in Requests \ {r} : requests'[s] = requests[s]
      BY <1>0, <1>5 DEF ResetSpend, At, RequestRow
    <2>2. l \in Lockable
      BY <1>5 DEF ResetSpend, At, Inv, Sound, Lockable
    <2> QED
      BY <1>5, <2>1, <2>2, LinksUnderLock DEF ResetSpend, Spendable
  <1>6. CASE ResetPassword(r)
    <2> DEFINE l == requests[r].on
    <2>1. requests'[r].op = "reset" /\ requests'[r].on = l /\ \A s \in Requests \ {r} : requests'[s] = requests[s]
      BY <1>0, <1>6 DEF ResetPassword, GoesTo, At, RequestRow
    <2>2. l \in Lockable /\ links[l].owner \in Lockable
      BY <1>6 DEF ResetPassword, At, Inv, Sound, Lockable
    <2>3. holder[l] = r /\ links[l].state = "open"
      BY <1>6 DEF ResetPassword, At, LinksInOrder
    <2> QED
      BY <1>6, <2>1, <2>2, <2>3, LinksUnderLock DEF ResetPassword
  <1>7. CASE ForgotRecord(r) \/ ResetRevoke(r)
    BY <1>7, LinkRecorded, LinkUsed
  <1>8. CASE CallUnauthorized(r) \/ RefreshRead(r) \/ RefreshSign(r)
    <2>1. requests'[r].op = "call" /\ \A s \in Requests \ {r} : requests'[s] = requests[s]
      BY <1>0, <1>8 DEF CallUnauthorized, RefreshRead, RefreshSign, GoesTo, At, RequestRow
    <2>2. UNCHANGED <<links, holder>>
      BY <1>8 DEF CallUnauthorized, RefreshRead, RefreshSign
    <2> QED
      BY <2>1, <2>2, LinksPassedBy
  <1>9. CASE \/ BootstrapRefused(r) \/ ExamineRefused(r) \/ ResetRefused(r)
             \/ BootstrapConflict(r) \/ CallAnswered(r) \/ SentToLogin(r) \/ DeadlockVictim(r)
    <2>1. Ends(r) /\ UNCHANGED links
      BY <1>9 DEF BootstrapRefused, ExamineRefused, ResetRefused, BootstrapConflict, CallAnswered,
                  SentToLogin, DeadlockVictim, RollsBack
    <2> QED
      BY <2>1, LinksLeft
  <1>10. CASE \/ WriteEmail(r) \/ Suspend(r) \/ LogoutStamp(r) \/ WriteRole(r) \/ Reinstate(r)
              \/ \E f \in Families : LoginMint(r, f) \/ BootstrapWrite(r, f)
    <2>1. Ends(r) /\ UNCHANGED links
      BY <1>10 DEF WriteEmail, Suspend, LogoutStamp, WriteRole, Reinstate, LoginMint, BootstrapWrite
    <2> QED
      BY <2>1, LinksLeft
  <1> QED
    BY <1>1, <1>2, <1>3, <1>4, <1>5, <1>6, <1>7, <1>8, <1>9, <1>10 DEF Locking, Proceeding

LEMMA LinksStayInOrder == Inv /\ LinksInOrder /\ [Next]_vars => LinksInOrder'
  <1> SUFFICES ASSUME Inv, LinksInOrder, [Next]_vars PROVE LinksInOrder'
    OBVIOUS
  <1>1. CASE Environment
    <2>1. ASSUME NEW r \in Requests, Die(r) PROVE LinksInOrder'
      BY <2>1, LinksLeft DEF Die, RollsBack
    <2>2. ASSUME UNCHANGED <<links, holder, requests>> PROVE LinksInOrder'
      BY <2>2 DEF LinksInOrder
    <2>3. CASE Tick \/ (\E u \in People, f \in Families : Signup(u, f)) \/ \E f \in Families : AccessExpires(f)
      BY <2>2, <2>3 DEF Tick, Signup, AccessExpires
    <2> QED
      BY <1>1, <2>1, <2>3, LinkLapses DEF Environment
  <1>2. ASSUME NEW r \in Requests, Arrivals(r) \/ Edits(r) \/ Locking(r) \/ Proceeding(r)
        PROVE  LinksInOrder'
    BY <1>2, LinksWhenArriving, LinksWhileLocking
  <1>3. CASE UNCHANGED vars
    BY <1>3 DEF vars, LinksInOrder
  <1> QED
    BY <1>1, <1>2, <1>3 DEF Next

LEMMA LinksInOrderHolds == Spec => []LinksInOrder
  <1>1. Init => LinksInOrder
    BY DEF Init, LinksInOrder, NoLink, Idle
  <1> QED
    BY <1>1, InvHolds, LinksStayInOrder, PTL DEF Spec

\* A reset link changes the password at most once, however many requests carry
\* it: each waits for its row and finds it used (resetPassword's updateMany).
THEOREM LinksSpentOnce == Spec => []LinkSpentOnce
  <1>1. LinksInOrder => LinkSpentOnce
    BY DEF LinksInOrder, LinkSpentOnce
  <1> QED
    BY <1>1, LinksInOrderHolds, PTL

\* The steps that write a link.
LEMMA LinkWriters ==
    ASSUME Inv, [Next]_vars
    PROVE  \/ UNCHANGED links
           \/ \E l \in Links : LinkExpires(l)
           \/ \E r \in Requests, u \in People, l \in Links : ForgotSend(r, u, l)
           \/ \E r \in Requests : ForgotRecord(r) \/ ResetRevoke(r)
  <1>1. ASSUME NEW r \in Requests, Arrivals(r)
        PROVE  UNCHANGED links \/ \E u \in People, l \in Links : ForgotSend(r, u, l)
    BY <1>1 DEF Arrivals, BootstrapArrives, LoginVerify, Call, LogoutArrives, ResetArrives
  <1>2. ASSUME NEW r \in Requests, Edits(r) PROVE UNCHANGED links
    BY <1>2 DEF Edits, UpdateRole, UpdateStatus, UpdateEmail, Becomes
  <1>3. ASSUME NEW r \in Requests, Locking(r)
        PROVE  UNCHANGED links \/ ForgotRecord(r) \/ ResetRevoke(r)
    BY <1>3 DEF Locking, BootstrapClaim, BootstrapRefused, TakeAdminLock, Examine, ExamineRefused, WriteEmail,
                Suspend, LogoutRevoke, LogoutStamp, LoginMint, ResetSpend, ResetRefused, ResetPassword, RollsBack
  <1>4. ASSUME NEW r \in Requests, Proceeding(r) PROVE UNCHANGED links
    BY <1>4 DEF Proceeding, BootstrapConflict, BootstrapWrite, CallAnswered, CallUnauthorized, RefreshRead,
                RefreshSign, SentToLogin, WriteRole, Reinstate, DeadlockVictim, RollsBack
  <1>5. CASE Environment
    BY <1>5 DEF Environment, Signup, AccessExpires, Die, Tick, RollsBack
  <1>6. CASE UNCHANGED vars
    BY <1>6 DEF vars
  <1> QED
    BY <1>1, <1>2, <1>3, <1>4, <1>5, <1>6 DEF Next

\* A link that was used, or whose hour is over, stays as it is.
LinksStayShut == \A l \in Links : links[l].state \in {"used", "expired"} => links'[l] = links[l]

\* A link that has changed a password or expired is never good again: the row
\* is written only by the request that mailed it or while it is open
\* (forgotPassword, resetPassword).
THEOREM LinksNeverReopen == Spec => [][LinksStayShut]_vars
  <1>1. ASSUME Inv, LinksInOrder, [Next]_vars PROVE LinksStayShut
    <2>0. links \in [Links -> LinkRow]
      BY <1>1 DEF Inv, AccountsTypeOK
    <2>1. ASSUME NEW l \in Links, links[l].state \in {"none", "mailed", "open"},
                 \A k \in Links \ {l} : links'[k] = links[k]
          PROVE  LinksStayShut
      BY <2>1 DEF LinksStayShut
    <2>2. ASSUME NEW l \in Links, LinkExpires(l) PROVE LinksStayShut
      BY <2>0, <2>1, <2>2 DEF LinkExpires
    <2>3. ASSUME NEW r \in Requests, NEW u \in People, NEW l \in Links, ForgotSend(r, u, l) PROVE LinksStayShut
      BY <2>0, <2>1, <2>3 DEF ForgotSend, NoLink
    <2>4. ASSUME NEW r \in Requests, ForgotRecord(r) PROVE LinksStayShut
      <3>1. requests[r].on \in Links /\ links[requests[r].on].state = "mailed"
        BY <1>1, <2>4 DEF ForgotRecord, At, Inv, Sound, LinksInOrder
      <3> QED
        BY <2>0, <2>1, <2>4, <3>1 DEF ForgotRecord
    <2>5. ASSUME NEW r \in Requests, ResetRevoke(r) PROVE LinksStayShut
      <3>1. requests[r].on \in Links /\ links[requests[r].on].state = "open"
        BY <1>1, <2>5 DEF ResetRevoke, At, Inv, Sound, LinksInOrder
      <3>2. \A k \in Links \ {requests[r].on} : links'[k] = links[k]
        BY <2>0, <2>5 DEF ResetRevoke
      <3> QED
        BY <2>1, <3>1, <3>2
    <2>6. ASSUME UNCHANGED links PROVE LinksStayShut
      BY <2>6 DEF LinksStayShut
    <2> QED
      BY <1>1, <2>2, <2>3, <2>4, <2>5, <2>6, LinkWriters
  <1>2. Inv /\ LinksInOrder /\ [Next]_vars => [LinksStayShut]_vars
    BY <1>1
  <1> QED
    BY <1>2, InvHolds, LinksInOrderHolds, PTL DEF Spec

-----------------------------------------------------------------------------
\* Every lock taken is held by a request that is still being served.
LocksInUse == \A x \in Lockable : holder[x] # Free => requests[holder[x]] # Idle

\* A step of r that does not end it, and takes no lock for another.
Continues(r) ==
    /\ requests'[r].op # "none"
    /\ \A s \in Requests \ {r} : requests'[s] = requests[s]
    /\ \A x \in Lockable : holder'[x] = holder[x] \/ (holder[x] = Free /\ holder'[x] = r)

\* A request's step ends it or takes it further.
LEMMA RequestShape ==
    ASSUME Inv, NEW r \in Requests, Arrivals(r) \/ Edits(r) \/ Locking(r) \/ Proceeding(r)
    PROVE  Ends(r) \/ Continues(r)
  <1>0. requests \in [Requests -> RequestRow] /\ holder \in [Lockable -> Requests \cup {Free}]
    BY DEF Inv, AccountsTypeOK
  <1>2. ASSUME Arrivals(r) PROVE Continues(r)
    <2>1. UNCHANGED holder /\ \A s \in Requests \ {r} : requests'[s] = requests[s]
      BY <1>0, <1>2 DEF Arrivals, BootstrapArrives, LoginVerify, Call, LogoutArrives, ResetArrives, ForgotSend
    <2>2. requests'[r].op \in {"bootstrap", "login", "call", "logout", "reset", "forgot"}
      BY <1>0, <1>2 DEF Arrivals, BootstrapArrives, LoginVerify, Call, LogoutArrives, ResetArrives, ForgotSend, Idle
    <2> QED
      BY <2>1, <2>2 DEF Continues
  <1>3. ASSUME Edits(r) PROVE Continues(r)
    <2>1. UNCHANGED holder /\ \A s \in Requests \ {r} : requests'[s] = requests[s]
      BY <1>0, <1>3 DEF Edits, UpdateRole, UpdateStatus, UpdateEmail, Becomes
    <2>2. requests'[r].op \in Edit
      <3>1. \E op \in Edit, u \in People : \E step, to : Becomes(r, op, step, u, to)
        BY <1>3 DEF Edits, UpdateRole, UpdateStatus, UpdateEmail, Edit
      <3>2. ASSUME NEW op \in Edit, NEW u \in People, NEW step, NEW to, Becomes(r, op, step, u, to)
            PROVE  requests'[r].op = op
        BY <1>0, <3>2 DEF Becomes, RequestRow
      <3> QED
        BY <3>1, <3>2
    <2> QED
      BY <2>1, <2>2 DEF Continues, Edit
  <1>4. ASSUME \/ BootstrapClaim(r) \/ TakeAdminLock(r) \/ Examine(r) \/ LogoutRevoke(r)
               \/ ResetSpend(r) \/ ResetPassword(r)
        PROVE  Continues(r)
    <2>1. \A s \in Requests \ {r} : requests'[s] = requests[s]
      BY <1>0, <1>4 DEF BootstrapClaim, TakeAdminLock, Examine, LogoutRevoke, ResetSpend, ResetPassword, GoesTo
    <2>2. \A x \in Lockable : holder'[x] = holder[x] \/ (holder[x] = Free /\ holder'[x] = r)
      BY <1>0, <1>4
         DEF BootstrapClaim, TakeAdminLock, Examine, LogoutRevoke, ResetSpend, ResetPassword, Available, Taking
    <2>3. requests'[r].op = requests[r].op
      BY <1>0, <1>4 DEF BootstrapClaim, TakeAdminLock, Examine, LogoutRevoke, ResetSpend, ResetPassword, GoesTo, RequestRow
    <2>4. requests[r].op # "none"
      BY <1>4 DEF BootstrapClaim, TakeAdminLock, Examine, LogoutRevoke, ResetSpend, ResetPassword, At, Edit
    <2> QED
      BY <2>1, <2>2, <2>3, <2>4 DEF Continues
  <1>5. ASSUME CallUnauthorized(r) \/ RefreshRead(r) \/ RefreshSign(r)
        PROVE  Continues(r)
    <2>1. UNCHANGED holder /\ \A s \in Requests \ {r} : requests'[s] = requests[s]
      BY <1>0, <1>5 DEF CallUnauthorized, RefreshRead, RefreshSign, GoesTo
    <2>2. requests'[r].op = "call"
      BY <1>0, <1>5 DEF CallUnauthorized, RefreshRead, RefreshSign, GoesTo, At, RequestRow
    <2> QED
      BY <2>1, <2>2 DEF Continues
  <1>6. ASSUME Locking(r) PROVE Ends(r) \/ Continues(r)
    BY <1>4, <1>6 DEF Locking, BootstrapRefused, ExamineRefused, WriteEmail, Suspend, LogoutStamp, ForgotRecord,
                      LoginMint, ResetRefused, ResetRevoke, RollsBack
  <1>7. ASSUME Proceeding(r) PROVE Ends(r) \/ Continues(r)
    BY <1>5, <1>7 DEF Proceeding, BootstrapConflict, BootstrapWrite, CallAnswered, SentToLogin, WriteRole,
                      Reinstate, DeadlockVictim, RollsBack
  <1> QED
    BY <1>2, <1>3, <1>6, <1>7

\* A request ends, goes on, or no request takes part in the step.
LEMMA StepShape ==
    ASSUME Inv, [Next]_vars
    PROVE  \/ UNCHANGED <<requests, holder>>
           \/ \E r \in Requests : Ends(r) \/ Continues(r)
  <1>1. CASE Environment
    BY <1>1 DEF Environment, Signup, AccessExpires, LinkExpires, Die, Tick, RollsBack
  <1> QED
    BY <1>1, RequestShape DEF Next, vars

\* However a request ends - done, refused, dead or picked to break a deadlock -
\* it leaves no lock behind: the advisory locks are those of its transaction
\* (pg_advisory_xact_lock), so nobody waits for a request that is gone.
THEOREM NoLockOutlivesItsRequest == Spec => []LocksInUse
  <1>1. Init => LocksInUse
    BY DEF Init, LocksInUse
  <1>2. Inv /\ LocksInUse /\ [Next]_vars => LocksInUse'
    <2> SUFFICES ASSUME Inv, LocksInUse, [Next]_vars PROVE LocksInUse'
      OBVIOUS
    <2>0. requests \in [Requests -> RequestRow] /\ holder \in [Lockable -> Requests \cup {Free}]
      BY DEF Inv, AccountsTypeOK
    <2>1. CASE UNCHANGED <<requests, holder>>
      BY <2>1 DEF LocksInUse
    <2>2. ASSUME NEW r \in Requests, Ends(r) PROVE LocksInUse'
      BY <2>0, <2>2, AccountsAssumption DEF LocksInUse, Ends, Released
    <2>3. ASSUME NEW r \in Requests, Continues(r) PROVE LocksInUse'
      <3>1. requests'[r] # Idle
        BY <2>3 DEF Continues, Idle
      <3> QED
        BY <2>0, <2>3, <3>1 DEF LocksInUse, Continues
    <2> QED
      BY <2>1, <2>2, <2>3, StepShape
  <1> QED
    BY <1>1, <1>2, InvHolds, PTL DEF Spec

-----------------------------------------------------------------------------
\* What a request may hold by the step it is at: what it took, and no more.
MayHold(r, x) ==
    LET q == requests[r] IN
    \/ q.op \in Edit /\ q.step \in {"row", "write"} /\ x = AdminCount
    \/ q.op \in Edit /\ q.step = "write" /\ x = q.on
    \/ q.op = "bootstrap" /\ q.step = "write" /\ x = Bootstrap
    \/ q.op = "reset" /\ q.step \in {"write", "revoke"} /\ x = q.on
    \/ q.op = "reset" /\ q.step = "revoke" /\ x = links[q.on].owner
    \/ q.op = "logout" /\ q.step = "write" /\ x = q.by

HeldInTurn == \A r \in Requests, x \in Lockable : holder[x] = r => MayHold(r, x)

\* The order the transactions take their locks in: advisory locks, links,
\* accounts, sign-ins.
Rank(x) == IF x \in {AdminCount, Bootstrap} THEN 0
           ELSE IF x \in Links THEN 1
           ELSE IF x \in People THEN 2 ELSE 3

\* Whoever is not signing out holds nothing beyond what it waits for.
LockOrder ==
    \A r \in Requests : requests[r].op # "logout" =>
        \A x \in Lockable, y \in Needs(r) : holder[x] = r => Rank(x) < Rank(y)

\* Two requests that wait for each other.
DeadlockTakesALogout ==
    \A r, s \in Requests :
        s \in WaitsFor(r) /\ r \in WaitsFor(s) =>
            requests[r].op = "logout" \/ requests[s].op = "logout"

LinkOwnersStay == \A l \in Links : links[l].owner \in People => links'[l].owner = links[l].owner

\* A link keeps its owner.
LEMMA LinksKeepOwners ==
    ASSUME Inv, [Next]_vars
    PROVE  LinkOwnersStay
  <1>0. links \in [Links -> LinkRow]
    BY DEF Inv, AccountsTypeOK
  <1>1. ASSUME NEW l \in Links, LinkExpires(l) PROVE LinkOwnersStay
    BY <1>0, <1>1 DEF LinkExpires, LinkOwnersStay, LinkRow
  <1>2. ASSUME NEW r \in Requests, NEW u \in People, NEW l \in Links, ForgotSend(r, u, l) PROVE LinkOwnersStay
    BY <1>0, <1>2, AccountsAssumption DEF ForgotSend, NoLink, LinkOwnersStay
  <1>3. ASSUME NEW r \in Requests, ForgotRecord(r) PROVE LinkOwnersStay
    BY <1>0, <1>3 DEF ForgotRecord, LinkOwnersStay, LinkRow
  <1>4. ASSUME NEW r \in Requests, ResetRevoke(r) PROVE LinkOwnersStay
    BY <1>0, <1>4 DEF ResetRevoke, LinkOwnersStay, LinkRow
  <1>5. ASSUME UNCHANGED links PROVE LinkOwnersStay
    BY <1>5 DEF LinkOwnersStay
  <1> QED
    BY <1>1, <1>2, <1>3, <1>4, <1>5, LinkWriters

\* A request's step leaves what the others hold as it was.
LEMMA TurnKept ==
    ASSUME Inv, HeldInTurn, LinkOwnersStay, NEW r \in Requests, Ends(r) \/ Continues(r),
           \A x \in Lockable : holder'[x] = r => MayHold(r, x)'
    PROVE  HeldInTurn'
  <1> SUFFICES ASSUME NEW s \in Requests \ {r}, NEW x \in Lockable, holder'[x] = s
               PROVE  MayHold(s, x)'
    BY DEF HeldInTurn
  <1>1. holder[x] = s /\ requests'[s] = requests[s]
    BY AccountsAssumption DEF Ends, Released, Continues, Inv, AccountsTypeOK
  <1>2. MayHold(s, x)
    BY <1>1 DEF HeldInTurn
  <1>3. requests[s].op = "reset" => links'[requests[s].on].owner = links[requests[s].on].owner
    BY DEF Inv, Sound, LinkOwnersStay
  <1> QED
    BY <1>1, <1>2, <1>3 DEF MayHold

\* A step under the locks it has, from a request that may hold none.
LEMMA TurnUnheld ==
    ASSUME Inv, HeldInTurn, LinkOwnersStay, NEW r \in Requests, Continues(r), UNCHANGED holder,
           requests[r].op \in {"none", "call"}
    PROVE  HeldInTurn'
  <1>1. \A x \in Lockable : holder[x] # r
    BY DEF HeldInTurn, MayHold, Edit
  <1> QED
    BY <1>1, TurnKept

\* A request holds the lock it takes, and what it held, at its next step.
LEMMA TurnTaken ==
    ASSUME Inv, HeldInTurn, LinkOwnersStay, NEW r \in Requests, Continues(r), Locking(r)
    PROVE  HeldInTurn'
  <1>0. requests \in [Requests -> RequestRow] /\ requests[r] \in RequestRow
        /\ holder \in [Lockable -> Requests \cup {Free}]
    BY DEF Inv, AccountsTypeOK
  <1> DEFINE q == requests[r]
             q1 == requests'[r]
  <1>1. ASSUME NEW x \in Lockable, BootstrapClaim(r), holder'[x] = r PROVE MayHold(r, x)'
    <2>1. q1 = [q EXCEPT !.step = "write"] /\ q.op = "bootstrap" /\ q.step = "lock"
      BY <1>0, <1>1 DEF BootstrapClaim, GoesTo, At
    <2>2. holder[x] # r
      BY <2>1 DEF HeldInTurn, MayHold, Edit
    <2>3. x = Bootstrap
      BY <1>0, <1>1, <2>2 DEF BootstrapClaim, Taking
    <2> QED
      BY <1>0, <2>1, <2>3 DEF MayHold, RequestRow
  <1>2. ASSUME NEW x \in Lockable, TakeAdminLock(r), holder'[x] = r PROVE MayHold(r, x)'
    <2>1. q1 = [q EXCEPT !.step = "row"] /\ q.op \in Edit /\ q.step = "lock"
      BY <1>0, <1>2 DEF TakeAdminLock, GoesTo
    <2>2. holder[x] # r
      BY <2>1 DEF HeldInTurn, MayHold, Edit
    <2>3. x = AdminCount
      BY <1>0, <1>2, <2>2 DEF TakeAdminLock, Taking
    <2> QED
      BY <1>0, <2>1, <2>3 DEF MayHold, RequestRow, Edit
  <1>3. ASSUME NEW x \in Lockable, Examine(r), holder'[x] = r PROVE MayHold(r, x)'
    <2>1. q1 = [q EXCEPT !.step = "write", !.at = now] /\ q.op \in Edit /\ q.step = "row"
      BY <1>0, <1>3 DEF Examine, Edit
    <2>2. x = q.on \/ holder[x] = r
      BY <1>0, <1>3 DEF Examine, Taking
    <2>3. x = q.on \/ x = AdminCount
      BY <2>1, <2>2 DEF HeldInTurn, MayHold, Edit
    <2> QED
      BY <1>0, <2>1, <2>3 DEF MayHold, RequestRow
  <1>4. ASSUME NEW x \in Lockable, LogoutRevoke(r), holder'[x] = r PROVE MayHold(r, x)'
    <2>1. q1 = [q EXCEPT !.step = "write", !.at = now] /\ q.op = "logout" /\ q.step = "revoke"
      BY <1>0, <1>4 DEF LogoutRevoke, At
    <2>2. holder[x] # r
      BY <2>1 DEF HeldInTurn, MayHold, Edit
    <2>3. x = q.by
      BY <1>0, <1>4, <2>2 DEF LogoutRevoke, Taking
    <2> QED
      BY <1>0, <2>1, <2>3 DEF MayHold, RequestRow
  <1>5. ASSUME NEW x \in Lockable, ResetSpend(r), holder'[x] = r PROVE MayHold(r, x)'
    <2>1. q1 = [q EXCEPT !.step = "write", !.at = now] /\ q.op = "reset" /\ q.step = "row"
      BY <1>0, <1>5 DEF ResetSpend, At
    <2>2. holder[x] # r
      BY <2>1 DEF HeldInTurn, MayHold, Edit
    <2>3. x = q.on
      BY <1>0, <1>5, <2>2 DEF ResetSpend, Taking
    <2> QED
      BY <1>0, <2>1, <2>3 DEF MayHold, RequestRow
  <1>6. ASSUME NEW x \in Lockable, ResetPassword(r), holder'[x] = r PROVE MayHold(r, x)'
    <2>1. q1 = [q EXCEPT !.step = "revoke"] /\ q.op = "reset" /\ q.step = "write"
      BY <1>0, <1>6 DEF ResetPassword, GoesTo, At
    <2>2. x = links[q.on].owner \/ holder[x] = r
      BY <1>0, <1>6 DEF ResetPassword, Taking
    <2>3. x = links[q.on].owner \/ x = q.on
      BY <2>1, <2>2 DEF HeldInTurn, MayHold, Edit
    <2>4. UNCHANGED links
      BY <1>6 DEF ResetPassword
    <2> QED
      BY <1>0, <2>1, <2>3, <2>4 DEF MayHold, RequestRow
  <1>7. ASSUME Ends(r) PROVE HeldInTurn'
    <2>1. requests'[r].op = "none"
      BY <1>0, <1>7 DEF Ends, Idle
    <2> QED
      BY <2>1 DEF Continues
  <1>8. \/ Ends(r)
        \/ BootstrapClaim(r) \/ TakeAdminLock(r) \/ Examine(r)
        \/ LogoutRevoke(r) \/ ResetSpend(r) \/ ResetPassword(r)
    BY DEF Locking, BootstrapRefused, ExamineRefused, WriteEmail, Suspend, LogoutStamp, ForgotRecord,
           LoginMint, ResetRefused, ResetRevoke, RollsBack
  <1> HIDE DEF q, q1
  <1> QED
    BY <1>1, <1>2, <1>3, <1>4, <1>5, <1>6, <1>7, <1>8, TurnKept

LEMMA TurnsHold == Spec => []HeldInTurn
  <1>1. Init => HeldInTurn
    BY AccountsAssumption DEF Init, HeldInTurn
  <1>2. ASSUME Inv, HeldInTurn, [Next]_vars PROVE HeldInTurn'
    <2>0. LinkOwnersStay
      BY <1>2, LinksKeepOwners
    <2>00. requests \in [Requests -> RequestRow] /\ holder \in [Lockable -> Requests \cup {Free}]
      BY <1>2 DEF Inv, AccountsTypeOK
    <2>1. ASSUME UNCHANGED <<requests, holder>> PROVE HeldInTurn'
      <3> SUFFICES ASSUME NEW s \in Requests, NEW x \in Lockable, holder[x] = s PROVE MayHold(s, x)'
        BY <2>1 DEF HeldInTurn
      <3>1. MayHold(s, x)
        BY <1>2 DEF HeldInTurn
      <3>2. requests[s].op = "reset" => links'[requests[s].on].owner = links[requests[s].on].owner
        BY <1>2, <2>0 DEF Inv, Sound, LinkOwnersStay
      <3> QED
        BY <2>1, <3>1, <3>2 DEF MayHold
    <2>2. ASSUME NEW r \in Requests, Ends(r) PROVE HeldInTurn'
      <3>1. \A x \in Lockable : holder'[x] # r
        BY <2>2, AccountsAssumption DEF Ends, Released
      <3> QED
        BY <1>2, <2>0, <2>2, <3>1, TurnKept
    <2>3. ASSUME NEW r \in Requests, Arrivals(r), Continues(r) PROVE HeldInTurn'
      <3>1. UNCHANGED holder
        BY <2>3 DEF Arrivals, BootstrapArrives, LoginVerify, Call, LogoutArrives, ResetArrives, ForgotSend
      <3>2. requests[r] = Idle
        BY <2>3 DEF Arrivals, BootstrapArrives, LoginVerify, Call, LogoutArrives, ResetArrives, ForgotSend
      <3> QED
        BY <1>2, <2>0, <2>3, <3>1, <3>2, TurnUnheld DEF Idle
    <2>4. ASSUME NEW r \in Requests, Edits(r), Continues(r) PROVE HeldInTurn'
      <3>1. UNCHANGED holder /\ requests[r].op = "call"
        BY <2>4 DEF Edits, UpdateRole, UpdateStatus, UpdateEmail, AsAdmin, Sent, At, Becomes
      <3> QED
        BY <1>2, <2>0, <2>4, <3>1, TurnUnheld
    <2>5. ASSUME NEW r \in Requests, Proceeding(r), Continues(r) PROVE HeldInTurn'
      <3>1. Ends(r) \/ (UNCHANGED holder /\ requests[r].op = "call")
        BY <2>5 DEF Proceeding, BootstrapConflict, BootstrapWrite, CallAnswered, SentToLogin, WriteRole, Reinstate,
                    DeadlockVictim, RollsBack, CallUnauthorized, RefreshRead, RefreshSign, At
      <3> QED
        BY <1>2, <2>0, <2>2, <2>5, <3>1, TurnUnheld
    <2>6. ASSUME NEW r \in Requests, Arrivals(r) \/ Edits(r) \/ Locking(r) \/ Proceeding(r)
          PROVE  Ends(r) \/ Continues(r)
      BY <1>2, <2>6, RequestShape
    <2>7. CASE Environment
      <3>1. UNCHANGED <<requests, holder>> \/ \E r \in Requests : Ends(r)
        BY <2>7 DEF Environment, Signup, AccessExpires, LinkExpires, Die, Tick, RollsBack
      <3> QED
        BY <2>1, <2>2, <3>1
    <2>8. CASE UNCHANGED vars
      BY <2>1, <2>8 DEF vars
    <2> QED
      BY <1>2, <2>0, <2>2, <2>3, <2>4, <2>5, <2>6, <2>7, <2>8, TurnTaken DEF Next
  <1>3. Inv /\ HeldInTurn /\ [Next]_vars => HeldInTurn'
    BY <1>2
  <1> QED
    BY <1>1, <1>3, InvHolds, PTL DEF Spec

\* Advisory locks, links, accounts, sign-ins: whoever is not signing out waits
\* only for what comes later in that order than all it holds (users.service.ts,
\* auth.service.ts: where each transaction takes its locks).
THEOREM LocksAreTakenInOrder == Spec => []LockOrder
  <1>1. ASSUME Inv, HeldInTurn PROVE LockOrder
    <2> SUFFICES ASSUME NEW r \in Requests, requests[r].op # "logout", NEW x \in Lockable, NEW y \in Needs(r),
                        holder[x] = r
                 PROVE  Rank(x) < Rank(y)
      BY DEF LockOrder
    <2> DEFINE q == requests[r]
    <2>1. MayHold(r, x) /\ Sound(r)
      BY <1>1 DEF HeldInTurn, Inv
    <2>2. /\ \A u \in People : u \notin Links /\ u \notin {AdminCount, Bootstrap} /\ Rank(u) = 2
          /\ \A l \in Links : l \notin {AdminCount, Bootstrap} /\ Rank(l) = 1
          /\ \A f \in Families : Rank(f) = 3
          /\ Rank(AdminCount) = 0 /\ Rank(Bootstrap) = 0
      BY AccountsAssumption DEF Rank
    <2>3. /\ q.op \in Edit => q.on \in People
          /\ q.op = "reset" => q.on \in Links /\ links[q.on].owner \in People
      BY <2>1 DEF Sound
    <2>4. CASE q.op \in Edit /\ q.step = "row"
      <3>1. x = AdminCount
        BY <2>1, <2>4 DEF MayHold, Edit
      <3>2. y = q.on
        BY <2>4 DEF Needs, Edit
      <3> QED
        BY <2>2, <2>3, <2>4, <3>1, <3>2
    <2>5. CASE q.op \in Edit /\ q.step = "write"
      <3>1. x = AdminCount \/ x = q.on
        BY <2>1, <2>5 DEF MayHold, Edit
      <3>2. y \in Families
        BY <2>5 DEF Needs, Edit, OpenedBy
      <3> QED
        BY <2>2, <2>3, <2>5, <3>1, <3>2
    <2>6. CASE q.op = "bootstrap" /\ q.step = "write"
      BY <2>6 DEF Needs
    <2>7. CASE q.op = "reset" /\ q.step = "write"
      <3>1. x = q.on
        BY <2>1, <2>7 DEF MayHold, Edit
      <3>2. y = links[q.on].owner
        BY <2>7 DEF Needs
      <3> QED
        BY <2>2, <2>3, <2>7, <3>1, <3>2
    <2>8. CASE q.op = "reset" /\ q.step = "revoke"
      <3>1. x = q.on \/ x = links[q.on].owner
        BY <2>1, <2>8 DEF MayHold, Edit
      <3>2. y \in Families
        BY <2>8 DEF Needs, OpenedBy
      <3> QED
        BY <2>2, <2>3, <2>8, <3>1, <3>2
    <2> QED
      BY <2>1, <2>4, <2>5, <2>6, <2>7, <2>8 DEF MayHold
  <1>2. Inv /\ HeldInTurn => LockOrder
    BY <1>1
  <1> QED
    BY <1>2, InvHolds, TurnsHold, PTL

\* Only an edit or a reset waits for a row by name.
RowsAreNamed == \A r \in Requests : requests[r].step = "row" => requests[r].op \in Edit \cup {"reset"}

LEMMA RowsStayNamed == Spec => []RowsAreNamed
  <1>1. Init => RowsAreNamed
    BY DEF Init, RowsAreNamed, Idle
  <1>2. ASSUME Inv, RowsAreNamed, [Next]_vars PROVE RowsAreNamed'
    <2>0. requests \in [Requests -> RequestRow]
      BY <1>2 DEF Inv, AccountsTypeOK
    <2>1. ASSUME NEW r \in Requests, \A s \in Requests \ {r} : requests'[s] = requests[s],
                 requests'[r].step = "row" => requests'[r].op \in Edit \cup {"reset"}
          PROVE  RowsAreNamed'
      BY <1>2, <2>1 DEF RowsAreNamed
    <2>2. ASSUME NEW r \in Requests, Ends(r) PROVE RowsAreNamed'
      <3>1. requests'[r].step = "done" /\ \A s \in Requests \ {r} : requests'[s] = requests[s]
        BY <2>0, <2>2 DEF Ends, Idle
      <3> QED
        BY <2>1, <3>1
    <2>3. ASSUME NEW r \in Requests, Arrivals(r)
          PROVE  requests'[r].step = "row" => requests'[r].op \in Edit \cup {"reset"}
      BY <2>0, <2>3 DEF Arrivals, BootstrapArrives, LoginVerify, Call, LogoutArrives, ResetArrives, ForgotSend, Idle
    <2>4. ASSUME NEW r \in Requests, Edits(r)
          PROVE  requests'[r].step = "row" => requests'[r].op \in Edit \cup {"reset"}
      <3>1. \E op \in Edit, u \in People : \E step, to : Becomes(r, op, step, u, to)
        BY <2>4 DEF Edits, UpdateRole, UpdateStatus, UpdateEmail, Edit
      <3>2. ASSUME NEW op \in Edit, NEW u \in People, NEW step, NEW to, Becomes(r, op, step, u, to)
            PROVE  requests'[r].op = op
        BY <2>0, <3>2 DEF Becomes, RequestRow
      <3> QED
        BY <3>1, <3>2
    <2>5. ASSUME NEW r \in Requests, Locking(r) \/ Proceeding(r), ~Ends(r)
          PROVE  requests'[r].step = "row" => requests'[r].op \in Edit \cup {"reset"}
      <3>1. CASE TakeAdminLock(r) \/ Examine(r)
        BY <2>0, <3>1 DEF TakeAdminLock, Examine, GoesTo, At, Edit, RequestRow
      <3>2. CASE BootstrapClaim(r) \/ LogoutRevoke(r) \/ ResetSpend(r) \/ ResetPassword(r)
        BY <2>0, <3>2 DEF BootstrapClaim, LogoutRevoke, ResetSpend, ResetPassword, GoesTo, RequestRow
      <3>3. CASE CallUnauthorized(r) \/ RefreshRead(r) \/ RefreshSign(r)
        BY <2>0, <3>3 DEF CallUnauthorized, RefreshRead, RefreshSign, GoesTo, RequestRow
      <3> QED
        BY <2>5, <3>1, <3>2, <3>3
           DEF Locking, Proceeding, BootstrapRefused, ExamineRefused, WriteEmail, Suspend, LogoutStamp, ForgotRecord,
               LoginMint, ResetRefused, ResetRevoke, RollsBack, BootstrapConflict, BootstrapWrite, CallAnswered,
               SentToLogin, WriteRole, Reinstate, DeadlockVictim
    <2>6. ASSUME NEW r \in Requests, Arrivals(r) \/ Edits(r) \/ Locking(r) \/ Proceeding(r)
          PROVE  RowsAreNamed'
      <3>1. CASE Ends(r)
        BY <2>2, <3>1
      <3>2. CASE Continues(r) /\ ~Ends(r)
        <4>1. requests'[r].step = "row" => requests'[r].op \in Edit \cup {"reset"}
          BY <2>3, <2>4, <2>5, <2>6, <3>2
        <4> QED
          BY <2>1, <3>2, <4>1 DEF Continues
      <3> QED
        BY <1>2, <2>6, <3>1, <3>2, RequestShape
    <2>7. ASSUME UNCHANGED requests PROVE RowsAreNamed'
      BY <1>2, <2>7 DEF RowsAreNamed
    <2>8. CASE Environment
      BY <2>2, <2>7, <2>8 DEF Environment, Signup, AccessExpires, LinkExpires, Die, Tick, RollsBack
    <2> QED
      BY <1>2, <2>6, <2>7, <2>8 DEF Next, vars
  <1>3. Inv /\ RowsAreNamed /\ [Next]_vars => RowsAreNamed'
    BY <1>2
  <1> QED
    BY <1>1, <1>3, InvHolds, PTL DEF Spec

\* What a request waits for is a lock.
LEMMA NeedsAreLocks ==
    ASSUME Inv, RowsAreNamed, NEW r \in Requests
    PROVE  Needs(r) \subseteq Lockable
  <1> DEFINE q == requests[r]
  <1>0. Sound(r)
    BY DEF Inv
  <1>1. CASE q.step = "lock"
    BY <1>1 DEF Needs, Lockable
  <1>2. CASE q.step = "row"
    <2>1. q.on \in Lockable
      BY <1>0, <1>2 DEF Sound, RowsAreNamed, Lockable
    <2> QED
      BY <1>2, <2>1 DEF Needs
  <1>3. ASSUME q.step \notin {"lock", "row"}, NEW y \in Needs(r)
        PROVE  y \in Families \/ y \in People
    BY <1>0, <1>3 DEF Needs, OpenedBy, Sound
  <1> QED
    BY <1>1, <1>2, <1>3 DEF Lockable

\* No two requests wait for each other unless one is signing out, which alone
\* locks a sign-in before the account (auth.service.ts, logout).
THEOREM OnlyLogoutDeadlocks == Spec => []DeadlockTakesALogout
  <1>1. ASSUME Inv, RowsAreNamed, LockOrder PROVE DeadlockTakesALogout
    <2> SUFFICES ASSUME NEW r \in Requests, NEW s \in Requests, s \in WaitsFor(r), r \in WaitsFor(s),
                        requests[r].op # "logout", requests[s].op # "logout"
                 PROVE  FALSE
      BY DEF DeadlockTakesALogout
    <2>1. PICK x \in Needs(r) : holder[x] = s
      BY DEF WaitsFor
    <2>2. PICK y \in Needs(s) : holder[y] = r
      BY DEF WaitsFor
    <2>3. x \in Lockable /\ y \in Lockable
      BY <1>1, <2>1, <2>2, NeedsAreLocks
    <2>4. Rank(y) < Rank(x) /\ Rank(x) < Rank(y)
      BY <1>1, <2>1, <2>2, <2>3 DEF LockOrder
    <2>5. Rank(x) \in Nat /\ Rank(y) \in Nat
      BY DEF Rank
    <2> QED
      BY <2>4, <2>5
  <1>2. Inv /\ RowsAreNamed /\ LockOrder => DeadlockTakesALogout
    BY <1>1
  <1> QED
    BY <1>2, InvHolds, RowsStayNamed, LocksAreTakenInOrder, PTL

-----------------------------------------------------------------------------
\* Only a live sign-in is locked, and whoever is signing out of one holds it.
SignInsInOrder ==
    /\ \A f \in Families : holder[f] # Free => sessions[f].live
    /\ \A r \in Requests :
         requests[r].op = "logout" /\ requests[r].step = "write" /\ sessions[requests[r].by].live =>
             holder[requests[r].by] = r

\* A step that locks no sign-in and ends none that another holds.
LEMMA SignInsQuiet ==
    ASSUME Inv, SignInsInOrder,
           \A s \in Requests : requests'[s].op = "logout" /\ requests'[s].step = "write" =>
               requests'[s] = requests[s] /\ \A f \in Families : holder[f] = s => holder'[f] = s,
           \A f \in Families : holder'[f] # Free => holder'[f] = holder[f],
           \A f \in Families : /\ sessions'[f].live => sessions[f].live \/ sessions[f] = NoSession
                               /\ sessions[f].live => sessions'[f].live \/ holder'[f] = Free
    PROVE  SignInsInOrder'
  <1>1. ASSUME NEW f \in Families, holder'[f] # Free PROVE sessions'[f].live
    <2>1. holder[f] # Free /\ sessions[f].live /\ sessions[f] # NoSession
      BY <1>1 DEF SignInsInOrder, NoSession
    <2> QED
      BY <1>1, <2>1
  <1>2. ASSUME NEW s \in Requests, requests'[s].op = "logout", requests'[s].step = "write",
               sessions'[requests'[s].by].live
        PROVE  holder'[requests'[s].by] = s
    <2>1. requests'[s] = requests[s] /\ requests[s].op = "logout" /\ requests[s].step = "write"
      BY <1>2
    <2>2. PICK f \in Families : f = requests[s].by /\ sessions[f].owner \in People
      BY <2>1 DEF Inv, Sound
    <2>3. sessions[f] # NoSession
      BY <2>2, AccountsAssumption DEF NoSession
    <2>4. sessions[f].live
      BY <1>2, <2>1, <2>2, <2>3
    <2>5. holder[f] = s
      BY <1>2, <2>1, <2>2, <2>4 DEF SignInsInOrder
    <2> QED
      BY <1>2, <2>1, <2>2, <2>5
  <1> QED
    BY <1>1, <1>2 DEF SignInsInOrder

\* The end of a transaction, if what it revokes was its own or nobody's.
LEMMA SignInsLetGo ==
    ASSUME Inv, SignInsInOrder, NEW r \in Requests, Ends(r),
           \A f \in Families : /\ sessions'[f].live => sessions[f].live \/ sessions[f] = NoSession
                               /\ sessions[f].live => sessions'[f].live \/ holder[f] \in {Free, r}
    PROVE  SignInsInOrder'
  <1>0. Free \notin Requests /\ Families \subseteq Lockable /\ requests \in [Requests -> RequestRow]
    BY AccountsAssumption DEF Lockable, Inv, AccountsTypeOK
  <1>1. requests'[r].op = "none" /\ \A s \in Requests \ {r} : requests'[s] = requests[s]
    BY <1>0 DEF Ends, Idle
  <1>2. \A f \in Families : holder'[f] = IF holder[f] = r THEN Free ELSE holder[f]
    BY <1>0 DEF Ends, Released
  <1>3. \A s \in Requests : requests'[s].op = "logout" /\ requests'[s].step = "write" =>
            requests'[s] = requests[s] /\ \A f \in Families : holder[f] = s => holder'[f] = s
    BY <1>0, <1>1, <1>2
  <1>4. \A f \in Families : holder'[f] # Free => holder'[f] = holder[f]
    BY <1>2
  <1>5. \A f \in Families : /\ sessions'[f].live => sessions[f].live \/ sessions[f] = NoSession
                            /\ sessions[f].live => sessions'[f].live \/ holder'[f] = Free
    BY <1>2
  <1> QED
    BY <1>3, <1>4, <1>5, SignInsQuiet

\* A request that goes on, takes no sign-in and is not past the first step of
\* signing out.
LEMMA SignInsPassedBy ==
    ASSUME Inv, SignInsInOrder, NEW r \in Requests,
           \A s \in Requests \ {r} : requests'[s] = requests[s],
           requests'[r].op # "logout" \/ requests'[r].step # "write",
           \A f \in Families : holder'[f] = holder[f] /\ (sessions'[f].live <=> sessions[f].live)
    PROVE  SignInsInOrder'
  <1>1. \A s \in Requests : requests'[s].op = "logout" /\ requests'[s].step = "write" =>
            requests'[s] = requests[s] /\ \A f \in Families : holder[f] = s => holder'[f] = s
    OBVIOUS
  <1> QED
    BY <1>1, SignInsQuiet

LEMMA SignInsWhileLocking ==
    ASSUME Inv, SignInsInOrder, NEW r \in Requests, Locking(r)
    PROVE  SignInsInOrder'
  <1>0. /\ requests \in [Requests -> RequestRow] /\ requests[r] \in RequestRow /\ Sound(r)
        /\ holder \in [Lockable -> Requests \cup {Free}]
        /\ sessions \in [Families -> SessionRow \cup {NoSession}]
    BY DEF Inv, AccountsTypeOK
  <1>1. Families \subseteq Lockable /\ \A f \in Families : f \notin People \cup Links \cup {AdminCount, Bootstrap}
    BY AccountsAssumption DEF Lockable
  <1>2. CASE BootstrapClaim(r) \/ TakeAdminLock(r) \/ Examine(r) \/ ResetSpend(r) \/ ResetPassword(r)
    <2>1. \A s \in Requests \ {r} : requests'[s] = requests[s]
      BY <1>0, <1>2 DEF BootstrapClaim, TakeAdminLock, Examine, ResetSpend, ResetPassword, GoesTo
    <2>2. requests'[r].op = requests[r].op /\ requests[r].op # "logout"
      BY <1>0, <1>2 DEF BootstrapClaim, TakeAdminLock, Examine, ResetSpend, ResetPassword, GoesTo, At, RequestRow, Edit
    <2>3. \E x \in People \cup Links \cup {AdminCount, Bootstrap} : holder' = Taking(r, x)
      BY <1>0, <1>2 DEF BootstrapClaim, TakeAdminLock, Examine, ResetSpend, ResetPassword, At, Sound, Edit
    <2>4. \A f \in Families : holder'[f] = holder[f]
      BY <1>0, <1>1, <2>3 DEF Taking
    <2>5. UNCHANGED sessions
      BY <1>2 DEF BootstrapClaim, TakeAdminLock, Examine, ResetSpend, ResetPassword
    <2> QED
      BY <2>1, <2>2, <2>4, <2>5, SignInsPassedBy
  <1>3. CASE LogoutRevoke(r)
    <2> DEFINE f == requests[r].by
    <2>1. f \in Families /\ requests'[r].by = f
      BY <1>0, <1>3 DEF LogoutRevoke, At, Sound, RequestRow
    <2>2. UNCHANGED sessions /\ \A s \in Requests \ {r} : requests'[s] = requests[s]
      BY <1>0, <1>3 DEF LogoutRevoke
    <2>3. CASE sessions[f].live
      <3>1. /\ holder[f] \in {Free, r} /\ holder'[f] = r
            /\ \A g \in Families \ {f} : holder'[g] = holder[g]
        BY <1>0, <1>1, <1>3, <2>1, <2>3 DEF LogoutRevoke, Available, Taking
      <3>2. \A s \in Requests \ {r} : requests[s].op = "logout" => requests[s].by \in Families
        BY DEF Inv, Sound
      <3> QED
        BY <2>1, <2>2, <2>3, <3>1, <3>2, AccountsAssumption DEF SignInsInOrder
    <2>4. CASE ~sessions[f].live
      BY <1>3, <2>1, <2>2, <2>4 DEF LogoutRevoke, SignInsInOrder
    <2> QED
      BY <2>3, <2>4
  <1>4. CASE LogoutStamp(r)
    <2> DEFINE f == requests[r].by
    <2>1. f \in Families /\ Ends(r)
      BY <1>0, <1>4 DEF LogoutStamp, At, Sound
    <2>2. sessions[f].live => holder[f] = r
      BY <1>4 DEF LogoutStamp, At, SignInsInOrder
    <2>3. \A g \in Families \ {f} : sessions'[g] = sessions[g]
      BY <1>0, <1>4 DEF LogoutStamp
    <2>4. ~sessions'[f].live
      BY <1>0, <1>4, <2>1 DEF LogoutStamp, SessionRow, NoSession
    <2>5. \A g \in Families : /\ sessions'[g].live => sessions[g].live
                              /\ sessions[g].live => sessions'[g].live \/ holder[g] = r
      BY <2>2, <2>3, <2>4
    <2> QED
      BY <2>1, <2>5, SignInsLetGo
  <1>5. ASSUME NEW u, Ends(r), Revocable(r, u), sessions' = RevokedFor(u) PROVE SignInsInOrder'
    <2>1. \A f \in Families : f \notin OpenedBy(u) => sessions'[f] = sessions[f]
      BY <1>5 DEF RevokedFor
    <2>2. \A f \in OpenedBy(u) : ~sessions'[f].live
      BY <1>0, <1>5 DEF RevokedFor, OpenedBy, SessionRow, NoSession
    <2>3. \A f \in OpenedBy(u) : sessions[f].live => holder[f] \in {Free, r}
      BY <1>5 DEF Revocable, Available
    <2>4. \A f \in Families : /\ sessions'[f].live => sessions[f].live
                              /\ sessions[f].live => sessions'[f].live \/ holder[f] \in {Free, r}
      BY <2>1, <2>2, <2>3
    <2> QED
      BY <1>5, <2>4, SignInsLetGo
  <1>6. CASE WriteEmail(r) \/ Suspend(r) \/ ResetRevoke(r)
    BY <1>5, <1>6 DEF WriteEmail, Suspend, ResetRevoke
  <1>7. ASSUME NEW f \in Families, LoginMint(r, f) PROVE SignInsInOrder'
    <2>1. Ends(r) /\ sessions[f] = NoSession /\ \A g \in Families \ {f} : sessions'[g] = sessions[g]
      BY <1>0, <1>7 DEF LoginMint, IssueSession
    <2>2. ~sessions[f].live
      BY <2>1 DEF NoSession
    <2>3. \A g \in Families : /\ sessions'[g].live => sessions[g].live \/ sessions[g] = NoSession
                              /\ sessions[g].live => sessions'[g].live \/ holder[g] \in {Free, r}
      BY <2>1, <2>2
    <2> QED
      BY <2>1, <2>3, SignInsLetGo
  <1>8. CASE BootstrapRefused(r) \/ ExamineRefused(r) \/ ResetRefused(r) \/ ForgotRecord(r)
    <2>1. Ends(r) /\ UNCHANGED sessions
      BY <1>8 DEF BootstrapRefused, ExamineRefused, ResetRefused, ForgotRecord, RollsBack
    <2> QED
      BY <2>1, SignInsLetGo
  <1> QED
    BY <1>2, <1>3, <1>4, <1>6, <1>7, <1>8 DEF Locking

LEMMA SignInsStayInOrder == Spec => []SignInsInOrder
  <1>1. Init => SignInsInOrder
    BY DEF Init, SignInsInOrder, Idle, Lockable
  <1>2. ASSUME Inv, SignInsInOrder, [Next]_vars PROVE SignInsInOrder'
    <2>0. /\ requests \in [Requests -> RequestRow]
          /\ sessions \in [Families -> SessionRow \cup {NoSession}]
      BY <1>2 DEF Inv, AccountsTypeOK
    <2>1. ASSUME NEW r \in Requests, Ends(r), UNCHANGED sessions PROVE SignInsInOrder'
      BY <1>2, <2>1, SignInsLetGo
    <2>2. ASSUME UNCHANGED <<requests, holder>>,
                 \A f \in Families : (sessions'[f].live <=> sessions[f].live) \/ sessions[f] = NoSession
          PROVE  SignInsInOrder'
      <3>1. \A f \in Families : sessions[f] = NoSession => ~sessions[f].live
        BY DEF NoSession
      <3> QED
        BY <1>2, <2>2, <3>1, SignInsQuiet
    <2>3. ASSUME NEW u \in People, NEW f \in Families, Signup(u, f) PROVE SignInsInOrder'
      <3>1. sessions[f] = NoSession /\ \A g \in Families \ {f} : sessions'[g] = sessions[g]
        BY <2>0, <2>3 DEF Signup, IssueSession
      <3> QED
        BY <2>2, <2>3, <3>1 DEF Signup
    <2>4. ASSUME NEW f \in Families, AccessExpires(f) PROVE SignInsInOrder'
      <3>1. \A g \in Families : sessions'[g].live <=> sessions[g].live
        BY <2>0, <2>4 DEF AccessExpires, SessionRow, NoSession
      <3> QED
        BY <2>2, <2>4, <3>1 DEF AccessExpires
    <2>5. CASE Environment
      <3>1. ASSUME NEW r \in Requests, Die(r) PROVE SignInsInOrder'
        BY <2>1, <3>1 DEF Die, RollsBack
      <3>2. CASE Tick \/ \E l \in Links : LinkExpires(l)
        BY <2>2, <3>2 DEF Tick, LinkExpires
      <3> QED
        BY <2>3, <2>4, <2>5, <3>1, <3>2 DEF Environment
    <2>6. ASSUME NEW r \in Requests, Arrivals(r) PROVE SignInsInOrder'
      <3>1. /\ UNCHANGED <<sessions, holder>> /\ \A s \in Requests \ {r} : requests'[s] = requests[s]
        BY <2>0, <2>6 DEF Arrivals, BootstrapArrives, LoginVerify, Call, LogoutArrives, ResetArrives, ForgotSend
      <3>2. requests'[r].step # "write"
        BY <2>0, <2>6 DEF Arrivals, BootstrapArrives, LoginVerify, Call, LogoutArrives, ResetArrives, ForgotSend, Idle
      <3> QED
        BY <1>2, <3>1, <3>2, SignInsPassedBy
    <2>7. ASSUME NEW r \in Requests, Edits(r) PROVE SignInsInOrder'
      <3>1. \E op \in Edit, u \in People : \E step, to : Becomes(r, op, step, u, to)
        BY <2>7 DEF Edits, UpdateRole, UpdateStatus, UpdateEmail, Edit
      <3>2. ASSUME NEW op \in Edit, NEW u \in People, NEW step, NEW to, Becomes(r, op, step, u, to)
            PROVE  /\ requests'[r].op = op /\ UNCHANGED <<sessions, holder>>
                   /\ \A s \in Requests \ {r} : requests'[s] = requests[s]
        BY <2>0, <3>2 DEF Becomes, RequestRow
      <3> QED
        BY <1>2, <3>1, <3>2, SignInsPassedBy DEF Edit
    <2>8. ASSUME NEW r \in Requests, Proceeding(r) PROVE SignInsInOrder'
      <3>1. CASE CallUnauthorized(r) \/ RefreshRead(r) \/ RefreshSign(r)
        <4>1. UNCHANGED holder /\ \A s \in Requests \ {r} : requests'[s] = requests[s]
          BY <2>0, <3>1 DEF CallUnauthorized, RefreshRead, RefreshSign, GoesTo
        <4>2. requests'[r].op = "call"
          BY <2>0, <3>1 DEF CallUnauthorized, RefreshRead, RefreshSign, GoesTo, At, RequestRow
        <4>3. \A g \in Families : sessions'[g].live <=> sessions[g].live
          BY <2>0, <3>1 DEF CallUnauthorized, RefreshRead, RefreshSign, SessionRow, NoSession
        <4> QED
          BY <1>2, <4>1, <4>2, <4>3, SignInsPassedBy
      <3>2. ASSUME NEW f \in Families, BootstrapWrite(r, f) PROVE SignInsInOrder'
        <4>1. Ends(r) /\ sessions[f] = NoSession /\ \A g \in Families \ {f} : sessions'[g] = sessions[g]
          BY <2>0, <3>2 DEF BootstrapWrite, IssueSession
        <4>2. ~sessions[f].live
          BY <4>1 DEF NoSession
        <4>3. \A g \in Families : /\ sessions'[g].live => sessions[g].live \/ sessions[g] = NoSession
                                  /\ sessions[g].live => sessions'[g].live \/ holder[g] \in {Free, r}
          BY <4>1, <4>2
        <4> QED
          BY <1>2, <4>1, <4>3, SignInsLetGo
      <3>3. CASE BootstrapConflict(r) \/ CallAnswered(r) \/ SentToLogin(r) \/ WriteRole(r) \/ Reinstate(r) \/ DeadlockVictim(r)
        BY <2>1, <3>3 DEF BootstrapConflict, CallAnswered, SentToLogin, WriteRole, Reinstate, DeadlockVictim, RollsBack
      <3> QED
        BY <2>8, <3>1, <3>2, <3>3 DEF Proceeding
    <2>9. CASE UNCHANGED vars
      BY <2>2, <2>9 DEF vars
    <2> QED
      BY <1>2, <2>5, <2>6, <2>7, <2>8, <2>9, SignInsWhileLocking DEF Next
  <1>3. Inv /\ SignInsInOrder /\ [Next]_vars => SignInsInOrder'
    BY <1>2
  <1> QED
    BY <1>1, <1>3, InvHolds, PTL DEF Spec

\* Whoever signs out and holds its sign-in waits for a request that waits for it.
LEMMA LogoutWaitsAreMutual ==
    ASSUME Inv, HeldInTurn, SignInsInOrder, NEW r \in Requests, NEW s \in Requests, NEW x \in Lockable,
           requests[r].op = "logout", holder[x] = r, s \in WaitsFor(r), WaitsFor(s) # {}
    PROVE  r \in WaitsFor(s)
  <1> DEFINE f == requests[r].by
             u == sessions[f].owner
             q == requests[s]
  <1>1. requests[r].step = "write" /\ x = f
    BY DEF HeldInTurn, MayHold, Edit
  <1>2. f \in Families /\ u \in People
    BY DEF Inv, Sound
  <1>3. sessions[f].live
    BY <1>1, <1>2, AccountsAssumption DEF SignInsInOrder
  <1>4. Needs(r) = {u}
    BY <1>1 DEF Needs
  <1>5. holder[u] = s /\ s # r /\ r # Free
    BY <1>4, AccountsAssumption DEF WaitsFor
  <1>6. MayHold(s, u) /\ Sound(s)
    BY <1>2, <1>5 DEF HeldInTurn, Inv, Lockable
  <1>7. u \notin Links \cup Families \cup {AdminCount, Bootstrap}
    BY <1>2, AccountsAssumption
  <1>8. \/ q.op \in Edit /\ q.step = "write" /\ u = q.on
        \/ q.op = "reset" /\ q.step = "revoke" /\ u = links[q.on].owner
    BY <1>6, <1>7 DEF MayHold, Sound
  <1>9. Needs(s) # {}
    BY DEF WaitsFor
  <1>10. Needs(s) = {g \in OpenedBy(u) : sessions[g].live}
    BY <1>8, <1>9 DEF Needs, Edit
  <1>11. f \in Needs(s)
    BY <1>2, <1>3, <1>10 DEF OpenedBy
  <1> QED
    BY <1>1, <1>5, <1>11 DEF WaitsFor

\* Requests none of which can go on before another of them does.
Entangled(S) == S # {} /\ \A r \in S : WaitsFor(r) \intersect S # {}

DeadlocksArePairs ==
    \A S \in SUBSET Requests :
        Entangled(S) => \E r, s \in S : s \in WaitsFor(r) /\ r \in WaitsFor(s)

\* From a request that is waited for, on: either two wait for each other, or the
\* next one is waited for in its turn, for a lock of a higher rank.
LEMMA NextInTheChain ==
    ASSUME Inv, RowsAreNamed, HeldInTurn, SignInsInOrder, LockOrder, NEW S \in SUBSET Requests, Entangled(S),
           \A r, s \in S : ~(s \in WaitsFor(r) /\ r \in WaitsFor(s)),
           NEW r \in S, NEW x \in Lockable, holder[x] = r
    PROVE  \E s \in S, y \in Lockable : holder[y] = s /\ Rank(x) < Rank(y)
  <1>1. PICK s \in S : s \in WaitsFor(r)
    BY DEF Entangled
  <1>2. WaitsFor(s) # {}
    BY DEF Entangled
  <1>3. requests[r].op # "logout"
    BY <1>1, <1>2, LogoutWaitsAreMutual
  <1>4. PICK y \in Needs(r) : holder[y] = s
    BY <1>1 DEF WaitsFor
  <1>5. y \in Lockable
    BY <1>4, NeedsAreLocks
  <1>6. Rank(x) < Rank(y)
    BY <1>3, <1>4 DEF LockOrder
  <1> QED
    BY <1>4, <1>5, <1>6

\* However many requests are caught in a deadlock, two of them wait for each
\* other, so that PostgreSQL's ending one of such a pair reaches them all: the
\* ranks of what they wait for cannot rise for ever.
THEOREM DeadlocksReduceToPairs == Spec => []DeadlocksArePairs
  <1>1. ASSUME Inv, RowsAreNamed, HeldInTurn, SignInsInOrder, LockOrder PROVE DeadlocksArePairs
    <2> SUFFICES ASSUME NEW S \in SUBSET Requests, Entangled(S),
                        \A r, s \in S : ~(s \in WaitsFor(r) /\ r \in WaitsFor(s))
                 PROVE  FALSE
      BY DEF DeadlocksArePairs
    <2>1. \A x \in Lockable : Rank(x) \in 0 .. 3
      BY DEF Rank
    <2>2. ASSUME NEW r \in S, NEW x \in Lockable, holder[x] = r
          PROVE  \E s \in S, y \in Lockable : holder[y] = s /\ Rank(x) < Rank(y)
      BY <1>1, <2>2, NextInTheChain
    <2>3. PICK r0 \in S : TRUE
      BY DEF Entangled
    <2>4. PICK s0 \in S : s0 \in WaitsFor(r0)
      BY DEF Entangled
    <2>5. PICK x0 \in Needs(r0) : holder[x0] = s0
      BY <2>4 DEF WaitsFor
    <2>6. x0 \in Lockable
      BY <1>1, <2>5, NeedsAreLocks
    <2>7. PICK s1 \in S, x1 \in Lockable : holder[x1] = s1 /\ Rank(x0) < Rank(x1)
      BY <2>2, <2>5, <2>6
    <2>8. PICK s2 \in S, x2 \in Lockable : holder[x2] = s2 /\ Rank(x1) < Rank(x2)
      BY <2>2, <2>7
    <2>9. PICK s3 \in S, x3 \in Lockable : holder[x3] = s3 /\ Rank(x2) < Rank(x3)
      BY <2>2, <2>8
    <2>10. PICK s4 \in S, x4 \in Lockable : holder[x4] = s4 /\ Rank(x3) < Rank(x4)
      BY <2>2, <2>9
    <2> QED
      BY <2>1, <2>6, <2>7, <2>8, <2>9, <2>10
  <1>2. Inv /\ RowsAreNamed /\ HeldInTurn /\ SignInsInOrder /\ LockOrder => DeadlocksArePairs
    BY <1>1
  <1> QED
    BY <1>2, InvHolds, RowsStayNamed, TurnsHold, SignInsStayInOrder, LocksAreTakenInOrder, PTL

-----------------------------------------------------------------------------
\* Nobody's sessions ended in the future; a change of address that is about to
\* write took its instant last of all that ended its account's sessions; and a
\* reset that has written the new password holds the account's row.
StampsInOrder ==
    /\ \A u \in People : users[u].sessionsInvalidatedAt <= now
    /\ \A r \in Requests :
         LET q == requests[r] IN
         /\ q.at <= now
         /\ q.op = "email" /\ q.step = "write" => users[q.on].sessionsInvalidatedAt <= q.at
         /\ q.op = "reset" /\ q.step = "revoke" => holder[links[q.on].owner] = r

SameStamp(u) == users'[u].sessionsInvalidatedAt = users[u].sessionsInvalidatedAt

\* A new account has no stamp, and had none.
LEMMA NewHasNoStamp ==
    ASSUME Inv, NEW u \in People, NEW role, ~Exists(u),
           users' = [users EXCEPT ![u] =
               [role |-> role, status |-> "ACTIVE", sessionsInvalidatedAt |-> Never]]
    PROVE  \A v \in People : SameStamp(v)
  BY DEF SameStamp, Exists, NoUser, Inv, AccountsTypeOK

\* The steps of a request that end an account's sessions.
LEMMA StampsWritten ==
    ASSUME Inv, NEW r \in Requests, Arrivals(r) \/ Edits(r) \/ Locking(r) \/ Proceeding(r)
    PROVE  /\ now' = now
           /\ \/ \A u \in People : SameStamp(u)
              \/ WriteEmail(r) \/ LogoutStamp(r) \/ ResetRevoke(r)
  <1>0. users \in [People -> UserRow \cup {NoUser}]
    BY DEF Inv, AccountsTypeOK
  <1>1. CASE Arrivals(r) \/ Edits(r)
    <2>1. UNCHANGED <<users, now>>
      BY <1>1 DEF Arrivals, BootstrapArrives, LoginVerify, Call, LogoutArrives, ResetArrives, ForgotSend,
                  Edits, UpdateRole, UpdateStatus, UpdateEmail, Becomes
    <2> QED
      BY <2>1 DEF SameStamp
  <1>2. CASE WriteRole(r) \/ Suspend(r) \/ Reinstate(r)
    <2>1. requests[r].on \in People /\ Exists(requests[r].on)
      BY <1>2 DEF WriteRole, Suspend, Reinstate, At, Inv, Sound, Permitted, Edit
    <2>2. users[requests[r].on] \in UserRow
      BY <2>1, RowHasRole DEF Inv
    <2>3. \A u \in People : SameStamp(u)
      BY <1>0, <1>2, <2>1, <2>2 DEF WriteRole, Suspend, Reinstate, SameStamp, UserRow
    <2> QED
      BY <1>2, <2>3 DEF WriteRole, Suspend, Reinstate
  <1>3. ASSUME NEW f \in Families, BootstrapWrite(r, f) PROVE now' = now /\ \A u \in People : SameStamp(u)
    <2>1. requests[r].on \in People
      BY <1>3 DEF BootstrapWrite, At, Inv, Sound
    <2> QED
      BY <1>3, <2>1, NewHasNoStamp DEF BootstrapWrite
  <1>4. CASE Locking(r)
    <2>1. \/ UNCHANGED <<users, now>>
          \/ (WriteEmail(r) \/ Suspend(r) \/ LogoutStamp(r) \/ ResetRevoke(r)) /\ now' = now
      BY <1>4 DEF Locking, BootstrapClaim, BootstrapRefused, TakeAdminLock, Examine, ExamineRefused, LogoutRevoke,
                  ForgotRecord, LoginMint, ResetSpend, ResetRefused, ResetPassword, RollsBack,
                  WriteEmail, Suspend, LogoutStamp, ResetRevoke
    <2> QED
      BY <1>2, <2>1 DEF SameStamp
  <1>5. CASE Proceeding(r)
    <2>1. \/ UNCHANGED <<users, now>>
          \/ WriteRole(r) \/ Reinstate(r) \/ \E f \in Families : BootstrapWrite(r, f)
      BY <1>5 DEF Proceeding, BootstrapConflict, CallAnswered, CallUnauthorized, RefreshRead, RefreshSign,
                  SentToLogin, DeadlockVictim, RollsBack
    <2> QED
      BY <1>2, <1>3, <2>1 DEF SameStamp
  <1> QED
    BY <1>1, <1>4, <1>5

\* Nothing from outside a request ends an account's sessions.
LEMMA StampsLeft ==
    ASSUME Inv, Environment
    PROVE  /\ \A u \in People : SameStamp(u)
           /\ \/ \E r \in Requests : Ends(r) /\ now' = now
              \/ UNCHANGED <<requests, holder>> /\ (now' = now \/ now' = now + 1)
  <1>1. ASSUME NEW u \in People, NEW f \in Families, Signup(u, f)
        PROVE  \A v \in People : SameStamp(v)
    BY <1>1, NewHasNoStamp DEF Signup
  <1>2. UNCHANGED users \/ \E u \in People, f \in Families : Signup(u, f)
    BY DEF Environment, AccessExpires, LinkExpires, Die, Tick, RollsBack
  <1>3. \/ \E r \in Requests : Ends(r) /\ now' = now
        \/ UNCHANGED <<requests, holder>> /\ (now' = now \/ now' = now + 1)
    BY DEF Environment, Signup, AccessExpires, LinkExpires, Die, Tick, RollsBack
  <1> QED
    BY <1>1, <1>2, <1>3 DEF SameStamp

\* A request's step leaves the others and the locks they hold alone.
LEMMA OthersUndisturbed ==
    ASSUME Inv, NEW r \in Requests, Ends(r) \/ Continues(r)
    PROVE  \A s \in Requests \ {r} : Undisturbed(s)
  <1>1. ASSUME Continues(r), NEW s \in Requests \ {r} PROVE Undisturbed(s)
    BY <1>1, AccountsAssumption DEF Continues, Undisturbed
  <1> QED
    BY <1>1, Letting

\* A step of r that changes no stamp but those of rows no other request holds.
LEMMA StampsKept ==
    ASSUME Inv, AccountsTypeOK', LinkOwnersStay, StampsInOrder, NEW r \in Requests, now' = now,
           \A s \in Requests \ {r} : Undisturbed(s),
           \A u \in People :
               SameStamp(u) \/ (holder[u] \in {Free, r} /\ users'[u].sessionsInvalidatedAt = requests[r].at),
           requests'[r].at <= now,
           requests'[r].op = "email" /\ requests'[r].step = "write" =>
               users'[requests'[r].on].sessionsInvalidatedAt <= requests'[r].at,
           requests'[r].op = "reset" /\ requests'[r].step = "revoke" =>
               holder'[links'[requests'[r].on].owner] = r
    PROVE  StampsInOrder'
  <1>1. \A u \in People : users'[u].sessionsInvalidatedAt <= now'
    BY DEF StampsInOrder, SameStamp
  <1>2. ASSUME NEW s \in Requests \ {r}
        PROVE  /\ requests'[s].at <= now'
               /\ requests'[s].op = "email" /\ requests'[s].step = "write" =>
                      users'[requests'[s].on].sessionsInvalidatedAt <= requests'[s].at
               /\ requests'[s].op = "reset" /\ requests'[s].step = "revoke" =>
                      holder'[links'[requests'[s].on].owner] = s
    <2>1. requests'[s] = requests[s] /\ \A x \in Lockable : holder[x] = s => holder'[x] = s
      BY DEF Undisturbed
    <2>2. ASSUME requests[s].op = "email", requests[s].step = "write"
          PROVE  users'[requests[s].on].sessionsInvalidatedAt <= requests[s].at
      <3>1. requests[s].on \in People /\ holder[requests[s].on] = s
        BY <2>2 DEF Inv, Sound, Edit
      <3>2. SameStamp(requests[s].on)
        BY <3>1, AccountsAssumption
      <3> QED
        BY <2>2, <3>2 DEF StampsInOrder, SameStamp
    <2>3. ASSUME requests[s].op = "reset", requests[s].step = "revoke"
          PROVE  holder'[links'[requests[s].on].owner] = s
      <3>1. requests[s].on \in Links /\ links[requests[s].on].owner \in People
        BY <2>3 DEF Inv, Sound
      <3>2. holder[links[requests[s].on].owner] = s
        BY <2>3 DEF StampsInOrder
      <3>3. links'[requests[s].on].owner = links[requests[s].on].owner
        BY <3>1 DEF LinkOwnersStay
      <3> QED
        BY <2>1, <3>1, <3>2, <3>3 DEF Lockable
    <2>4. requests[s].at <= now
      BY DEF StampsInOrder
    <2> QED
      BY <2>1, <2>2, <2>3, <2>4
  <1> QED
    BY <1>1, <1>2 DEF StampsInOrder

\* The end of a request: what it stamps, it has the right to.
LEMMA StampsAtTheEnd ==
    ASSUME Inv, AccountsTypeOK', LinkOwnersStay, StampsInOrder, NEW r \in Requests, Ends(r), now' = now,
           \/ \A u \in People : SameStamp(u)
           \/ WriteEmail(r) \/ LogoutStamp(r) \/ ResetRevoke(r)
    PROVE  StampsInOrder'
  <1>0. users \in [People -> UserRow \cup {NoUser}] /\ requests \in [Requests -> RequestRow] /\ now \in Nat
    BY AccountsAssumption DEF Inv, AccountsTypeOK
  <1>1. requests'[r].op = "none" /\ requests'[r].at <= now
    BY <1>0 DEF Ends, Idle, Never
  <1>2. ASSUME NEW v \in People, Exists(v), holder[v] \in {Free, r}, NEW w \in People,
               users'[v].sessionsInvalidatedAt = requests[r].at,
               w # v => users'[w] = users[w]
        PROVE  SameStamp(w) \/ (holder[w] \in {Free, r} /\ users'[w].sessionsInvalidatedAt = requests[r].at)
    BY <1>2 DEF SameStamp
  <1>3. ASSUME WriteEmail(r) \/ LogoutStamp(r) \/ ResetRevoke(r)
        PROVE  \E v \in People : /\ Exists(v) /\ holder[v] \in {Free, r}
                                 /\ users'[v].sessionsInvalidatedAt = requests[r].at
                                 /\ \A w \in People : w # v => users'[w] = users[w]
    <2>1. CASE WriteEmail(r)
      <3>1. requests[r].on \in People /\ holder[requests[r].on] = r /\ Exists(requests[r].on)
        BY <2>1 DEF WriteEmail, At, Inv, Sound, Permitted, Edit
      <3>2. users[requests[r].on] \in UserRow
        BY <3>1, RowHasRole DEF Inv
      <3>3. users'[requests[r].on].sessionsInvalidatedAt = requests[r].at
        BY <1>0, <2>1, <3>1, <3>2 DEF WriteEmail, UserRow
      <3>4. \A w \in People : w # requests[r].on => users'[w] = users[w]
        BY <1>0, <2>1 DEF WriteEmail
      <3> QED
        BY <3>1, <3>3, <3>4
    <2>2. ASSUME NEW v \in People, Exists(v), holder[v] \in {Free, r},
                 users' = [users EXCEPT ![v].sessionsInvalidatedAt = requests[r].at]
          PROVE  /\ Exists(v) /\ holder[v] \in {Free, r}
                 /\ users'[v].sessionsInvalidatedAt = requests[r].at
                 /\ \A w \in People : w # v => users'[w] = users[w]
      <3>1. users[v] \in UserRow
        BY <2>2, RowHasRole DEF Inv
      <3> QED
        BY <1>0, <2>2, <3>1 DEF UserRow
    <2>3. CASE LogoutStamp(r)
      <3>1. sessions[requests[r].by].owner \in People /\ Exists(sessions[requests[r].by].owner)
        BY <2>3 DEF LogoutStamp, At, Inv, Sound, OwnersExist
      <3> QED
        BY <2>2, <2>3, <3>1 DEF LogoutStamp, Available
    <2>4. CASE ResetRevoke(r)
      <3>1. /\ links[requests[r].on].owner \in People /\ Exists(links[requests[r].on].owner)
            /\ holder[links[requests[r].on].owner] = r
        BY <2>4 DEF ResetRevoke, At, Inv, Sound, OwnersExist, StampsInOrder
      <3> QED
        BY <2>2, <2>4, <3>1 DEF ResetRevoke
    <2> QED
      BY <1>3, <2>1, <2>3, <2>4
  <1>4. \A u \in People :
            SameStamp(u) \/ (holder[u] \in {Free, r} /\ users'[u].sessionsInvalidatedAt = requests[r].at)
    BY <1>2, <1>3
  <1> QED
    BY <1>1, <1>4, Letting, StampsKept

\* A request that goes on stamps nothing; what it takes its instant from is now.
LEMMA StampsGoingOn ==
    ASSUME Inv, AccountsTypeOK', LinkOwnersStay, StampsInOrder, NEW r \in Requests, Continues(r), ~Ends(r),
           Arrivals(r) \/ Edits(r) \/ Locking(r) \/ Proceeding(r)
    PROVE  StampsInOrder'
  <1>0. /\ requests \in [Requests -> RequestRow] /\ holder \in [Lockable -> Requests \cup {Free}]
        /\ requests[r].at <= now /\ now \in Nat
    BY AccountsAssumption DEF Inv, AccountsTypeOK, StampsInOrder
  <1>1. \/ Arrivals(r) \/ Edits(r)
        \/ BootstrapClaim(r) \/ TakeAdminLock(r) \/ Examine(r)
        \/ LogoutRevoke(r) \/ ResetSpend(r) \/ ResetPassword(r)
        \/ CallUnauthorized(r) \/ RefreshRead(r) \/ RefreshSign(r)
    BY DEF Locking, Proceeding, BootstrapRefused, ExamineRefused, WriteEmail, Suspend, LogoutStamp, ForgotRecord,
           LoginMint, ResetRefused, ResetRevoke, RollsBack, BootstrapConflict, BootstrapWrite, CallAnswered,
           SentToLogin, WriteRole, Reinstate, DeadlockVictim
  <1>2. UNCHANGED <<users, now>>
    BY <1>1 DEF Arrivals, BootstrapArrives, LoginVerify, Call, LogoutArrives, ResetArrives, ForgotSend,
                Edits, UpdateRole, UpdateStatus, UpdateEmail, Becomes, BootstrapClaim, TakeAdminLock, Examine,
                LogoutRevoke, ResetSpend, ResetPassword, CallUnauthorized, RefreshRead, RefreshSign
  <1>3. /\ requests'[r].at <= now
        /\ requests'[r].op = "email" /\ requests'[r].step = "write" =>
               users'[requests'[r].on].sessionsInvalidatedAt <= requests'[r].at
        /\ requests'[r].op = "reset" /\ requests'[r].step = "revoke" =>
               holder'[links'[requests'[r].on].owner] = r
    <2>1. CASE Arrivals(r)
      <3>1. requests'[r].at = Never /\ requests'[r].step \in {"lock", "mint", "send", "revoke", "row", "record"}
        BY <1>0, <2>1 DEF Arrivals, BootstrapArrives, LoginVerify, Call, LogoutArrives, ResetArrives, ForgotSend, Idle
      <3>2. requests'[r].step = "revoke" => requests'[r].op = "logout"
        BY <1>0, <2>1 DEF Arrivals, BootstrapArrives, LoginVerify, Call, LogoutArrives, ResetArrives, ForgotSend, Idle
      <3> QED
        BY <1>0, <3>1, <3>2 DEF Never
    <2>2. CASE Edits(r)
      <3>1. \E op \in Edit, step \in {"lock", "row"}, u \in People : \E to : Becomes(r, op, step, u, to)
        BY <2>2 DEF Edits, UpdateRole, UpdateStatus, UpdateEmail, Edit
      <3>2. ASSUME NEW op \in Edit, NEW step \in {"lock", "row"}, NEW u \in People, NEW to, Becomes(r, op, step, u, to)
            PROVE  requests'[r].at = requests[r].at /\ requests'[r].step = step
        BY <1>0, <3>2 DEF Becomes, RequestRow
      <3> QED
        BY <1>0, <3>1, <3>2
    <2>3. CASE Examine(r)
      <3>1. requests'[r].at = now /\ requests'[r].op \in Edit /\ requests'[r].on = requests[r].on
        BY <1>0, <2>3 DEF Examine, RequestRow
      <3>2. requests[r].on \in People
        BY <2>3 DEF Examine, Inv, Sound
      <3>3. users'[requests'[r].on].sessionsInvalidatedAt <= now
        BY <1>2, <3>1, <3>2 DEF StampsInOrder
      <3> QED
        BY <1>0, <3>1, <3>3 DEF Edit
    <2>4. CASE ResetPassword(r)
      <3>1. /\ requests'[r].at = requests[r].at /\ requests'[r].op = "reset"
            /\ requests'[r].on = requests[r].on /\ UNCHANGED links
        BY <1>0, <2>4 DEF ResetPassword, GoesTo, At, RequestRow
      <3>2. links[requests[r].on].owner \in Lockable
        BY <2>4 DEF ResetPassword, At, Inv, Sound, Lockable
      <3>3. holder'[links[requests[r].on].owner] = r
        BY <1>0, <2>4, <3>2 DEF ResetPassword, Taking
      <3> QED
        BY <1>0, <3>1, <3>3
    <2>5. CASE LogoutRevoke(r) \/ ResetSpend(r)
      <3>1. requests'[r].at = now /\ requests'[r].op \in {"logout", "reset"} /\ requests'[r].step = "write"
        BY <1>0, <2>5 DEF LogoutRevoke, ResetSpend, At, RequestRow
      <3> QED
        BY <1>0, <3>1
    <2>6. CASE BootstrapClaim(r) \/ TakeAdminLock(r)
      <3>1. requests'[r].at = requests[r].at /\ requests'[r].op \in Edit \cup {"bootstrap"}
        BY <1>0, <2>6 DEF BootstrapClaim, TakeAdminLock, GoesTo, At, RequestRow
      <3>2. requests'[r].op = "email" => requests'[r].step = "row"
        BY <1>0, <2>6 DEF BootstrapClaim, TakeAdminLock, GoesTo, At, RequestRow
      <3> QED
        BY <1>0, <3>1, <3>2 DEF Edit
    <2>7. CASE CallUnauthorized(r) \/ RefreshRead(r) \/ RefreshSign(r)
      <3>1. requests'[r].at = requests[r].at /\ requests'[r].op = "call"
        BY <1>0, <2>7 DEF CallUnauthorized, RefreshRead, RefreshSign, GoesTo, At, RequestRow
      <3> QED
        BY <1>0, <3>1
    <2> QED
      BY <1>1, <2>1, <2>2, <2>3, <2>4, <2>5, <2>6, <2>7
  <1>4. \A s \in Requests \ {r} : Undisturbed(s)
    BY OthersUndisturbed
  <1>5. \A u \in People : SameStamp(u)
    BY <1>2 DEF SameStamp
  <1> QED
    BY <1>2, <1>3, <1>4, <1>5, StampsKept

LEMMA StampsStayInOrder == Spec => []StampsInOrder
  <1>1. Init => StampsInOrder
    BY DEF Init, StampsInOrder, NoUser, Idle, Never
  <1>2. ASSUME Inv, Inv', StampsInOrder, [Next]_vars PROVE StampsInOrder'
    <2>0. LinkOwnersStay /\ AccountsTypeOK'
      BY <1>2, LinksKeepOwners DEF Inv
    <2>1. ASSUME UNCHANGED <<requests, holder>>, now' = now \/ now' = now + 1, \A u \in People : SameStamp(u)
          PROVE  StampsInOrder'
      <3>0. now \in Nat /\ users \in [People -> UserRow \cup {NoUser}] /\ requests \in [Requests -> RequestRow]
        BY <1>2, AccountsAssumption DEF Inv, AccountsTypeOK
      <3>1. ASSUME NEW u \in People PROVE users[u].sessionsInvalidatedAt \in Int
        BY <3>0, AccountsAssumption DEF UserRow, NoUser, Instants, Never
      <3>2. ASSUME NEW s \in Requests PROVE requests[s].at \in Int
        BY <3>0, AccountsAssumption DEF RequestRow, Instants, Never
      <3>3. \A u \in People : users'[u].sessionsInvalidatedAt <= now'
        BY <1>2, <2>1, <3>0, <3>1 DEF StampsInOrder, SameStamp
      <3>4. ASSUME NEW s \in Requests PROVE requests'[s].at <= now'
        BY <1>2, <2>1, <3>0, <3>2 DEF StampsInOrder
      <3>5. ASSUME NEW s \in Requests, requests'[s].op = "email", requests'[s].step = "write"
            PROVE  users'[requests'[s].on].sessionsInvalidatedAt <= requests'[s].at
        <4>1. requests[s].on \in People
          BY <1>2, <2>1, <3>5 DEF Inv, Sound, Edit
        <4> QED
          BY <1>2, <2>1, <3>5, <4>1 DEF StampsInOrder, SameStamp
      <3>6. ASSUME NEW s \in Requests, requests'[s].op = "reset", requests'[s].step = "revoke"
            PROVE  holder'[links'[requests'[s].on].owner] = s
        <4>1. links'[requests[s].on].owner = links[requests[s].on].owner
          BY <1>2, <2>0, <2>1, <3>6 DEF Inv, Sound, LinkOwnersStay
        <4> QED
          BY <1>2, <2>1, <3>6, <4>1 DEF StampsInOrder
      <3> QED
        BY <3>3, <3>4, <3>5, <3>6 DEF StampsInOrder
    <2>2. ASSUME NEW r \in Requests, Arrivals(r) \/ Edits(r) \/ Locking(r) \/ Proceeding(r) PROVE StampsInOrder'
      <3>1. CASE Ends(r)
        BY <1>2, <2>0, <2>2, <3>1, StampsWritten, StampsAtTheEnd
      <3>2. CASE Continues(r) /\ ~Ends(r)
        BY <1>2, <2>0, <2>2, <3>2, StampsGoingOn
      <3> QED
        BY <1>2, <2>2, <3>1, <3>2, RequestShape
    <2>3. CASE Environment
      BY <1>2, <2>0, <2>1, <2>3, StampsLeft, StampsAtTheEnd
    <2>4. CASE UNCHANGED vars
      BY <2>1, <2>4 DEF vars, SameStamp
    <2> QED
      BY <1>2, <2>2, <2>3, <2>4 DEF Next
  <1>3. Inv /\ Inv' /\ StampsInOrder /\ [Next]_vars => StampsInOrder'
    BY <1>2
  <1> QED
    BY <1>1, <1>3, InvHolds, PTL DEF Spec

\* Only a sign-out or a reset that waited for the account's row, with the instant
\* it had taken, moves the end of the account's sessions back; a change of
\* address never does, as nobody else ends them between its instant and its
\* write (users.service.ts, update; auth.service.ts, logout and resetPassword).
THEOREM StampsMoveBackOnlyByOverlap == Spec => OnlyOverlapsMoveStampsBack
  <1> DEFINE Moved(u) ==
          users'[u].sessionsInvalidatedAt < users[u].sessionsInvalidatedAt =>
              \E r \in Requests : /\ At(r, "logout", "write") \/ At(r, "reset", "revoke")
                                  /\ requests[r].at = users'[u].sessionsInvalidatedAt
                                  /\ requests'[r] = Idle
  <1>1. ASSUME Inv, StampsInOrder, [Next]_vars, NEW u \in People PROVE Moved(u)
    <2>0. /\ users \in [People -> UserRow \cup {NoUser}] /\ requests \in [Requests -> RequestRow]
          /\ users[u].sessionsInvalidatedAt \in Int
      BY <1>1, AccountsAssumption DEF Inv, AccountsTypeOK, UserRow, NoUser, Instants, Never
    <2>1. CASE SameStamp(u)
      BY <2>0, <2>1 DEF SameStamp
    <2>2. ASSUME NEW r \in Requests, WriteEmail(r) PROVE Moved(u)
      <3>1. requests[r].on \in People /\ Exists(requests[r].on) /\ requests[r].at \in Int
        BY <1>1, <2>0, <2>2, AccountsAssumption
           DEF WriteEmail, At, Inv, Sound, Permitted, Edit, RequestRow, Instants, Never
      <3>2. users[requests[r].on] \in UserRow
        BY <1>1, <3>1, RowHasRole DEF Inv
      <3>3. CASE u = requests[r].on
        <4>1. users'[u].sessionsInvalidatedAt = requests[r].at
          BY <2>0, <2>2, <3>1, <3>2, <3>3 DEF WriteEmail, UserRow
        <4>2. users[u].sessionsInvalidatedAt <= requests[r].at
          BY <1>1, <2>2, <3>3 DEF WriteEmail, At, StampsInOrder
        <4> QED
          BY <2>0, <3>1, <4>1, <4>2
      <3>4. CASE u # requests[r].on
        BY <2>0, <2>1, <2>2, <3>4 DEF WriteEmail, SameStamp
      <3> QED
        BY <3>3, <3>4
    <2>3. ASSUME NEW r \in Requests, LogoutStamp(r) \/ ResetRevoke(r) PROVE Moved(u)
      <3>1. requests'[r] = Idle
        BY <2>0, <2>3 DEF LogoutStamp, ResetRevoke, Ends
      <3>2. At(r, "logout", "write") \/ At(r, "reset", "revoke")
        BY <2>3 DEF LogoutStamp, ResetRevoke
      <3>3. PICK v \in People : users' = [users EXCEPT ![v].sessionsInvalidatedAt = requests[r].at] /\ Exists(v)
        BY <1>1, <2>3 DEF LogoutStamp, ResetRevoke, At, Inv, Sound, OwnersExist
      <3>4. users[v] \in UserRow
        BY <1>1, <3>3, RowHasRole DEF Inv
      <3>5. users'[u].sessionsInvalidatedAt = requests[r].at \/ SameStamp(u)
        BY <2>0, <3>3, <3>4 DEF UserRow, SameStamp
      <3> QED
        BY <2>1, <3>1, <3>2, <3>5
    <2>4. ASSUME NEW r \in Requests, Arrivals(r) \/ Edits(r) \/ Locking(r) \/ Proceeding(r) PROVE Moved(u)
      BY <1>1, <2>1, <2>2, <2>3, <2>4, StampsWritten
    <2>5. CASE Environment
      BY <1>1, <2>1, <2>5, StampsLeft
    <2>6. CASE UNCHANGED vars
      BY <2>1, <2>6 DEF vars, SameStamp
    <2> HIDE DEF Moved
    <2> QED
      BY <1>1, <2>4, <2>5, <2>6 DEF Next
  <1>2. Inv /\ StampsInOrder /\ [Next]_vars => \A u \in People : Moved(u)
    BY <1>1
  <1> QED
    BY <1>2, InvHolds, StampsStayInOrder, PTL DEF Spec, OnlyOverlapsMoveStampsBack

=============================================================================
