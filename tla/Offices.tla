------------------------------ MODULE Offices ------------------------------
(***************************************************************************)
(* One club's officers, members and standing: its appointments             *)
(* (apps/api/src/clubs/team/team.service.ts), memberships                  *)
(* (clubs/membership/membership.service.ts), status and policy             *)
(* (clubs/clubs.service.ts), the assignments of one of its events          *)
(* (events/assignments.service.ts), the guard every request passes         *)
(* (auth/permissions.guard.ts) and the one control a student has           *)
(* (apps/web JoinControl.tsx).                                             *)
(*                                                                         *)
(* Requests interleave.  Each is decided by the guard and by its reads on  *)
(* what is committed when it arrives, in a transaction of its own, and     *)
(* writes the row it read by id alone: nothing here locks a row before     *)
(* the write.  overwritten remembers the rows a write found in another     *)
(* status than its request had read.                                       *)
(***************************************************************************)
EXTENDS Permissions, Integers, FiniteSets

CONSTANTS
  People,          \* the accounts
  Admins,          \* those whose platform role is ADMIN
  Offered,         \* the club roles that are handed out
  Assigned,        \* the event responsibilities that are handed out
  Policies,        \* the membership policies in use
  ClubStatuses,    \* the statuses the club takes
  Requests,        \* requests the API serves at once
  MaxAppointments, \* BOUND: rows of club_team_appointment
  MaxMemberships,  \* BOUND: rows of club_membership
  MaxServed,       \* BOUND: requests admitted
  MaxAssignments,  \* BOUND: rows of event_assignment
  Nobody

ASSUME OfficesAssumption ==
  /\ Admins \subseteq People
  /\ Nobody \notin People
  /\ Offered \subseteq ClubRoles
  /\ Assigned \subseteq Responsibilities
  /\ Policies \subseteq {"OPEN", "APPROVAL_REQUIRED", "INVITE_ONLY", "CLOSED"}
  /\ ClubStatuses \subseteq {"ACTIVE", "SUSPENDED", "ARCHIVED"}
  /\ MaxAppointments \in Nat
  /\ MaxMemberships \in Nat
  /\ MaxServed \in Nat
  /\ MaxAssignments \in Nat

VARIABLES
  club,        \* status and membershipPolicy
  appts,       \* club_team_appointment, by id
  members,     \* club_membership, by id: ids are dealt in the order of requestedAt
  assignments, \* event_assignment: <<user, responsibility>>
  requests,    \* the requests in flight
  overwritten, \* history: rows written over a status nobody read
  served       \* how many requests the guard has admitted

vars == <<club, appts, members, assignments, requests, overwritten, served>>

AppointmentIds == 1 .. MaxAppointments
MembershipIds  == 1 .. MaxMemberships

AppointmentStatuses == {"none", "INVITED", "ACTIVE", "DECLINED", "EXPIRED", "ENDED"}
MembershipStatuses  == {"none", "PENDING", "ACTIVE", "REJECTED", "LEFT", "REMOVED"}
Open                == {"PENDING", "ACTIVE"}

AppointmentRow == [of : People \union {Nobody}, role : ClubRoles, status : AppointmentStatuses,
                   lapsed : BOOLEAN, by : People \union {Nobody}]
MembershipRow  == [of : People \union {Nobody}, status : MembershipStatuses,
                   by : People \union {Nobody}, told : MembershipStatuses]
NoAppointment  == [of |-> Nobody, role |-> "LEAD", status |-> "none", lapsed |-> FALSE, by |-> Nobody]
NoMembership   == [of |-> Nobody, status |-> "none", by |-> Nobody, told |-> "none"]

Operations == {"appointLead", "invite", "end", "accept", "decline", "request", "addMember",
               "decide", "leave", "remove", "edit", "status", "assign", "unassign"}
RequestRow == [op : Operations \union {"none"}, step : {"idle", "read", "joining"},
               by : People \union {Nobody}, on : People \union Nat \union {Nobody},
               to : ClubRoles \union Responsibilities \union Policies \union ClubStatuses
                      \union {"ACTIVE", "REJECTED", "none"},
               row : Nat, seen : AppointmentStatuses \union MembershipStatuses]
Idle == [op |-> "none", step |-> "idle", by |-> Nobody, on |-> Nobody,
         to |-> "none", row |-> 0, seen |-> "none"]

AppointmentsIn(status) == {a \in AppointmentIds : appts[a].status = status}
OpenOf(p)   == {m \in MembershipIds : members[m].of = p /\ members[m].status \in Open}
UnusedAppts == {a \in AppointmentIds : appts[a] = NoAppointment}
UnusedRows  == {m \in MembershipIds : members[m] = NoMembership}
First(ids)  == CHOOSE i \in ids : \A j \in ids : i <= j

At(r, op, step) == requests[r].op = op /\ requests[r].step = step

Init ==
  /\ \E policy \in Policies : club = [status |-> "ACTIVE", membershipPolicy |-> policy]
  /\ appts = [a \in AppointmentIds |-> NoAppointment]
  /\ members = [m \in MembershipIds |-> NoMembership]
  /\ assignments = {}
  /\ requests = [r \in Requests |-> Idle]
  /\ overwritten = {}
  /\ served = 0

(***************************************************************************)
(* The guard, and the statuses of the club.                                *)
(***************************************************************************)

\* Mutant: the resolver forgets that only ACTIVE appointments carry authority.
AnyRoles(p) == {appts[a].role : a \in {b \in AppointmentIds : appts[b].of = p}}

\* resolveClubFacts: ACTIVE appointments only.
clubRoles(p) == {appts[a].role : a \in {b \in AppointmentsIn("ACTIVE") : appts[b].of = p}}

\* loadFacts for a request scoped to this club or to its event.
Facts(p) ==
  [platformRole |-> IF p \in Admins THEN "ADMIN" ELSE "STUDENT",
   clubRoles |-> clubRoles(p),
   eventResponsibilities |-> {t[2] : t \in {s \in assignments : s[1] = p}}]

Granted(p, permission) == Evaluate(permission, Facts(p))

acceptsNewActivity == club.status = "ACTIVE"
acceptsEdits       == club.status # "ARCHIVED"

\* The permission each route names (an Admin's missing override reason is a refused
\* request, and left out).
RequiredPermission(op) ==
  CASE op = "appointLead" -> "club:appoint-lead"
    [] op \in {"invite", "end"} -> "club:team-manage"
    [] op \in {"addMember", "decide", "remove"} -> "membership:decide"
    [] op = "edit" -> "club:edit"
    [] op = "status" -> "club:status"
    [] op \in {"assign", "unassign"} -> "event:assign"

\* The routes without one act on rows of the caller's own.
SelfScoped == {"accept", "decline", "request", "leave"}

(***************************************************************************)
(* A request's life: admitted by the guard and its own reads, then its     *)
(* write and commit.  One that is refused on the way changes nothing.      *)
(***************************************************************************)
Finish(r) == requests' = [requests EXCEPT ![r] = Idle]

\* A refusal, a constraint violation or a crash: the transaction rolls back.
Drop(r) == Finish(r) /\ UNCHANGED <<club, appts, members, assignments, overwritten, served>>

\* PermissionsGuard.canActivate and the first reads of the transaction it lets
\* through, which gave this row and status.  Nothing but a commit of another
\* request can fall between the two; it may fall after them as well.
Admit(r, op, by, on, to, row, seen) ==
  /\ requests[r] = Idle
  /\ served < MaxServed
  /\ op \notin SelfScoped => Granted(by, RequiredPermission(op))
  /\ requests' = [requests EXCEPT ![r] = [op |-> op, step |-> "read", by |-> by, on |-> on,
                                          to |-> to, row |-> row, seen |-> seen]]
  /\ served' = served + 1
  /\ UNCHANGED <<club, appts, members, assignments, overwritten>>

\* A row written by id: what it was meanwhile is lost.
Overwrites(r, kind, row, current) ==
  overwritten' = IF current = requests[r].seen THEN overwritten ELSE overwritten \union {<<kind, row>>}

\* club_team_appointment rows and the one_active_lead entry that an acceptance
\* in its transaction holds: a second writer waits for it to end.
HeldByAcceptance(r, a) ==
  \E s \in Requests \ {r} :
    /\ At(s, "accept", "joining")
    /\ \/ requests[s].on = a
       \/ appts[requests[s].on].role = "LEAD" /\ appts[a].role = "LEAD" /\ At(r, "accept", "read")

\* Mutant: the index covers ACTIVE rows alone.
RoomToOpenActive(m, p) == {k \in OpenOf(p) : members[k].status = "ACTIVE"} \subseteq {m}

\* The membership index admits this row as open.
RoomToOpen(m, p) == OpenOf(p) \subseteq {m}

(***************************************************************************)
(* Appointments.                                                           *)
(***************************************************************************)

\* appointLead and invite: never oneself, and not a role the person holds; the
\* schema of an invitation leaves LEAD out.
OfferReads(r) ==
  \E by, on \in People, role \in Offered :
    LET op == IF role = "LEAD" THEN "appointLead" ELSE "invite" IN
    /\ acceptsEdits
    /\ on # by
    /\ op = "invite" => role \notin clubRoles(on)
    /\ Admit(r, op, by, on, role, 0, "none")

\* The row, and in the same transaction the notice to the nominee.
OfferWrites(r) ==
  /\ At(r, "appointLead", "read") \/ At(r, "invite", "read")
  /\ UnusedAppts # {}
  /\ appts' = [appts EXCEPT ![First(UnusedAppts)] =
       [of |-> requests[r].on, role |-> requests[r].to, status |-> "INVITED",
        lapsed |-> FALSE, by |-> requests[r].by]]
  /\ Finish(r)
  /\ UNCHANGED <<club, members, assignments, overwritten, served>>

\* end: an ACTIVE appointment of somebody else.  The club's status is not asked.
EndReads(r) ==
  \E by \in People, a \in AppointmentsIn("ACTIVE") :
    appts[a].of # by /\ Admit(r, "end", by, a, "none", a, "ACTIVE")

EndWrites(r) ==
  LET a == requests[r].on IN
  /\ At(r, "end", "read")
  /\ ~ HeldByAcceptance(r, a)
  /\ appts' = [appts EXCEPT ![a].status = "ENDED"]
  /\ Overwrites(r, "appointment", a, appts[a].status)
  /\ Finish(r)
  /\ UNCHANGED <<club, members, assignments, served>>

\* accept and decline: the caller's own invitation, still open as read.
AnswerReads(r) ==
  \E op \in {"accept", "decline"}, a \in AppointmentsIn("INVITED") :
    /\ (op = "accept" /\ ~ appts[a].lapsed) => acceptsEdits
    /\ Admit(r, op, appts[a].of, a, "none", IF appts[a].lapsed THEN a ELSE 0, "INVITED")

\* A lapsed invitation is marked, and the answer refused after the commit.
AnswerExpires(r) ==
  LET a == requests[r].on IN
  /\ At(r, "accept", "read") \/ At(r, "decline", "read")
  /\ requests[r].row = a
  /\ ~ HeldByAcceptance(r, a)
  /\ appts' = [appts EXCEPT ![a].status = "EXPIRED"]
  /\ Overwrites(r, "appointment", a, appts[a].status)
  /\ Finish(r)
  /\ UNCHANGED <<club, members, assignments, served>>

\* Mutant: a declined invitation is marked as a membership would be.
DeclineRejects(r) ==
  LET a == requests[r].on IN
  /\ At(r, "decline", "read")
  /\ requests[r].row = 0
  /\ ~ HeldByAcceptance(r, a)
  /\ appts' = [appts EXCEPT ![a].status = "REJECTED"]
  /\ Overwrites(r, "appointment", a, appts[a].status)
  /\ Finish(r)
  /\ UNCHANGED <<club, members, assignments, served>>

DeclineWrites(r) ==
  LET a == requests[r].on IN
  /\ At(r, "decline", "read")
  /\ requests[r].row = 0
  /\ ~ HeldByAcceptance(r, a)
  /\ appts' = [appts EXCEPT ![a].status = "DECLINED"]
  /\ Overwrites(r, "appointment", a, appts[a].status)
  /\ Finish(r)
  /\ UNCHANGED <<club, members, assignments, served>>

\* accept's update takes the row and, for a Lead, the index entry; the caller's
\* open membership is read after it.
AcceptActivates(r) ==
  LET a == requests[r].on
      p == requests[r].by
      m == IF OpenOf(p) = {} THEN 0 ELSE First(OpenOf(p)) IN
  /\ At(r, "accept", "read")
  /\ requests[r].row = 0
  /\ ~ HeldByAcceptance(r, a)
  /\ appts[a].role = "LEAD" =>
       \A b \in AppointmentsIn("ACTIVE") \ {a} : appts[b].role # "LEAD"
  /\ requests' = [requests EXCEPT ![r].step = "joining", ![r].row = m,
                  ![r].seen = IF m = 0 THEN "none" ELSE members[m].status]
  /\ Overwrites(r, "appointment", a, appts[a].status)
  /\ UNCHANGED <<club, appts, members, assignments, served>>

\* Mutant: a pending request is left for the officers to decide.
AcceptJoinsLater(r) ==
  LET p == requests[r].by IN
  /\ At(r, "accept", "joining")
  /\ appts' = [appts EXCEPT ![requests[r].on].status = "ACTIVE"]
  /\ \/ /\ requests[r].row = 0
        /\ UnusedRows # {}
        /\ RoomToOpen(0, p)
        /\ members' = [members EXCEPT ![First(UnusedRows)] =
             [of |-> p, status |-> "ACTIVE", by |-> Nobody, told |-> "none"]]
     \/ requests[r].row # 0 /\ UNCHANGED members
  /\ Finish(r)
  /\ UNCHANGED <<club, assignments, overwritten, served>>

\* The rest of accept: an officer is a member, by a new row, by the pending one,
\* or by the active one, which is not written.
AcceptJoins(r) ==
  LET p == requests[r].by
      m == requests[r].row IN
  /\ At(r, "accept", "joining")
  /\ appts' = [appts EXCEPT ![requests[r].on].status = "ACTIVE"]
  /\ \/ /\ m = 0
        /\ UnusedRows # {}
        /\ RoomToOpen(0, p)
        /\ members' = [members EXCEPT ![First(UnusedRows)] =
             [of |-> p, status |-> "ACTIVE", by |-> Nobody, told |-> "none"]]
        /\ UNCHANGED overwritten
     \/ /\ m # 0
        /\ requests[r].seen = "PENDING"
        /\ RoomToOpen(m, p)
        /\ members' = [members EXCEPT ![m].status = "ACTIVE", ![m].by = p]
        /\ Overwrites(r, "membership", m, members[m].status)
     \/ /\ m # 0
        /\ requests[r].seen = "ACTIVE"
        /\ UNCHANGED <<members, overwritten>>
  /\ Finish(r)
  /\ UNCHANGED <<club, assignments, served>>

\* An invitation's fourteen days pass.
Lapse(a) ==
  /\ appts[a].status = "INVITED"
  /\ ~ appts[a].lapsed
  /\ appts' = [appts EXCEPT ![a].lapsed = TRUE]
  /\ UNCHANGED <<club, members, assignments, requests, overwritten, served>>

(***************************************************************************)
(* Memberships.                                                            *)
(***************************************************************************)

\* The policy lets a student ask, and the club is ACTIVE.
OpenToRequests == acceptsNewActivity /\ club.membershipPolicy \in {"OPEN", "APPROVAL_REQUIRED"}

\* request: ACTIVE at once or PENDING, as the policy read here says.
RequestReads(r) ==
  \E p \in People :
    /\ OpenToRequests
    /\ Admit(r, "request", p, p, "none", 0,
             IF club.membershipPolicy = "OPEN" THEN "ACTIVE" ELSE "PENDING")

\* addMember: an officer's way in, refused only by a CLOSED club.
AddReads(r) ==
  \E by, p \in People :
    /\ acceptsNewActivity
    /\ club.membershipPolicy # "CLOSED"
    /\ Admit(r, "addMember", by, p, "none", 0, "ACTIVE")

\* Both insert a row, which club_membership_one_open_per_user may refuse.
MembershipCreated(r) ==
  LET p == requests[r].on IN
  /\ At(r, "request", "read") \/ At(r, "addMember", "read")
  /\ UnusedRows # {}
  /\ RoomToOpen(0, p)
  /\ members' = [members EXCEPT ![First(UnusedRows)] =
       [of |-> p, status |-> requests[r].seen, told |-> "none",
        by |-> IF requests[r].op = "addMember" THEN requests[r].by ELSE Nobody]]
  /\ Finish(r)
  /\ UNCHANGED <<club, appts, assignments, overwritten, served>>

\* Mutant: a request already turned down may be decided again.
DecideReadsAny(r) ==
  \E by \in People, m \in MembershipIds, to \in {"ACTIVE", "REJECTED"} :
    /\ acceptsEdits
    /\ members[m].of # by
    /\ members[m].status \in {"PENDING", "REJECTED"}
    /\ Admit(r, "decide", by, m, to, m, members[m].status)

\* decide: somebody else's request, PENDING as read.
DecideReads(r) ==
  \E by \in People, m \in MembershipIds, to \in {"ACTIVE", "REJECTED"} :
    /\ acceptsEdits
    /\ members[m].of # by
    /\ members[m].status = "PENDING"
    /\ Admit(r, "decide", by, m, to, m, "PENDING")

\* The answer and its notice; the notice of a row is recorded once and for all.
DecideWrites(r) ==
  LET m == requests[r].on IN
  /\ At(r, "decide", "read")
  /\ requests[r].to = "ACTIVE" => RoomToOpen(m, members[m].of)
  /\ members' = [members EXCEPT
       ![m].status = requests[r].to, ![m].by = requests[r].by,
       ![m].told = IF members[m].told = "none" THEN requests[r].to ELSE members[m].told]
  /\ Overwrites(r, "membership", m, members[m].status)
  /\ Finish(r)
  /\ UNCHANGED <<club, appts, assignments, served>>

\* leave and remove: the open membership, pending or not, of the caller or of
\* the person named.
DepartureReads(r) ==
  \E by, p \in People, op \in {"leave", "remove"} :
    \E m \in OpenOf(p) :
      /\ op = "leave" => by = p
      /\ acceptsEdits
      /\ Admit(r, op, by, p, "none", m, members[m].status)

DepartureWrites(r) ==
  LET m == requests[r].row IN
  /\ At(r, "leave", "read") \/ At(r, "remove", "read")
  /\ members' = [members EXCEPT
       ![m].status = IF requests[r].op = "leave" THEN "LEFT" ELSE "REMOVED",
       ![m].by = requests[r].by]
  /\ Overwrites(r, "membership", m, members[m].status)
  /\ Finish(r)
  /\ UNCHANGED <<club, appts, assignments, served>>

(***************************************************************************)
(* The club itself, and its event's assignments.                           *)
(***************************************************************************)

\* update, of the membership policy: the fields are decided on roles read again.
EditReads(r) ==
  \E by \in People, policy \in Policies :
    /\ acceptsEdits
    /\ FieldsAllowed({"membershipPolicy"}, CLUB_FIELDS, Facts(by))
    /\ Admit(r, "edit", by, Nobody, policy, 0, "none")

EditWrites(r) ==
  /\ At(r, "edit", "read")
  /\ club' = [club EXCEPT !.membershipPolicy = requests[r].to]
  /\ Finish(r)
  /\ UNCHANGED <<appts, members, assignments, overwritten, served>>

\* updateStatus: any other status than the one read.
StatusReads(r) ==
  \E by \in People, to \in ClubStatuses \ {club.status} :
    Admit(r, "status", by, Nobody, to, 0, "none")

StatusWrites(r) ==
  /\ At(r, "status", "read")
  /\ club' = [club EXCEPT !.status = requests[r].to]
  /\ Finish(r)
  /\ UNCHANGED <<appts, members, assignments, overwritten, served>>

\* assign: unique by person and responsibility.  remove: by the id it read, which
\* a second removal no longer finds.
AssignReads(r) ==
  \E by, on \in People, x \in Assigned :
    \/ acceptsEdits /\ Admit(r, "assign", by, on, x, 0, "none")
    \/ <<on, x>> \in assignments /\ Admit(r, "unassign", by, on, x, 0, "none")

AssignWrites(r) ==
  LET row == <<requests[r].on, requests[r].to>> IN
  /\ \/ /\ At(r, "assign", "read")
        /\ row \notin assignments
        /\ Cardinality(assignments) < MaxAssignments
        /\ assignments' = assignments \union {row}
     \/ /\ At(r, "unassign", "read")
        /\ row \in assignments
        /\ assignments' = assignments \ {row}
  /\ Finish(r)
  /\ UNCHANGED <<club, appts, members, overwritten, served>>

Step(r) ==
  \/ OfferReads(r) \/ OfferWrites(r)
  \/ EndReads(r) \/ EndWrites(r)
  \/ AnswerReads(r) \/ AnswerExpires(r) \/ DeclineWrites(r)
  \/ AcceptActivates(r) \/ AcceptJoins(r)
  \/ RequestReads(r) \/ AddReads(r) \/ MembershipCreated(r)
  \/ DecideReads(r) \/ DecideWrites(r)
  \/ DepartureReads(r) \/ DepartureWrites(r)
  \/ EditReads(r) \/ EditWrites(r)
  \/ StatusReads(r) \/ StatusWrites(r)
  \/ AssignReads(r) \/ AssignWrites(r)
  \/ requests[r] # Idle /\ Drop(r)

Next == (\E r \in Requests : Step(r)) \/ (\E a \in AppointmentIds : Lapse(a))

Spec == Init /\ [][Next]_vars

(***************************************************************************)
(* The student's control.                                                  *)
(***************************************************************************)

\* detailWhere's viewerMembershipStatus: the caller's latest row.
viewerMembershipStatus(p) ==
  LET rows == {m \in MembershipIds : members[m].of = p} IN
  IF rows = {} THEN "none" ELSE members[CHOOSE m \in rows : \A k \in rows : k <= m].status

\* Mutant: the club's status is not looked at.
decideAnyClub(p) ==
  CASE viewerMembershipStatus(p) = "ACTIVE"  -> "leave"
    [] viewerMembershipStatus(p) = "PENDING" -> "withdraw"
    [] viewerMembershipStatus(p) = "REMOVED" -> "blocked"
    [] OTHER -> IF club.membershipPolicy = "OPEN" THEN "join"
                ELSE IF club.membershipPolicy = "APPROVAL_REQUIRED" THEN "request" ELSE "blocked"

\* JoinControl's decide: what its one button does for this viewer.
decide(p) ==
  CASE viewerMembershipStatus(p) = "ACTIVE"  -> "leave"
    [] viewerMembershipStatus(p) = "PENDING" -> "withdraw"
    [] viewerMembershipStatus(p) = "REMOVED" -> "blocked"
    [] OTHER -> IF club.status # "ACTIVE" THEN "blocked"
                ELSE IF club.membershipPolicy = "OPEN" THEN "join"
                ELSE IF club.membershipPolicy = "APPROVAL_REQUIRED" THEN "request"
                ELSE "blocked"

\* ClubDetail: the button stands where an officer has the Manage menu, in a club
\* its reader may open (canReadInactiveClub).
ShowsControl(p) ==
  LET facts == Facts(p) IN
  /\ club.status = "ACTIVE" \/ p \in Admins \/ clubRoles(p) # {}
  /\ clubSectionsFor(facts.clubRoles, facts.platformRole) = {}
  /\ ~ canCreateEvent(facts.clubRoles, facts.platformRole)

\* The press does what the label says, as far as the tables go: request inserts
\* a row, leave ends the one open row, of the status the label names.
PressWorks(p) ==
  CASE decide(p) \in {"join", "request"} -> OpenToRequests /\ RoomToOpen(0, p)
    [] decide(p) = "leave"    -> \E m \in OpenOf(p) : members[m].status = "ACTIVE"
    [] decide(p) = "withdraw" -> \E m \in OpenOf(p) : members[m].status = "PENDING"
    [] decide(p) = "blocked"  -> OpenOf(p) = {}

(***************************************************************************)
(* Properties.                                                             *)
(***************************************************************************)

\* The tables hold rows of their types.
OfficesTypeOK ==
  /\ club \in [status : ClubStatuses \union {"ACTIVE"}, membershipPolicy : Policies]
  /\ appts \in [AppointmentIds -> AppointmentRow]
  /\ members \in [MembershipIds -> MembershipRow]
  /\ assignments \subseteq People \X Assigned
  /\ requests \in [Requests -> RequestRow]

\* However acceptances, requests, approvals and departures interleave, nobody
\* holds two open memberships and the club has one active Lead.
OneOpenMembership == \A p \in People : Cardinality(OpenOf(p)) <= 1
OneActiveLead     == Cardinality({a \in AppointmentsIn("ACTIVE") : appts[a].role = "LEAD"}) <= 1
IndexesHold       == OneOpenMembership /\ OneActiveLead

\* p is an Admin, or has held one of these roles.
HasHeld(p, roles) ==
  \/ p \in Admins
  \/ \E a \in AppointmentIds :
       /\ appts[a].of = p
       /\ appts[a].role \in roles
       /\ appts[a].status \in {"ACTIVE", "ENDED"} \/ <<"appointment", a>> \in overwritten

\* All authority in the club traces to an Admin through offices really held:
\* every Lead was named by an Admin, every other officer by a Lead, every
\* member admitted, turned away or removed by an officer whose role carries it;
\* and nobody was offered an office by themselves.
AuthorityTraces ==
  /\ \A a \in AppointmentIds : appts[a] # NoAppointment =>
       /\ appts[a].by # appts[a].of
       /\ HasHeld(appts[a].by, IF appts[a].role = "LEAD" THEN {} ELSE {"LEAD"})
  /\ \A m \in MembershipIds : members[m].by \notin {Nobody, members[m].of} =>
       HasHeld(members[m].by, {"LEAD", "VICE_LEAD", "OPERATIONS"})

\* Accepting an office makes a member: everybody in office has a membership that
\* is or was open (LEFT and REMOVED are also how a pending request ends), unless
\* a second decision was written over the row.
OfficersWereAdmitted ==
  \A a \in AppointmentsIn("ACTIVE") :
    \E m \in MembershipIds :
      /\ members[m].of = appts[a].of
      /\ members[m].status \in {"ACTIVE", "LEFT", "REMOVED"} \/ <<"membership", m>> \in overwritten

\* A student told of a decision was told the one that stands, unless a second
\* officer's was written over it: a notice is recorded once for a row.
ToldWhatStands ==
  \A m \in MembershipIds : members[m].told # "none" =>
    \/ <<"membership", m>> \in overwritten
    \/ members[m].told = "REJECTED" /\ members[m].status = "REJECTED"
    \/ members[m].told = "ACTIVE" /\ members[m].status \in {"ACTIVE", "LEFT", "REMOVED"}

\* The button goes by a person's latest row and the club's columns, the routes
\* by the open row: the two agree however memberships, offices and the club's
\* status move.  Who is in is offered the way out and nobody else is; who is
\* offered the way in finds it open; unless a decision was written over another.
\* Whether the club still accepts edits, which leave asks too, is ButtonsAreTrue.
ControlsAreHonoured ==
  \A p \in People :
    PressWorks(p) \/ \E m \in MembershipIds : members[m].of = p /\ <<"membership", m>> \in overwritten

\* What JoinControl.tsx:22-23 says of the button where a page shows it: its
\* enabled state states whether this viewer can act.
ButtonsAreTrue ==
  \A p \in People :
    ShowsControl(p) /\ decide(p) \in {"leave", "withdraw"} => acceptsEdits

\* ToldWhatStands without its exception.
ToldOnceForAll ==
  \A m \in MembershipIds :
    members[m].told = "REJECTED" => members[m].status = "REJECTED"
=============================================================================
