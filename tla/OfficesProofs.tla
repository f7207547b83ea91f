--------------------------- MODULE OfficesProofs ---------------------------
(***************************************************************************)
(* A club's offices and memberships stay in order for any number of people *)
(* and of requests in flight, whoever the Admins are and whatever roles,   *)
(* responsibilities, policies and statuses are in use.                     *)
(***************************************************************************)
EXTENDS Offices, FiniteMaxima

Deciders == {"LEAD", "VICE_LEAD", "OPERATIONS"}
Namers(role) == IF role = "LEAD" THEN {} ELSE {"LEAD"}

HeldRow(a)     == appts[a].status \in {"ACTIVE", "ENDED"} \/ <<"appointment", a>> \in overwritten
AdmittedRow(m) == members[m].status \in {"ACTIVE", "LEFT", "REMOVED"} \/ <<"membership", m>> \in overwritten

\* A row that is nobody's has never been written; an offer has somebody's name.
BlankRows ==
  /\ \A a \in AppointmentIds : appts[a].of = Nobody => appts[a] = NoAppointment
  /\ \A a \in AppointmentIds : appts[a].of # Nobody => appts[a].by # Nobody
  /\ \A m \in MembershipIds : members[m].of = Nobody => members[m] = NoMembership

\* What a request in flight knows of the rows it goes by and of who sent it.
Sound(r) ==
  LET q == requests[r] IN
  /\ q.step = "joining" => q.op = "accept"
  /\ q.op \in {"appointLead", "invite"} =>
       q.by \in People /\ q.on \in People \ {q.by} /\ q.to \in ClubRoles /\ HasHeld(q.by, Namers(q.to))
  /\ q.op \in {"end", "accept", "decline"} => q.on \in AppointmentIds /\ appts[q.on].of # Nobody
  /\ q.op \in {"accept", "decline"} => q.by = appts[q.on].of
  /\ q.op \in {"accept", "decline"} /\ q.step = "read" => q.seen = "INVITED"
  /\ q.step = "joining" /\ q.row # 0 =>
       q.row \in MembershipIds /\ members[q.row].of = q.by /\ q.seen \in Open
  /\ q.step = "joining" /\ q.row # 0 /\ q.seen = "ACTIVE" => AdmittedRow(q.row)
  /\ q.op \in {"request", "addMember"} => q.on \in People /\ q.by \in People /\ q.seen \in Open
  /\ q.op = "decide" =>
       /\ q.on \in MembershipIds /\ members[q.on].of # Nobody
       /\ q.by \in People /\ q.to \in {"ACTIVE", "REJECTED"} /\ q.seen = "PENDING"
  /\ q.op \in {"leave", "remove"} =>
       q.row \in MembershipIds /\ members[q.row].of # Nobody /\ q.by \in People /\ q.seen \in Open
  /\ q.op = "leave" => members[q.row].of = q.by
  /\ q.op \in {"addMember", "decide", "remove"} => HasHeld(q.by, Deciders)
  /\ q.op = "edit" => q.to \in Policies
  /\ q.op = "status" => q.to \in ClubStatuses
  /\ q.op \in {"assign", "unassign"} => q.on \in People /\ q.to \in Assigned

RequestsSound == \A r \in Requests : Sound(r)

\* An acceptance of the lead that is under way excludes every other Lead, in
\* office or under way.
Joins(r) == At(r, "accept", "joining") /\ appts[requests[r].on].role = "LEAD"
LeadReserved ==
  \A r \in Requests : Joins(r) =>
    /\ \A b \in AppointmentsIn("ACTIVE") : appts[b].role = "LEAD" => b = requests[r].on
    /\ \A s \in Requests : Joins(s) => s = r

\* The two indexes, pair by pair.
LeadsAgree == \A a, b \in AppointmentsIn("ACTIVE") : appts[a].role = "LEAD" /\ appts[b].role = "LEAD" => a = b
OpenAgree  == \A p \in People : \A m, k \in OpenOf(p) : m = k

Indexed == LeadReserved /\ LeadsAgree /\ OpenAgree

Inv ==
  /\ OfficesTypeOK
  /\ BlankRows
  /\ RequestsSound
  /\ Indexed
  /\ AuthorityTraces
  /\ OfficersWereAdmitted
  /\ ToldWhatStands

\* What no step takes back: whose a row is, the role it gives, who wrote it; an
\* office that was held, a membership that was admitted.
Grows ==
  /\ overwritten \subseteq overwritten'
  /\ \A a \in AppointmentIds : appts[a].of # Nobody =>
       /\ appts'[a].of = appts[a].of
       /\ appts'[a].role = appts[a].role
       /\ appts'[a].by = appts[a].by
       /\ HeldRow(a) => HeldRow(a)'
  /\ \A m \in MembershipIds : members[m].of # Nobody =>
       /\ members'[m].of = members[m].of
       /\ AdmittedRow(m) => AdmittedRow(m)'

Types == OfficesTypeOK /\ BlankRows

USE DEF AppointmentIds, MembershipIds

(***************************************************************************)
(* Lemmas about the operators.                                             *)
(***************************************************************************)

\* A nonempty set of row ids has a first: what is largest counted from the end.
LEMMA FirstIsIn ==
  ASSUME NEW n \in Nat, NEW S, S \subseteq 1 .. n, S # {}
  PROVE  First(S) \in S /\ \A y \in S : First(S) <= y
  <1> DEFINE T == {n - x : x \in S}
  <1>1. T \subseteq 0 .. n /\ T # {}
    <2>1. \A x \in S : n - x \in 0 .. n
      OBVIOUS
    <2>2. \E x \in S : n - x \in T
      OBVIOUS
    <2> QED
      BY <2>1, <2>2
  <1>2. IsFiniteSet(T)
    <2>1. IsFiniteSet(0 .. n)
      BY FS_Interval
    <2> QED
      BY <1>1, <2>1, FS_Subset
  <1>3. Max(T) \in T /\ \A y \in T : y <= Max(T)
    <2>1. T \subseteq Int
      BY <1>1
    <2> HIDE DEF T
    <2> QED
      BY <1>1, <1>2, <2>1, MaxOfFiniteSet
  <1>4. PICK x \in S : Max(T) = n - x
    BY <1>3
  <1>5. \A y \in S : x <= y
    <2>1. \A y \in S : n - y <= n - x
      BY <1>3, <1>4
    <2> QED
      BY <2>1
  <1> QED
    BY <1>4, <1>5 DEF First

\* A set without two different members counts one at most.
LEMMA AtMostOne == ASSUME NEW S, \A x, y \in S : x = y PROVE Cardinality(S) <= 1
  <1>1. CASE S = {}
    BY <1>1, FS_EmptySet
  <1>2. CASE S # {}
    <2>1. PICK x \in S : TRUE
      BY <1>2
    <2>2. S = {x}
      BY <2>1
    <2> QED
      BY <2>2, FS_Singleton
  <1> QED
    BY <1>1, <1>2

\* What the guard grants, to whom: an officer in office, or an Admin.
LEMMA GrantsTrace ==
  ASSUME OfficesTypeOK, NEW p \in People
  PROVE  /\ Granted(p, "club:appoint-lead") => HasHeld(p, {})
         /\ Granted(p, "club:team-manage") => HasHeld(p, {"LEAD"})
         /\ Granted(p, "membership:decide") => HasHeld(p, Deciders)
  <1>1. \A c \in clubRoles(p) : \E a \in AppointmentIds :
           appts[a].of = p /\ appts[a].role = c /\ appts[a].status = "ACTIVE"
    BY DEF clubRoles, AppointmentsIn
  <1>2. \A perm \in {"club:appoint-lead", "club:team-manage", "membership:decide"} :
           Granted(p, perm) => p \in Admins \/ ClubColumn(perm) \intersect clubRoles(p) # {}
    BY DEF Granted, Evaluate, Facts, EventColumn
  <1>3. /\ ClubColumn("club:appoint-lead") = {}
        /\ ClubColumn("club:team-manage") = {"LEAD"}
        /\ ClubColumn("membership:decide") = Deciders
    BY DEF ClubColumn, Deciders, Leads
  <1> QED
    BY <1>1, <1>2, <1>3 DEF HasHeld

\* A request that a step leaves alone stays sound.
LEMMA SoundStays ==
  ASSUME NEW r \in Requests, Types, Grows, Sound(r), requests'[r] = requests[r]
  PROVE  Sound(r)'
  <1> DEFINE q == requests[r]
  <1>1. q.by \in People => /\ HasHeld(q.by, Deciders) => HasHeld(q.by, Deciders)'
                           /\ HasHeld(q.by, Namers(q.to)) => HasHeld(q.by, Namers(q.to))'
    BY OfficesAssumption DEF HasHeld, Grows, HeldRow, Types
  <1> QED
    BY <1>1, OfficesAssumption DEF Sound, Grows, Types

(***************************************************************************)
(* What preserves each part.                                               *)
(***************************************************************************)

\* An idle slot claims nothing.
LEMMA IdleSound == ASSUME NEW r \in Requests, requests'[r] = Idle PROVE Sound(r)'
  BY DEF Sound, Idle

\* Every slot is left alone, or sound again, or idle.
LEMMA RequestsStaySound ==
  ASSUME Types, RequestsSound, Grows,
         \A s \in Requests : requests'[s] = requests[s] \/ requests'[s] = Idle \/ Sound(s)'
  PROVE  RequestsSound'
  <1> SUFFICES ASSUME NEW s \in Requests PROVE Sound(s)'
    BY DEF RequestsSound
  <1>1. CASE requests'[s] = requests[s]
    BY <1>1, SoundStays DEF RequestsSound
  <1>2. CASE requests'[s] = Idle
    BY <1>2, IdleSound
  <1> QED
    BY <1>1, <1>2

\* Rows keep their authors; a new offer and a new signature name those entitled.
LEMMA AuthorityStays ==
  ASSUME Types, Types', Grows, AuthorityTraces,
         \A a \in AppointmentIds : appts[a].of = Nobody /\ appts'[a] # NoAppointment =>
           /\ appts'[a].by # appts'[a].of
           /\ HasHeld(appts'[a].by, Namers(appts'[a].role)),
         \A m \in MembershipIds : members'[m].by \notin {members[m].by, Nobody, members'[m].of} =>
           HasHeld(members'[m].by, Deciders)
  PROVE  AuthorityTraces'
  <1> USE DEF Types, Deciders, Namers
  <1>1. ASSUME NEW a \in AppointmentIds, appts'[a] # NoAppointment
        PROVE  appts'[a].by # appts'[a].of /\ HasHeld(appts[a].by, Namers(appts[a].role))'
    <2>1. appts'[a].by \in People
      <3>1. appts'[a] \in AppointmentRow /\ appts'[a].by # Nobody
        BY <1>1 DEF OfficesTypeOK, BlankRows
      <3> QED
        BY <3>1 DEF AppointmentRow
    <2>2. appts'[a].by # appts'[a].of /\ HasHeld(appts'[a].by, Namers(appts'[a].role))
      <3>1. CASE appts[a].of = Nobody
        BY <1>1, <3>1
      <3>2. CASE appts[a].of # Nobody
        <4>1. appts[a] # NoAppointment
          BY <3>2 DEF NoAppointment
        <4>2. appts'[a].of = appts[a].of /\ appts'[a].by = appts[a].by /\ appts'[a].role = appts[a].role
          BY <3>2 DEF Grows
        <4> QED
          BY <4>1, <4>2 DEF AuthorityTraces
      <3> QED
        BY <3>1, <3>2
    <2> QED
      BY <2>1, <2>2, OfficesAssumption DEF HasHeld, Grows, HeldRow
  <1>2. ASSUME NEW m \in MembershipIds, members'[m].by \notin {Nobody, members'[m].of}
        PROVE  HasHeld(members[m].by, Deciders)'
    <2>1. members'[m].by \in People
      <3>1. members'[m] \in MembershipRow
        BY DEF OfficesTypeOK
      <3> QED
        BY <1>2, <3>1 DEF MembershipRow
    <2>2. HasHeld(members'[m].by, Deciders)
      <3>1. CASE members'[m].by # members[m].by
        BY <1>2, <3>1
      <3>2. CASE members'[m].by = members[m].by
        <4>1. members[m].of # Nobody
          BY <1>2, <3>2 DEF BlankRows, NoMembership
        <4>2. members'[m].of = members[m].of
          BY <4>1 DEF Grows
        <4> QED
          BY <1>2, <3>2, <4>2 DEF AuthorityTraces
      <3> QED
        BY <3>1, <3>2
    <2>3. ASSUME NEW a \in AppointmentIds, appts[a].of = members'[m].by, appts[a].role \in Deciders,
                 HeldRow(a)
          PROVE  appts'[a].of = members'[m].by /\ appts'[a].role \in Deciders /\ HeldRow(a)'
      BY <2>1, <2>3, OfficesAssumption DEF Grows
    <2> QED
      BY <2>2, <2>3 DEF HasHeld, HeldRow
  <1> QED
    BY <1>1, <1>2 DEF AuthorityTraces

\* Officers in office stay admitted; a new one is.
LEMMA OfficersStay ==
  ASSUME Types, Grows, OfficersWereAdmitted,
         \A a \in AppointmentIds : appts'[a].status = "ACTIVE" =>
           \/ appts[a].status = "ACTIVE"
           \/ \E m \in MembershipIds : members'[m].of = appts'[a].of /\ AdmittedRow(m)'
  PROVE  OfficersWereAdmitted'
  <1> SUFFICES ASSUME NEW a \in AppointmentIds, appts'[a].status = "ACTIVE"
               PROVE  \E m \in MembershipIds : members'[m].of = appts'[a].of /\ AdmittedRow(m)'
    BY DEF OfficersWereAdmitted, AppointmentsIn, AdmittedRow
  <1>1. CASE appts[a].status = "ACTIVE"
    <2>1. appts[a].of # Nobody
      BY <1>1 DEF Types, BlankRows, NoAppointment
    <2>2. PICK m \in MembershipIds : members[m].of = appts[a].of /\ AdmittedRow(m)
      BY <1>1 DEF OfficersWereAdmitted, AppointmentsIn, AdmittedRow
    <2> QED
      BY <2>1, <2>2 DEF Grows
  <1> QED
    BY <1>1

\* Where no office is entered and no acceptance begins, the Lead stays reserved.
LEMMA LeadsStay ==
  ASSUME Types, RequestsSound, Grows, LeadReserved, LeadsAgree,
         \A a \in AppointmentIds : appts'[a].status = "ACTIVE" => appts[a].status = "ACTIVE",
         \A s \in Requests : requests'[s] = requests[s] \/ requests'[s].step # "joining"
  PROVE  LeadReserved' /\ LeadsAgree'
  <1>1. \A a \in AppointmentIds : appts'[a].status = "ACTIVE" =>
           appts[a].status = "ACTIVE" /\ appts'[a].role = appts[a].role
    BY DEF Types, BlankRows, NoAppointment, Grows
  <1>2. \A s \in Requests : Joins(s)' => Joins(s) /\ requests'[s] = requests[s]
    BY DEF Joins, At, RequestsSound, Sound, Grows
  <1>3. LeadReserved'
    BY <1>1, <1>2 DEF LeadReserved, AppointmentsIn
  <1>4. LeadsAgree'
    BY <1>1 DEF LeadsAgree, AppointmentsIn
  <1> QED
    BY <1>3, <1>4

\* A step that enters nobody into office and begins no acceptance.
LEMMA Preserved ==
  ASSUME Inv, OfficesTypeOK', BlankRows', Grows, OpenAgree', ToldWhatStands',
         \A a \in AppointmentIds : appts'[a].status = "ACTIVE" => appts[a].status = "ACTIVE",
         \A s \in Requests : \/ requests'[s] = requests[s]
                             \/ requests'[s] = Idle
                             \/ Sound(s)' /\ requests'[s].step # "joining",
         \A a \in AppointmentIds : appts[a].of = Nobody /\ appts'[a] # NoAppointment =>
           /\ appts'[a].by # appts'[a].of
           /\ HasHeld(appts'[a].by, Namers(appts'[a].role)),
         \A m \in MembershipIds : members'[m].by \notin {members[m].by, Nobody, members'[m].of} =>
           HasHeld(members'[m].by, Deciders)
  PROVE  Inv'
  <1>1. RequestsSound'
    BY RequestsStaySound DEF Inv, Types
  <1>2. AuthorityTraces'
    BY AuthorityStays DEF Inv, Types
  <1>3. OfficersWereAdmitted'
    BY OfficersStay DEF Inv, Types
  <1>4. LeadReserved' /\ LeadsAgree'
    BY LeadsStay DEF Inv, Types, Indexed, Idle
  <1> QED
    BY <1>1, <1>2, <1>3, <1>4 DEF Inv, Indexed

\* Where the rows stay, so does all that is said of them.
LEMMA RowsStill ==
  ASSUME Inv, OfficesTypeOK', UNCHANGED <<appts, members, overwritten>>,
         \A s \in Requests : \/ requests'[s] = requests[s]
                             \/ requests'[s] = Idle
                             \/ Sound(s)' /\ requests'[s].step # "joining"
  PROVE  Inv'
  <1>1. Grows
    BY DEF Grows, HeldRow, AdmittedRow
  <1>2. BlankRows' /\ OpenAgree' /\ ToldWhatStands'
    BY DEF Inv, Indexed, BlankRows, OpenAgree, OpenOf, ToldWhatStands
  <1>3. \A a \in AppointmentIds : appts[a].of = Nobody => appts'[a] = NoAppointment
    BY DEF Inv, BlankRows
  <1> QED
    BY <1>1, <1>2, <1>3, Preserved

(***************************************************************************)
(* The steps.                                                              *)
(***************************************************************************)

\* At the start there are no rows and no requests.
LEMMA InitInv == Init => Inv
  <1> SUFFICES ASSUME Init PROVE Inv
    OBVIOUS
  <1>1. OfficesTypeOK
    <2>1. NoAppointment \in AppointmentRow /\ NoMembership \in MembershipRow
      BY DEF NoAppointment, NoMembership, AppointmentRow, MembershipRow, AppointmentStatuses,
             MembershipStatuses, ClubRoles
    <2>2. Idle \in RequestRow
      BY DEF Idle, RequestRow, AppointmentStatuses
    <2> QED
      BY <2>1, <2>2 DEF Init, OfficesTypeOK
  <1>2. BlankRows /\ RequestsSound
    BY DEF Init, BlankRows, RequestsSound, Sound, NoAppointment, NoMembership, Idle
  <1>3. Indexed
    BY DEF Init, Indexed, LeadReserved, LeadsAgree, OpenAgree, Joins, At, AppointmentsIn, OpenOf, Open,
           NoAppointment, NoMembership, Idle
  <1>4. AuthorityTraces /\ OfficersWereAdmitted /\ ToldWhatStands
    BY DEF Init, AuthorityTraces, OfficersWereAdmitted, ToldWhatStands, AppointmentsIn,
           NoAppointment, NoMembership
  <1> QED
    BY <1>1, <1>2, <1>3, <1>4 DEF Inv

\* A request admitted with what is sound to say of it.
LEMMA AdmitInv ==
  ASSUME Inv, NEW r \in Requests, NEW op \in Operations, NEW by \in People,
         NEW on \in People \union Nat \union {Nobody}, NEW to, NEW row \in Nat,
         NEW seen \in AppointmentStatuses \union MembershipStatuses,
         to \in ClubRoles \union Responsibilities \union Policies \union ClubStatuses
                \union {"ACTIVE", "REJECTED", "none"},
         Admit(r, op, by, on, to, row, seen), Sound(r)'
  PROVE  Inv'
  <1> DEFINE q == [op |-> op, step |-> "read", by |-> by, on |-> on, to |-> to,
                   row |-> row, seen |-> seen]
  <1>1. requests' = [requests EXCEPT ![r] = q]
    BY DEF Admit
  <1>2. q \in RequestRow /\ q.step = "read"
    BY DEF RequestRow
  <1>3. requests \in [Requests -> RequestRow]
    BY DEF Inv, OfficesTypeOK
  <1> HIDE DEF q
  <1>4. OfficesTypeOK'
    BY <1>1, <1>2, <1>3 DEF Inv, OfficesTypeOK, Admit
  <1>5. requests'[r].step = "read" /\ \A s \in Requests : s # r => requests'[s] = requests[s]
    BY <1>1, <1>2, <1>3
  <1>6. UNCHANGED <<appts, members, overwritten>>
    BY DEF Admit
  <1> QED
    BY <1>4, <1>5, <1>6, RowsStill

\* Each of the first reads leaves a sound request.
LEMMA ReadsInv ==
  ASSUME Inv, NEW r \in Requests,
         \/ OfferReads(r) \/ EndReads(r) \/ AnswerReads(r) \/ RequestReads(r) \/ AddReads(r)
         \/ DecideReads(r) \/ DepartureReads(r) \/ EditReads(r) \/ StatusReads(r) \/ AssignReads(r)
  PROVE  Inv'
  <1> USE OfficesAssumption DEF Inv, OfficesTypeOK
  <1>1. CASE OfferReads(r)
    <2>1. PICK by \in People, on \in People, role \in Offered :
            /\ on # by
            /\ Admit(r, IF role = "LEAD" THEN "appointLead" ELSE "invite", by, on, role, 0, "none")
      BY <1>1 DEF OfferReads
    <2>2. role \in ClubRoles
      BY DEF ClubRoles
    <2>3. HasHeld(by, Namers(role))
      <3>1. Granted(by, IF role = "LEAD" THEN "club:appoint-lead" ELSE "club:team-manage")
        BY <2>1 DEF Admit, RequiredPermission, SelfScoped
      <3> QED
        BY <3>1, GrantsTrace DEF Namers
    <2>4. requests'[r] = [op |-> IF role = "LEAD" THEN "appointLead" ELSE "invite", step |-> "read",
                          by |-> by, on |-> on, to |-> role, row |-> 0, seen |-> "none"]
      BY <2>1 DEF Admit
    <2>5. HasHeld(by, Namers(role))'
      BY <2>1, <2>3 DEF Admit, HasHeld
    <2>6. Sound(r)'
      BY <2>1, <2>2, <2>4, <2>5 DEF Sound
    <2> QED
      BY <2>1, <2>2, <2>4, <2>6, AdmitInv DEF Operations, AppointmentStatuses
  <1>2. CASE EndReads(r)
    <2>1. PICK by \in People, a \in AppointmentsIn("ACTIVE") :
            Admit(r, "end", by, a, "none", a, "ACTIVE")
      BY <1>2 DEF EndReads
    <2>2. requests'[r] = [op |-> "end", step |-> "read", by |-> by, on |-> a, to |-> "none",
                          row |-> a, seen |-> "ACTIVE"]
      BY <2>1 DEF Admit
    <2>3. a \in AppointmentIds /\ appts[a].of # Nobody /\ appts' = appts
      BY <2>1 DEF AppointmentsIn, BlankRows, NoAppointment, Admit
    <2>4. Sound(r)'
      BY <2>2, <2>3 DEF Sound
    <2> QED
      <3>1. a \in People \union Nat \union {Nobody} /\ a \in Nat
        BY <2>3
      <3> QED
        BY <2>1, <2>4, <3>1, AdmitInv DEF Operations, AppointmentStatuses
  <1>3. CASE AnswerReads(r)
    <2>1. PICK op \in {"accept", "decline"}, a \in AppointmentsIn("INVITED") :
            Admit(r, op, appts[a].of, a, "none", IF appts[a].lapsed THEN a ELSE 0, "INVITED")
      BY <1>3 DEF AnswerReads
    <2>2. requests'[r] = [op |-> op, step |-> "read", by |-> appts[a].of, on |-> a, to |-> "none",
                          row |-> IF appts[a].lapsed THEN a ELSE 0, seen |-> "INVITED"]
      BY <2>1 DEF Admit
    <2>3. a \in AppointmentIds /\ appts[a].of # Nobody /\ appts' = appts
      BY <2>1 DEF AppointmentsIn, BlankRows, NoAppointment, Admit
    <2>4. appts[a].of \in People
      BY <2>3 DEF AppointmentRow
    <2>5. Sound(r)'
      BY <2>2, <2>3 DEF Sound
    <2>6. PICK p \in People, row \in Nat : Admit(r, op, p, a, "none", row, "INVITED")
      BY <2>1, <2>3, <2>4
    <2> QED
      <3>1. a \in People \union Nat \union {Nobody} /\ op \in Operations
        BY <2>3 DEF Operations
      <3> QED
        BY <2>5, <2>6, <3>1, AdmitInv DEF AppointmentStatuses
  <1>4. CASE RequestReads(r)
    <2>1. PICK p \in People, seen \in {"ACTIVE", "PENDING"} :
            Admit(r, "request", p, p, "none", 0, seen)
      BY <1>4 DEF RequestReads
    <2>2. requests'[r] = [op |-> "request", step |-> "read", by |-> p, on |-> p, to |-> "none",
                          row |-> 0, seen |-> seen]
      BY <2>1 DEF Admit
    <2>3. Sound(r)'
      BY <2>2 DEF Sound, Open
    <2> QED
      BY <2>1, <2>2, <2>3, AdmitInv DEF Operations, MembershipStatuses
  <1>5. CASE AddReads(r)
    <2>1. PICK by \in People, p \in People : Admit(r, "addMember", by, p, "none", 0, "ACTIVE")
      BY <1>5 DEF AddReads
    <2>2. requests'[r] = [op |-> "addMember", step |-> "read", by |-> by, on |-> p, to |-> "none",
                          row |-> 0, seen |-> "ACTIVE"]
      BY <2>1 DEF Admit
    <2>3. HasHeld(by, Deciders)
      BY <2>1, GrantsTrace DEF Admit, RequiredPermission, SelfScoped
    <2>4. HasHeld(by, Deciders)'
      BY <2>1, <2>3 DEF Admit, HasHeld
    <2>5. Sound(r)'
      BY <2>2, <2>4 DEF Sound, Open
    <2> QED
      BY <2>1, <2>2, <2>5, AdmitInv DEF Operations, MembershipStatuses
  <1>6. CASE DecideReads(r)
    <2>1. PICK by \in People, m \in MembershipIds, to \in {"ACTIVE", "REJECTED"} :
            /\ members[m].status = "PENDING"
            /\ Admit(r, "decide", by, m, to, m, "PENDING")
      BY <1>6 DEF DecideReads
    <2>2. requests'[r] = [op |-> "decide", step |-> "read", by |-> by, on |-> m, to |-> to,
                          row |-> m, seen |-> "PENDING"]
      BY <2>1 DEF Admit
    <2>3. HasHeld(by, Deciders)
      BY <2>1, GrantsTrace DEF Admit, RequiredPermission, SelfScoped
    <2>4. HasHeld(by, Deciders)'
      BY <2>1, <2>3 DEF Admit, HasHeld
    <2>5. members[m].of # Nobody /\ members' = members
      BY <2>1 DEF BlankRows, NoMembership, Admit
    <2>6. Sound(r)'
      BY <2>2, <2>4, <2>5 DEF Sound
    <2> QED
      <3>1. m \in People \union Nat \union {Nobody} /\ m \in Nat
        BY <2>1
      <3> QED
        BY <2>1, <2>6, <3>1, AdmitInv DEF Operations, MembershipStatuses
  <1>7. CASE DepartureReads(r)
    <2>1. PICK by \in People, p \in People, op \in {"leave", "remove"}, m \in MembershipIds,
               seen \in Open :
            /\ members[m].of = p
            /\ op = "leave" => by = p
            /\ Admit(r, op, by, p, "none", m, seen)
      BY <1>7 DEF DepartureReads, OpenOf
    <2>2. requests'[r] = [op |-> op, step |-> "read", by |-> by, on |-> p, to |-> "none",
                          row |-> m, seen |-> seen]
      BY <2>1 DEF Admit
    <2>3. op = "remove" => HasHeld(by, Deciders)
      BY <2>1, GrantsTrace DEF Admit, RequiredPermission, SelfScoped
    <2>4. op = "remove" => HasHeld(by, Deciders)'
      BY <2>1, <2>3 DEF Admit, HasHeld
    <2>5. members' = members
      BY <2>1 DEF Admit
    <2>6. Sound(r)'
      BY <2>1, <2>2, <2>4, <2>5 DEF Sound
    <2> QED
      <3>1. m \in Nat /\ op \in Operations /\ seen \in MembershipStatuses
        BY <2>1 DEF Operations, MembershipStatuses, Open
      <3> QED
        BY <2>1, <2>6, <3>1, AdmitInv
  <1>8. CASE EditReads(r)
    <2>1. PICK by \in People, policy \in Policies : Admit(r, "edit", by, Nobody, policy, 0, "none")
      BY <1>8 DEF EditReads
    <2>2. requests'[r] = [op |-> "edit", step |-> "read", by |-> by, on |-> Nobody, to |-> policy,
                          row |-> 0, seen |-> "none"]
      BY <2>1 DEF Admit
    <2>3. Sound(r)'
      BY <2>2 DEF Sound
    <2> QED
      BY <2>1, <2>3, AdmitInv DEF Operations, MembershipStatuses
  <1>9. CASE StatusReads(r)
    <2>1. PICK by \in People, to \in ClubStatuses : Admit(r, "status", by, Nobody, to, 0, "none")
      BY <1>9 DEF StatusReads
    <2>2. requests'[r] = [op |-> "status", step |-> "read", by |-> by, on |-> Nobody, to |-> to,
                          row |-> 0, seen |-> "none"]
      BY <2>1 DEF Admit
    <2>3. Sound(r)'
      BY <2>2 DEF Sound
    <2> QED
      BY <2>1, <2>3, AdmitInv DEF Operations, MembershipStatuses
  <1>10. CASE AssignReads(r)
    <2>1. PICK by \in People, on \in People, x \in Assigned, op \in {"assign", "unassign"} :
            Admit(r, op, by, on, x, 0, "none")
      BY <1>10 DEF AssignReads
    <2>2. requests'[r] = [op |-> op, step |-> "read", by |-> by, on |-> on, to |-> x,
                          row |-> 0, seen |-> "none"]
      BY <2>1 DEF Admit
    <2>4. Sound(r)'
      BY <2>2 DEF Sound
    <2>3. op \in Operations /\ x \in Responsibilities
      BY DEF Operations
    <2> QED
      BY <2>1, <2>3, <2>4, AdmitInv DEF MembershipStatuses
  <1> QED
    BY <1>1, <1>2, <1>3, <1>4, <1>5, <1>6, <1>7, <1>8, <1>9, <1>10

\* A request that ends without a trace, and those that write the club or its
\* event's assignments: no row of an office or of a membership changes.
LEMMA ClubInv ==
  ASSUME Inv, NEW r \in Requests,
         Drop(r) \/ EditWrites(r) \/ StatusWrites(r) \/ AssignWrites(r)
  PROVE  Inv'
  <1>1. requests' = [requests EXCEPT ![r] = Idle]
    BY DEF Drop, EditWrites, StatusWrites, AssignWrites, Finish
  <1>2. UNCHANGED <<appts, members, overwritten>>
    BY DEF Drop, EditWrites, StatusWrites, AssignWrites
  <1>3. requests \in [Requests -> RequestRow] /\ Idle \in RequestRow
    BY DEF Inv, OfficesTypeOK, Idle, RequestRow, AppointmentStatuses
  <1>4. club' \in [status : ClubStatuses \union {"ACTIVE"}, membershipPolicy : Policies]
    <2>1. club \in [status : ClubStatuses \union {"ACTIVE"}, membershipPolicy : Policies]
      BY DEF Inv, OfficesTypeOK
    <2>2. CASE Drop(r) \/ AssignWrites(r)
      BY <2>1, <2>2 DEF Drop, AssignWrites
    <2>3. CASE EditWrites(r)
      <3>1. requests[r].to \in Policies
        BY <2>3 DEF Inv, RequestsSound, Sound, EditWrites, At
      <3> QED
        BY <2>1, <2>3, <3>1 DEF EditWrites
    <2>4. CASE StatusWrites(r)
      <3>1. requests[r].to \in ClubStatuses
        BY <2>4 DEF Inv, RequestsSound, Sound, StatusWrites, At
      <3> QED
        BY <2>1, <2>4, <3>1 DEF StatusWrites
    <2> QED
      BY <2>2, <2>3, <2>4
  <1>5. assignments' \subseteq People \X Assigned
    <2>1. assignments \subseteq People \X Assigned
      BY DEF Inv, OfficesTypeOK
    <2>2. CASE Drop(r) \/ EditWrites(r) \/ StatusWrites(r)
      BY <2>1, <2>2 DEF Drop, EditWrites, StatusWrites
    <2>3. CASE AssignWrites(r)
      <3>1. requests[r].on \in People /\ requests[r].to \in Assigned
        BY <2>3 DEF Inv, RequestsSound, Sound, AssignWrites, At
      <3> QED
        BY <2>1, <2>3, <3>1 DEF AssignWrites
    <2> QED
      BY <2>2, <2>3
  <1>6. OfficesTypeOK'
    BY <1>1, <1>2, <1>3, <1>4, <1>5 DEF Inv, OfficesTypeOK
  <1>7. \A s \in Requests : requests'[s] = requests[s] \/ requests'[s] = Idle
    BY <1>1, <1>3
  <1> QED
    BY <1>2, <1>6, <1>7, RowsStill

\* An appointment's row changes to one that is not in office, and the request
\* behind it, if any, is over.
LEMMA AppointmentInv ==
  ASSUME Inv, NEW a \in AppointmentIds, appts'[a] \in AppointmentRow,
         appts' = [appts EXCEPT ![a] = appts'[a]],
         appts'[a].status # "ACTIVE" \/ appts[a].status = "ACTIVE",
         appts'[a].of # Nobody, appts'[a].by # Nobody,
         \/ /\ appts[a].of = Nobody
            /\ appts'[a].by # appts'[a].of
            /\ HasHeld(appts'[a].by, Namers(appts'[a].role))
         \/ /\ appts[a].of # Nobody
            /\ appts'[a].of = appts[a].of
            /\ appts'[a].role = appts[a].role
            /\ appts'[a].by = appts[a].by
            /\ HeldRow(a) => HeldRow(a)',
         overwritten \subseteq overwritten',
         UNCHANGED <<club, members, assignments>>,
         requests' \in [Requests -> RequestRow],
         \A s \in Requests : requests'[s] = requests[s] \/ requests'[s] = Idle
  PROVE  Inv'
  <1> DEFINE row == appts'[a]
  <1>1. appts \in [AppointmentIds -> AppointmentRow]
    BY DEF Inv, OfficesTypeOK
  <1>2. OfficesTypeOK'
    BY <1>1 DEF Inv, OfficesTypeOK
  <1>3. \A b \in AppointmentIds : b # a => appts'[b] = appts[b]
    BY <1>1
  <1>4. Grows
    BY <1>3 DEF Grows, HeldRow, AdmittedRow
  <1>5. BlankRows'
    BY <1>3 DEF Inv, BlankRows
  <1>6. OpenAgree' /\ ToldWhatStands'
    BY DEF Inv, Indexed, OpenAgree, OpenOf, ToldWhatStands
  <1>7. \A b \in AppointmentIds : appts'[b].status = "ACTIVE" => appts[b].status = "ACTIVE"
    BY <1>3
  <1>8. \A b \in AppointmentIds : appts[b].of = Nobody /\ appts'[b] # NoAppointment =>
           /\ appts'[b].by # appts'[b].of
           /\ HasHeld(appts'[b].by, Namers(appts'[b].role))
    BY <1>3 DEF Inv, BlankRows
  <1> QED
    BY <1>2, <1>4, <1>5, <1>6, <1>7, <1>8, Preserved

\* The writes of an appointment that enter nobody into office.
LEMMA AppointmentsInv ==
  ASSUME Inv, NEW r \in Requests,
         OfferWrites(r) \/ EndWrites(r) \/ AnswerExpires(r) \/ DeclineWrites(r)
  PROVE  Inv'
  <1>1. appts \in [AppointmentIds -> AppointmentRow]
    BY DEF Inv, OfficesTypeOK
  <1>2. /\ requests' \in [Requests -> RequestRow]
        /\ \A s \in Requests : requests'[s] = requests[s] \/ requests'[s] = Idle
    <2>1. requests' = [requests EXCEPT ![r] = Idle]
      BY DEF OfferWrites, EndWrites, AnswerExpires, DeclineWrites, Finish
    <2>2. requests \in [Requests -> RequestRow] /\ Idle \in RequestRow
      BY DEF Inv, OfficesTypeOK, Idle, RequestRow, AppointmentStatuses
    <2> QED
      BY <2>1, <2>2
  <1>3. UNCHANGED <<club, members, assignments>>
    BY DEF OfferWrites, EndWrites, AnswerExpires, DeclineWrites
  <1>4. CASE OfferWrites(r)
    <2> DEFINE a == First(UnusedAppts)
               q == requests[r]
    <2>1. a \in AppointmentIds /\ appts[a] = NoAppointment
      <3>1. UnusedAppts \subseteq 1 .. MaxAppointments /\ UnusedAppts # {}
        BY <1>4 DEF OfferWrites, UnusedAppts
      <3>2. a \in UnusedAppts
        BY <3>1, FirstIsIn, OfficesAssumption
      <3> QED
        BY <3>2 DEF UnusedAppts
    <2> HIDE DEF a
    <2>2. appts' = [appts EXCEPT ![a] = [of |-> q.on, role |-> q.to, status |-> "INVITED",
                                         lapsed |-> FALSE, by |-> q.by]]
      BY <1>4 DEF OfferWrites, a
    <2>3. /\ q.by \in People /\ q.on \in People /\ q.on # q.by /\ q.to \in ClubRoles
          /\ HasHeld(q.by, Namers(q.to))
      BY <1>4 DEF OfferWrites, At, Inv, RequestsSound, Sound
    <2>4. appts'[a] = [of |-> q.on, role |-> q.to, status |-> "INVITED", lapsed |-> FALSE, by |-> q.by]
      BY <1>1, <2>1, <2>2
    <2>5. appts'[a] \in AppointmentRow
      BY <2>3, <2>4 DEF AppointmentRow, AppointmentStatuses
    <2>6. appts[a].of = Nobody
      BY <2>1 DEF NoAppointment
    <2>7. overwritten' = overwritten /\ appts' = [appts EXCEPT ![a] = appts'[a]]
      BY <1>4, <2>2, <2>4 DEF OfferWrites
    <2> QED
      BY <1>2, <1>3, <2>1, <2>3, <2>4, <2>5, <2>6, <2>7, AppointmentInv, OfficesAssumption
  <1>5. CASE EndWrites(r) \/ AnswerExpires(r) \/ DeclineWrites(r)
    <2>1. PICK a \in AppointmentIds : a = requests[r].on /\ appts[a].of # Nobody
      BY <1>5 DEF EndWrites, AnswerExpires, DeclineWrites, At, Inv, RequestsSound, Sound
    <2>2. PICK status \in {"ENDED", "EXPIRED", "DECLINED"} :
            /\ appts' = [appts EXCEPT ![a].status = status]
            /\ status # "ENDED" => At(r, "accept", "read") \/ At(r, "decline", "read")
            /\ Overwrites(r, "appointment", a, appts[a].status)
      BY <1>5, <2>1 DEF EndWrites, AnswerExpires, DeclineWrites
    <2>3. status # "ENDED" => requests[r].seen = "INVITED"
      BY <2>2 DEF At, Inv, RequestsSound, Sound
    <2>4. appts[a] \in AppointmentRow
      BY <1>1, <2>1
    <2>5. appts'[a] = [appts[a] EXCEPT !.status = status]
      BY <1>1, <2>1, <2>2
    <2>6. /\ appts'[a] \in AppointmentRow
          /\ appts'[a].of = appts[a].of /\ appts'[a].role = appts[a].role /\ appts'[a].by = appts[a].by
          /\ appts'[a].status = status
      BY <2>4, <2>5 DEF AppointmentRow, AppointmentStatuses
    <2>7. /\ overwritten \subseteq overwritten'
          /\ appts[a].status # requests[r].seen => <<"appointment", a>> \in overwritten'
      BY <2>2 DEF Overwrites
    <2>8. HeldRow(a) => HeldRow(a)'
      BY <2>3, <2>6, <2>7 DEF HeldRow
    <2>9. appts' = [appts EXCEPT ![a] = appts'[a]]
      BY <1>1, <2>2, <2>5
    <2>10. appts[a].by # Nobody
      BY <2>1 DEF Inv, BlankRows
    <2> QED
      BY <1>2, <1>3, <2>1, <2>6, <2>7, <2>8, <2>9, <2>10, AppointmentInv
  <1> QED
    BY <1>4, <1>5

\* An invitation lapses.
LEMMA LapseInv == ASSUME Inv, NEW a \in AppointmentIds, Lapse(a) PROVE Inv'
  <1>1. appts \in [AppointmentIds -> AppointmentRow] /\ requests' = requests
    BY DEF Inv, OfficesTypeOK, Lapse
  <1>2. appts'[a] = [appts[a] EXCEPT !.lapsed = TRUE] /\ appts' = [appts EXCEPT ![a] = appts'[a]]
    <2>1. appts' = [appts EXCEPT ![a].lapsed = TRUE]
      BY DEF Lapse
    <2>2. appts'[a] = [appts[a] EXCEPT !.lapsed = TRUE]
      BY <1>1, <2>1
    <2> QED
      BY <2>1, <2>2
  <1>3. /\ appts'[a] \in AppointmentRow
        /\ appts'[a].of = appts[a].of /\ appts'[a].role = appts[a].role /\ appts'[a].by = appts[a].by
        /\ appts'[a].status = appts[a].status
    <2>1. appts[a] \in AppointmentRow
      BY <1>1
    <2> QED
      BY <1>2, <2>1 DEF AppointmentRow
  <1>4. appts[a].of # Nobody /\ appts[a].by # Nobody
    BY DEF Lapse, Inv, BlankRows, NoAppointment
  <1>5. (HeldRow(a) => HeldRow(a)') /\ requests' \in [Requests -> RequestRow]
    BY <1>1, <1>3 DEF Lapse, HeldRow, Inv, OfficesTypeOK
  <1> QED
    BY <1>1, <1>2, <1>3, <1>4, <1>5, AppointmentInv DEF Lapse

\* What a student was told of a row stands, or the row was written over.
ToldOf(m) ==
  members[m].told # "none" =>
    \/ <<"membership", m>> \in overwritten
    \/ members[m].told = "REJECTED" /\ members[m].status = "REJECTED"
    \/ members[m].told = "ACTIVE" /\ members[m].status \in {"ACTIVE", "LEFT", "REMOVED"}

\* A membership's row changes: it opens only where its person has no other open
\* one, and keeps its person, its admission and the truth of its notice.
LEMMA MembershipKeeps ==
  ASSUME Inv, NEW m \in MembershipIds, members'[m] \in MembershipRow,
         members' = [members EXCEPT ![m] = members'[m]],
         members'[m].status \in Open => RoomToOpen(m, members'[m].of),
         members'[m].of # Nobody,
         members[m].of # Nobody => members'[m].of = members[m].of /\ (AdmittedRow(m) => AdmittedRow(m)'),
         ToldOf(m)',
         overwritten \subseteq overwritten'
  PROVE  /\ members' \in [MembershipIds -> MembershipRow]
         /\ \A k \in MembershipIds : k # m => members'[k] = members[k]
         /\ OpenAgree' /\ ToldWhatStands'
  <1>1. members \in [MembershipIds -> MembershipRow]
    BY DEF Inv, OfficesTypeOK
  <1>2. \A k \in MembershipIds : k # m => members'[k] = members[k]
    BY <1>1
  <1>3. OpenAgree'
    <2>1. ASSUME NEW p \in People, NEW j \in MembershipIds, NEW k \in MembershipIds,
                 members'[j].of = p, members'[j].status \in Open,
                 members'[k].of = p, members'[k].status \in Open
          PROVE  j = k
      <3>1. CASE j # m /\ k # m
        BY <1>2, <2>1, <3>1 DEF Inv, Indexed, OpenAgree, OpenOf
      <3>2. CASE j = m
        BY <1>2, <2>1, <3>2 DEF RoomToOpen, OpenOf
      <3>3. CASE k = m
        BY <1>2, <2>1, <3>3 DEF RoomToOpen, OpenOf
      <3> QED
        BY <3>1, <3>2, <3>3
    <2> QED
      BY <2>1 DEF OpenAgree, OpenOf
  <1>4. ToldWhatStands'
    BY <1>2 DEF Inv, ToldWhatStands, ToldOf
  <1> QED
    BY <1>1, <1>2, <1>3, <1>4

\* The same, for a step that leaves the appointments alone.
LEMMA MembershipInv ==
  ASSUME Inv, NEW m \in MembershipIds, members'[m] \in MembershipRow,
         members' = [members EXCEPT ![m] = members'[m]],
         members'[m].status \in Open => RoomToOpen(m, members'[m].of),
         members'[m].of # Nobody,
         members[m].of # Nobody => members'[m].of = members[m].of /\ (AdmittedRow(m) => AdmittedRow(m)'),
         members'[m].by \in {Nobody, members'[m].of} \/ HasHeld(members'[m].by, Deciders),
         ToldOf(m)',
         overwritten \subseteq overwritten',
         UNCHANGED <<club, appts, assignments>>,
         requests' \in [Requests -> RequestRow],
         \A s \in Requests : requests'[s] = requests[s] \/ requests'[s] = Idle
  PROVE  Inv'
  <1>1. /\ members' \in [MembershipIds -> MembershipRow]
        /\ \A k \in MembershipIds : k # m => members'[k] = members[k]
        /\ OpenAgree' /\ ToldWhatStands'
    BY MembershipKeeps
  <1>2. OfficesTypeOK'
    BY <1>1 DEF Inv, OfficesTypeOK
  <1>3. Grows
    BY <1>1 DEF Grows, HeldRow, AdmittedRow
  <1>4. BlankRows'
    BY <1>1 DEF Inv, BlankRows
  <1>5. \A k \in MembershipIds : members'[k].by \notin {members[k].by, Nobody, members'[k].of} =>
           HasHeld(members'[k].by, Deciders)
    BY <1>1
  <1>6. \A a \in AppointmentIds : appts[a].of = Nobody => appts'[a] = NoAppointment
    BY DEF Inv, BlankRows
  <1> QED
    BY <1>1, <1>2, <1>3, <1>4, <1>5, <1>6, Preserved

\* The writes of a membership.
LEMMA MembershipsInv ==
  ASSUME Inv, NEW r \in Requests,
         MembershipCreated(r) \/ DecideWrites(r) \/ DepartureWrites(r)
  PROVE  Inv'
  <1> DEFINE q == requests[r]
  <1>1. members \in [MembershipIds -> MembershipRow]
    BY DEF Inv, OfficesTypeOK
  <1>2. /\ requests' \in [Requests -> RequestRow]
        /\ \A s \in Requests : requests'[s] = requests[s] \/ requests'[s] = Idle
    <2>1. requests' = [requests EXCEPT ![r] = Idle]
      BY DEF MembershipCreated, DecideWrites, DepartureWrites, Finish
    <2>2. requests \in [Requests -> RequestRow] /\ Idle \in RequestRow
      BY DEF Inv, OfficesTypeOK, Idle, RequestRow, AppointmentStatuses
    <2> QED
      BY <2>1, <2>2
  <1>3. UNCHANGED <<club, appts, assignments>>
    BY DEF MembershipCreated, DecideWrites, DepartureWrites
  <1>4. CASE MembershipCreated(r)
    <2>1. PICK m \in MembershipIds : m = First(UnusedRows) /\ members[m] = NoMembership
      <3>1. UnusedRows \subseteq 1 .. MaxMemberships /\ UnusedRows # {}
        BY <1>4 DEF MembershipCreated, UnusedRows
      <3>2. First(UnusedRows) \in UnusedRows
        BY <3>1, FirstIsIn, OfficesAssumption
      <3> QED
        BY <3>2 DEF UnusedRows
    <2>2. PICK by \in People \union {Nobody} :
            /\ members' = [members EXCEPT ![m] = [of |-> q.on, status |-> q.seen, told |-> "none", by |-> by]]
            /\ by = IF q.op = "addMember" THEN q.by ELSE Nobody
      BY <1>4, <2>1 DEF MembershipCreated, At, Inv, RequestsSound, Sound
    <2>3. q.on \in People /\ q.seen \in Open /\ (q.op = "addMember" => HasHeld(q.by, Deciders))
      BY <1>4 DEF MembershipCreated, At, Inv, RequestsSound, Sound
    <2>4. members'[m] = [of |-> q.on, status |-> q.seen, told |-> "none", by |-> by]
      BY <1>1, <2>2
    <2>5. /\ members'[m] \in MembershipRow
          /\ members' = [members EXCEPT ![m] = members'[m]]
      <3>1. members'[m] \in MembershipRow
        BY <2>2, <2>3, <2>4 DEF MembershipRow, MembershipStatuses, Open
      <3> QED
        BY <2>2, <2>4, <3>1
    <2>6. RoomToOpen(m, members'[m].of)
      BY <1>4, <2>4 DEF MembershipCreated, RoomToOpen, OpenOf
    <2>7. members'[m].by = Nobody \/ HasHeld(members'[m].by, Deciders)
      BY <2>2, <2>3, <2>4
    <2>8. /\ members[m].of = Nobody
          /\ members'[m].of # Nobody
          /\ overwritten' = overwritten
      BY <1>4, <2>1, <2>3, <2>4, OfficesAssumption DEF MembershipCreated, NoMembership
    <2>9. ToldOf(m)'
      BY <2>4 DEF ToldOf
    <2> QED
      BY <1>2, <1>3, <2>5, <2>6, <2>7, <2>8, <2>9, MembershipInv
  <1>5. CASE DecideWrites(r)
    <2>1. PICK m \in MembershipIds : m = q.on /\ members[m].of # Nobody
      BY <1>5 DEF DecideWrites, At, Inv, RequestsSound, Sound
    <2>2. /\ q.by \in People /\ q.to \in {"ACTIVE", "REJECTED"} /\ q.seen = "PENDING"
          /\ HasHeld(q.by, Deciders)
      BY <1>5 DEF DecideWrites, At, Inv, RequestsSound, Sound
    <2>3. members[m] \in MembershipRow
      BY <1>1
    <2>4. members' = [members EXCEPT ![m].status = q.to, ![m].by = q.by,
            ![m].told = IF members[m].told = "none" THEN q.to ELSE members[m].told]
      BY <1>5, <2>1 DEF DecideWrites
    <2>5. members'[m] = [of |-> members[m].of, status |-> q.to, by |-> q.by,
                         told |-> IF members[m].told = "none" THEN q.to ELSE members[m].told]
      <3>1. members'[m] = [members[m] EXCEPT !.status = q.to, !.by = q.by,
                                             !.told = IF members[m].told = "none" THEN q.to ELSE members[m].told]
        BY <1>1, <2>4
      <3> QED
        BY <2>3, <3>1 DEF MembershipRow
    <2>6. /\ members'[m] \in MembershipRow
          /\ members' = [members EXCEPT ![m] = members'[m]]
      <3>1. members'[m] \in MembershipRow
        BY <2>2, <2>3, <2>5 DEF MembershipRow, MembershipStatuses
      <3> QED
        BY <1>1, <2>4, <3>1
    <2>7. members'[m].status \in Open => RoomToOpen(m, members'[m].of)
      BY <1>5, <2>1, <2>2, <2>5 DEF DecideWrites, Open
    <2>8. /\ overwritten \subseteq overwritten'
          /\ members[m].status # "PENDING" => <<"membership", m>> \in overwritten'
      BY <1>5, <2>1, <2>2 DEF DecideWrites, Overwrites
    <2>9. AdmittedRow(m) => AdmittedRow(m)'
      BY <2>8 DEF AdmittedRow
    <2>10. ToldOf(m)'
      BY <2>2, <2>5, <2>8 DEF ToldOf, Inv, ToldWhatStands
    <2> QED
      BY <1>2, <1>3, <2>1, <2>2, <2>5, <2>6, <2>7, <2>8, <2>9, <2>10, MembershipInv
  <1>6. CASE DepartureWrites(r)
    <2>1. PICK m \in MembershipIds : m = q.row /\ members[m].of # Nobody
      BY <1>6 DEF DepartureWrites, At, Inv, RequestsSound, Sound
    <2>2. /\ q.by \in People /\ q.seen \in Open
          /\ members[m].of = q.by \/ HasHeld(q.by, Deciders)
      BY <1>6, <2>1 DEF DepartureWrites, At, Inv, RequestsSound, Sound
    <2>3. members[m] \in MembershipRow
      BY <1>1
    <2>4. PICK status \in {"LEFT", "REMOVED"} :
            members' = [members EXCEPT ![m].status = status, ![m].by = q.by]
      BY <1>6, <2>1 DEF DepartureWrites
    <2>5. members'[m] = [members[m] EXCEPT !.status = status, !.by = q.by]
      BY <1>1, <2>4
    <2>6. /\ members'[m] \in MembershipRow
          /\ members'[m].of = members[m].of /\ members'[m].by = q.by
          /\ members'[m].status = status /\ members'[m].told = members[m].told
      BY <2>2, <2>3, <2>5 DEF MembershipRow, MembershipStatuses
    <2>7. members' = [members EXCEPT ![m] = members'[m]]
      BY <1>1, <2>4, <2>5
    <2>8. /\ overwritten \subseteq overwritten'
          /\ members[m].status \notin Open => <<"membership", m>> \in overwritten'
      BY <1>6, <2>1, <2>2 DEF DepartureWrites, Overwrites
    <2>9. AdmittedRow(m)'
      BY <2>6 DEF AdmittedRow
    <2>10. ToldOf(m)'
      BY <2>6, <2>8 DEF ToldOf, Inv, ToldWhatStands, Open
    <2>11. members'[m].status \notin Open
      BY <2>6 DEF Open
    <2> QED
      BY <1>2, <1>3, <2>1, <2>2, <2>6, <2>7, <2>8, <2>9, <2>10, <2>11, MembershipInv
  <1> QED
    BY <1>4, <1>5, <1>6

\* An acceptance begins: of the lead, only where nobody holds or awaits it.
LEMMA AcceptActivatesInv == ASSUME Inv, NEW r \in Requests, AcceptActivates(r) PROVE Inv'
  <1> DEFINE q == requests[r]
  <1>1. PICK a \in AppointmentIds : a = q.on /\ appts[a].of # Nobody
    BY DEF AcceptActivates, At, Inv, RequestsSound, Sound
  <1>2. PICK m \in Nat, seen \in MembershipStatuses :
          /\ requests' = [requests EXCEPT ![r].step = "joining", ![r].row = m, ![r].seen = seen]
          /\ m # 0 => m \in MembershipIds /\ members[m].of = q.by /\ seen \in Open /\ seen = members[m].status
    <2>1. CASE OpenOf(q.by) = {}
      <3>1. requests' = [requests EXCEPT ![r].step = "joining", ![r].row = 0, ![r].seen = "none"]
        BY <2>1 DEF AcceptActivates
      <3>2. "none" \in MembershipStatuses
        BY DEF MembershipStatuses
      <3> QED
        BY <3>1, <3>2
    <2>2. CASE OpenOf(q.by) # {}
      <3>1. First(OpenOf(q.by)) \in OpenOf(q.by)
        <4>1. OpenOf(q.by) \subseteq 1 .. MaxMemberships
          BY DEF OpenOf
        <4> QED
          BY <2>2, <4>1, FirstIsIn, OfficesAssumption
      <3>2. PICK m \in MembershipIds : m = First(OpenOf(q.by)) /\ m \in OpenOf(q.by)
        BY <3>1 DEF OpenOf
      <3>3. m \in Nat /\ m # 0 /\ members[m].of = q.by /\ members[m].status \in Open
        BY <3>2, OfficesAssumption DEF OpenOf
      <3>4. members[m].status \in MembershipStatuses
        BY <3>3 DEF Open, MembershipStatuses
      <3>5. requests' = [requests EXCEPT ![r].step = "joining", ![r].row = m,
                                         ![r].seen = members[m].status]
        BY <2>2, <3>2, <3>3 DEF AcceptActivates
      <3> QED
        BY <3>3, <3>4, <3>5
    <2> QED
      BY <2>1, <2>2
  <1>3. requests \in [Requests -> RequestRow]
    BY DEF Inv, OfficesTypeOK
  <1>4. q \in RequestRow
    BY <1>3
  <1>5. /\ requests'[r] = [q EXCEPT !.step = "joining", !.row = m, !.seen = seen]
        /\ \A s \in Requests : s # r => requests'[s] = requests[s]
    BY <1>2, <1>3
  <1>6. /\ requests'[r] \in RequestRow
        /\ requests'[r].op = "accept" /\ requests'[r].step = "joining" /\ requests'[r].by = q.by
        /\ requests'[r].on = a /\ requests'[r].row = m /\ requests'[r].seen = seen
    <2>1. q.op = "accept"
      BY DEF AcceptActivates, At
    <2>2. requests'[r] = [op |-> "accept", step |-> "joining", by |-> q.by, on |-> a,
                          to |-> q.to, row |-> m, seen |-> seen]
      BY <1>1, <1>4, <1>5, <2>1 DEF RequestRow
    <2>3. requests'[r] \in RequestRow
      BY <1>1, <1>4, <2>1, <2>2 DEF RequestRow
    <2> QED
      BY <2>2, <2>3
  <1>7. OfficesTypeOK'
    <2>1. requests' \in [Requests -> RequestRow]
      BY <1>2, <1>3, <1>5, <1>6
    <2> QED
      BY <2>1 DEF AcceptActivates, Inv, OfficesTypeOK
  <1>8. UNCHANGED <<appts, members>> /\ overwritten \subseteq overwritten'
    BY DEF AcceptActivates, Overwrites
  <1>9. Grows
    BY <1>8 DEF Grows, HeldRow, AdmittedRow
  <1>10. RequestsSound'
    <2>1. q.by = appts[a].of
      BY <1>1 DEF AcceptActivates, At, Inv, RequestsSound, Sound
    <2>2. m # 0 /\ seen = "ACTIVE" => AdmittedRow(m)'
      BY <1>2, <1>8 DEF AdmittedRow
    <2>3. Sound(r)'
      BY <1>1, <1>2, <1>6, <1>8, <2>1, <2>2 DEF Sound
    <2> QED
      BY <1>5, <1>9, <2>3, RequestsStaySound DEF Inv, Types
  <1>11. Indexed'
    <2>1. \A s \in Requests : s # r => (Joins(s)' <=> Joins(s))
      BY <1>5, <1>8 DEF Joins, At
    <2>2. ASSUME Joins(r)'
          PROVE  /\ \A b \in AppointmentsIn("ACTIVE") : appts[b].role = "LEAD" => b = a
                 /\ \A s \in Requests \ {r} : ~ Joins(s)
      <3>1. appts[a].role = "LEAD"
        BY <1>6, <1>8, <2>2 DEF Joins
      <3> QED
        BY <1>1, <3>1 DEF AcceptActivates, HeldByAcceptance, Joins, At
    <2>3. LeadReserved'
      <3>1. ASSUME NEW s \in Requests, Joins(s)', NEW b \in AppointmentIds,
                   appts[b].status = "ACTIVE", appts[b].role = "LEAD"
            PROVE  b = requests'[s].on
        <4>1. CASE s = r
          BY <1>6, <2>2, <3>1, <4>1 DEF AppointmentsIn, Joins, At
        <4>2. CASE s # r
          BY <1>5, <2>1, <3>1, <4>2 DEF Inv, Indexed, LeadReserved, AppointmentsIn
        <4> QED
          BY <4>1, <4>2
      <3>2. ASSUME NEW s \in Requests, Joins(s)', NEW t \in Requests, Joins(t)'
            PROVE  s = t
        <4>1. CASE s # r /\ t # r
          BY <2>1, <3>2, <4>1 DEF Inv, Indexed, LeadReserved
        <4>2. CASE s = r
          BY <2>1, <2>2, <3>2, <4>2
        <4>3. CASE t = r
          BY <2>1, <2>2, <3>2, <4>3
        <4> QED
          BY <4>1, <4>2, <4>3
      <3> QED
        BY <1>8, <3>1, <3>2 DEF LeadReserved, AppointmentsIn
    <2> QED
      BY <1>8, <2>3 DEF Inv, Indexed, LeadsAgree, OpenAgree, OpenOf, AppointmentsIn
  <1>12. AuthorityTraces'
    <2>1. Types'
      BY <1>7, <1>8 DEF Types, Inv, BlankRows
    <2> QED
      BY <1>8, <1>9, <2>1, AuthorityStays DEF Inv, Types, BlankRows
  <1>13. OfficersWereAdmitted' /\ ToldWhatStands' /\ BlankRows'
    BY <1>8 DEF Inv, OfficersWereAdmitted, ToldWhatStands, BlankRows, AppointmentsIn
  <1> QED
    BY <1>7, <1>10, <1>11, <1>12, <1>13 DEF Inv

\* What an acceptance does to the memberships: nothing, where the officer's row
\* was active as read; the pending row opens, or a new one.
LEMMA JoinMembers ==
  ASSUME Inv, NEW r \in Requests, AcceptJoins(r)
  PROVE  /\ members' \in [MembershipIds -> MembershipRow]
         /\ overwritten \subseteq overwritten'
         /\ \A m \in MembershipIds : members[m].of # Nobody =>
              members'[m].of = members[m].of /\ (AdmittedRow(m) => AdmittedRow(m)')
         /\ \A m \in MembershipIds : members'[m].of = Nobody => members'[m] = NoMembership
         /\ \A m \in MembershipIds : members'[m].by \in {members[m].by, Nobody, members'[m].of}
         /\ OpenAgree' /\ ToldWhatStands'
         /\ \E m \in MembershipIds : members'[m].of = requests[r].by /\ AdmittedRow(m)'
  <1> DEFINE q == requests[r]
             p == requests[r].by
  <1>1. members \in [MembershipIds -> MembershipRow]
    BY DEF Inv, OfficesTypeOK
  <1>2. p \in People
    <2>1. q.on \in AppointmentIds /\ p = appts[q.on].of /\ p # Nobody
      BY DEF AcceptJoins, At, Inv, RequestsSound, Sound
    <2>2. appts[q.on] \in AppointmentRow
      BY <2>1 DEF Inv, OfficesTypeOK
    <2> QED
      BY <2>1, <2>2 DEF AppointmentRow
  <1>3. CASE q.row = 0
    <2>1. PICK m \in MembershipIds : m = First(UnusedRows) /\ members[m] = NoMembership
      <3>1. UnusedRows \subseteq 1 .. MaxMemberships /\ UnusedRows # {}
        BY <1>3 DEF AcceptJoins, UnusedRows
      <3>2. First(UnusedRows) \in UnusedRows
        BY <3>1, FirstIsIn, OfficesAssumption
      <3> QED
        BY <3>2 DEF UnusedRows
    <2>2. /\ members' = [members EXCEPT ![m] = [of |-> p, status |-> "ACTIVE", by |-> Nobody, told |-> "none"]]
          /\ RoomToOpen(0, p)
          /\ overwritten' = overwritten
      BY <1>3, <2>1 DEF AcceptJoins
    <2>3. members'[m] = [of |-> p, status |-> "ACTIVE", by |-> Nobody, told |-> "none"]
      BY <1>1, <2>2
    <2>4. members'[m] \in MembershipRow
      BY <1>2, <2>3 DEF MembershipRow, MembershipStatuses
    <2>5. members' = [members EXCEPT ![m] = members'[m]]
      BY <2>2, <2>3
    <2>6. RoomToOpen(m, members'[m].of)
      BY <2>2, <2>3 DEF RoomToOpen, OpenOf
    <2>7. members[m].of = Nobody /\ members'[m].of = p /\ members'[m].of # Nobody
      BY <1>2, <2>1, <2>3, OfficesAssumption DEF NoMembership
    <2>8. ToldOf(m)' /\ AdmittedRow(m)'
      BY <2>3 DEF ToldOf, AdmittedRow
    <2>9. /\ members' \in [MembershipIds -> MembershipRow]
          /\ \A k \in MembershipIds : k # m => members'[k] = members[k]
          /\ OpenAgree' /\ ToldWhatStands'
      BY <2>2, <2>4, <2>5, <2>6, <2>7, <2>8, MembershipKeeps
    <2> QED
      BY <2>2, <2>3, <2>7, <2>8, <2>9 DEF Inv, BlankRows, AdmittedRow
  <1>4. CASE q.row # 0 /\ q.seen = "PENDING"
    <2>1. PICK m \in MembershipIds : m = q.row /\ members[m].of = p
      BY <1>4 DEF AcceptJoins, At, Inv, RequestsSound, Sound
    <2>2. /\ members' = [members EXCEPT ![m].status = "ACTIVE", ![m].by = p]
          /\ RoomToOpen(m, p)
          /\ Overwrites(r, "membership", m, members[m].status)
      BY <1>4, <2>1 DEF AcceptJoins
    <2>3. members'[m] = [members[m] EXCEPT !.status = "ACTIVE", !.by = p]
      BY <1>1, <2>2
    <2>4. /\ members'[m] \in MembershipRow
          /\ members'[m].of = p /\ members'[m].by = p /\ members'[m].status = "ACTIVE"
          /\ members'[m].told = members[m].told
      <3>1. members[m] \in MembershipRow
        BY <1>1
      <3> QED
        BY <1>2, <2>1, <2>3, <3>1 DEF MembershipRow, MembershipStatuses
    <2>5. members' = [members EXCEPT ![m] = members'[m]]
      BY <1>1, <2>2, <2>3
    <2>6. /\ overwritten \subseteq overwritten'
          /\ members[m].status # "PENDING" => <<"membership", m>> \in overwritten'
      BY <1>4, <2>2 DEF Overwrites
    <2>7. ToldOf(m)' /\ AdmittedRow(m)'
      BY <2>4, <2>6 DEF ToldOf, AdmittedRow, Inv, ToldWhatStands
    <2>8. p # Nobody
      BY <1>2, OfficesAssumption
    <2>9. /\ members' \in [MembershipIds -> MembershipRow]
          /\ \A k \in MembershipIds : k # m => members'[k] = members[k]
          /\ OpenAgree' /\ ToldWhatStands'
      BY <2>1, <2>2, <2>4, <2>5, <2>6, <2>7, <2>8, MembershipKeeps
    <2> QED
      BY <2>1, <2>4, <2>6, <2>7, <2>8, <2>9 DEF Inv, BlankRows, AdmittedRow
  <1>5. CASE q.row # 0 /\ q.seen = "ACTIVE"
    <2>1. PICK m \in MembershipIds : m = q.row /\ members[m].of = p
      BY <1>5 DEF AcceptJoins, At, Inv, RequestsSound, Sound
    <2>2. members' = members /\ overwritten' = overwritten
      BY <1>5, <2>1 DEF AcceptJoins
    <2>3. AdmittedRow(m)
      BY <1>5, <2>1 DEF AcceptJoins, At, Inv, RequestsSound, Sound
    <2>4. AdmittedRow(m)'
      BY <2>2, <2>3 DEF AdmittedRow
    <2>5. OpenAgree' /\ ToldWhatStands'
      BY <2>2 DEF Inv, Indexed, OpenAgree, OpenOf, ToldWhatStands
    <2> QED
      BY <1>1, <2>1, <2>2, <2>4, <2>5 DEF Inv, BlankRows, AdmittedRow
  <1> QED
    BY <1>3, <1>4, <1>5 DEF AcceptJoins

\* The acceptance ends: a new officer, who is a member.
LEMMA AcceptJoinsInv == ASSUME Inv, NEW r \in Requests, AcceptJoins(r) PROVE Inv'
  <1> DEFINE q == requests[r]
  <1>1. PICK a \in AppointmentIds : a = q.on /\ appts[a].of # Nobody /\ q.by = appts[a].of
    BY DEF AcceptJoins, At, Inv, RequestsSound, Sound
  <1>2. appts \in [AppointmentIds -> AppointmentRow] /\ requests \in [Requests -> RequestRow]
    BY DEF Inv, OfficesTypeOK
  <1>3. appts' = [appts EXCEPT ![a].status = "ACTIVE"]
    BY <1>1 DEF AcceptJoins
  <1>4. /\ appts'[a] = [appts[a] EXCEPT !.status = "ACTIVE"]
        /\ \A b \in AppointmentIds : b # a => appts'[b] = appts[b]
    BY <1>2, <1>3
  <1>5. /\ appts'[a] \in AppointmentRow
        /\ appts'[a].of = appts[a].of /\ appts'[a].role = appts[a].role /\ appts'[a].by = appts[a].by
        /\ appts'[a].status = "ACTIVE"
    <2>1. appts[a] \in AppointmentRow
      BY <1>2
    <2> QED
      BY <1>4, <2>1 DEF AppointmentRow, AppointmentStatuses
  <1>6. /\ requests' \in [Requests -> RequestRow]
        /\ requests'[r] = Idle
        /\ \A s \in Requests : s # r => requests'[s] = requests[s]
    <2>1. Idle \in RequestRow
      BY DEF Idle, RequestRow, AppointmentStatuses
    <2> QED
      BY <1>2, <2>1 DEF AcceptJoins, Finish
  <1>7. OfficesTypeOK'
    <2>1. appts' \in [AppointmentIds -> AppointmentRow]
      BY <1>2, <1>3, <1>4, <1>5
    <2> QED
      BY <1>6, <2>1, JoinMembers DEF AcceptJoins, Inv, OfficesTypeOK
  <1>8. Grows
    BY <1>4, <1>5, JoinMembers DEF Grows, HeldRow
  <1>9. BlankRows'
    <2>1. \A m \in MembershipIds : members'[m].of = Nobody => members'[m] = NoMembership
      BY JoinMembers
    <2>2. ASSUME NEW b \in AppointmentIds
          PROVE  /\ appts'[b].of = Nobody => appts'[b] = NoAppointment
                 /\ appts'[b].of # Nobody => appts'[b].by # Nobody
      <3>1. /\ appts[b].of = Nobody => appts[b] = NoAppointment
            /\ appts[b].of # Nobody => appts[b].by # Nobody
        BY DEF Inv, BlankRows
      <3>2. CASE b = a
        BY <1>1, <1>5, <3>1, <3>2
      <3>3. CASE b # a
        BY <1>4, <3>1, <3>3
      <3> QED
        BY <3>2, <3>3
    <2> QED
      BY <2>1, <2>2 DEF BlankRows
  <1>10. RequestsSound'
    BY <1>6, <1>8, RequestsStaySound DEF Inv, Types
  <1>11. LeadReserved' /\ LeadsAgree'
    <2>1. \A b \in AppointmentIds : appts'[b].status = "ACTIVE" =>
             (b = a \/ appts[b].status = "ACTIVE") /\ appts'[b].role = appts[b].role
      BY <1>4, <1>5
    <2>2. \A s \in Requests : Joins(s)' => Joins(s) /\ s # r /\ requests'[s] = requests[s]
      BY <1>6, <1>8 DEF Joins, At, Idle, Inv, RequestsSound, Sound, Grows
    <2>3. appts[a].role = "LEAD" => Joins(r)
      BY <1>1 DEF AcceptJoins, Joins
    <2>4. LeadReserved'
      BY <1>1, <2>1, <2>2, <2>3 DEF Inv, Indexed, LeadReserved, AppointmentsIn
    <2>5. LeadsAgree'
      BY <1>1, <2>1, <2>3 DEF Inv, Indexed, LeadReserved, LeadsAgree, AppointmentsIn
    <2> QED
      BY <2>4, <2>5
  <1>12. AuthorityTraces'
    <2>1. \A b \in AppointmentIds : appts[b].of = Nobody => appts'[b] = NoAppointment
      BY <1>1, <1>4 DEF Inv, BlankRows
    <2> QED
      BY <1>7, <1>8, <1>9, <2>1, JoinMembers, AuthorityStays DEF Inv, Types
  <1>13. OfficersWereAdmitted'
    <2>1. \E m \in MembershipIds : members'[m].of = appts'[a].of /\ AdmittedRow(m)'
      BY <1>1, <1>5, JoinMembers
    <2> QED
      BY <1>4, <1>8, <2>1, OfficersStay DEF Inv, Types
  <1> QED
    BY <1>7, <1>9, <1>10, <1>11, <1>12, <1>13, JoinMembers DEF Inv, Indexed

\* No step of anybody leaves the invariant.
LEMMA NextInv == Inv /\ [Next]_vars => Inv'
  <1> SUFFICES ASSUME Inv, [Next]_vars PROVE Inv'
    OBVIOUS
  <1>1. ASSUME NEW r \in Requests, Step(r) PROVE Inv'
    BY <1>1, ReadsInv, AppointmentsInv, MembershipsInv, ClubInv, AcceptActivatesInv, AcceptJoinsInv DEF Step
  <1>2. ASSUME NEW a \in AppointmentIds, Lapse(a) PROVE Inv'
    BY <1>2, LapseInv
  <1>3. CASE UNCHANGED vars
    <2>1. OfficesTypeOK' /\ UNCHANGED <<appts, members, overwritten, requests>>
      BY <1>3 DEF vars, Inv, OfficesTypeOK
    <2> QED
      BY <2>1, RowsStill
  <1> QED
    BY <1>1, <1>2, <1>3 DEF Next

(***************************************************************************)
(* What a page offers.                                                     *)
(***************************************************************************)

\* A section's roles are those of the club column of its permission.
LEMMA SectionsMatch ==
  \A s \in ClubSections :
    /\ SectionPermission(s) \in Permission
    /\ CLUB_SECTION_ROLES(s) = ClubColumn(SectionPermission(s))
    /\ EventColumn(SectionPermission(s)) = {}
  BY DEF ClubSections, SectionPermission, Permission, CLUB_SECTION_ROLES, ClubColumn, EventColumn, Leads

\* An action's roles and assignments are its permission's.
LEMMA ActionsMatch ==
  \A a \in EventActions :
    /\ ActionPermission(a) \in Permission
    /\ EventActionClubRoles(a) = ClubColumn(ActionPermission(a))
    /\ EventActionAssignments(a) = EventColumn(ActionPermission(a))
  BY DEF EventActions, ActionPermission, Permission, EventActionClubRoles, EventActionAssignments,
         ClubColumn, EventColumn, Leads, ClubRoles

\* The pages' field maps are the API's.
LEMMA FieldsMatch ==
  /\ \A field \in DOMAIN CLUB_FIELDS : CLUB_FIELD_ROLES[field] = CLUB_FIELDS[field]
  /\ \A field \in DOMAIN EVENT_FIELDS : EVENT_FIELD_ROLES[field] = EVENT_FIELDS[field]
  <1>1. \A field \in DOMAIN CLUB_FIELDS : CLUB_FIELD_ROLES[field] = CLUB_FIELDS[field]
    BY DEF CLUB_FIELDS, CLUB_FIELD_ROLES
  <1>2. \A field \in DOMAIN EVENT_FIELDS : EVENT_FIELD_ROLES[field] = EVENT_FIELDS[field]
    BY DEF EVENT_FIELDS, EVENT_FIELD_ROLES, PublicFields, TechnicalFields, LogisticsFields, LeadFields
  <1> QED
    BY <1>1, <1>2

\* The mirrors and the guard decide alike, whatever the facts: the web
\* application offers the sections, actions and fields that the API grants
\* (club-sections.ts, event-actions.ts, club-fields.ts and event-fields.ts
\* against permissions.ts and field-permissions.ts).
THEOREM TablesAlwaysAgree == ASSUME NEW facts \in ActorFacts PROVE MirrorsAgree(facts)
  <1>1. \A perm \in Permission : Evaluate(perm, facts) <=>
          \/ facts.platformRole = "ADMIN"
          \/ ClubColumn(perm) \intersect facts.clubRoles # {}
          \/ EventColumn(perm) \intersect facts.eventResponsibilities # {}
    BY DEF Evaluate
  <1>2. clubSectionsFor(facts.clubRoles, facts.platformRole) =
          {s \in ClubSections : Evaluate(SectionPermission(s), facts)}
    BY <1>1, SectionsMatch DEF clubSectionsFor
  <1>3. canCreateEvent(facts.clubRoles, facts.platformRole) <=> Evaluate("event:create", facts)
    <2>1. /\ "event:create" \in Permission
          /\ ClubColumn("event:create") = {"LEAD", "VICE_LEAD"}
          /\ EventColumn("event:create") = {}
      BY DEF Permission, ClubColumn, EventColumn, Leads
    <2>2. facts.clubRoles \intersect {"LEAD", "VICE_LEAD"} = {"LEAD", "VICE_LEAD"} \intersect facts.clubRoles
      OBVIOUS
    <2>3. Evaluate("event:create", facts) <=>
            facts.platformRole = "ADMIN" \/ {"LEAD", "VICE_LEAD"} \intersect facts.clubRoles # {}
      BY <1>1, <2>1
    <2> QED
      BY <2>2, <2>3 DEF canCreateEvent
  <1>4. eventActionsFor(facts.clubRoles, facts.eventResponsibilities, facts.platformRole) =
          {a \in EventActions : Evaluate(ActionPermission(a), facts)}
    BY <1>1, ActionsMatch DEF eventActionsFor
  <1>5. \A field \in DOMAIN CLUB_FIELDS :
          canEditField(field, CLUB_FIELD_ROLES, facts.clubRoles, facts.platformRole)
            <=> FieldsAllowed({field}, CLUB_FIELDS, facts)
    BY FieldsMatch DEF canEditField, FieldsAllowed
  <1>6. \A field \in DOMAIN EVENT_FIELDS :
          canEditField(field, EVENT_FIELD_ROLES, facts.clubRoles, facts.platformRole)
            <=> FieldsAllowed({field}, EVENT_FIELDS, facts)
    BY FieldsMatch DEF canEditField, FieldsAllowed
  <1> QED
    BY <1>2, <1>3, <1>4, <1>5, <1>6 DEF MirrorsAgree

\* A row of p's was written over.
Rewritten(p) == \E m \in MembershipIds : members[m].of = p /\ <<"membership", m>> \in overwritten

\* Memberships are dealt in order, and one that is open is its person's latest,
\* unless a row was written over.
Ordered ==
  /\ \A j, k \in MembershipIds : j < k /\ members[k].of # Nobody => members[j].of # Nobody
  /\ \A m, k \in MembershipIds :
       m < k /\ members[m].status \in Open /\ members[k].of = members[m].of => Rewritten(members[m].of)

\* One row is dealt, the next, to somebody without an open one; or one is
\* written, and opens only over a status nobody read.
LEMMA OrderKept ==
  ASSUME Inv, Ordered, NEW m \in MembershipIds,
         \A k \in MembershipIds : k # m => members'[k] = members[k],
         members'[m].of # Nobody,
         overwritten \subseteq overwritten',
         \/ /\ members[m].of = Nobody
            /\ \A j \in MembershipIds : j < m => members[j].of # Nobody
            /\ OpenOf(members'[m].of) = {}
            /\ members'[m].of \in People
         \/ /\ members[m].of # Nobody
            /\ members'[m].of = members[m].of
            /\ members'[m].status \in Open => members[m].status \in Open \/ <<"membership", m>> \in overwritten'
  PROVE  Ordered'
  <1>1. \A j \in MembershipIds : members[j].of # Nobody => members'[j].of = members[j].of
    OBVIOUS
  <1>2. \A p : p # Nobody /\ Rewritten(p) => Rewritten(p)'
    BY <1>1 DEF Rewritten
  <1>3. ASSUME NEW j \in MembershipIds, NEW k \in MembershipIds, j < k, members'[k].of # Nobody
        PROVE  members'[j].of # Nobody
    BY <1>3, OfficesAssumption DEF Ordered
  <1>4. ASSUME NEW j \in MembershipIds, NEW k \in MembershipIds, j < k,
               members'[j].status \in Open, members'[k].of = members'[j].of
        PROVE  Rewritten(members[j].of)'
    <2>1. members'[j].of # Nobody /\ members'[k].of # Nobody
      <3>1. CASE j = m
        BY <1>4, <3>1
      <3>2. CASE j # m
        BY <1>4, <3>2 DEF Inv, BlankRows, NoMembership, Open
      <3> QED
        BY <3>1, <3>2, <1>4
    <2>2. CASE members[m].of = Nobody
      <3>1. k # m
        BY <1>4, <2>1, <2>2 DEF OpenOf
      <3>2. j # m
        BY <1>4, <2>1, <2>2, <3>1 DEF Ordered
      <3> QED
        BY <1>2, <1>4, <2>1, <3>1, <3>2 DEF Ordered
    <2>3. CASE members[m].of # Nobody
      <3>1. members'[j].of = members[j].of /\ members'[k].of = members[k].of
        BY <2>3
      <3>2. CASE members[j].status \in Open
        BY <1>2, <1>4, <2>1, <3>1, <3>2 DEF Ordered
      <3>3. CASE members[j].status \notin Open
        BY <1>4, <2>3, <3>1, <3>3 DEF Rewritten
      <3> QED
        BY <3>2, <3>3
    <2> QED
      BY <2>2, <2>3
  <1> QED
    BY <1>3, <1>4 DEF Ordered

\* Where no membership changes the order stands.
LEMMA OrderStill ==
  ASSUME Ordered, members' = members, overwritten \subseteq overwritten'
  PROVE  Ordered'
  BY DEF Ordered, Rewritten

\* The row that is dealt next.
LEMMA NextRow ==
  ASSUME Inv, UnusedRows # {}
  PROVE  \E m \in MembershipIds :
           /\ m = First(UnusedRows)
           /\ members[m] = NoMembership
           /\ \A j \in MembershipIds : j < m => members[j].of # Nobody
  <1>1. UnusedRows \subseteq 1 .. MaxMemberships
    BY DEF UnusedRows
  <1>2. First(UnusedRows) \in UnusedRows /\ \A y \in UnusedRows : First(UnusedRows) <= y
    BY <1>1, FirstIsIn, OfficesAssumption
  <1>3. PICK m \in MembershipIds : m = First(UnusedRows)
    BY <1>1, <1>2
  <1>4. m \in UnusedRows /\ \A y \in UnusedRows : m <= y
    BY <1>2, <1>3
  <1>5. \A j \in MembershipIds : j < m => j \notin UnusedRows
    BY <1>4, OfficesAssumption
  <1> QED
    BY <1>3, <1>4, <1>5 DEF UnusedRows, Inv, BlankRows

\* Every step keeps the order.
LEMMA NextOrdered == Inv /\ Ordered /\ [Next]_vars => Ordered'
  <1> SUFFICES ASSUME Inv, Ordered, [Next]_vars PROVE Ordered'
    OBVIOUS
  <1>1. members \in [MembershipIds -> MembershipRow]
    BY DEF Inv, OfficesTypeOK
  <1>2. ASSUME NEW r \in Requests, NEW p \in People, UnusedRows # {}, RoomToOpen(0, p), NEW row, row.of = p,
               members' = [members EXCEPT ![First(UnusedRows)] = row], overwritten \subseteq overwritten'
        PROVE  Ordered'
    <2>1. PICK m \in MembershipIds :
            /\ m = First(UnusedRows)
            /\ members[m] = NoMembership
            /\ \A j \in MembershipIds : j < m => members[j].of # Nobody
      BY <1>2, NextRow
    <2>2. members[m].of = Nobody
      BY <2>1 DEF NoMembership
    <2>3. members'[m].of = p /\ \A k \in MembershipIds : k # m => members'[k] = members[k]
      BY <1>1, <1>2, <2>1
    <2>4. OpenOf(p) = {}
      BY <1>2, OfficesAssumption DEF RoomToOpen, OpenOf
    <2> QED
      BY <1>2, <2>1, <2>2, <2>3, <2>4, OrderKept, OfficesAssumption
  <1>3. CASE UNCHANGED members /\ overwritten \subseteq overwritten'
    BY <1>3, OrderStill
  <1>4. ASSUME NEW r \in Requests, MembershipCreated(r) PROVE Ordered'
    <2>1. requests[r].on \in People
      BY <1>4 DEF MembershipCreated, At, Inv, RequestsSound, Sound
    <2>2. PICK row : /\ row.of = requests[r].on
                     /\ members' = [members EXCEPT ![First(UnusedRows)] = row]
      <3> DEFINE new == [of |-> requests[r].on, status |-> requests[r].seen, told |-> "none",
                         by |-> IF requests[r].op = "addMember" THEN requests[r].by ELSE Nobody]
      <3>1. members' = [members EXCEPT ![First(UnusedRows)] = new]
        BY <1>4 DEF MembershipCreated
      <3>2. new.of = requests[r].on
        OBVIOUS
      <3> HIDE DEF new
      <3> QED
        BY <3>1, <3>2
    <2> QED
      BY <1>2, <1>4, <2>1, <2>2 DEF MembershipCreated
  <1>5. ASSUME NEW r \in Requests, DecideWrites(r) PROVE Ordered'
    <2>1. PICK m \in MembershipIds : m = requests[r].on /\ members[m].of # Nobody
      BY <1>5 DEF DecideWrites, At, Inv, RequestsSound, Sound
    <2>2. requests[r].seen = "PENDING"
      BY <1>5 DEF DecideWrites, At, Inv, RequestsSound, Sound
    <2>3. /\ members'[m].of = members[m].of
          /\ \A k \in MembershipIds : k # m => members'[k] = members[k]
      <3>1. members[m] \in MembershipRow
        BY <1>1
      <3>2. members' = [members EXCEPT ![m].status = requests[r].to, ![m].by = requests[r].by,
              ![m].told = IF members[m].told = "none" THEN requests[r].to ELSE members[m].told]
        BY <1>5, <2>1 DEF DecideWrites
      <3> QED
        BY <1>1, <3>1, <3>2 DEF MembershipRow
    <2>4. /\ overwritten \subseteq overwritten'
          /\ members[m].status \in Open \/ <<"membership", m>> \in overwritten'
      BY <1>5, <2>1, <2>2 DEF DecideWrites, Overwrites, Open
    <2> QED
      BY <2>1, <2>3, <2>4, OrderKept
  <1>6. ASSUME NEW r \in Requests, DepartureWrites(r) PROVE Ordered'
    <2>1. PICK m \in MembershipIds : m = requests[r].row /\ members[m].of # Nobody
      BY <1>6 DEF DepartureWrites, At, Inv, RequestsSound, Sound
    <2>2. PICK status \in {"LEFT", "REMOVED"} :
            members' = [members EXCEPT ![m].status = status, ![m].by = requests[r].by]
      BY <1>6, <2>1 DEF DepartureWrites
    <2>3. /\ members'[m].of = members[m].of /\ members'[m].status \notin Open
          /\ \A k \in MembershipIds : k # m => members'[k] = members[k]
      <3>1. members[m] \in MembershipRow
        BY <1>1
      <3> QED
        BY <1>1, <2>2, <3>1 DEF MembershipRow, Open
    <2>4. overwritten \subseteq overwritten'
      BY <1>6 DEF DepartureWrites, Overwrites
    <2> QED
      BY <2>1, <2>3, <2>4, OrderKept
  <1>7. ASSUME NEW r \in Requests, AcceptJoins(r) PROVE Ordered'
    <2> DEFINE q == requests[r]
    <2>1. q.by \in People
      <3>1. q.on \in AppointmentIds /\ q.by = appts[q.on].of /\ q.by # Nobody
        BY <1>7 DEF AcceptJoins, At, Inv, RequestsSound, Sound
      <3>2. appts[q.on] \in AppointmentRow
        BY <3>1 DEF Inv, OfficesTypeOK
      <3> QED
        BY <3>1, <3>2 DEF AppointmentRow
    <2>2. CASE q.row = 0
      <3>1. PICK row : row.of = q.by /\ members' = [members EXCEPT ![First(UnusedRows)] = row]
        BY <1>7, <2>2 DEF AcceptJoins
      <3> QED
        BY <1>2, <1>7, <2>1, <2>2, <3>1 DEF AcceptJoins
    <2>3. CASE q.row # 0 /\ q.seen = "PENDING"
      <3>1. PICK m \in MembershipIds : m = q.row /\ members[m].of = q.by
        BY <1>7, <2>3 DEF AcceptJoins, At, Inv, RequestsSound, Sound
      <3>2. members' = [members EXCEPT ![m].status = "ACTIVE", ![m].by = q.by]
        BY <1>7, <2>3, <3>1 DEF AcceptJoins
      <3>3. /\ members'[m].of = members[m].of
            /\ \A k \in MembershipIds : k # m => members'[k] = members[k]
        <4>1. members[m] \in MembershipRow
          BY <1>1
        <4> QED
          BY <1>1, <3>2, <4>1 DEF MembershipRow
      <3>4. /\ overwritten \subseteq overwritten'
            /\ members[m].status \in Open \/ <<"membership", m>> \in overwritten'
        BY <1>7, <2>3, <3>1 DEF AcceptJoins, Overwrites, Open
      <3> QED
        BY <2>1, <3>1, <3>3, <3>4, OrderKept, OfficesAssumption
    <2>4. CASE q.row # 0 /\ q.seen = "ACTIVE"
      BY <1>3, <1>7, <2>4 DEF AcceptJoins, Overwrites
    <2> QED
      BY <1>7, <2>2, <2>3, <2>4 DEF AcceptJoins
  <1>8. ASSUME NEW r \in Requests, Step(r),
               ~ MembershipCreated(r), ~ DecideWrites(r), ~ DepartureWrites(r), ~ AcceptJoins(r)
        PROVE  UNCHANGED members /\ overwritten \subseteq overwritten'
    <2>1. CASE \/ OfferReads(r) \/ EndReads(r) \/ AnswerReads(r) \/ RequestReads(r) \/ AddReads(r)
               \/ DecideReads(r) \/ DepartureReads(r) \/ EditReads(r) \/ StatusReads(r) \/ AssignReads(r)
      BY <2>1 DEF OfferReads, EndReads, AnswerReads, RequestReads, AddReads, DecideReads, DepartureReads,
                  EditReads, StatusReads, AssignReads, Admit
    <2>2. CASE \/ OfferWrites(r) \/ EndWrites(r) \/ AnswerExpires(r) \/ DeclineWrites(r)
               \/ AcceptActivates(r) \/ EditWrites(r) \/ StatusWrites(r) \/ AssignWrites(r) \/ Drop(r)
      BY <2>2 DEF OfferWrites, EndWrites, AnswerExpires, DeclineWrites, AcceptActivates, EditWrites,
                  StatusWrites, AssignWrites, Drop, Overwrites
    <2> QED
      BY <1>8, <2>1, <2>2 DEF Step
  <1>9. (\E a \in AppointmentIds : Lapse(a)) \/ UNCHANGED vars => UNCHANGED <<members, overwritten>>
    BY DEF Lapse, vars
  <1> QED
    BY <1>3, <1>4, <1>5, <1>6, <1>7, <1>8, <1>9 DEF Next

\* The latest row and the open row of one person agree.
LEMMA LatestIsOpen ==
  ASSUME Inv, Ordered, NEW p \in People
  PROVE  /\ viewerMembershipStatus(p) \in Open =>
              \E m \in OpenOf(p) : members[m].status = viewerMembershipStatus(p)
         /\ viewerMembershipStatus(p) \notin Open => OpenOf(p) = {} \/ Rewritten(p)
  <1> DEFINE rows == {m \in MembershipIds : members[m].of = p}
             last == CHOOSE m \in rows : \A k \in rows : k <= m
  <1>3. CASE rows = {}
    <2>1. viewerMembershipStatus(p) = "none"
      BY <1>3 DEF viewerMembershipStatus
    <2>2. OpenOf(p) = {}
      BY <1>3 DEF OpenOf
    <2> QED
      BY <2>1, <2>2 DEF Open
  <1>4. CASE rows # {}
    <2>1. rows \subseteq 1 .. MaxMemberships
      OBVIOUS
    <2>2. IsFiniteSet(1 .. MaxMemberships)
      BY FS_Interval, OfficesAssumption
    <2>3. IsFiniteSet(rows)
      BY <2>1, <2>2, FS_Subset
    <2>4. rows \subseteq Int
      BY <2>1, OfficesAssumption
    <2>5. \E m \in rows : \A k \in rows : k <= m
      <3> HIDE DEF rows
      <3> QED
        BY <1>4, <2>3, <2>4, MaxOfFiniteSet
    <2>6. last \in rows /\ \A k \in rows : k <= last
      BY <2>5
    <2>7. viewerMembershipStatus(p) = members[last].status
      BY <1>4 DEF viewerMembershipStatus
    <2> HIDE DEF last
    <2>8. members[last].status \in Open => last \in OpenOf(p)
      BY <2>6 DEF OpenOf
    <2>9. ASSUME members[last].status \notin Open, OpenOf(p) # {} PROVE Rewritten(p)
      <3>1. PICK m \in MembershipIds : members[m].of = p /\ members[m].status \in Open
        BY <2>9 DEF OpenOf
      <3>2. m <= last /\ m # last
        BY <2>6, <2>9, <3>1
      <3>3. m < last
        BY <2>4, <2>6, <3>1, <3>2
      <3> QED
        BY <2>6, <3>1, <3>3 DEF Ordered
    <2> QED
      BY <2>7, <2>8, <2>9
  <1> QED
    BY <1>3, <1>4

\* So the button and the routes agree.
LEMMA Controls == Inv /\ Ordered => ControlsAreHonoured
  <1> SUFFICES ASSUME Inv, Ordered, NEW p \in People, ~ Rewritten(p) PROVE PressWorks(p)
    BY DEF ControlsAreHonoured, Rewritten
  <1> DEFINE status == viewerMembershipStatus(p)
  <1>1. /\ status \in Open => \E m \in OpenOf(p) : members[m].status = status
        /\ status \notin Open => OpenOf(p) = {}
    BY LatestIsOpen
  <1>2. CASE status = "ACTIVE"
    <2>1. decide(p) = "leave"
      BY <1>2 DEF decide
    <2> QED
      BY <1>1, <1>2, <2>1 DEF PressWorks, Open
  <1>3. CASE status = "PENDING"
    <2>1. decide(p) = "withdraw"
      BY <1>3 DEF decide
    <2> QED
      BY <1>1, <1>3, <2>1 DEF PressWorks, Open
  <1>4. CASE status \notin Open
    <2>1. OpenOf(p) = {} /\ RoomToOpen(0, p)
      BY <1>1, <1>4 DEF RoomToOpen
    <2>2. decide(p) \in {"join", "request"} => OpenToRequests
      BY <1>4 DEF decide, OpenToRequests, acceptsNewActivity, Open
    <2>3. decide(p) \in {"join", "request", "blocked"}
      BY <1>4 DEF decide, Open
    <2> QED
      BY <2>1, <2>2, <2>3 DEF PressWorks
  <1> QED
    BY <1>2, <1>3, <1>4 DEF Open

(***************************************************************************)
(* The theorems.                                                           *)
(***************************************************************************)
\* The invariant holds in every reachable state.
LEMMA SpecInv == Spec => []Inv
  BY InitInv, NextInv, PTL DEF Spec

\* So does the order of the memberships.
LEMMA SpecOrdered == Spec => []Ordered
  <1>1. Init => Ordered
    BY DEF Init, Ordered, NoMembership, Open
  <1> QED
    BY <1>1, SpecInv, NextOrdered, PTL DEF Spec

\* OfficesTypeOK: the tables keep their types.
THEOREM OfficesTypesHold == Spec => []OfficesTypeOK
  <1>1. Inv => OfficesTypeOK
    BY DEF Inv
  <1> QED
    BY <1>1, SpecInv, PTL

\* However many requests interleave, nobody holds two open memberships, and
\* the club has one active Lead: club_membership_one_open_per_user and
\* one_active_lead are never wanted by two at once.
THEOREM IndexesAlwaysHold == Spec => []IndexesHold
  <1>1. Inv => IndexesHold
    <2> SUFFICES ASSUME Inv PROVE IndexesHold
      OBVIOUS
    <2>1. OneOpenMembership
      BY AtMostOne DEF Inv, Indexed, OpenAgree, OneOpenMembership
    <2>2. OneActiveLead
      <3> DEFINE S == {a \in AppointmentsIn("ACTIVE") : appts[a].role = "LEAD"}
      <3>1. \A a, b \in S : a = b
        BY DEF Inv, Indexed, LeadsAgree
      <3>2. Cardinality(S) <= 1
        BY <3>1, AtMostOne
      <3> QED
        BY <3>2 DEF OneActiveLead
    <2> QED
      BY <2>1, <2>2 DEF IndexesHold
  <1> QED
    BY <1>1, SpecInv, PTL

\* Every office and every membership traces through officers to an Admin.
THEOREM AuthorityAlwaysTraces == Spec => []AuthorityTraces
  <1>1. Inv => AuthorityTraces
    BY DEF Inv
  <1> QED
    BY <1>1, SpecInv, PTL

\* Whoever is in office has a membership that is or was open, or one written over.
THEOREM OfficersAlwaysAdmitted == Spec => []OfficersWereAdmitted
  <1>1. Inv => OfficersWereAdmitted
    BY DEF Inv
  <1> QED
    BY <1>1, SpecInv, PTL

\* The one notice of a decision tells the decision that stands, but for a row
\* written over.
THEOREM NoticesStand == Spec => []ToldWhatStands
  <1>1. Inv => ToldWhatStands
    BY DEF Inv
  <1> QED
    BY <1>1, SpecInv, PTL

\* The join button, which goes by a person's latest row, and the routes, which
\* go by the open one, agree: who is in is offered the way out and nobody else,
\* who is offered the way in finds it open, but for a row written over.  The
\* archived club's refusal is not part of it.
THEOREM ControlsAlwaysHonoured == Spec => []ControlsAreHonoured
  BY SpecInv, SpecOrdered, Controls, PTL
=============================================================================
