---------------------------- MODULE Permissions ----------------------------
(***************************************************************************)
(* Who may do what: the permission matrix and the deciding function of     *)
(* apps/api/src/auth/permissions.ts, the field maps of                     *)
(* auth/field-permissions.ts, and the tables the web application mirrors   *)
(* to decide which sections, actions and fields it offers                  *)
(* (apps/web/src/lib/club-sections.ts, event-actions.ts, club-fields.ts,   *)
(* event-fields.ts).                                                       *)
(* A module of operators: the facts it decides on are another module's.    *)
(***************************************************************************)

ClubRoles        == {"LEAD", "VICE_LEAD", "MARKETING", "CTO", "OPERATIONS"}
Responsibilities == {"EVENT_LEAD", "OPERATIONS", "MARKETING"}
Leads            == {"LEAD", "VICE_LEAD"}

\* ActorFacts: the platform role, and the ACTIVE club roles and the event
\* responsibilities inside the scope of the request.
ActorFacts == [platformRole : {"STUDENT", "ADMIN"}, clubRoles : SUBSET ClubRoles,
               eventResponsibilities : SUBSET Responsibilities]

Permission ==
  {"user:list", "user:search", "user:suspend", "user:edit", "department:manage",
   "club:create", "club:status", "club:appoint-lead", "club:edit", "club:team-manage",
   "membership:decide", "event:create", "event:edit", "event:publish", "event:cancel",
   "event:assign", "registration:read", "attendance:scan", "attendance:correct",
   "certificate:manage", "report:read", "audit:read"}

\* The club column of PERMISSIONS: the roles that carry each permission.
ClubColumn(p) ==
  CASE p \in {"club:team-manage", "event:cancel", "audit:read"} -> {"LEAD"}
    [] p \in {"user:search", "event:create", "event:publish", "event:assign",
              "registration:read", "report:read"} -> Leads
    [] p = "club:edit" -> Leads \union {"MARKETING"}
    [] p = "membership:decide" -> Leads \union {"OPERATIONS"}
    [] p \in {"attendance:scan", "attendance:correct"} -> {"LEAD", "OPERATIONS"}
    [] p \in {"event:edit", "certificate:manage"} -> ClubRoles
    [] OTHER -> {}

\* The event column: what an assignment to one event carries.
EventColumn(p) ==
  IF p \in {"registration:read", "attendance:scan"} THEN {"EVENT_LEAD", "OPERATIONS"} ELSE {}

\* evaluate and matches.  Every rule names ADMIN; a name no rule has is refused.
Evaluate(p, facts) ==
  /\ p \in Permission
  /\ \/ facts.platformRole = "ADMIN"
     \/ ClubColumn(p) \intersect facts.clubRoles # {}
     \/ EventColumn(p) \intersect facts.eventResponsibilities # {}

(***************************************************************************)
(* Which keys of a patch.  A key no map has is refused.                    *)
(***************************************************************************)
CLUB_FIELDS ==
  [field \in {"description", "category", "logoUploaded", "bannerUploaded",
              "departmentId", "academicYear", "membershipPolicy"} |->
     IF field \in {"departmentId", "academicYear", "membershipPolicy"}
     THEN {} ELSE {"MARKETING"}]

PublicFields    == {"title", "summary", "description", "eventType", "audience", "posterUploaded"}
TechnicalFields == {"onlineUrl", "timezone", "attendancePolicy", "certificateEnabled",
                    "certificateTitle", "certificateSignatory"}
LogisticsFields == {"venue", "capacity", "waitlistEnabled"}
LeadFields      == {"slug", "startsAt", "endsAt", "registrationOpensAt",
                    "registrationClosesAt", "requiresClubMembership"}

EVENT_FIELDS ==
  [field \in PublicFields \union TechnicalFields \union LogisticsFields \union LeadFields |->
     CASE field \in PublicFields    -> {"MARKETING"}
       [] field \in TechnicalFields -> {"CTO"}
       [] field \in LogisticsFields -> {"OPERATIONS"}
       [] OTHER                     -> {}]

\* assertFieldsAllowed, for the keys of one body and the roles its map gives each.
FieldsAllowed(keys, fields, facts) ==
  \/ facts.platformRole = "ADMIN"
  \/ facts.clubRoles \intersect Leads # {}
  \/ \A key \in keys : key \in DOMAIN fields /\ fields[key] \intersect facts.clubRoles # {}

(***************************************************************************)
(* The web application's mirrors, from the roles the API told the page.    *)
(***************************************************************************)
ClubSections == {"edit", "members", "team", "reports"}

CLUB_SECTION_ROLES(section) ==
  CASE section = "edit"    -> {"LEAD", "VICE_LEAD", "MARKETING"}
    [] section = "members" -> {"LEAD", "VICE_LEAD", "OPERATIONS"}
    [] section = "team"    -> {"LEAD"}
    [] section = "reports" -> {"LEAD", "VICE_LEAD"}

clubSectionsFor(clubRoles, platformRole) ==
  {s \in ClubSections : platformRole = "ADMIN" \/ CLUB_SECTION_ROLES(s) \intersect clubRoles # {}}

canCreateEvent(clubRoles, platformRole) ==
  platformRole = "ADMIN" \/ clubRoles \intersect {"LEAD", "VICE_LEAD"} # {}

EventActions == {"publish", "edit", "attendees", "checkIn", "certificates", "cancel"}

\* The two columns of EVENT_ACTION_ROLES.
EventActionClubRoles(action) ==
  CASE action \in {"publish", "attendees"}  -> {"LEAD", "VICE_LEAD"}
    [] action \in {"edit", "certificates"}  -> {"LEAD", "VICE_LEAD", "MARKETING", "CTO", "OPERATIONS"}
    [] action = "checkIn"                   -> {"LEAD", "OPERATIONS"}
    [] action = "cancel"                    -> {"LEAD"}
EventActionAssignments(action) ==
  IF action \in {"attendees", "checkIn"} THEN {"EVENT_LEAD", "OPERATIONS"} ELSE {}

\* eventActionsFor, at an event whose status and hour suit every action.
eventActionsFor(clubRoles, responsibilities, platformRole) ==
  {a \in EventActions : \/ platformRole = "ADMIN"
                        \/ EventActionClubRoles(a) \intersect clubRoles # {}
                        \/ EventActionAssignments(a) \intersect responsibilities # {}}

CLUB_FIELD_ROLES ==
  [field \in {"description", "category", "logoUploaded", "bannerUploaded",
              "departmentId", "academicYear", "membershipPolicy"} |->
     IF field \in {"description", "category", "logoUploaded", "bannerUploaded"}
     THEN {"MARKETING"} ELSE {}]

\* Title to poster, link to certificate, venue to waitlist; the rest is nobody's.
EVENT_FIELD_ROLES ==
  [field \in DOMAIN EVENT_FIELDS |->
     CASE field \in {"title", "summary", "description", "eventType", "audience",
                     "posterUploaded"} -> {"MARKETING"}
       [] field \in {"onlineUrl", "timezone", "attendancePolicy", "certificateEnabled",
                     "certificateTitle", "certificateSignatory"} -> {"CTO"}
       [] field \in {"venue", "capacity", "waitlistEnabled"} -> {"OPERATIONS"}
       [] OTHER -> {}]

\* canEditClubField and canEditEventField.
canEditField(field, fields, clubRoles, platformRole) ==
  \/ platformRole = "ADMIN"
  \/ clubRoles \intersect Leads # {}
  \/ fields[field] \intersect clubRoles # {}

(***************************************************************************)
(* The mirrors against the originals.                                      *)
(***************************************************************************)

\* The permission behind each section and each action.
SectionPermission(s) ==
  CASE s = "edit" -> "club:edit"       [] s = "members" -> "membership:decide"
    [] s = "team" -> "club:team-manage" [] s = "reports" -> "report:read"
ActionPermission(a) ==
  CASE a = "publish"   -> "event:publish"     [] a = "edit"         -> "event:edit"
    [] a = "attendees" -> "registration:read" [] a = "certificates" -> "certificate:manage"
    [] a = "checkIn"   -> "attendance:scan"   [] a = "cancel"       -> "event:cancel"

\* On these facts the web application offers the sections, actions and fields
\* that the guard grants, no more and no fewer: two sets of tables, kept apart.
MirrorsAgree(facts) ==
  /\ clubSectionsFor(facts.clubRoles, facts.platformRole)
       = {s \in ClubSections : Evaluate(SectionPermission(s), facts)}
  /\ canCreateEvent(facts.clubRoles, facts.platformRole) <=> Evaluate("event:create", facts)
  /\ eventActionsFor(facts.clubRoles, facts.eventResponsibilities, facts.platformRole)
       = {a \in EventActions : Evaluate(ActionPermission(a), facts)}
  /\ \A field \in DOMAIN CLUB_FIELDS :
       canEditField(field, CLUB_FIELD_ROLES, facts.clubRoles, facts.platformRole)
         <=> FieldsAllowed({field}, CLUB_FIELDS, facts)
  /\ \A field \in DOMAIN EVENT_FIELDS :
       canEditField(field, EVENT_FIELD_ROLES, facts.clubRoles, facts.platformRole)
         <=> FieldsAllowed({field}, EVENT_FIELDS, facts)
=============================================================================
