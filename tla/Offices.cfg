CONSTANTS
    chief = chief  ann = ann  bob = bob  r1 = r1  r2 = r2  Nobody = Nobody
    People <- Everybody
    Admins <- OneAdmin
    Requests <- Pair
    Offered = {"LEAD", "OPERATIONS"}
    Assigned = {"OPERATIONS"}
    Policies = {"OPEN", "APPROVAL_REQUIRED"}
    ClubStatuses = {"ACTIVE", "ARCHIVED"}
    MaxAppointments = 2
    MaxMemberships = 2
    MaxServed = 5
    MaxAssignments = 1
SPECIFICATION Spec
SYMMETRY Symmetry
INVARIANTS OfficesTypeOK IndexesHold AuthorityTraces OfficersWereAdmitted ToldWhatStands ControlsAreHonoured
CHECK_DEADLOCK FALSE
