CONSTANTS
    chief = chief  ann = ann  bob = bob  r1 = r1  r2 = r2  Nobody = Nobody
    People <- Everybody
    Admins <- OneAdmin
    Requests <- Pair
    Offered = {"CTO"}
    Assigned = {"OPERATIONS"}
    Policies = {"OPEN"}
    ClubStatuses = {"ACTIVE", "ARCHIVED"}
    MaxAppointments = 1
    MaxMemberships = 1
    MaxServed = 3
    MaxAssignments = 0
SPECIFICATION Spec
INVARIANT ButtonsAreTrue
CHECK_DEADLOCK FALSE
