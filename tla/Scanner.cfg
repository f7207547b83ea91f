CONSTANTS
    p1 = p1  p2 = p2  e1 = e1  e2 = e2  d1 = d1  d2 = d2  r1 = r1  r2 = r2  None = None
    People <- OnePerson
    Events <- TwoEvents
    Devices <- TwoDevices
    Fixed <- OneDevice
    Bookings = {"CONFIRMED", "WAITLISTED"}
    Requests <- TwoRequests
    LastVersion = 2
    MaxSent = 2
SPECIFICATION Spec
SYMMETRY DeskSymmetry
INVARIANTS ScannerTypeOK ScreensTellTheTruth RetiredImagesStayDead
