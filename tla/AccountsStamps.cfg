CONSTANTS
    p1 = p1  p2 = p2  p3 = p3  f1 = f1  f2 = f2  f3 = f3  l1 = l1  r1 = r1  r2 = r2  r3 = r3
    Nobody = Nobody  Free = Free
    People <- OnePerson
    Families <- TwoFamilies
    Links <- NoLinks
    Requests <- TwoRequests
    MaxTick = 2
    MaxChanges = 2
SPECIFICATION Spec
PROPERTY EndedTokensStayEnded
