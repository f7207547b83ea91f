CONSTANTS
    k1 = k1  k2 = k2  k3 = k3  None = None
    Keys <- ThreeKeys
    Resets <- OneReset
    Actions = {a1, a2}
    Sweeps = {s1, s2}
    Limit = 1
    Configured = TRUE
SPECIFICATION FairSpec
INVARIANT SentMeansAccepted
PROPERTY EverythingAnnouncedIsMailed
