CONSTANTS
    Officers = {ann, bob}
    Students = {sue, tom}
    Holders = {sue}
    Rosters <- MCRosters
    Texts <- MCTexts
    Spans <- MCSpans
    Rows <- MCRows
    Slots = {c1, c2}
    MaxTyped = 2
    MaxSent = 2
    MaxAround = 1
SYMMETRY Interchangeable
SPECIFICATION Spec
INVARIANTS
    NobodysEditIsUndone
    StoredRowHolds
    NobodyMissesAMove
