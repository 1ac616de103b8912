SPECIFICATION FairSpec
CONSTANTS
    User = {u1, u2}
    RowId = {r1, r2, r3, r4}
    Worker = {w1, w2}
    None = None
INVARIANTS
    TypeOK
    WishWasGranted
PROPERTIES
    ImplementsContactBook
    AnsweredWhenAlone
