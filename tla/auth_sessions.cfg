SPECIFICATION Spec
CONSTANTS
    User = {u1, u2}
    Session = {s1, s2}
    Jti = {j1, j2, j3, j4}
    Worker = {w1, w2}
    TicksPerSecond = 2
    AccessSeconds = 1
    RefreshSeconds = 2
    MaxTime = 2
    None = None
SYMMETRY Symmetry
INVARIANTS
    TypeOK
    RowOutlivesItsTokens
PROPERTIES
    OverForGood
    ImplementsSessionBook
    LogoutEndsOwnSessions
    CheckRefusesRevoked
