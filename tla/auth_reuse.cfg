SPECIFICATION Spec
CONSTANTS
    User = {u1}
    Session = {s1}
    Jti = {j1, j2, j3, j4, j5, j6}
    Worker = {w1}
    TicksPerSecond = 1
    AccessSeconds = 1
    RefreshSeconds = 2
    MaxTime = 1
    None = None
SYMMETRY Symmetry
PROPERTIES
    ReuseIsRefused
