SPECIFICATION Spec
CONSTANTS
    u1 = u1
    u2 = u2
    i1 = i1
    i2 = i2
    User = {u1}
    Socket = {s1, s2}
    Instance = {i1}
    Host = {"0.0.0.0"}
    HostOf <- OnlyHost
    MaxMessages = 0
    Faults = {}
    None = None
CHECK_DEADLOCK FALSE
INVARIANTS
    OnlineIsShown
