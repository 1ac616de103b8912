SPECIFICATION FairSpec
CONSTANTS
    u1 = u1
    u2 = u2
    i1 = i1
    i2 = i2
    User = {u1}
    Socket = {s1, s2}
    Instance = {i1, i2}
    Host = {i1, i2}
    HostOf <- OwnHost
    MaxMessages = 2
    Faults = {"stall", "drop", "expiry", "kafka"}
    None = None
CHECK_DEADLOCK FALSE
INVARIANTS
    TypeOK
    PresenceIsBacked
PROPERTIES
    PushedInTheEnd
