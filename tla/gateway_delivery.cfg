SPECIFICATION Spec
CONSTANTS
    u1 = u1
    u2 = u2
    i1 = i1
    i2 = i2
    User = {u1, u2}
    Socket = {s1, s2, s3}
    Instance = {i1}
    Host = {"0.0.0.0"}
    HostOf <- OnlyHost
    MaxMessages = 2
    Faults = {"redis", "crash"}
    None = None
SYMMETRY Symmetry
CHECK_DEADLOCK FALSE
INVARIANTS
    ListsAreRegistered
    InOrderOnce
PROPERTIES
    UndisturbedSendReachesAll
    OnlyCrashOrNewGroupLoses
    ImplementsMessageFeed
