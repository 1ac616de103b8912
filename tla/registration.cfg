SPECIFICATION Spec
CONSTANTS
    Username = {n1, x}
    Email = {x, e2}
    UserId = {i1, i2, i3}
    Code = {k1, k2}
    Worker = {w1, w2}
    Call = {c1, c2}
    None = None
INVARIANTS
    TypeOK
    NameIsWon
PROPERTIES
    AccountsMatchProfiles
    VerifiedWithItsCode
    ImplementsIdentity
