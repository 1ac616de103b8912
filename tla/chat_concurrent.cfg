SPECIFICATION Spec
CONSTANTS
    User = {u1, u2}
    ChatId = {c1, c2}
    RowId = {r1, r2, r3}
    Worker = {w1, w2}
    RetainedEvents = 0
    None = None
SYMMETRY Symmetry
INVARIANTS
    RowsHaveTheirChat
    DmIsAPair
    DmIsThereToReturn
    RemovalIsDone
PROPERTIES
    DmOnlyShrinks
    RolesComeFromOwners
    MembersComeFromManagers
