SPECIFICATION Spec
CONSTANTS
    User = {u1, u2}
    ChatId = {c1}
    RowId = {r1, r2}
    Worker = {w1, w2}
    RetainedEvents = 1
    None = None
SYMMETRY Symmetry
INVARIANTS
    TypeOK
    EventsAreTrue
PROPERTIES
    ImplementsChatRoster
