SPECIFICATION Spec
CONSTANTS
    User = {u1, u2}
    ChatId = {c1}
    RowId = {r1, r2}
    Worker = {w1, w2}
    RetainedEvents = 0
    None = None
SYMMETRY Symmetry
PROPERTIES
    OwnerNeverLeaves
