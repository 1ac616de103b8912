SPECIFICATION Spec
CONSTANTS
    User = {u1, u2}
    Field = {"bio"}
    Value = {v1}
    File = {f1, f2}
    Worker = {w1, w2}
    None = None
SYMMETRY Symmetry
INVARIANTS
    TypeOK
    ShownIsAVersion
    AskedWasInTheTable
    AvatarIsTheLastSaved
PROPERTIES
    ColumnsAreIndependent
    ImplementsProfileBook
