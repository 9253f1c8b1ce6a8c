SPECIFICATION Spec
CONSTANTS
    None = None
    Clients = {c1, c2}
    Names = {n1, n2}
    Values = {v1}
    OldItems = {n1, n2}
INVARIANTS
    TypeOK
    CacheTruthful
PROPERTIES
    StoreImplemented
    NoHiddenValue
    IndexKeepsNames
SYMMETRY AlikeAll
VIEW WithoutAudit
