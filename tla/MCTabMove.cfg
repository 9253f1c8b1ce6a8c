SPECIFICATION Spec
CONSTANTS
    None = None
    Terms = {t1}
    MaxWindow = 2
    MaxMoves = 2
INVARIANTS
    TypeOK
    TabInOnePlace
    PaneKeepsSession
PROPERTIES
    MoveSparesShells
CHECK_DEADLOCK FALSE
VIEW WithoutSpentPanes
