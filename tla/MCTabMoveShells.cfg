SPECIFICATION Spec
CONSTANTS
    None = None
    Terms = {t1}
    MaxWindow = 2
    MaxMoves = 1
INVARIANTS
    ShellsShown
CHECK_DEADLOCK FALSE
