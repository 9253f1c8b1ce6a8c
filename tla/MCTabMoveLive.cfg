SPECIFICATION FairSpec
CONSTANTS
    None = None
    Terms = {t1}
    MaxWindow = 2
    MaxMoves = 1
PROPERTIES
    PanesSettle
CHECK_DEADLOCK FALSE
