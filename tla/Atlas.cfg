SPECIFICATION FairSpec
CONSTANTS
    None = None
    Arrivals = {a1, a2}
    Calls = {u1}
    MaxDay = 2
INVARIANTS
    TypeOK
    RepliesSettle
PROPERTIES
    SpentOnce
    SlotIsFreed
CHECK_DEADLOCK FALSE
