SPECIFICATION FairSpec
CONSTANTS
    None = None
    Roots = {r1, r2}
    Terms = {t1, t2}
    Ports = {p1}
    Callers = {c1}
    MaxCommands = 2
INVARIANTS
    TypeOK
    ActiveIsWatched
    RunningHasShell
    StartsInOwnTab
PROPERTIES
    PortIsOwn
    EveryStartReturns
    StatusCatchesUp
