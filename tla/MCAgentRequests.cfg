SPECIFICATION FairSpec
CONSTANTS
    r1 = r1
    a1 = a1
    a2 = a2
    None = None
    Roots = {r1}
    Names = {n1}
    Ptys = {p1}
    Callers = {c1, c2}
    Apps = {a1}
    AppRoot <- MCAppRoot
    RegistryMax = 1
    MaxId = 2
    MaxWindow = 2
INVARIANTS
    TypeOK
    NoStrandedAgent
    OneCardPerSecret
    CardsOnScreen
    ApprovedBeforeTyping
PROPERTIES
    CapHolds
    EveryCallReturns
    SharedFate
VIEW WithoutIdle
