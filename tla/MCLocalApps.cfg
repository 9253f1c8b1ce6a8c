SPECIFICATION FairSpec
CONSTANTS
    None = None
    Procs = {1, 2}
    PortOf <- MCPortOf
    Second = 2
    Threshold = 0
    MaxClock = 3
    MaxPolls = 2
INVARIANTS
    TypeOK
    OneCardPerPort
    StopsOnlyLongRunning
PROPERTIES
    EndedStaysRetired
