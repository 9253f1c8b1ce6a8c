SPECIFICATION Spec
CONSTANTS
    None = None
    Procs = {1}
    PortOf <- MCPortOf
    Second = 2
    Threshold = 0
    MaxClock = 3
    MaxPolls = 1
INVARIANTS
    IgnoredStaysAway
