CONSTANTS
    r1 = r1
    r2 = r2
    Runs <- MCOneRun
    Keyed <- MCKeyed
    Sockets = {}
    MaxTurns = 1
    MaxFaults = 0
    MaxCrashes = 0
SPECIFICATION Spec
INVARIANTS
    EveryRunMetered
CHECK_DEADLOCK FALSE
