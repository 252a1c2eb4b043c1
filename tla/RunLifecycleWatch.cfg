CONSTANTS
    r1 = r1
    r2 = r2
    Runs <- MCOneRun
    Keyed <- MCKeyed
    Sockets = {s1, s2}
    MaxTurns = 1
    MaxFaults = 2
    MaxCrashes = 1
SPECIFICATION FairSpec
INVARIANT SubscribersAreWatching
 
CHECK_DEADLOCK FALSE
