CONSTANTS
    r1 = r1
    r2 = r2
    Runs <- MCRuns
    Keyed <- MCKeyed
    Sockets = {}
    MaxTurns = 0
    MaxFaults = 2
    MaxCrashes = 1
SPECIFICATION FairSpec
INVARIANTS
    TypeOK
    ChargedMeansDelivered
    FinishedMeansCharged
    StreamMissesNothing
    UnsettledHasReason
PROPERTIES
    KeepsContract
    RunSettles
    StreamEnds
CHECK_DEADLOCK FALSE
