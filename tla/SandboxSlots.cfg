CONSTANTS
    e1 = e1
    e2 = e2
    e3 = e3
    Runs <- MCThree
    Limit = 2
SPECIFICATION FairSpec
INVARIANTS
    SlotsConserved
    OrphanHasReason
PROPERTY CallReturns
CHECK_DEADLOCK FALSE
