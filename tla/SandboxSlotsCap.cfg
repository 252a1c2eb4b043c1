CONSTANTS
    e1 = e1
    e2 = e2
    e3 = e3
    Runs <- MCTwo
    Limit = 1
SPECIFICATION Spec
INVARIANT ContainersWithinLimit
CHECK_DEADLOCK FALSE
