CONSTANTS
    k1 = k1
    None = None
    Keys <- MCKey
    Caps <- MCCaps
    PerMinute = 2
    Window = 1
    MaxRunCost = 1
    Ttl = 2
    MaxNow = 3
    MaxBoots = 1
    MaxRunning = 2
    MaxMcp = 1
    MaxTokens = 1
SPECIFICATION Spec
INVARIANTS
    WindowBound
    RefusedOnlyWhenFull
    OvershootBounded
PROPERTY RevokedOpensNothing
CHECK_DEADLOCK FALSE
