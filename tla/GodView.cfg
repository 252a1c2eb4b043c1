CONSTANTS
    MaxRuns = 3
    MaxFaults = 1
    Sandboxed = {1, 2}
    Failing = {2}
    SharedIds = FALSE
SPECIFICATION Spec
INVARIANTS
    FeedIsOfTheRun
    ErrorIsShown
    UnlockedHasReason
    CanvasShowsOpenSandboxes
PROPERTY LockedEnds
CHECK_DEADLOCK FALSE
