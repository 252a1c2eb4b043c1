CONSTANTS
    Calls <- MCCalls
    Enabled <- MCEnabled
    MaxIterations = 3
    MaxCalls = 2
SPECIFICATION Spec
INVARIANTS
    ProviderCallsValid
    ToolResultsAreSeen
    NeverRecursionError
    SandboxAccounted
    VerdictHasReason
PROPERTIES
    ImplementsRun
    RunEnds
