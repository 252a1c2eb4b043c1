CONSTANTS
    a1 = a1
    a2 = a2
    Agents <- MCAgents
    Hosts <- MCHosts
    Under <- MCUnder
    Asked <- MCAsked
    Configured <- MCConfigured
    MaxRequests = 3
    MaxRestarts = 1
SPECIFICATION Spec
SYMMETRY MCSymmetry
INVARIANTS
    OnePendingPerHost
    ApprovalTakesEffect
    AnswerHasGrounds
PROPERTIES
    DecisionsStand
    KeepsGate
CHECK_DEADLOCK FALSE
