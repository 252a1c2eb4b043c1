SPECIFICATION Spec
CONSTANTS
    r1 = r1
    r2 = r2
    Runs <- MCRuns
    Routes <- MCRoutes
    Strategy = "cost"
    Prices <- MCPrices
    Unit = 4
    Responses <- MCResponses
    MaxTurns = 3
INVARIANTS
    RequestsValid
    RoutedInOrder
    MeteredWithinRounding
