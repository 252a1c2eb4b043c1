CONSTANTS
    c1 = c1
    c2 = c2
    n1 = n1
    Clients <- MCClients
    Names <- MCNames
    Settings <- MCSettings
    MaxSaves = 3
    MaxUses = 1
SPECIFICATION Spec
INVARIANTS
    SkillsAreWhole
    OwnerAnswers
PROPERTY HistoryKept
CHECK_DEADLOCK FALSE
