CONSTANTS
    AgentMax = 10
    Id <- MCId
    Lineups <- MCLineups
    Teams <- MCTeams
    Config <- MCTight
    Verified <- MCVerified

SPECIFICATION Spec
CHECK_DEADLOCK FALSE

INVARIANT SubsetExact
