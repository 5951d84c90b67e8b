CONSTANTS
    AgentMax = 10
    Id <- MCId
    Lineups <- MCLineups
    Teams <- MCTeams
    Config <- MCOpen
    Verified <- MCVerified

SPECIFICATION Spec
CHECK_DEADLOCK FALSE

PROPERTY NewcomersEven
