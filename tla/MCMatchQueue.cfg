CONSTANTS
    AgentMax = 10
    Id <- MCId
    Lineups <- MCLineups
    Teams <- MCTeams
    Config <- MCConfig
    Verified <- MCVerified

SPECIFICATION Spec
CHECK_DEADLOCK FALSE

INVARIANTS
    TypeOK
    TimerBacked

PROPERTIES
    PartiesAtomic
    AddedWithinCap
    StrictSidesEqual
    BackfillRepairs
    ExclusionFair
    DefendersExact
    RotationFair
