CONSTANTS
    p1 = p1
    Player = {p1}
    MaxId = 2
    Port = {1, 2, 3}
    Cap = 1
    Continue = TRUE
    Spawns = {"match"}
    Faults = {"crash", "admin", "disconnect", "timeout"}
    MaxRestarts = 0
    MaxJoins = 1
SPECIFICATION FairSpec
PROPERTIES MatchResolves DraftResolves EndedStops
CHECK_DEADLOCK FALSE
