CONSTANTS
    p1 = p1
    Player = {p1}
    MaxId = 1
    Port = {1, 2}
    Cap = 1
    Continue = FALSE
    Spawns = {"match"}
    Faults = {"crash", "early"}
    MaxRestarts = 0
    MaxJoins = 1
SPECIFICATION FairSpec
PROPERTY MatchResolves
CHECK_DEADLOCK FALSE
