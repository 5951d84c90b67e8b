CONSTANTS
    p1 = p1
    p2 = p2
    Player = {p1, p2}
    MaxId = 2
    Port = {1}
    Cap = 1
    Continue = FALSE
    Spawns = {"match"}
    Faults = {}
    MaxRestarts = 0
    MaxJoins = 2
SPECIFICATION Spec
PROPERTY PoppedNotLost
CHECK_DEADLOCK FALSE
