CONSTANTS
    p1 = p1
    Player = {p1}
    MaxId = 2
    Port = {1, 2}
    Cap = 1
    Continue = TRUE
    Spawns = {"home", "zone", "match"}
    Faults = {"crash", "early", "drop", "admin"}
    MaxRestarts = 1
    MaxJoins = 1
SPECIFICATION Spec
INVARIANTS TypeOK PortsUnique OneSharedMap DraftsWatched EndedIsTimed
PROPERTIES RowsMoveForward RowsKeepPromise
CHECK_DEADLOCK FALSE
