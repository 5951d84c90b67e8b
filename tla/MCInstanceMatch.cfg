CONSTANTS
    p1 = p1
    p2 = p2
    Player = {p1, p2}
    MaxId = 3
    Port = {1, 2, 3, 4}
    Cap = 2
    Continue = TRUE
    Spawns = {"match"}
    Faults = {"crash", "admin", "disconnect", "timeout"}
    MaxRestarts = 0
    MaxJoins = 2
SPECIFICATION MCSpec
INVARIANTS PendingRescued ReservationsBacked OneSuccessor DraftsWatched
PROPERTY PoppedNotLost
SYMMETRY Perms
CHECK_DEADLOCK FALSE
