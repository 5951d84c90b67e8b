CONSTANTS
    h1 = h1
    m1 = m1
    m2 = m2
    Home = {h1}
    Mission = {m1, m2}
    Conn = {1, 2}
    Matches = {m1}
    Requests = {"target", "spectate", "leave", "drop"}
    Stoppable = {m1}
    MaxRegs = 3
    MaxPolls = 1
SPECIFICATION FairSpec
INVARIANTS TypeOK PendingAckTimed SentIsRegistered
PROPERTIES GhostsCleared GoneStaysGone
CHECK_DEADLOCK FALSE
