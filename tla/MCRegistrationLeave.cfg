CONSTANTS
    h1 = h1
    m1 = m1
    Home = {h1}
    Mission = {m1}
    Conn = {1, 2}
    Matches = {m1}
    Requests = {"leave"}
    Stoppable = {}
    MaxRegs = 3
    MaxPolls = 0
SPECIFICATION FairSpec
PROPERTY LeaveTearsDown
CHECK_DEADLOCK FALSE
