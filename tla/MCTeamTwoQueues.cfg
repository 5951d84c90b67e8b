CONSTANTS
    s1 = s1
    s2 = s2
    s3 = s3
    q1 = q1
    q2 = q2
    Session = {s1, s2, s3}
    NoSession = NoSession
    Queue = {q1, q2}
    NoQueue = NoQueue
    MaxTeamSize <- MCMaxTeamSize
    MaxOutgoingInvites = 1
    MaxInviteId = 2
    MaxTeamId = 2
SPECIFICATION Spec
INVARIANTS QueueMatchesTeams
SYMMETRY Perms
CHECK_DEADLOCK FALSE
