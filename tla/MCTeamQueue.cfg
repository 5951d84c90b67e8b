CONSTANTS
    s1 = s1
    s2 = s2
    s3 = s3
    q1 = q1
    Session = {s1, s2, s3}
    NoSession = NoSession
    Queue = {q1}
    NoQueue = NoQueue
    MaxTeamSize <- MCMaxTeamSize
    MaxOutgoingInvites = 1
    MaxInviteId = 3
    MaxTeamId = 2
SPECIFICATION Spec
INVARIANTS TypeOK TeamsDisjoint TeamsLed InvitesLive InvitesUnambiguous QueueMatchesTeams
PROPERTIES JoinsByConsent LeadershipMoves
SYMMETRY Perms
CHECK_DEADLOCK FALSE
