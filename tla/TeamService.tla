---------------------------- MODULE TeamService ----------------------------
(***************************************************************************)
(* Teams, team invitations and the matchmaking-queue entry of a team, as    *)
(* ControlServer keeps them: TeamService (invites_, teams_), the part of    *)
(* MatchmakingService that holds queued parties, and the match fields of a  *)
(* TcpSession (current_match_queue_id_, pending_match_instance_id_).        *)
(*                                                                          *)
(* ControlServer handles every packet, timer and IPC message on one asio    *)
(* thread, so each handler is one action.  A session guid is used for one   *)
(* login only: it goes from "new" to "online" to "gone".                    *)
(***************************************************************************)
EXTENDS Integers, FiniteSets, Sequences, SequencesExt

CONSTANTS
    Session,             \* session guids
    NoSession,           \* "no leader"
    Queue,               \* match queue ids
    NoQueue,             \* match queue id 0
    MaxTeamSize,         \* mm::MaxTeamSize of each queue
    MaxOutgoingInvites,  \* kMaxOutgoingInvites
    MaxInviteId,         \* bound on next_invite_id_
    MaxTeamId            \* bound on next_team_id_

ASSUME SentinelAssumption == NoSession \notin Session /\ NoQueue \notin Queue
ASSUME BoundAssumption ==
    /\ MaxOutgoingInvites \in Nat
    /\ MaxInviteId \in Nat
    /\ MaxTeamId \in Nat
    /\ MaxTeamSize \in [Queue -> Nat]

VARIABLES
    status,      \* login state of each session guid
    invites,     \* TeamService::invites_, in the order of their ids
    nextInvite,  \* next_invite_id_
    members,     \* Team::members of each team id, << >> when there is no team
    leader,      \* Team::leader_guid
    nextTeam,    \* next_team_id_
    mm           \* matchmaking state: queued parties and per-session match fields

teamVars   == <<members, leader, nextTeam>>
inviteVars == <<invites, nextInvite>>
vars == <<status, invites, nextInvite, members, leader, nextTeam, mm>>

TeamId   == 1 .. MaxTeamId
NoTeam   == 0
Invite   == [id : 1 .. MaxInviteId, inviter : Session, invitee : Session]
PartyId  == ({"team"} \X TeamId) \cup ({"solo"} \X Session)
Party    == [id : PartyId, members : SUBSET Session]
MM       == [queues  : [Queue -> SUBSET Party],
             hud     : [Session -> Queue \cup {NoQueue}],
             forming : SUBSET Session,
             invited : SUBSET Session]

TypeOK ==
    /\ status \in [Session -> {"new", "online", "gone"}]
    /\ invites \subseteq Invite
    /\ nextInvite \in 1 .. MaxInviteId + 1
    /\ members \in [TeamId -> Seq(Session)]
    /\ leader \in [TeamId -> Session \cup {NoSession}]
    /\ nextTeam \in 1 .. MaxTeamId + 1
    /\ mm \in MM

Init ==
    /\ status = [s \in Session |-> "new"]
    /\ invites = {} /\ nextInvite = 1
    /\ members = [t \in TeamId |-> << >>]
    /\ leader = [t \in TeamId |-> NoSession]
    /\ nextTeam = 1
    /\ mm = [queues  |-> [q \in Queue |-> {}],
             hud     |-> [s \in Session |-> NoQueue],
             forming |-> {},
             invited |-> {}]

---------------------------------------------------------------------------
(* Lookups *)

Online == {s \in Session : status[s] = "online"}

MembersOf(t) == ToSet(members[t])

\* FindTeamByMemberLocked.
TeamOf(s) == IF \E t \in TeamId : s \in MembersOf(t)
             THEN CHOOSE t \in TeamId : s \in MembersOf(t)
             ELSE NoTeam

IsTeamed(s) == TeamOf(s) # NoTeam
IsLeader(s) == IsTeamed(s) /\ leader[TeamOf(s)] = s

\* The sessions that share the queue entry of s: its team, or s alone.
MatesOf(s) == IF IsTeamed(s) THEN MembersOf(TeamOf(s)) ELSE {s}

\* Mutant: a team is looked up under its member's solo id.
PartyIdOfSolo(s) == <<"solo", s>>

\* The party id a session queues under: its team id or its SoloPartyId.
PartyIdOf(s) == IF IsTeamed(s) THEN <<"team", TeamOf(s)>> ELSE <<"solo", s>>

Incoming(s) == {i \in invites : i.invitee = s}
Outgoing(s) == {i \in invites : i.inviter = s}

\* find_if over invites_: the oldest invitation to s.
IsFirstIncoming(i, s) == i \in Incoming(s) /\ \A j \in Incoming(s) : i.id <= j.id

---------------------------------------------------------------------------
(* MatchmakingService.  queues_ is an unordered_map: when several queues    *)
(* hold a party, which one a scan meets first is not determined.            *)

Holding(m, pid) == {q \in Queue : \E p \in m.queues[q] : p.id = pid}

\* Mutant: the HUD map is rebuilt from the cleared sessions alone.
ClearHudOnly(m, S) == [m EXCEPT !.hud = [s \in S |-> NoQueue]]

ClearHud(m, S) ==
    [m EXCEPT !.hud = [s \in Session |-> IF s \in S THEN NoQueue ELSE m.hud[s]]]

\* AddParty up to OnQueueChanged: a party already in this queue is replaced.
AddParty(m, q, p) ==
    [m EXCEPT !.queues[q] = {o \in m.queues[q] : o.id # p.id} \cup {p}]

\* RemoveParty: erase the party from the first queue that holds it.
RemoveParty(m, pid) ==
    {[m EXCEPT !.queues[q] = {p \in m.queues[q] : p.id # pid}] : q \in Holding(m, pid)}

\* RemovePlayer: the whole party of s leaves one queue, s alone leaves a match
\* that is being formed.
RemovePlayer(m, s) ==
    LET left     == [m EXCEPT !.forming = @ \ {s}]
        With(q)  == {p \in m.queues[q] : s \in p.members}
        Found(q) == {[left EXCEPT !.queues[q] = m.queues[q] \ {p}] : p \in With(q)}
    IN IF \A q \in Queue : With(q) = {} THEN {left} ELSE UNION {Found(q) : q \in Queue}

\* DeliverMatchCancelled to every session of S.
MatchCancelled(m, S) ==
    [ClearHud(m, S) EXCEPT !.invited = @ \ S]

\* TryPop commits the parties P of queue q.  The match starts a new instance,
\* drops into a running one, fails to spawn and is cancelled, or finds no free
\* port, in which case nobody is told.
PopResult == {"spawn", "existing", "cancelled", "noport"}
Pop(m, q, P, result) ==
    LET S      == UNION {p.members : p \in P}
        popped == [m EXCEPT !.queues[q] = @ \ P]
    IN CASE result = "spawn"     -> [popped EXCEPT !.forming = @ \cup S]
         [] result = "existing"  -> [popped EXCEPT !.invited = @ \cup (S \cap Online)]
         [] result = "cancelled" -> MatchCancelled(popped, S \cap Online)
         [] result = "noport"    -> popped

\* OnQueueChanged after a join: TryPop may commit parties at once.
OnQueueChanged(m, q) ==
    {m} \cup {Pop(m, q, P, r) : P \in SUBSET m.queues[q] \ {{}}, r \in PopResult}

---------------------------------------------------------------------------
(* TeamService *)

\* The queue entry of s goes, and everyone in it is told so.
DequeueForCompositionChange(m, s) ==
    IF Holding(m, PartyIdOf(s)) = {} THEN {m}
    ELSE {ClearHud(n, MatesOf(s) \cap Online) : n \in RemoveParty(m, PartyIdOf(s))}

\* Mutants: the leaver stays leader; the newest member takes over.
LeaderAfterStale(rest, old, s) == IF Len(rest) <= 1 THEN NoSession ELSE old
LeaderAfterNewest(rest, old, s) ==
    CASE Len(rest) <= 1 -> NoSession
      [] Len(rest) > 1 /\ old = s -> Last(rest)
      [] OTHER -> old

\* Who leads the members `rest` that s leaves behind: a leaver's lead goes to the
\* front of the list.
LeaderAfter(rest, old, s) ==
    CASE Len(rest) <= 1 -> NoSession
      [] Len(rest) > 1 /\ old = s -> Head(rest)
      [] OTHER -> old

\* LeaveCurrentTeam, from the matchmaking state m: dequeue, then take s out of
\* its team; a team of one disbands.
LeaveCurrentTeam(m, s) ==
    /\ mm' \in DequeueForCompositionChange(m, s)
    /\ IF IsTeamed(s)
       THEN LET t    == TeamOf(s)
                rest == RemoveFirst(members[t], s)
            IN /\ members' = [members EXCEPT ![t] = IF Len(rest) <= 1 THEN << >> ELSE rest]
               /\ leader' = [leader EXCEPT ![t] = LeaderAfter(rest, @, s)]
       ELSE UNCHANGED <<members, leader>>
    /\ UNCHANGED nextTeam

\* Mutant: only invitations to s are dropped.
CancelIncomingOnly(s) == invites' = invites \ Incoming(s)

\* CancelInvitesFor: every invitation to or from s is dropped.
CancelInvitesFor(s) == invites' = invites \ (Incoming(s) \cup Outgoing(s))

\* Mutant: a second invitation to the same player is let through.
MayInviteAgain(s, target) ==
    /\ s # target /\ target \in Online
    /\ IsTeamed(s) => IsLeader(s)
    /\ ~IsTeamed(target)
    /\ Incoming(s) = {}
    /\ Cardinality(Outgoing(s)) < MaxOutgoingInvites

\* The checks of RequestInvite; every failed one is a rejection message.
MayInvite(s, target) ==
    /\ s # target /\ target \in Online
    /\ IsTeamed(s) => IsLeader(s)
    /\ ~IsTeamed(target)
    /\ Incoming(s) = {} /\ Incoming(target) = {}
    /\ Cardinality(Outgoing(s)) < MaxOutgoingInvites

RequestInvite(s, target) ==
    /\ s \in Online
    /\ MayInvite(s, target)
    /\ nextInvite <= MaxInviteId
    /\ invites' = invites \cup {[id |-> nextInvite, inviter |-> s, invitee |-> target]}
    /\ nextInvite' = nextInvite + 1
    /\ UNCHANGED <<status, teamVars, mm>>

\* The invitee's queue entry and the inviter's go even when the acceptance
\* then turns out to be void.
AcceptanceDequeues(i) ==
    UNION {DequeueForCompositionChange(m, i.invitee) :
               m \in DequeueForCompositionChange(mm, i.inviter)}

\* MaybeRouteInviteeIntoTeamMatch: a match invitation into the inviter's mission,
\* if InstanceRegistry has the inviter in a live PARTY_LOCKED one.
RouteInvitee(m, i) == {m, [m EXCEPT !.invited = @ \cup {i.invitee}]}

\* The invitee joins the inviter's team, which is created if there is none.
JoinTeam(i) ==
    LET t == IF IsTeamed(i.inviter) THEN TeamOf(i.inviter) ELSE nextTeam
    IN /\ t \in TeamId
       /\ members' = [members EXCEPT ![t] =
                         Append(IF IsTeamed(i.inviter) THEN @ ELSE <<i.inviter>>, i.invitee)]
       /\ leader' = [leader EXCEPT ![t] = IF IsTeamed(i.inviter) THEN @ ELSE i.inviter]
       /\ nextTeam' = IF IsTeamed(i.inviter) THEN nextTeam ELSE nextTeam + 1
       /\ \E m \in AcceptanceDequeues(i) : mm' \in RouteInvitee(m, i)

\* Mutants: the invitee's own team, or the inviter's rank, is not re-checked.
AcceptableThoughTeamed(i) ==
    /\ {i.inviter, i.invitee} \subseteq Online
    /\ IsTeamed(i.inviter) => IsLeader(i.inviter)
AcceptableFromMember(i) ==
    /\ {i.inviter, i.invitee} \subseteq Online
    /\ ~IsTeamed(i.invitee)

\* What AcceptInvite re-checks, since both sides may have changed teams since.
Acceptable(i) ==
    /\ {i.inviter, i.invitee} \subseteq Online
    /\ ~IsTeamed(i.invitee)
    /\ IsTeamed(i.inviter) => IsLeader(i.inviter)

AcceptInvite(s) ==
    /\ s \in Online
    /\ \E i \in Incoming(s) :
         /\ IsFirstIncoming(i, s)
         /\ invites' = invites \ {i}
         /\ \/ Acceptable(i) /\ JoinTeam(i)
            \/ ~Acceptable(i) /\ mm' \in AcceptanceDequeues(i) /\ UNCHANGED teamVars
    /\ UNCHANGED <<status, nextInvite>>

\* TEAM_LEAVE: an unanswered invitation is declined, else the team is left.
HandleLeave(s) ==
    /\ s \in Online
    /\ IF Incoming(s) # {}
       THEN /\ \E i \in Incoming(s) : IsFirstIncoming(i, s) /\ invites' = invites \ {i}
            /\ UNCHANGED <<teamVars, mm>>
       ELSE LeaveCurrentTeam(mm, s) /\ UNCHANGED invites
    /\ UNCHANGED <<status, nextInvite>>

PromoteLeader(s, target) ==
    /\ s \in Online /\ IsLeader(s)
    /\ target # s /\ target \in MembersOf(TeamOf(s))
    /\ leader' = [leader EXCEPT ![TeamOf(s)] = target]
    /\ UNCHANGED <<status, inviteVars, members, nextTeam, mm>>

KickMember(s, target) ==
    /\ s \in Online /\ IsLeader(s)
    /\ target # s /\ target \in MembersOf(TeamOf(s))
    /\ LeaveCurrentTeam(mm, target)
    /\ UNCHANGED <<status, inviteVars>>

\* The 30 s timer of an invitation.
ExpireInvite(i) ==
    /\ i \in invites
    /\ invites' = invites \ {i}
    /\ UNCHANGED <<status, nextInvite, teamVars, mm>>

---------------------------------------------------------------------------
(* TcpSession handlers that reach TeamService or MatchmakingService *)

Login(s) ==
    /\ status[s] = "new"
    /\ status' = [status EXCEPT ![s] = "online"]
    /\ UNCHANGED <<inviteVars, teamVars, mm>>

\* MATCH_JOIN by a team's leader: BuildParty, AddParty, then NotifyTeamQueued,
\* which overwrites whatever a pop inside AddParty did to the members' HUD.
MatchJoinTeam(s, q) ==
    /\ s \in Online /\ IsLeader(s)
    /\ Len(members[TeamOf(s)]) <= MaxTeamSize[q]
    /\ LET party == [id |-> <<"team", TeamOf(s)>>, members |-> MembersOf(TeamOf(s))]
       IN \E m \in OnQueueChanged(AddParty(mm, q, party), q) :
            mm' = [m EXCEPT !.hud = [x \in Session |->
                      IF x \in party.members \cap Online THEN q ELSE m.hud[x]]]
    /\ UNCHANGED <<status, inviteVars, teamVars>>

\* MATCH_JOIN by an unteamed player (send_match_join_response).
MatchJoinSolo(s, q) ==
    /\ s \in Online /\ ~IsTeamed(s)
    /\ LET party == [id |-> <<"solo", s>>, members |-> {s}]
       IN mm' \in OnQueueChanged(AddParty([mm EXCEPT !.hud[s] = q], q, party), q)
    /\ UNCHANGED <<status, inviteVars, teamVars>>

\* MATCH_LEAVE: a leader pulls the team out, an unteamed player (also one whose
\* match is being formed) is removed everywhere; a mere member may not.
MatchLeave(s) ==
    /\ s \in Online
    /\ \/ IsLeader(s) /\ mm' \in DequeueForCompositionChange(mm, s)
       \/ /\ ~IsTeamed(s)
          /\ \E m \in RemovePlayer(mm, s) :
               mm' = [ClearHud(m, {s}) EXCEPT !.invited = @ \ {s}]
    /\ UNCHANGED <<status, inviteVars, teamVars>>

\* PLAYER_LOGOFF: a voluntary exit, the socket stays for now.
PlayerLogoff(s) ==
    /\ s \in Online
    /\ CancelInvitesFor(s)
    /\ LeaveCurrentTeam(mm, s)
    /\ UNCHANGED <<status, nextInvite>>

\* PLAYER_LEAVE_GAME: a voluntary exit that also forgets the match invitation.
PlayerLeaveGame(s) ==
    /\ s \in Online
    /\ CancelInvitesFor(s)
    /\ LeaveCurrentTeam([mm EXCEPT !.invited = @ \ {s}], s)
    /\ UNCHANGED <<status, nextInvite>>

\* handle_socket_disconnect: RemovePlayer first, HandleDisconnect after it.
SocketDisconnect(s) ==
    /\ s \in Online
    /\ \E m \in RemovePlayer(mm, s) :
         LeaveCurrentTeam([m EXCEPT !.invited = @ \ {s}], s)
    /\ CancelInvitesFor(s)
    /\ status' = [status EXCEPT ![s] = "gone"]
    /\ UNCHANGED nextInvite

---------------------------------------------------------------------------
(* Matches, as far as teams see them *)

\* A queue pops on its delay timer or on EvaluateQueue.
QueuePops(q) ==
    /\ mm' \in OnQueueChanged(mm, q) \ {mm}
    /\ UNCHANGED <<status, inviteVars, teamVars>>

\* INSTANCE_READY: the players of the pending match are invited.
InstanceReady ==
    /\ \E S \in SUBSET mm.forming \ {{}} :
         mm' = [mm EXCEPT !.forming = @ \ S, !.invited = @ \cup (S \cap Online)]
    /\ UNCHANGED <<status, inviteVars, teamVars>>

\* DiscardPendingMatchForDeadInstance.
InstanceDies ==
    /\ \E S \in SUBSET mm.forming \ {{}} :
         mm' = MatchCancelled([mm EXCEPT !.forming = @ \ S], S \cap Online)
    /\ UNCHANGED <<status, inviteVars, teamVars>>

\* MATCH_ACCEPT, registered with the instance or not (no READY instance, no ACK).
MatchAccept(s) ==
    /\ s \in mm.invited
    /\ \E m \in {mm, ClearHud(mm, {s})} : mm' = [m EXCEPT !.invited = @ \ {s}]
    /\ UNCHANGED <<status, inviteVars, teamVars>>

Next ==
    \/ \E s \in Session :
          \/ Login(s) \/ AcceptInvite(s) \/ HandleLeave(s) \/ MatchLeave(s)
          \/ PlayerLogoff(s) \/ PlayerLeaveGame(s) \/ SocketDisconnect(s)
          \/ MatchAccept(s)
          \/ \E target \in Session :
                RequestInvite(s, target) \/ PromoteLeader(s, target) \/ KickMember(s, target)
          \/ \E q \in Queue : MatchJoinTeam(s, q) \/ MatchJoinSolo(s, q)
    \/ \E i \in invites : ExpireInvite(i)
    \/ \E q \in Queue : QueuePops(q)
    \/ InstanceReady \/ InstanceDies

Spec == Init /\ [][Next]_vars
---------------------------------------------------------------------------
(* Correctness *)

\* Teams are disjoint, and a player is listed once: whatever mixture of
\* accepted, declined, expired and crossing invitations, kicks, promotions and
\* disconnects led here, LeaveCurrentTeam and AcceptInvite agree on who is where
\* (FindTeamByMemberLocked returns the first hit and would hide a second one).
TeamsDisjoint ==
    /\ \A t, u \in TeamId : t # u => MembersOf(t) \cap MembersOf(u) = {}
    /\ \A t \in TeamId : \A i, j \in DOMAIN members[t] :
          members[t][i] = members[t][j] => i = j

\* A team that exists is led by one of its members and has at least two; the
\* leader is never left dangling by a departure (LeaveCurrentTeam promotes or
\* disbands), and a disbanded team leaves nothing behind.
TeamsLed ==
    \A t \in TeamId :
        \/ members[t] = << >> /\ leader[t] = NoSession
        \/ Len(members[t]) >= 2 /\ leader[t] \in MembersOf(t) /\ t < nextTeam

\* Nobody is asked by, or waits for an answer of, a session that is gone: a socket that
\* drops in the middle of any exchange of invitations closes those it sent and those it
\* got (HandleDisconnect -> CancelInvitesFor).
InvitesLive ==
    \A i \in invites : {i.inviter, i.invitee} \subseteq Online

\* RequestInvite's checks: a player has at most one unanswered invitation, so
\* TEAM_ACCEPT and TEAM_LEAVE, which carry no id, answer the one popup the client
\* shows; nobody has more than kMaxOutgoingInvites open.
InvitesUnambiguous ==
    /\ \A i, j \in invites : (i.invitee = j.invitee \/ i.id = j.id) => i = j
    /\ \A i \in invites : i.inviter # i.invitee /\ i.id < nextInvite
    /\ \A s \in Session : Cardinality(Outgoing(s)) <= MaxOutgoingInvites

\* Whoever waits in a queue waits in the party they belong to: a team's entry
\* lists exactly the team's current members, a solo entry an online, unteamed
\* player.  DequeueForCompositionChange is there to keep this true.
QueueMatchesTeams ==
    \A q \in Queue : \A p \in mm.queues[q] :
        \/ \E t \in TeamId : p.id = <<"team", t>> /\ MembersOf(t) # {} /\ p.members = MembersOf(t)
        \/ \E s \in Online : p.id = <<"solo", s>> /\ p.members = {s} /\ ~IsTeamed(s)

\* A player enters a team only by consent: in the step that makes them a member
\* they accept an invitation, or one of theirs is accepted and makes them leader.
JoinsByConsent ==
    [][\A s \in Session, t \in TeamId :
          s \in MembersOf(t)' \ MembersOf(t) =>
             \E i \in invites \ invites' :
                \/ i.invitee = s /\ i.inviter = leader'[t]
                \/ i.inviter = s /\ leader'[t] = s /\ members[t] = << >>]_vars

\* Leadership moves only within an unchanged team (PromoteLeader) or by the leader's
\* departure, and then to the longest-standing remaining member.
LeadershipMoves ==
    [][\A t \in TeamId :
          (members[t] # << >> /\ members'[t] # << >> /\ leader'[t] # leader[t]) =>
             \/ members'[t] = members[t]
             \/ leader[t] \notin MembersOf(t)' /\ leader'[t] = Head(members'[t])]_vars

=============================================================================
