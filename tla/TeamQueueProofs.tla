-------------------------- MODULE TeamQueueProofs --------------------------
(***************************************************************************)
(* With one match queue, the parties in it are the teams and players as     *)
(* they are: QueueMatchesTeams, for every number of players, teams and      *)
(* invitations.  With two queues it fails, see README.md.                   *)
(*                                                                          *)
(* DequeueForCompositionChange erases a party from one queue.  If there is  *)
(* one queue only, the party is gone from it, so whoever leaves or joins a  *)
(* team has no entry left that could disagree with the new team.            *)
(***************************************************************************)
EXTENDS TeamServiceProofs

OneQueue == \A q, r \in Queue : q = r

\* A queued party that is what its team or player is.
Current(p) ==
    \/ \E t \in TeamId : p.id = <<"team", t>> /\ MembersOf(t) # {} /\ p.members = MembersOf(t)
    \/ \E s \in Online : p.id = <<"solo", s>> /\ p.members = {s} /\ ~IsTeamed(s)

\* No party enters a queue on the way from m to n.
Shrinks(n, m) == \A q \in Queue : n.queues[q] \subseteq m.queues[q]

\* No queue of m has an entry for s.
NotQueued(m, s) == \A q \in Queue : \A p \in m.queues[q] : p.id # PartyIdOf(s)

---------------------------------------------------------------------------
(* What the operations on mm do to the queues.                              *)

LEMMA ClearHudQueues ==
    ASSUME NEW m \in MM, NEW S PROVE ClearHud(m, S).queues = m.queues
BY DEF ClearHud, MM

LEMMA MatchCancelledQueues ==
    ASSUME NEW m \in MM, NEW S PROVE MatchCancelled(m, S).queues = m.queues
<1>1. ClearHud(m, S) \in MM BY ClearHudType
<1> QED BY <1>1, ClearHudQueues DEF MatchCancelled, MM

\* TryPop only takes parties out of queues.
LEMMA PopShrinks ==
    ASSUME NEW m \in MM, NEW q \in Queue, NEW n \in OnQueueChanged(m, q)
    PROVE  Shrinks(n, m)
<1>1. CASE n = m BY <1>1 DEF Shrinks
<1>2. ASSUME NEW P \in SUBSET m.queues[q], NEW r \in PopResult, n = Pop(m, q, P, r)
      PROVE  Shrinks(n, m)
  <2> DEFINE S == UNION {p.members : p \in P}
             popped == [m EXCEPT !.queues[q] = @ \ P]
  <2>1. popped \in MM BY DEF MM
  <2>2. Shrinks(popped, m) BY DEF Shrinks, MM
  <2>3. \/ n = [popped EXCEPT !.forming = @ \cup S]
        \/ n = [popped EXCEPT !.invited = @ \cup (S \cap Online)]
        \/ n = MatchCancelled(popped, S \cap Online)
        \/ n = popped
    BY <1>2 DEF Pop, PopResult
  <2> HIDE DEF popped, S
  <2>4. n.queues = popped.queues BY <2>1, <2>3, MatchCancelledQueues DEF MM
  <2> QED BY <2>2, <2>4 DEF Shrinks
<1> QED BY <1>1, <1>2 DEF OnQueueChanged

\* So does the search for a player who leaves.
LEMMA RemovePlayerShrinks ==
    ASSUME NEW m \in MM, NEW s \in Session, NEW n \in RemovePlayer(m, s)
    PROVE  Shrinks(n, m)
<1> DEFINE left     == [m EXCEPT !.forming = @ \ {s}]
           With(q)  == {p \in m.queues[q] : s \in p.members}
           Found(q) == {[left EXCEPT !.queues[q] = m.queues[q] \ {p}] : p \in With(q)}
<1>1. left \in MM /\ left.queues = m.queues BY DEF MM
<1>2. CASE n = left BY <1>1, <1>2 DEF Shrinks
<1>3. ASSUME NEW q \in Queue, NEW p, n = [left EXCEPT !.queues[q] = m.queues[q] \ {p}]
      PROVE  Shrinks(n, m)
  BY <1>1, <1>3 DEF Shrinks, MM
<1>4. n = left \/ \E q \in Queue : n \in Found(q)
  BY DEF RemovePlayer
<1> QED BY <1>2, <1>3, <1>4

\* With one queue, the entry of s is gone from all of them.
LEMMA DequeueRemoves ==
    ASSUME OneQueue, NEW m \in MM, NEW s \in Session,
           NEW n \in DequeueForCompositionChange(m, s)
    PROVE  Shrinks(n, m) /\ NotQueued(n, s)
<1>1. CASE Holding(m, PartyIdOf(s)) = {}
  BY <1>1 DEF DequeueForCompositionChange, Holding, Shrinks, NotQueued
<1>2. CASE Holding(m, PartyIdOf(s)) # {}
  <2>1. PICK r \in RemoveParty(m, PartyIdOf(s)) : n = ClearHud(r, MatesOf(s) \cap Online)
    BY <1>2 DEF DequeueForCompositionChange
  <2>2. PICK q \in Queue : r = [m EXCEPT !.queues[q] = {p \in m.queues[q] : p.id # PartyIdOf(s)}]
    BY <2>1 DEF RemoveParty, Holding
  <2>3. r \in MM BY <2>2 DEF MM
  <2>4. n.queues = r.queues BY <2>1, <2>3, ClearHudQueues
  <2>5. r.queues[q] = {p \in m.queues[q] : p.id # PartyIdOf(s)} BY <2>2 DEF MM
  <2> QED BY <2>4, <2>5 DEF OneQueue, Shrinks, NotQueued
<1> QED BY <1>1, <1>2

---------------------------------------------------------------------------
(* The shapes of steps.                                                     *)

\* Teams stay as they are, and nobody goes offline: what is queued afterwards was
\* queued before or is current.
LEMMA SameTeamsCurrent ==
    ASSUME QueueMatchesTeams, UNCHANGED members, Online \subseteq Online',
           \A q \in Queue : \A p \in mm'.queues[q] : p \in mm.queues[q] \/ Current(p)
    PROVE  QueueMatchesTeams'
<1>1. \A t \in TeamId : MembersOf(t)' = MembersOf(t) BY DEF MembersOf
<1>2. \A s : TeamOf(s)' = TeamOf(s) BY <1>1 DEF TeamOf
<1>3. \A s : IsTeamed(s)' <=> IsTeamed(s) BY <1>2 DEF IsTeamed
<1>4. ASSUME NEW q \in Queue, NEW p \in mm'.queues[q] PROVE Current(p)
  BY <1>4 DEF QueueMatchesTeams, Current
<1>5. ASSUME NEW p, Current(p) PROVE Current(p)'
  BY <1>1, <1>3, <1>5 DEF Current
<1> QED BY <1>4, <1>5 DEF QueueMatchesTeams, Current

\* Somebody leaves a team or the server, and has no entry left.
LEMMA DepartureCurrent ==
    ASSUME OneQueue, BoundAssumption, SentinelAssumption, TeamInv, QueueMatchesTeams,
           NEW m \in MM, NEW s \in Session, Shrinks(m, mm), LeaveCurrentTeam(m, s),
           Online \ {s} \subseteq Online'
    PROVE  QueueMatchesTeams'
<1>1. mm' \in DequeueForCompositionChange(m, s) BY DEF LeaveCurrentTeam
<1>2. Shrinks(mm', m) /\ NotQueued(mm', s) BY <1>1, DequeueRemoves
<1>3. \A t \in TeamId : MembersOf(t)' \subseteq MembersOf(t) \ {s}
  BY LeaveTeamStep DEF TeamInv
<1>4. \A t \in TeamId : t # TeamOf(s) => MembersOf(t)' = MembersOf(t)
  <2>1. CASE IsTeamed(s)
    <3>1. TeamOf(s) \in TeamId /\ members \in [TeamId -> Seq(Session)]
      BY <2>1, TeamOfTeamed DEF TeamInv, TypeOK
    <3> QED BY <2>1, <3>1 DEF LeaveCurrentTeam, MembersOf
  <2>2. CASE ~IsTeamed(s) BY <2>2 DEF LeaveCurrentTeam, MembersOf
  <2> QED BY <2>1, <2>2
<1>5. \A x : ~IsTeamed(x) => ~IsTeamed(x)'
  <2> SUFFICES ASSUME NEW x, ~IsTeamed(x) PROVE ~IsTeamed(x)' OBVIOUS
  <2>1. \A t \in TeamId : x \notin MembersOf(t)' BY <1>3, UnteamedInNoTeam
  <2> QED BY <2>1 DEF IsTeamed, TeamOf
<1>6. ASSUME NEW q \in Queue, NEW p \in mm'.queues[q] PROVE Current(p)'
  <2>1. p \in mm.queues[q] /\ p.id # PartyIdOf(s) BY <1>2 DEF Shrinks, NotQueued
  <2>2. CASE \E t \in TeamId : p.id = <<"team", t>> /\ MembersOf(t) # {} /\ p.members = MembersOf(t)
    <3>1. PICK t \in TeamId : p.id = <<"team", t>> /\ MembersOf(t) # {} /\ p.members = MembersOf(t)
      BY <2>2
    <3>2. t # TeamOf(s)
      <4>1. IsTeamed(s) => PartyIdOf(s) = <<"team", TeamOf(s)>> BY DEF PartyIdOf
      <4>2. ~IsTeamed(s) => TeamOf(s) \notin TeamId
        BY DEF IsTeamed, NoTeam, TeamId, BoundAssumption
      <4> QED BY <2>1, <3>1, <4>1, <4>2
    <3> QED BY <1>4, <3>1, <3>2 DEF Current
  <2>3. CASE \E x \in Online : p.id = <<"solo", x>> /\ p.members = {x} /\ ~IsTeamed(x)
    <3>1. PICK x \in Online : p.id = <<"solo", x>> /\ p.members = {x} /\ ~IsTeamed(x) BY <2>3
    <3>2. x # s BY <2>1, <3>1 DEF PartyIdOf
    <3>3. x \in Online' BY <3>1, <3>2
    <3> QED BY <1>5, <3>1, <3>3 DEF Current
  <2> QED BY <2>1, <2>2, <2>3 DEF QueueMatchesTeams
<1> QED BY <1>6 DEF QueueMatchesTeams, Current

\* An acceptance leaves neither side an entry, whether it is valid or not.
LEMMA AcceptanceRemoves ==
    ASSUME OneQueue, TypeOK, NEW i \in Invite, NEW n \in AcceptanceDequeues(i)
    PROVE  n \in MM /\ Shrinks(n, mm) /\ NotQueued(n, i.inviter) /\ NotQueued(n, i.invitee)
<1>1. i.inviter \in Session /\ i.invitee \in Session /\ mm \in MM BY DEF Invite, TypeOK
<1>2. PICK m \in DequeueForCompositionChange(mm, i.inviter) :
         n \in DequeueForCompositionChange(m, i.invitee)
  BY DEF AcceptanceDequeues
<1>3. m \in MM /\ Shrinks(m, mm) /\ NotQueued(m, i.inviter)
  BY <1>1, DequeueType, DequeueRemoves
<1>4. n \in MM /\ Shrinks(n, m) /\ NotQueued(n, i.invitee)
  BY <1>1, <1>2, <1>3, DequeueType, DequeueRemoves
<1> QED BY <1>3, <1>4 DEF Shrinks, NotQueued

LEMMA AcceptInviteCurrent ==
    ASSUME OneQueue, BoundAssumption, SentinelAssumption, TeamInv, QueueMatchesTeams,
           NEW s \in Session, AcceptInvite(s)
    PROVE  QueueMatchesTeams'
<1>1. PICK i \in Incoming(s) :
         \/ Acceptable(i) /\ JoinTeam(i)
         \/ mm' \in AcceptanceDequeues(i) /\ UNCHANGED teamVars
  BY DEF AcceptInvite
<1>2. /\ i \in Invite /\ i.inviter # i.invitee /\ Online' = Online
  BY DEF Incoming, TeamInv, TypeOK, InvitesUnambiguous, AcceptInvite, Online
<1>3. CASE mm' \in AcceptanceDequeues(i) /\ UNCHANGED teamVars
  <2>1. Shrinks(mm', mm) BY <1>2, <1>3, AcceptanceRemoves DEF TeamInv
  <2> QED BY <1>2, <1>3, <2>1, SameTeamsCurrent DEF Shrinks, teamVars
<1>4. CASE Acceptable(i) /\ JoinTeam(i)
  <2> DEFINE a == i.inviter
             b == i.invitee
  <2>1. PICK n \in AcceptanceDequeues(i) : mm' \in RouteInvitee(n, i) BY <1>4 DEF JoinTeam
  <2>2. n \in MM /\ Shrinks(n, mm) /\ NotQueued(n, a) /\ NotQueued(n, b)
    BY <1>2, <2>1, AcceptanceRemoves DEF TeamInv
  <2>3. mm'.queues = n.queues BY <2>1, <2>2 DEF RouteInvitee, MM
  <2>4. PICK t \in TeamId : /\ t = IF IsTeamed(a) THEN TeamOf(a) ELSE nextTeam
                            /\ \A u \in TeamId : u # t => MembersOf(u)' = MembersOf(u)
    <3>1. members \in [TeamId -> Seq(Session)] BY DEF TeamInv, TypeOK
    <3> QED BY <1>4, <3>1 DEF JoinTeam, MembersOf
  <2>5. \A u \in TeamId : MembersOf(u)' \subseteq MembersOf(u) \cup {a, b}
    BY <1>2, <1>4, JoinTeamStep DEF TeamInv, Acceptable
  <2>6. ASSUME NEW q \in Queue, NEW p \in mm'.queues[q] PROVE Current(p)'
    <3>1. p \in mm.queues[q] /\ p.id # PartyIdOf(a) /\ p.id # PartyIdOf(b)
      BY <2>2, <2>3 DEF Shrinks, NotQueued
    <3>2. CASE \E u \in TeamId : p.id = <<"team", u>> /\ MembersOf(u) # {} /\ p.members = MembersOf(u)
      <4>1. PICK u \in TeamId : p.id = <<"team", u>> /\ MembersOf(u) # {} /\ p.members = MembersOf(u)
        BY <3>2
      <4>2. u # t
        <5>1. CASE IsTeamed(a) BY <2>4, <3>1, <4>1, <5>1 DEF PartyIdOf
        <5>2. CASE ~IsTeamed(a)
          <6>1. t = nextTeam /\ nextTeam \in Nat BY <2>4, <5>2 DEF TeamInv, TypeOK
          <6>2. members[t] = << >> BY <6>1 DEF TeamInv, TeamsLed
          <6>3. MembersOf(t) = {} BY <6>2 DEF MembersOf, ToSet
          <6> QED BY <4>1, <6>3
        <5> QED BY <5>1, <5>2
      <4> QED BY <2>4, <4>1, <4>2 DEF Current
    <3>3. CASE \E x \in Online : p.id = <<"solo", x>> /\ p.members = {x} /\ ~IsTeamed(x)
      <4>1. PICK x \in Online : p.id = <<"solo", x>> /\ p.members = {x} /\ ~IsTeamed(x) BY <3>3
      <4>2. x # a /\ x # b BY <3>1, <4>1 DEF PartyIdOf
      <4>3. \A u \in TeamId : x \notin MembersOf(u)' BY <2>5, <4>1, <4>2, UnteamedInNoTeam
      <4>4. ~IsTeamed(x)' BY <4>3 DEF IsTeamed, TeamOf
      <4> QED BY <1>2, <4>1, <4>4 DEF Current
    <3> QED BY <3>1, <3>2, <3>3 DEF QueueMatchesTeams
  <2> QED BY <2>6 DEF QueueMatchesTeams, Current
<1> QED BY <1>1, <1>3, <1>4
---------------------------------------------------------------------------
(* Every step has one of these shapes.                                      *)

LEMMA NextCurrent ==
    OneQueue /\ TeamInv /\ QueueMatchesTeams /\ [Next]_vars => QueueMatchesTeams'
<1> SUFFICES ASSUME OneQueue, TeamInv, QueueMatchesTeams, [Next]_vars
             PROVE  QueueMatchesTeams'
  OBVIOUS
<1> USE BoundAssumption, SentinelAssumption
<1>t. mm \in MM /\ status \in [Session -> {"new", "online", "gone"}] BY DEF TeamInv, TypeOK
<1>1. ASSUME UNCHANGED members, Online \subseteq Online', Shrinks(mm', mm)
      PROVE  QueueMatchesTeams'
  BY <1>1, SameTeamsCurrent DEF Shrinks
<1>2. ASSUME NEW s \in Session, Login(s) PROVE QueueMatchesTeams'
  <2>1. UNCHANGED <<members, mm>> /\ Online \subseteq Online'
    BY <1>2, <1>t DEF Login, Online, teamVars
  <2> QED BY <1>1, <2>1 DEF Shrinks
<1>3. ASSUME NEW s \in Session, AcceptInvite(s) PROVE QueueMatchesTeams'
  BY <1>3, AcceptInviteCurrent
<1>4. ASSUME NEW s \in Session, NEW m \in MM, Shrinks(m, mm), LeaveCurrentTeam(m, s),
             Online \ {s} \subseteq Online'
      PROVE  QueueMatchesTeams'
  BY <1>4, DepartureCurrent
<1>5. Shrinks(mm, mm) BY DEF Shrinks
<1>6. ASSUME NEW s \in Session, HandleLeave(s) PROVE QueueMatchesTeams'
  <2>1. Online' = Online BY <1>6 DEF HandleLeave, Online
  <2>2. CASE Incoming(s) # {}
    BY <1>1, <1>5, <1>6, <2>1, <2>2 DEF HandleLeave, teamVars, Shrinks
  <2>3. CASE Incoming(s) = {}
    BY <1>4, <1>5, <1>6, <1>t, <2>1, <2>3 DEF HandleLeave
  <2> QED BY <2>2, <2>3
<1>7. ASSUME NEW s \in Session, MatchLeave(s) PROVE QueueMatchesTeams'
  <2>1. Shrinks(mm', mm)
    <3>1. CASE mm' \in DequeueForCompositionChange(mm, s) BY <1>t, <3>1, DequeueRemoves
    <3>2. ASSUME NEW m \in RemovePlayer(mm, s), mm' = [ClearHud(m, {s}) EXCEPT !.invited = @ \ {s}]
          PROVE  Shrinks(mm', mm)
      <4>1. m \in MM /\ Shrinks(m, mm) BY <1>t, RemovePlayerType, RemovePlayerShrinks
      <4>2. ClearHud(m, {s}) \in MM /\ ClearHud(m, {s}).queues = m.queues
        BY <4>1, ClearHudType, ClearHudQueues
      <4>3. mm'.queues = m.queues BY <3>2, <4>2 DEF MM
      <4> QED BY <4>1, <4>3 DEF Shrinks
    <3> QED BY <1>7, <3>1, <3>2 DEF MatchLeave
  <2> QED BY <1>1, <1>7, <2>1 DEF MatchLeave, teamVars, Online
<1>8. ASSUME NEW s \in Session, PlayerLogoff(s) PROVE QueueMatchesTeams'
  <2>1. LeaveCurrentTeam(mm, s) /\ Online' = Online BY <1>8 DEF PlayerLogoff, Online
  <2> QED BY <1>4, <1>5, <1>t, <2>1
<1>9. ASSUME NEW s \in Session, PlayerLeaveGame(s) PROVE QueueMatchesTeams'
  <2> DEFINE m == [mm EXCEPT !.invited = @ \ {s}]
  <2>1. LeaveCurrentTeam(m, s) /\ Online' = Online BY <1>9 DEF PlayerLeaveGame, Online
  <2>2. m \in MM /\ Shrinks(m, mm) BY <1>t DEF MM, Shrinks
  <2> HIDE DEF m
  <2> QED BY <1>4, <2>1, <2>2
<1>10. ASSUME NEW s \in Session, SocketDisconnect(s) PROVE QueueMatchesTeams'
  <2>1. PICK n \in RemovePlayer(mm, s) : LeaveCurrentTeam([n EXCEPT !.invited = @ \ {s}], s)
    BY <1>10 DEF SocketDisconnect
  <2> DEFINE m == [n EXCEPT !.invited = @ \ {s}]
  <2>2. n \in MM /\ Shrinks(n, mm) BY <1>t, RemovePlayerType, RemovePlayerShrinks
  <2>3. m \in MM /\ Shrinks(m, mm) BY <2>2 DEF MM, Shrinks
  <2>4. Online \ {s} \subseteq Online' BY <1>10, <1>t DEF SocketDisconnect, Online
  <2>5. LeaveCurrentTeam(m, s) BY <2>1
  <2> HIDE DEF m
  <2> QED BY <1>4, <2>3, <2>4, <2>5
<1>11. ASSUME NEW s \in Session, MatchAccept(s) PROVE QueueMatchesTeams'
  <2>1. PICK m \in {mm, ClearHud(mm, {s})} : mm' = [m EXCEPT !.invited = @ \ {s}]
    BY <1>11 DEF MatchAccept
  <2>2. m \in MM /\ m.queues = mm.queues BY <1>t, ClearHudType, ClearHudQueues
  <2>3. mm'.queues = mm.queues BY <2>1, <2>2 DEF MM
  <2> QED BY <1>1, <1>11, <2>3 DEF MatchAccept, Online, teamVars, Shrinks
<1>12. ASSUME NEW s \in Session, NEW target \in Session,
              RequestInvite(s, target) \/ PromoteLeader(s, target)
       PROVE  QueueMatchesTeams'
  BY <1>1, <1>5, <1>12 DEF RequestInvite, PromoteLeader, teamVars, Online, Shrinks
<1>13. ASSUME NEW s \in Session, NEW target \in Session, KickMember(s, target)
       PROVE  QueueMatchesTeams'
  <2>1. LeaveCurrentTeam(mm, target) /\ Online' = Online BY <1>13 DEF KickMember, Online
  <2> QED BY <1>4, <1>5, <1>t, <2>1
<1>14. ASSUME NEW s \in Session, NEW q \in Queue, MatchJoinTeam(s, q) PROVE QueueMatchesTeams'
  <2> DEFINE party == [id |-> <<"team", TeamOf(s)>>, members |-> MembersOf(TeamOf(s))]
  <2>1. TeamOf(s) \in TeamId /\ s \in MembersOf(TeamOf(s))
    BY <1>14, TeamOfTeamed DEF MatchJoinTeam, IsLeader
  <2>2. MembersOf(TeamOf(s)) \subseteq Session BY <2>1 DEF TeamInv, NoGhosts, Online
  <2>3. party \in Party /\ Current(party) BY <2>1, <2>2 DEF Party, PartyId, Current
  <2>4. PICK m \in OnQueueChanged(AddParty(mm, q, party), q) :
           mm' = [m EXCEPT !.hud = [x \in Session |->
                      IF x \in party.members \cap Online THEN q ELSE m.hud[x]]]
    BY <1>14 DEF MatchJoinTeam
  <2> HIDE DEF party
  <2>5. AddParty(mm, q, party) \in MM BY <1>t, <2>3, AddPartyType
  <2>6. m \in MM /\ Shrinks(m, AddParty(mm, q, party))
    BY <2>5, OnQueueChangedType, PopShrinks
  <2>7. mm'.queues = m.queues BY <2>4, <2>6 DEF MM
  <2>8. \A r \in Queue : AddParty(mm, q, party).queues[r] \subseteq mm.queues[r] \cup {party}
    BY <1>t DEF AddParty, MM
  <2>9. \A r \in Queue : \A p \in mm'.queues[r] : p \in mm.queues[r] \/ Current(p)
    BY <2>3, <2>6, <2>7, <2>8 DEF Shrinks
  <2> QED BY <1>14, <2>9, SameTeamsCurrent DEF MatchJoinTeam, teamVars, Online
<1>15. ASSUME NEW s \in Session, NEW q \in Queue, MatchJoinSolo(s, q) PROVE QueueMatchesTeams'
  <2> DEFINE party == [id |-> <<"solo", s>>, members |-> {s}]
             n     == [mm EXCEPT !.hud[s] = q]
  <2>1. party \in Party /\ Current(party) BY <1>15 DEF Party, PartyId, Current, MatchJoinSolo
  <2>2. n \in MM /\ n.queues = mm.queues BY <1>t DEF MM
  <2>3. mm' \in OnQueueChanged(AddParty(n, q, party), q) BY <1>15 DEF MatchJoinSolo
  <2> HIDE DEF party, n
  <2>4. AddParty(n, q, party) \in MM BY <2>1, <2>2, AddPartyType
  <2>5. Shrinks(mm', AddParty(n, q, party)) BY <2>3, <2>4, PopShrinks
  <2>6. \A r \in Queue : AddParty(n, q, party).queues[r] \subseteq mm.queues[r] \cup {party}
    BY <2>2 DEF AddParty, MM
  <2>7. \A r \in Queue : \A p \in mm'.queues[r] : p \in mm.queues[r] \/ Current(p)
    BY <2>1, <2>5, <2>6 DEF Shrinks
  <2> QED BY <1>15, <2>7, SameTeamsCurrent DEF MatchJoinSolo, teamVars, Online
<1>16. ASSUME NEW i \in invites, ExpireInvite(i) PROVE QueueMatchesTeams'
  BY <1>1, <1>5, <1>16 DEF ExpireInvite, teamVars, Online, Shrinks
<1>17. ASSUME NEW q \in Queue, QueuePops(q) PROVE QueueMatchesTeams'
  <2>1. Shrinks(mm', mm) BY <1>17, <1>t, PopShrinks DEF QueuePops
  <2> QED BY <1>1, <1>17, <2>1 DEF QueuePops, teamVars, Online
<1>18. ASSUME InstanceReady PROVE QueueMatchesTeams'
  <2>1. PICK S : mm' = [mm EXCEPT !.forming = @ \ S, !.invited = @ \cup (S \cap Online)]
    BY <1>18 DEF InstanceReady
  <2>2. mm'.queues = mm.queues BY <1>t, <2>1 DEF MM
  <2> QED BY <1>1, <1>18, <2>2 DEF InstanceReady, teamVars, Online, Shrinks
<1>19. ASSUME InstanceDies PROVE QueueMatchesTeams'
  <2>1. PICK S : mm' = MatchCancelled([mm EXCEPT !.forming = @ \ S], S \cap Online)
    BY <1>19 DEF InstanceDies
  <2>2. [mm EXCEPT !.forming = @ \ S] \in MM BY <1>t DEF MM
  <2>3. mm'.queues = [mm EXCEPT !.forming = @ \ S].queues BY <2>1, <2>2, MatchCancelledQueues
  <2>4. mm'.queues = mm.queues BY <1>t, <2>3 DEF MM
  <2> QED BY <1>1, <1>19, <2>4 DEF InstanceDies, teamVars, Online, Shrinks
<1>20. CASE UNCHANGED vars
  BY <1>1, <1>5, <1>20 DEF vars, Online, Shrinks
<1> QED
  BY <1>2, <1>3, <1>6, <1>7, <1>8, <1>9, <1>10, <1>11, <1>12, <1>13, <1>14, <1>15,
     <1>16, <1>17, <1>18, <1>19, <1>20 DEF Next

\* With one match queue, every queued entry lists a team as it is, or one player
\* who is online and in no team, after any mixture of joins, leaves, kicks, late
\* acceptances, pops and disconnects: DequeueForCompositionChange is enough.
THEOREM OneQueueMatchesTeams == OneQueue => (Spec => []QueueMatchesTeams)
<1> SUFFICES ASSUME OneQueue PROVE Spec => []QueueMatchesTeams OBVIOUS
<1>1. Init => QueueMatchesTeams BY DEF Init, QueueMatchesTeams
<1>2. TeamInv /\ QueueMatchesTeams /\ [Next]_vars => QueueMatchesTeams' BY NextCurrent
<1> QED BY <1>1, <1>2, TeamInvariant, PTL DEF Spec
=============================================================================
