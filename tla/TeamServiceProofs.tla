------------------------- MODULE TeamServiceProofs -------------------------
(* Proofs that TeamService keeps its teams and invitations consistent, for    *)
(* every set of sessions and queues and every bound.                          *)
EXTENDS TeamService, FiniteSetTheorems, TLAPS

---------------------------------------------------------------------------
(* Matchmaking outcomes stay well typed *)

LEMMA ClearHudType ==
    ASSUME NEW m \in MM, NEW S PROVE ClearHud(m, S) \in MM
BY DEF ClearHud, MM

LEMMA MatchCancelledType ==
    ASSUME NEW m \in MM, NEW S PROVE MatchCancelled(m, S) \in MM
<1>1. ClearHud(m, S) \in MM BY ClearHudType
<1> QED BY <1>1 DEF MatchCancelled, MM

LEMMA AddPartyType ==
    ASSUME NEW m \in MM, NEW q \in Queue, NEW p \in Party PROVE AddParty(m, q, p) \in MM
BY DEF AddParty, MM

LEMMA PopType ==
    ASSUME NEW m \in MM, NEW q \in Queue, NEW P \in SUBSET m.queues[q], NEW r \in PopResult
    PROVE  Pop(m, q, P, r) \in MM
<1> DEFINE S == UNION {p.members : p \in P}
           popped == [m EXCEPT !.queues[q] = @ \ P]
<1>1. S \subseteq Session BY DEF MM, Party
<1>2. popped \in MM BY DEF MM
<1>3. CASE r = "spawn"
  <2>1. [popped EXCEPT !.forming = @ \cup S] \in MM BY <1>1, <1>2 DEF MM
  <2> QED BY <2>1, <1>3 DEF Pop
<1>4. CASE r = "existing"
  <2>1. [popped EXCEPT !.invited = @ \cup (S \cap Online)] \in MM BY <1>1, <1>2 DEF MM
  <2> QED BY <2>1, <1>4 DEF Pop
<1>5. CASE r = "cancelled"
  <2>1. MatchCancelled(popped, S \cap Online) \in MM BY <1>2, MatchCancelledType
  <2> QED BY <2>1, <1>5 DEF Pop
<1>6. CASE r = "noport" BY <1>2, <1>6 DEF Pop
<1> QED BY <1>3, <1>4, <1>5, <1>6 DEF PopResult

LEMMA OnQueueChangedType ==
    ASSUME NEW m \in MM, NEW q \in Queue PROVE OnQueueChanged(m, q) \subseteq MM
BY PopType DEF OnQueueChanged

LEMMA RemovePlayerType ==
    ASSUME NEW m \in MM, NEW s \in Session PROVE RemovePlayer(m, s) \subseteq MM
<1> DEFINE left     == [m EXCEPT !.forming = @ \ {s}]
           With(q)  == {p \in m.queues[q] : s \in p.members}
           Found(q) == {[left EXCEPT !.queues[q] = m.queues[q] \ {p}] : p \in With(q)}
<1>1. left \in MM BY DEF MM
<1>2. ASSUME NEW q \in Queue, NEW p
      PROVE  [left EXCEPT !.queues[q] = m.queues[q] \ {p}] \in MM
  BY <1>1 DEF MM
<1>3. \A q \in Queue : Found(q) \subseteq MM BY <1>2
<1>4. RemovePlayer(m, s) = IF \A q \in Queue : With(q) = {} THEN {left}
                           ELSE UNION {Found(q) : q \in Queue}
  BY DEF RemovePlayer
<1> HIDE DEF left, With, Found
<1> QED BY <1>1, <1>3, <1>4

LEMMA DequeueType ==
    ASSUME NEW m \in MM, NEW s \in Session PROVE DequeueForCompositionChange(m, s) \subseteq MM
<1>1. ASSUME NEW n \in RemoveParty(m, PartyIdOf(s)) PROVE n \in MM
  BY DEF RemoveParty, Holding, MM
<1> QED BY <1>1, ClearHudType DEF DequeueForCompositionChange

---------------------------------------------------------------------------
(* Taking one member out of a member list *)

Distinct(seq) == \A i, j \in DOMAIN seq : seq[i] = seq[j] => i = j

\* erase(find_if(...)) removes exactly the named member of a duplicate-free list.
LEMMA RemoveFirstProperties ==
    ASSUME NEW S, NEW seq \in Seq(S), NEW e \in ToSet(seq), Distinct(seq)
    PROVE  /\ RemoveFirst(seq, e) \in Seq(S)
           /\ Len(RemoveFirst(seq, e)) = Len(seq) - 1
           /\ Distinct(RemoveFirst(seq, e))
           /\ ToSet(RemoveFirst(seq, e)) = ToSet(seq) \ {e}
<1>1. PICK k \in 1 .. Len(seq) : seq[k] = e BY DEF ToSet
<1>2. {i \in 1 .. Len(seq) : seq[i] = e} = {k} BY <1>1 DEF Distinct
<1>3. Min({k}) = k BY DEF Min
<1>4. SelectInSeq(seq, LAMBDA v : v = e) = k BY <1>2, <1>3 DEF SelectInSeq
<1> DEFINE rest == RemoveFirst(seq, e)
           lo   == SubSeq(seq, 1, k - 1)
           hi   == SubSeq(seq, k + 1, Len(seq))
<1>5. rest = lo \o hi BY <1>1, <1>4 DEF RemoveFirst, RemoveAt
<1>6. lo \in Seq(S) /\ Len(lo) = k - 1 /\ \A i \in 1 .. k - 1 : lo[i] = seq[i]
  OBVIOUS
<1>7. hi \in Seq(S) /\ Len(hi) = Len(seq) - k /\ \A i \in 1 .. Len(seq) - k : hi[i] = seq[k + i]
  OBVIOUS
<1>8. \A i \in 1 .. Len(seq) - 1 : rest[i] = IF i < k THEN seq[i] ELSE seq[i + 1]
  <2> HIDE DEF lo, hi
  <2> TAKE i \in 1 .. Len(seq) - 1
  <2>1. CASE i < k
    <3>1. rest[i] = lo[i] BY <1>5, <1>6, <1>7, <2>1
    <3> QED BY <3>1, <2>1, <1>6
  <2>2. CASE i >= k
    <3>1. rest[i] = hi[i - (k - 1)] BY <1>5, <1>6, <1>7, <2>2
    <3>2. i - (k - 1) \in 1 .. Len(seq) - k BY <2>2
    <3>3. hi[i - (k - 1)] = seq[k + (i - (k - 1))] BY <1>7, <3>2
    <3>4. k + (i - (k - 1)) = i + 1 OBVIOUS
    <3> QED BY <3>1, <3>3, <3>4, <2>2
  <2> QED BY <2>1, <2>2
<1>9. rest \in Seq(S) /\ Len(rest) = Len(seq) - 1
  <2> HIDE DEF lo, hi, rest
  <2> QED BY <1>5, <1>6, <1>7
<1> HIDE DEF rest
<1>10. Distinct(rest)
  <2> SUFFICES ASSUME NEW i \in 1 .. Len(seq) - 1, NEW j \in 1 .. Len(seq) - 1, rest[i] = rest[j]
               PROVE  i = j
    BY <1>9 DEF Distinct
  <2> DEFINE At(x) == IF x < k THEN x ELSE x + 1
  <2>1. At(i) \in DOMAIN seq /\ At(j) \in DOMAIN seq OBVIOUS
  <2>2. rest[i] = seq[At(i)] /\ rest[j] = seq[At(j)] BY <1>8
  <2>3. At(i) = At(j)
    <3> HIDE DEF At
    <3> QED BY <2>1, <2>2 DEF Distinct
  <2> QED BY <2>3
<1>11. ToSet(rest) \subseteq ToSet(seq) \ {e} BY <1>1, <1>2, <1>8, <1>9 DEF ToSet
<1>12. ASSUME NEW x \in ToSet(seq) \ {e} PROVE x \in ToSet(rest)
  <2>1. PICK i \in 1 .. Len(seq) : seq[i] = x BY DEF ToSet
  <2>2. CASE i < k BY <2>1, <2>2, <1>8, <1>9 DEF ToSet
  <2>3. CASE i > k
    <3>1. i - 1 \in 1 .. Len(seq) - 1 /\ rest[i - 1] = x BY <2>1, <2>3, <1>8
    <3> QED BY <3>1, <1>9 DEF ToSet
  <2> QED BY <2>1, <2>2, <2>3, <1>1
<1> QED BY <1>9, <1>10, <1>11, <1>12 DEF rest

---------------------------------------------------------------------------
(* Finding a player's team *)

LEMMA TeamOfMember ==
    ASSUME TeamsDisjoint, BoundAssumption, NEW t \in TeamId, NEW s, s \in MembersOf(t)
    PROVE  TeamOf(s) = t /\ IsTeamed(s)
<1>1. \A u \in TeamId : s \in MembersOf(u) => u = t BY DEF TeamsDisjoint
<1>2. TeamOf(s) = t BY <1>1 DEF TeamOf
<1> QED BY <1>2 DEF IsTeamed, NoTeam, TeamId, BoundAssumption

LEMMA TeamOfTeamed ==
    ASSUME NEW s, IsTeamed(s)
    PROVE  TeamOf(s) \in TeamId /\ s \in MembersOf(TeamOf(s))
BY DEF IsTeamed, TeamOf

LEMMA UnteamedInNoTeam ==
    ASSUME BoundAssumption, NEW s, ~IsTeamed(s), NEW t \in TeamId PROVE s \notin MembersOf(t)
BY DEF IsTeamed, TeamOf, NoTeam, TeamId, BoundAssumption

---------------------------------------------------------------------------
(* The two steps that change a team *)

TeamTypes ==
    /\ members' \in [TeamId -> Seq(Session)]
    /\ leader' \in [TeamId -> Session \cup {NoSession}]
    /\ nextTeam' \in 1 .. MaxTeamId + 1
    /\ mm' \in MM

\* LeadershipMoves for team t, when somebody leaves.
HandsOver(t) ==
    members[t] # << >> /\ members'[t] # << >> /\ leader'[t] # leader[t] =>
        leader[t] \notin MembersOf(t)' /\ leader'[t] = Head(members'[t])

\* JoinsByConsent and LeadershipMoves for team t, when i is accepted.
TakesIn(t, i) ==
    /\ \A s \in MembersOf(t)' \ MembersOf(t) :
          /\ leader'[t] = i.inviter
          /\ s = i.invitee \/ (s = i.inviter /\ members[t] = << >>)
    /\ members[t] # << >> => leader'[t] = leader[t]

\* After LeaveCurrentTeam teams are still disjoint and led, they have lost s and
\* gained nobody.
LEMMA LeaveTeamStep ==
    ASSUME BoundAssumption, SentinelAssumption, TypeOK, TeamsDisjoint, TeamsLed,
           NEW m \in MM, NEW s \in Session, LeaveCurrentTeam(m, s)
    PROVE  /\ TeamTypes
           /\ TeamsDisjoint'
           /\ TeamsLed'
           /\ \A t \in TeamId : MembersOf(t)' \subseteq MembersOf(t) \ {s}
           /\ \A t \in TeamId : HandsOver(t)
<1>1. mm' \in MM BY DequeueType DEF LeaveCurrentTeam
<1>2. nextTeam' = nextTeam BY DEF LeaveCurrentTeam
<1>3. CASE ~IsTeamed(s)
  <2>1. members' = members /\ leader' = leader BY <1>3 DEF LeaveCurrentTeam
  <2>2. \A t \in TeamId : s \notin MembersOf(t) BY <1>3, UnteamedInNoTeam
  <2>3. \A t \in TeamId : MembersOf(t)' = MembersOf(t) BY <2>1 DEF MembersOf
  <2>4. \A t \in TeamId : HandsOver(t) BY <2>1 DEF HandsOver
  <2> QED BY <1>1, <1>2, <2>1, <2>2, <2>3, <2>4 DEF TypeOK, TeamTypes, TeamsDisjoint, TeamsLed
<1>4. CASE IsTeamed(s)
  <2>a. PICK t \in TeamId : t = TeamOf(s) /\ s \in MembersOf(t) BY <1>4, TeamOfTeamed
  <2> DEFINE rest == RemoveFirst(members[t], s)
  <2>1. t \in TeamId /\ s \in MembersOf(t) BY <2>a
  <2>2. /\ members' = [members EXCEPT ![t] = IF Len(rest) <= 1 THEN << >> ELSE rest]
        /\ leader' = [leader EXCEPT ![t] =
                         CASE Len(rest) <= 1 -> NoSession
                           [] Len(rest) > 1 /\ leader[t] = s -> Head(rest)
                           [] OTHER -> leader[t]]
    BY <1>4, <2>a DEF LeaveCurrentTeam, LeaderAfter
  <2>3. members[t] \in Seq(Session) /\ Distinct(members[t]) /\ s \in ToSet(members[t])
    BY <2>1 DEF TypeOK, TeamsDisjoint, Distinct, MembersOf
  <2>4. /\ rest \in Seq(Session)
        /\ Len(rest) = Len(members[t]) - 1
        /\ Distinct(rest)
        /\ ToSet(rest) = MembersOf(t) \ {s}
    BY <2>3, RemoveFirstProperties DEF MembersOf
  <2> HIDE DEF rest
  <2>5. Len(rest) \in Nat BY <2>4
  <2>6. members \in [TeamId -> Seq(Session)] /\ leader \in [TeamId -> Session \cup {NoSession}]
    BY DEF TypeOK
  <2>7. ASSUME NEW u \in TeamId, u # t
        PROVE  members'[u] = members[u] /\ leader'[u] = leader[u] /\ MembersOf(u)' = MembersOf(u)
    BY <2>1, <2>2, <2>6, <2>7 DEF MembersOf
  <2>8. CASE Len(rest) <= 1
    <3>1. members'[t] = << >> /\ leader'[t] = NoSession BY <2>1, <2>2, <2>6, <2>8
    <3>2. MembersOf(t)' = {} BY <3>1 DEF MembersOf, ToSet
    <3>3. TeamTypes
      <4>1. members' \in [TeamId -> Seq(Session)] BY <2>1, <2>2, <2>6, <2>8
      <4>2. leader' \in [TeamId -> Session \cup {NoSession}] BY <2>1, <2>2, <2>6, <2>8
      <4> QED BY <4>1, <4>2, <1>1, <1>2 DEF TypeOK, TeamTypes
    <3>4. TeamsDisjoint' BY <2>7, <3>1, <3>2 DEF TeamsDisjoint
    <3>5. TeamsLed' BY <2>7, <3>1, <1>2 DEF TeamsLed
    <3>6. \A u \in TeamId : MembersOf(u)' \subseteq MembersOf(u) \ {s}
      BY <2>1, <2>7, <3>2 DEF TeamsDisjoint
    <3>7. \A u \in TeamId : HandsOver(u) BY <2>7, <3>1 DEF HandsOver
    <3> QED BY <3>3, <3>4, <3>5, <3>6, <3>7
  <2>9. CASE Len(rest) > 1
    <3>1. members'[t] = rest BY <2>1, <2>2, <2>5, <2>6, <2>9
    <3>2. leader'[t] = IF leader[t] = s THEN Head(rest) ELSE leader[t]
      BY <2>1, <2>2, <2>5, <2>6, <2>9
    <3>3. MembersOf(t)' = MembersOf(t) \ {s} BY <2>4, <3>1 DEF MembersOf
    <3>4. Head(rest) \in ToSet(rest) /\ Head(rest) \in Session BY <2>4, <2>9 DEF ToSet
    <3>5. members[t] # << >>
      BY <2>4, <2>9, <2>6, <2>1
    <3>6. leader[t] \in MembersOf(t) /\ t < nextTeam BY <3>5, <2>1 DEF TeamsLed
    <3>7. leader'[t] \in MembersOf(t)' BY <3>2, <3>3, <3>4, <3>6, <2>4
    <3>8. TeamTypes
      <4>1. members' \in [TeamId -> Seq(Session)] BY <2>1, <2>2, <2>4, <2>6
      <4>2. leader'[t] \in Session \cup {NoSession} BY <3>2, <3>4, <2>1, <2>6
      <4>3. leader' = [leader EXCEPT ![t] = leader'[t]] BY <2>1, <2>2, <2>6
      <4>4. leader' \in [TeamId -> Session \cup {NoSession}] BY <4>2, <4>3, <2>6
      <4> QED BY <4>1, <4>4, <1>1, <1>2 DEF TypeOK, TeamTypes
    <3>9. TeamsDisjoint'
      <4>1. \A u, v \in TeamId : u # v => MembersOf(u)' \cap MembersOf(v)' = {}
        BY <2>7, <3>3 DEF TeamsDisjoint
      <4>2. \A u \in TeamId : Distinct(members'[u]) BY <2>7, <3>1, <2>4 DEF TeamsDisjoint, Distinct
      <4> QED BY <4>1, <4>2 DEF TeamsDisjoint, Distinct
    <3>10. TeamsLed' BY <2>7, <3>1, <3>6, <3>7, <2>9, <1>2, <2>5 DEF TeamsLed
    <3>11. \A u \in TeamId : MembersOf(u)' \subseteq MembersOf(u) \ {s}
      BY <2>1, <2>7, <3>3 DEF TeamsDisjoint
    <3>12. \A u \in TeamId : HandsOver(u) BY <2>7, <3>1, <3>2, <3>3 DEF HandsOver
    <3> QED BY <3>8, <3>9, <3>10, <3>11, <3>12
  <2> QED BY <2>5, <2>8, <2>9
<1> QED BY <1>3, <1>4

LEMMA AcceptanceType ==
    ASSUME TypeOK, NEW i \in Invite PROVE AcceptanceDequeues(i) \subseteq MM
<1>1. mm \in MM /\ i.inviter \in Session /\ i.invitee \in Session BY DEF TypeOK, Invite
<1>2. \A m \in DequeueForCompositionChange(mm, i.inviter) :
          DequeueForCompositionChange(m, i.invitee) \subseteq MM
  BY <1>1, DequeueType
<1> QED BY <1>2 DEF AcceptanceDequeues

\* An accepted invitation adds the invitee, and in a new team the inviter, to one
\* team; teams stay disjoint and led.
LEMMA JoinTeamStep ==
    ASSUME BoundAssumption, SentinelAssumption, TypeOK, TeamsDisjoint, TeamsLed,
           NEW i \in Invite, i.inviter # i.invitee, ~IsTeamed(i.invitee),
           IsTeamed(i.inviter) => IsLeader(i.inviter), JoinTeam(i)
    PROVE  /\ TeamTypes
           /\ TeamsDisjoint'
           /\ TeamsLed'
           /\ \A t \in TeamId : MembersOf(t)' \subseteq MembersOf(t) \cup {i.inviter, i.invitee}
           /\ \A t \in TeamId : TakesIn(t, i)
<1> DEFINE a == i.inviter
           b == i.invitee
<1>1. a \in Session /\ b \in Session BY DEF Invite
<1>2. PICK t \in TeamId : t = IF IsTeamed(a) THEN TeamOf(a) ELSE nextTeam BY DEF JoinTeam
<1> DEFINE base == IF IsTeamed(a) THEN members[t] ELSE <<a>>
<1>3. /\ members' = [members EXCEPT ![t] = Append(base, b)]
      /\ leader' = [leader EXCEPT ![t] = IF IsTeamed(a) THEN leader[t] ELSE a]
      /\ nextTeam' = IF IsTeamed(a) THEN nextTeam ELSE nextTeam + 1
  BY <1>2 DEF JoinTeam
<1>4. mm' \in MM
  <2>1. PICK m \in AcceptanceDequeues(i) : mm' \in RouteInvitee(m, i) BY DEF JoinTeam
  <2>2. m \in MM BY AcceptanceType
  <2>3. RouteInvitee(m, i) \subseteq MM BY <2>2, <1>1 DEF RouteInvitee, MM
  <2> QED BY <2>1, <2>3
<1>5. /\ members \in [TeamId -> Seq(Session)]
      /\ leader \in [TeamId -> Session \cup {NoSession}]
      /\ nextTeam \in 1 .. MaxTeamId + 1
  BY DEF TypeOK
<1>6. \A u \in TeamId : b \notin MembersOf(u) BY UnteamedInNoTeam
<1>7. /\ base \in Seq(Session) /\ Len(base) >= 1
      /\ Distinct(base) /\ a \in ToSet(base)
      /\ ToSet(base) \subseteq MembersOf(t) \cup {a}
      /\ \A u \in TeamId : u # t => ToSet(base) \cap MembersOf(u) = {}
      /\ t < nextTeam'
  <2>1. CASE IsTeamed(a)
    <3>1. t = TeamOf(a) /\ a \in MembersOf(t) BY <1>2, <2>1, TeamOfTeamed
    <3>2. base = members[t] /\ ToSet(base) = MembersOf(t) BY <2>1 DEF MembersOf
    <3>3. base \in Seq(Session) /\ Distinct(base) BY <3>2, <1>5 DEF TeamsDisjoint, Distinct
    <3>4. Len(base) >= 2 /\ t < nextTeam
      <4>1. members[t] # << >> BY <3>1 DEF MembersOf, ToSet
      <4> QED BY <4>1, <3>2 DEF TeamsLed
    <3>5. \A u \in TeamId : u # t => ToSet(base) \cap MembersOf(u) = {}
      BY <3>2 DEF TeamsDisjoint
    <3>6. Len(base) >= 1 BY <3>3, <3>4
    <3> HIDE DEF base
    <3> QED BY <3>1, <3>2, <3>3, <3>4, <3>5, <3>6, <1>3, <2>1
  <2>2. CASE ~IsTeamed(a)
    <3>1. base = <<a>> BY <2>2
    <3> HIDE DEF a
    <3>a. <<a>> \in Seq(Session) /\ Len(<<a>>) = 1 /\ <<a>>[1] = a /\ DOMAIN <<a>> = {1}
      BY <1>1
    <3>b. ToSet(<<a>>) = {a} BY <3>a DEF ToSet
    <3>2. base \in Seq(Session) /\ Len(base) = 1 /\ ToSet(base) = {a} BY <3>1, <3>a, <3>b
    <3>3. Distinct(base) BY <3>1, <1>1 DEF Distinct
    <3>4. \A u \in TeamId : a \notin MembersOf(u) BY <2>2, UnteamedInNoTeam
    <3>5. t < nextTeam' BY <1>2, <1>3, <1>5, <2>2
    <3> HIDE DEF base
    <3> QED BY <3>2, <3>3, <3>4, <3>5
  <2> QED BY <2>1, <2>2
<1> HIDE DEF base
<1> DEFINE now == Append(base, b)
<1>8. b \notin ToSet(base) BY <1>6, <1>7
<1>9. /\ now \in Seq(Session) /\ Len(now) = Len(base) + 1
      /\ \A k \in 1 .. Len(base) : now[k] = base[k]
      /\ now[Len(base) + 1] = b
  BY <1>1, <1>7
<1>10. ToSet(now) = ToSet(base) \cup {b}
  <2> HIDE DEF now
  <2>1. ToSet(now) \subseteq ToSet(base) \cup {b} BY <1>7, <1>9 DEF ToSet
  <2>2. ToSet(base) \subseteq ToSet(now) BY <1>7, <1>9 DEF ToSet
  <2>3. b \in ToSet(now) BY <1>7, <1>9 DEF ToSet
  <2> QED BY <2>1, <2>2, <2>3
<1>11. Distinct(now)
  <2> HIDE DEF now
  <2> QED BY <1>7, <1>8, <1>9 DEF Distinct, ToSet
<1> HIDE DEF now
<1>12. members'[t] = now /\ leader'[t] = a /\ MembersOf(t)' = ToSet(base) \cup {b}
  <2>1. members'[t] = now /\ MembersOf(t)' = ToSet(base) \cup {b}
    BY <1>3, <1>5, <1>10 DEF MembersOf, now
  <2>2. IsTeamed(a) => leader[t] = a BY <1>2 DEF IsLeader
  <2>3. leader'[t] = a BY <1>3, <1>5, <2>2
  <2> QED BY <2>1, <2>3
<1>13. ASSUME NEW u \in TeamId, u # t
       PROVE  members'[u] = members[u] /\ leader'[u] = leader[u] /\ MembersOf(u)' = MembersOf(u)
  BY <1>3, <1>5, <1>13 DEF MembersOf
<1>14. TeamTypes
  <2>1. members' \in [TeamId -> Seq(Session)] BY <1>3, <1>5, <1>9 DEF now
  <2>2. leader' \in [TeamId -> Session \cup {NoSession}] BY <1>1, <1>3, <1>5
  <2>3. nextTeam' \in 1 .. MaxTeamId + 1
    BY <1>2, <1>3, <1>5 DEF TeamId, BoundAssumption
  <2> QED BY <2>1, <2>2, <2>3, <1>4 DEF TeamTypes
<1>15. TeamsDisjoint'
  <2>1. \A u \in TeamId : u # t => MembersOf(t)' \cap MembersOf(u)' = {}
    BY <1>6, <1>7, <1>12, <1>13
  <2>2. \A u, v \in TeamId : u # v => MembersOf(u)' \cap MembersOf(v)' = {}
    BY <2>1, <1>13 DEF TeamsDisjoint
  <2>3. \A u \in TeamId : Distinct(members'[u])
    BY <1>11, <1>12, <1>13 DEF TeamsDisjoint, Distinct
  <2> QED BY <2>2, <2>3 DEF TeamsDisjoint, Distinct
<1>16. TeamsLed'
  <2>1. Len(members'[t]) >= 2 /\ leader'[t] \in MembersOf(t)' /\ t < nextTeam'
    BY <1>7, <1>9, <1>12
  <2>2. ASSUME NEW u \in TeamId, u # t
        PROVE  \/ members'[u] = << >> /\ leader'[u] = NoSession
               \/ Len(members'[u]) >= 2 /\ leader'[u] \in MembersOf(u)' /\ u < nextTeam'
    BY <1>3, <1>5, <1>13, <2>2 DEF TeamsLed, TeamId
  <2> QED BY <2>1, <2>2 DEF TeamsLed
<1>17. \A u \in TeamId : MembersOf(u)' \subseteq MembersOf(u) \cup {a, b}
  BY <1>7, <1>12, <1>13
<1>18. TakesIn(t, i)
  <2>1. CASE IsTeamed(a)
    <3>1. a \in MembersOf(t) BY <1>2, <2>1, TeamOfTeamed
    <3>2. leader[t] = a BY <1>2, <2>1 DEF IsLeader
    <3> QED BY <1>12, <1>17, <3>1, <3>2 DEF TakesIn
  <2>2. CASE ~IsTeamed(a)
    <3>1. t = nextTeam /\ nextTeam \in Nat BY <1>2, <1>5, <2>2
    <3>2. members[t] = << >> BY <3>1 DEF TeamsLed
    <3> QED BY <1>12, <1>17, <3>2 DEF TakesIn
  <2> QED BY <2>1, <2>2
<1>19. \A u \in TeamId : u # t => TakesIn(u, i) BY <1>13 DEF TakesIn
<1> QED BY <1>14, <1>15, <1>16, <1>17, <1>18, <1>19

---------------------------------------------------------------------------
(* The invariant *)

\* Dropping invitations keeps the rest unambiguous.
LEMMA FewerInvites ==
    ASSUME BoundAssumption, TypeOK, InvitesUnambiguous, IsFiniteSet(invites),
           invites' \subseteq invites, nextInvite' = nextInvite
    PROVE  /\ invites' \subseteq Invite
           /\ nextInvite' \in 1 .. MaxInviteId + 1
           /\ IsFiniteSet(invites')
           /\ InvitesUnambiguous'
<1>1. invites' \subseteq Invite /\ nextInvite' \in 1 .. MaxInviteId + 1 BY DEF TypeOK
<1>2. IsFiniteSet(invites') BY FS_Subset
<1>3. ASSUME NEW s \in Session PROVE Cardinality(Outgoing(s)') <= MaxOutgoingInvites
  <2>1. Outgoing(s)' \subseteq Outgoing(s) BY DEF Outgoing
  <2>2. IsFiniteSet(Outgoing(s)) BY FS_Subset DEF Outgoing
  <2>3. Cardinality(Outgoing(s)') <= Cardinality(Outgoing(s))
        /\ Cardinality(Outgoing(s)') \in Nat /\ Cardinality(Outgoing(s)) \in Nat
    BY <2>1, <2>2, FS_Subset, FS_CardinalityType
  <2> QED BY <2>3 DEF InvitesUnambiguous, BoundAssumption
<1>4. InvitesUnambiguous' BY <1>3 DEF InvitesUnambiguous
<1> QED BY <1>1, <1>2, <1>4

\* A disconnected session is in no team either: HandleDisconnect treats it as a player who
\* quits.
NoGhosts ==
    /\ \A t \in TeamId : MembersOf(t) \subseteq Online
    /\ InvitesLive

\* TypeOK, with the properties that need each other to be inductive; the queue entries
\* of TeamQueueProofs need the members online.
TeamInv ==
    /\ TypeOK
    /\ IsFiniteSet(invites)
    /\ TeamsDisjoint
    /\ TeamsLed
    /\ NoGhosts
    /\ InvitesUnambiguous

LEMMA InitTeamInv == Init => TeamInv
<1> SUFFICES ASSUME Init PROVE TeamInv OBVIOUS
<1> USE BoundAssumption, SentinelAssumption DEF BoundAssumption, SentinelAssumption
<1>1. mm \in MM BY DEF Init, MM
<1>2. members \in [TeamId -> Seq(Session)] BY DEF Init
<1>3. TypeOK BY <1>1, <1>2 DEF Init, TypeOK
<1>4. \A t \in TeamId : members[t] = << >> /\ leader[t] = NoSession /\ MembersOf(t) = {}
  BY DEF Init, MembersOf, ToSet
<1>5. TeamsDisjoint BY <1>4 DEF TeamsDisjoint
<1>6. TeamsLed BY <1>4 DEF TeamsLed
<1>7. NoGhosts BY <1>4 DEF NoGhosts, InvitesLive, Init
<1>8. IsFiniteSet(invites) /\ \A s \in Session : Cardinality(Outgoing(s)) = 0
  BY FS_EmptySet DEF Init, Outgoing
<1>9. InvitesUnambiguous BY <1>8 DEF InvitesUnambiguous, Init
<1> QED BY <1>3, <1>5, <1>6, <1>7, <1>8, <1>9 DEF TeamInv

\* A step that leaves the teams alone, logs nobody out and adds no invitation.
LEMMA SameTeams ==
    ASSUME TeamInv, UNCHANGED teamVars, mm' \in MM,
           status' \in [Session -> {"new", "online", "gone"}], Online \subseteq Online',
           invites' \subseteq invites, nextInvite' = nextInvite
    PROVE  TeamInv'
<1> USE BoundAssumption
<1>1. members' = members /\ leader' = leader /\ nextTeam' = nextTeam BY DEF teamVars
<1>2. \A t \in TeamId : MembersOf(t)' = MembersOf(t) BY <1>1 DEF MembersOf
<1>3. InvitesUnambiguous' /\ IsFiniteSet(invites)' /\ invites' \subseteq Invite
      /\ nextInvite' \in 1 .. MaxInviteId + 1
  BY FewerInvites DEF TeamInv
<1>4. TypeOK' BY <1>1, <1>3 DEF TeamInv, TypeOK
<1>5. TeamsDisjoint' /\ TeamsLed' BY <1>1, <1>2 DEF TeamInv, TeamsDisjoint, TeamsLed
<1>6. NoGhosts' BY <1>2 DEF TeamInv, NoGhosts, InvitesLive
<1> QED BY <1>3, <1>4, <1>5, <1>6 DEF TeamInv

\* A step in which x leaves its team; if x goes offline its invitations go too.
LEMMA Departure ==
    ASSUME TeamInv, NEW m \in MM, NEW x \in Session, LeaveCurrentTeam(m, x),
           status' \in [Session -> {"new", "online", "gone"}],
           \/ status' = status
           \/ Online' = Online \ {x} /\ \A i \in invites' : x \notin {i.inviter, i.invitee},
           invites' \subseteq invites, nextInvite' = nextInvite
    PROVE  TeamInv'
<1> USE BoundAssumption, SentinelAssumption
<1>1. InvitesUnambiguous' /\ IsFiniteSet(invites)' /\ invites' \subseteq Invite
      /\ nextInvite' \in 1 .. MaxInviteId + 1
  BY FewerInvites DEF TeamInv
<1>2. /\ TeamTypes /\ TeamsDisjoint' /\ TeamsLed'
      /\ \A t \in TeamId : MembersOf(t)' \subseteq MembersOf(t) \ {x}
  BY LeaveTeamStep DEF TeamInv
<1>3. TypeOK' BY <1>1, <1>2 DEF TypeOK, TeamTypes
<1>4. NoGhosts'
  <2>1. Online \ {x} \subseteq Online' BY DEF Online
  <2>2. \A t \in TeamId : MembersOf(t)' \subseteq Online' BY <1>2, <2>1 DEF TeamInv, NoGhosts, InvitesLive
  <2>3. \A i \in invites' : {i.inviter, i.invitee} \subseteq Online'
    <3>1. CASE status' = status BY <3>1 DEF TeamInv, NoGhosts, InvitesLive, Online
    <3>2. CASE Online' = Online \ {x} /\ \A i \in invites' : x \notin {i.inviter, i.invitee}
      BY <3>2 DEF TeamInv, NoGhosts, InvitesLive
    <3> QED BY <3>1, <3>2
  <2> QED BY <2>2, <2>3 DEF NoGhosts, InvitesLive
<1> QED BY <1>1, <1>2, <1>3, <1>4 DEF TeamInv

LEMMA RequestInviteStep ==
    ASSUME TeamInv, NEW s \in Session, NEW target \in Session, RequestInvite(s, target)
    PROVE  TeamInv'
<1> USE BoundAssumption DEF BoundAssumption
<1> DEFINE new == [id |-> nextInvite, inviter |-> s, invitee |-> target]
<1>1. /\ invites' = invites \cup {new} /\ nextInvite' = nextInvite + 1
      /\ nextInvite <= MaxInviteId /\ s # target /\ {s, target} \subseteq Online
      /\ Incoming(target) = {} /\ Cardinality(Outgoing(s)) < MaxOutgoingInvites
      /\ status' = status /\ members' = members /\ leader' = leader
      /\ nextTeam' = nextTeam /\ mm' = mm
  BY DEF RequestInvite, MayInvite, teamVars
<1>2. TypeOK /\ nextInvite \in Nat BY DEF TeamInv, TypeOK
<1>3. new \in Invite BY <1>1, <1>2 DEF TypeOK, Invite
<1>4. TypeOK' BY <1>1, <1>2, <1>3 DEF TypeOK
<1>5. IsFiniteSet(invites)' BY <1>1, FS_AddElement DEF TeamInv
<1>6. \A t \in TeamId : MembersOf(t)' = MembersOf(t) BY <1>1 DEF MembersOf
<1>7. TeamsDisjoint' /\ TeamsLed' BY <1>1, <1>6 DEF TeamInv, TeamsDisjoint, TeamsLed
<1>8. NoGhosts' BY <1>1, <1>6 DEF TeamInv, NoGhosts, InvitesLive, Online
<1>9. InvitesUnambiguous'
  <2>1. \A i \in invites : i.invitee # target /\ i.id < nextInvite /\ i.id \in Nat
    BY <1>1, <1>2 DEF Incoming, TeamInv, InvitesUnambiguous, TypeOK, Invite
  <2>2. \A i, j \in invites' : (i.invitee = j.invitee \/ i.id = j.id) => i = j
    BY <1>1, <1>2, <2>1 DEF TeamInv, InvitesUnambiguous
  <2>3. \A i \in invites' : i.inviter # i.invitee /\ i.id < nextInvite'
    BY <1>1, <1>2, <2>1 DEF TeamInv, InvitesUnambiguous
  <2>4. ASSUME NEW x \in Session PROVE Cardinality(Outgoing(x)') <= MaxOutgoingInvites
    <3>1. IsFiniteSet(Outgoing(x)) BY FS_Subset DEF Outgoing, TeamInv
    <3>2. CASE x # s
      <4>1. Outgoing(x)' = Outgoing(x) BY <3>2, <1>1 DEF Outgoing
      <4> QED BY <4>1 DEF TeamInv, InvitesUnambiguous
    <3>3. CASE x = s
      <4>1. Outgoing(x)' = Outgoing(x) \cup {new} BY <3>3, <1>1 DEF Outgoing
      <4>2. ASSUME NEW A, NEW e, IsFiniteSet(A)
            PROVE  Cardinality(A) \in Nat /\ Cardinality(A \cup {e}) \in Nat
                   /\ Cardinality(A \cup {e}) <= Cardinality(A) + 1
        <5>1. IsFiniteSet(A \cup {e}) /\ Cardinality(A \cup {e}) =
                 IF e \in A THEN Cardinality(A) ELSE Cardinality(A) + 1
          BY <4>2, FS_AddElement
        <5>2. Cardinality(A) \in Nat BY <4>2, FS_CardinalityType
        <5> QED BY <5>1, <5>2
      <4>3. Cardinality(Outgoing(x)') <= Cardinality(Outgoing(x)) + 1
            /\ Cardinality(Outgoing(x)) \in Nat /\ Cardinality(Outgoing(x)') \in Nat
        BY <4>1, <4>2, <3>1
      <4> QED BY <4>3, <3>3, <1>1
    <3> QED BY <3>2, <3>3
  <2> QED BY <2>2, <2>3, <2>4 DEF InvitesUnambiguous
<1> QED BY <1>4, <1>5, <1>7, <1>8, <1>9 DEF TeamInv

LEMMA PromoteLeaderStep ==
    ASSUME TeamInv, NEW s \in Session, NEW target \in Session, PromoteLeader(s, target)
    PROVE  TeamInv'
<1> USE BoundAssumption, SentinelAssumption
<1>1. PICK t \in TeamId : t = TeamOf(s) BY TeamOfTeamed DEF PromoteLeader, IsLeader
<1>2. /\ leader' = [leader EXCEPT ![t] = target] /\ target \in MembersOf(t)
      /\ members' = members /\ nextTeam' = nextTeam /\ status' = status
      /\ invites' = invites /\ nextInvite' = nextInvite /\ mm' = mm
  BY <1>1 DEF PromoteLeader, inviteVars
<1>3. \A u \in TeamId : MembersOf(u)' = MembersOf(u) BY <1>2 DEF MembersOf
<1>4. TypeOK' BY <1>2 DEF TeamInv, TypeOK
<1>5. InvitesUnambiguous' /\ IsFiniteSet(invites)' BY <1>2, FewerInvites DEF TeamInv
<1>6. TeamsDisjoint' BY <1>2, <1>3 DEF TeamInv, TeamsDisjoint
<1>7. NoGhosts' BY <1>2, <1>3 DEF TeamInv, NoGhosts, InvitesLive, Online
<1>8. members[t] # << >> BY <1>2 DEF MembersOf, ToSet
<1>9. leader'[t] = target /\ \A u \in TeamId : u # t => leader'[u] = leader[u]
  BY <1>2 DEF TeamInv, TypeOK
<1>10. TeamsLed' BY <1>2, <1>3, <1>8, <1>9 DEF TeamInv, TeamsLed
<1> QED BY <1>4, <1>5, <1>6, <1>7, <1>10 DEF TeamInv

LEMMA AcceptInviteStep ==
    ASSUME TeamInv, NEW s \in Session, AcceptInvite(s) PROVE TeamInv'
<1> USE BoundAssumption, SentinelAssumption
<1>1. PICK i \in Incoming(s) :
         /\ invites' = invites \ {i}
         /\ \/ Acceptable(i) /\ JoinTeam(i)
            \/ ~Acceptable(i) /\ mm' \in AcceptanceDequeues(i) /\ UNCHANGED teamVars
  BY DEF AcceptInvite
<1>2. status' = status /\ nextInvite' = nextInvite BY DEF AcceptInvite
<1>3. i \in invites /\ i \in Invite /\ i.invitee = s BY DEF Incoming, TeamInv, TypeOK
<1>4. InvitesUnambiguous' /\ IsFiniteSet(invites)' /\ invites' \subseteq Invite
      /\ nextInvite' \in 1 .. MaxInviteId + 1
  BY <1>1, <1>2, FewerInvites DEF TeamInv
<1>5. CASE UNCHANGED teamVars /\ mm' \in AcceptanceDequeues(i)
  <2>1. mm' \in MM BY <1>3, <1>5, AcceptanceType DEF TeamInv
  <2>2. Online \subseteq Online' BY <1>2 DEF Online
  <2> QED BY <1>1, <1>2, <1>5, <2>1, <2>2, SameTeams DEF TeamInv, TypeOK
<1>6. CASE Acceptable(i) /\ JoinTeam(i)
  <2>1. i.inviter # i.invitee BY <1>3 DEF TeamInv, InvitesUnambiguous
  <2>2. /\ TeamTypes /\ TeamsDisjoint' /\ TeamsLed'
        /\ \A t \in TeamId : MembersOf(t)' \subseteq MembersOf(t) \cup {i.inviter, i.invitee}
    BY <1>3, <1>6, <2>1, JoinTeamStep DEF TeamInv, Acceptable
  <2>3. TypeOK' BY <1>2, <1>4, <2>2 DEF TeamInv, TypeOK, TeamTypes
  <2>4. NoGhosts' BY <1>1, <1>2, <1>3, <1>6, <2>2 DEF TeamInv, NoGhosts, InvitesLive, Online, Acceptable
  <2> QED BY <1>4, <2>2, <2>3, <2>4 DEF TeamInv
<1> QED BY <1>1, <1>5, <1>6

LEMMA NextTeamInv == TeamInv /\ [Next]_vars => TeamInv'
<1> SUFFICES ASSUME TeamInv, [Next]_vars PROVE TeamInv' OBVIOUS
<1> USE BoundAssumption, SentinelAssumption
<1>t. mm \in MM /\ status \in [Session -> {"new", "online", "gone"}] BY DEF TeamInv, TypeOK
<1>1. ASSUME NEW s \in Session, Login(s) PROVE TeamInv'
  <2>1. Online \subseteq Online' /\ status' \in [Session -> {"new", "online", "gone"}]
    BY <1>1, <1>t DEF Login, Online
  <2> QED BY <1>1, <1>t, <2>1, SameTeams DEF Login, inviteVars
<1>2. ASSUME NEW s \in Session, AcceptInvite(s) PROVE TeamInv' BY <1>2, AcceptInviteStep
<1>3. ASSUME NEW s \in Session, HandleLeave(s) PROVE TeamInv'
  <2>1. status' = status /\ nextInvite' = nextInvite BY <1>3 DEF HandleLeave
  <2>2. Online \subseteq Online' BY <2>1 DEF Online
  <2>3. CASE Incoming(s) # {}
    <3>1. invites' \subseteq invites /\ UNCHANGED teamVars /\ mm' = mm BY <1>3, <2>3 DEF HandleLeave
    <3> QED BY <2>1, <2>2, <3>1, <1>t, SameTeams
  <2>4. CASE Incoming(s) = {}
    <3>1. LeaveCurrentTeam(mm, s) /\ invites' = invites BY <1>3, <2>4 DEF HandleLeave
    <3> QED BY <2>1, <3>1, <1>t, Departure
  <2> QED BY <2>3, <2>4
<1>4. ASSUME NEW s \in Session, MatchLeave(s) PROVE TeamInv'
  <2>1. mm' \in MM
    <3>1. CASE mm' \in DequeueForCompositionChange(mm, s) BY <3>1, <1>t, DequeueType
    <3>2. ASSUME NEW m \in RemovePlayer(mm, s), mm' = [ClearHud(m, {s}) EXCEPT !.invited = @ \ {s}]
          PROVE  mm' \in MM
      <4>1. ClearHud(m, {s}) \in MM BY <1>t, RemovePlayerType, ClearHudType
      <4> QED BY <3>2, <4>1 DEF MM
    <3> QED BY <1>4, <3>1, <3>2 DEF MatchLeave
  <2>2. status' = status /\ UNCHANGED teamVars /\ UNCHANGED inviteVars BY <1>4 DEF MatchLeave
  <2> QED BY <1>t, <2>1, <2>2, SameTeams DEF Online, inviteVars
<1>5. ASSUME NEW s \in Session, PlayerLogoff(s) PROVE TeamInv'
  <2>1. LeaveCurrentTeam(mm, s) /\ status' = status /\ nextInvite' = nextInvite
        /\ invites' \subseteq invites
    BY <1>5 DEF PlayerLogoff, CancelInvitesFor
  <2> QED BY <2>1, <1>t, Departure
<1>6. ASSUME NEW s \in Session, PlayerLeaveGame(s) PROVE TeamInv'
  <2> DEFINE m == [mm EXCEPT !.invited = @ \ {s}]
  <2>1. m \in MM BY <1>t DEF MM
  <2>2. LeaveCurrentTeam(m, s) /\ status' = status /\ nextInvite' = nextInvite
        /\ invites' \subseteq invites
    BY <1>6 DEF PlayerLeaveGame, CancelInvitesFor
  <2> HIDE DEF m
  <2> QED BY <2>1, <2>2, <1>t, Departure
<1>7. ASSUME NEW s \in Session, SocketDisconnect(s) PROVE TeamInv'
  <2>1. PICK n \in RemovePlayer(mm, s) : LeaveCurrentTeam([n EXCEPT !.invited = @ \ {s}], s)
    BY <1>7 DEF SocketDisconnect
  <2> DEFINE m == [n EXCEPT !.invited = @ \ {s}]
  <2>2. m \in MM
    <3>1. n \in MM BY <1>t, RemovePlayerType
    <3> QED BY <3>1 DEF MM
  <2>3. status' = [status EXCEPT ![s] = "gone"] /\ nextInvite' = nextInvite
    BY <1>7 DEF SocketDisconnect
  <2>4. Online' = Online \ {s} /\ status' \in [Session -> {"new", "online", "gone"}]
    BY <2>3, <1>t DEF Online
  <2>5. invites' \subseteq invites /\ \A i \in invites' : s \notin {i.inviter, i.invitee}
    BY <1>7 DEF SocketDisconnect, CancelInvitesFor, Incoming, Outgoing
  <2>6. LeaveCurrentTeam(m, s) BY <2>1
  <2> HIDE DEF m
  <2> QED BY <2>2, <2>3, <2>4, <2>5, <2>6, Departure
<1>8. ASSUME NEW s \in Session, MatchAccept(s) PROVE TeamInv'
  <2>1. PICK m \in {mm, ClearHud(mm, {s})} : mm' = [m EXCEPT !.invited = @ \ {s}]
    BY <1>8 DEF MatchAccept
  <2>2. m \in MM BY <1>t, ClearHudType
  <2>3. mm' \in MM BY <2>1, <2>2 DEF MM
  <2> QED BY <1>8, <1>t, <2>3, SameTeams DEF MatchAccept, Online, inviteVars
<1>9. ASSUME NEW s \in Session, NEW target \in Session, RequestInvite(s, target) PROVE TeamInv'
  BY <1>9, RequestInviteStep
<1>10. ASSUME NEW s \in Session, NEW target \in Session, PromoteLeader(s, target) PROVE TeamInv'
  BY <1>10, PromoteLeaderStep
<1>11. ASSUME NEW s \in Session, NEW target \in Session, KickMember(s, target) PROVE TeamInv'
  BY <1>11, <1>t, Departure DEF KickMember, inviteVars
<1>12. ASSUME NEW s \in Session, NEW q \in Queue, MatchJoinTeam(s, q) PROVE TeamInv'
  <2> DEFINE party == [id |-> <<"team", TeamOf(s)>>, members |-> MembersOf(TeamOf(s))]
  <2>1. TeamOf(s) \in TeamId BY <1>12, TeamOfTeamed DEF MatchJoinTeam, IsLeader
  <2>2. MembersOf(TeamOf(s)) \subseteq Session BY <2>1 DEF TeamInv, NoGhosts, InvitesLive, Online
  <2>3. party \in Party BY <2>1, <2>2 DEF Party, PartyId
  <2>4. PICK m \in OnQueueChanged(AddParty(mm, q, party), q) :
           mm' = [m EXCEPT !.hud = [x \in Session |->
                      IF x \in party.members \cap Online THEN q ELSE m.hud[x]]]
    BY <1>12 DEF MatchJoinTeam
  <2> HIDE DEF party
  <2>5. m \in MM BY <1>t, <2>3, <2>4, AddPartyType, OnQueueChangedType
  <2>6. mm' \in MM BY <2>4, <2>5 DEF MM
  <2> QED BY <1>12, <1>t, <2>6, SameTeams DEF MatchJoinTeam, Online, inviteVars
<1>13. ASSUME NEW s \in Session, NEW q \in Queue, MatchJoinSolo(s, q) PROVE TeamInv'
  <2> DEFINE party == [id |-> <<"solo", s>>, members |-> {s}]
             n     == [mm EXCEPT !.hud[s] = q]
  <2>1. party \in Party BY DEF Party, PartyId
  <2>2. n \in MM BY <1>t DEF MM
  <2>3. mm' \in OnQueueChanged(AddParty(n, q, party), q) BY <1>13 DEF MatchJoinSolo
  <2> HIDE DEF party, n
  <2>4. mm' \in MM BY <2>1, <2>2, <2>3, AddPartyType, OnQueueChangedType
  <2> QED BY <1>13, <1>t, <2>4, SameTeams DEF MatchJoinSolo, Online, inviteVars
<1>14. ASSUME NEW i \in invites, ExpireInvite(i) PROVE TeamInv'
  BY <1>14, <1>t, SameTeams DEF ExpireInvite, Online
<1>15. ASSUME NEW q \in Queue, QueuePops(q) PROVE TeamInv'
  <2>1. mm' \in MM BY <1>15, <1>t, OnQueueChangedType DEF QueuePops
  <2> QED BY <1>15, <1>t, <2>1, SameTeams DEF QueuePops, Online, inviteVars
<1>16. ASSUME InstanceReady PROVE TeamInv'
  <2>1. PICK S \in SUBSET mm.forming :
           mm' = [mm EXCEPT !.forming = @ \ S, !.invited = @ \cup (S \cap Online)]
    BY <1>16 DEF InstanceReady
  <2>2. mm' \in MM BY <2>1, <1>t DEF MM, Online
  <2> QED BY <1>16, <1>t, <2>2, SameTeams DEF InstanceReady, Online, inviteVars
<1>17. ASSUME InstanceDies PROVE TeamInv'
  <2>1. PICK S \in SUBSET mm.forming :
           mm' = MatchCancelled([mm EXCEPT !.forming = @ \ S], S \cap Online)
    BY <1>17 DEF InstanceDies
  <2>2. [mm EXCEPT !.forming = @ \ S] \in MM BY <1>t DEF MM
  <2>3. mm' \in MM BY <2>1, <2>2, MatchCancelledType
  <2> QED BY <1>17, <1>t, <2>3, SameTeams DEF InstanceDies, Online, inviteVars
<1>18. CASE UNCHANGED vars BY <1>18, <1>t, SameTeams DEF vars, teamVars, Online
<1> QED BY <1>1, <1>2, <1>3, <1>4, <1>5, <1>6, <1>7, <1>8, <1>9, <1>10, <1>11, <1>12,
           <1>13, <1>14, <1>15, <1>16, <1>17, <1>18 DEF Next

LEMMA TeamInvariant == Spec => []TeamInv
BY InitTeamInv, NextTeamInv, PTL DEF Spec

\* The state of TeamService and of the matchmaking queues stays well typed.
THEOREM TeamTypeCorrect == Spec => []TypeOK
<1>1. TeamInv => TypeOK BY DEF TeamInv
<1> QED BY <1>1, TeamInvariant, PTL

\* However invitations, acceptances, kicks, promotions, exits and disconnects are
\* interleaved, no player is ever in two teams or twice in one.
THEOREM TeamsStayDisjoint == Spec => []TeamsDisjoint
<1>1. TeamInv => TeamsDisjoint BY DEF TeamInv
<1> QED BY <1>1, TeamInvariant, PTL

\* Every team has two members or more and is led by one of them.
THEOREM TeamsStayLed == Spec => []TeamsLed
<1>1. TeamInv => TeamsLed BY DEF TeamInv
<1> QED BY <1>1, TeamInvariant, PTL

\* No open invitation is from or for a session that has disconnected, whatever else of
\* invitations, teams and queues was under way when the socket dropped.
THEOREM InvitesStayLive == Spec => []InvitesLive
<1>1. TeamInv => InvitesLive BY DEF TeamInv, NoGhosts
<1> QED BY <1>1, TeamInvariant, PTL

\* A player has at most one unanswered invitation and at most
\* kMaxOutgoingInvites open ones.
THEOREM InvitesStayUnambiguous == Spec => []InvitesUnambiguous
<1>1. TeamInv => InvitesUnambiguous BY DEF TeamInv
<1> QED BY <1>1, TeamInvariant, PTL
---------------------------------------------------------------------------
(* How a team changes *)

\* Every step leaves the member lists alone, takes somebody out of a team, or
\* lets somebody in who accepts an invitation.
LEMMA TeamChanges ==
    ASSUME TeamInv, [Next]_vars
    PROVE  \/ members' = members
           \/ \E s \in Session, m \in MM : LeaveCurrentTeam(m, s)
           \/ \E i \in invites \ invites' : Acceptable(i) /\ JoinTeam(i)
<1>t. mm \in MM BY DEF TeamInv, TypeOK
<1>1. ASSUME NEW s \in Session,
             Login(s) \/ MatchLeave(s) \/ MatchAccept(s)
             \/ \E target \in Session : RequestInvite(s, target) \/ PromoteLeader(s, target)
             \/ \E q \in Queue : MatchJoinTeam(s, q) \/ MatchJoinSolo(s, q)
      PROVE  members' = members
  BY <1>1 DEF Login, MatchLeave, MatchAccept, RequestInvite, PromoteLeader, MatchJoinTeam,
              MatchJoinSolo, teamVars
<1>2. ASSUME NEW s \in Session, AcceptInvite(s)
      PROVE  \/ members' = members
             \/ \E i \in invites \ invites' : Acceptable(i) /\ JoinTeam(i)
  <2>1. PICK i \in Incoming(s) :
           /\ invites' = invites \ {i}
           /\ \/ Acceptable(i) /\ JoinTeam(i)
              \/ UNCHANGED teamVars
    BY <1>2 DEF AcceptInvite
  <2>2. i \in invites \ invites' BY <2>1 DEF Incoming
  <2> QED BY <2>1, <2>2 DEF teamVars
<1>3. ASSUME NEW s \in Session, HandleLeave(s)
      PROVE  members' = members \/ LeaveCurrentTeam(mm, s)
  BY <1>3 DEF HandleLeave, teamVars
<1>4. ASSUME NEW s \in Session, PlayerLogoff(s)
      PROVE  LeaveCurrentTeam(mm, s)
  BY <1>4 DEF PlayerLogoff
<1>5. ASSUME NEW s \in Session, PlayerLeaveGame(s)
      PROVE  \E m \in MM : LeaveCurrentTeam(m, s)
  <2>1. [mm EXCEPT !.invited = @ \ {s}] \in MM BY <1>t DEF MM
  <2> QED BY <1>5, <2>1 DEF PlayerLeaveGame
<1>6. ASSUME NEW s \in Session, SocketDisconnect(s)
      PROVE  \E m \in MM : LeaveCurrentTeam(m, s)
  <2>1. PICK n \in RemovePlayer(mm, s) : LeaveCurrentTeam([n EXCEPT !.invited = @ \ {s}], s)
    BY <1>6 DEF SocketDisconnect
  <2>2. n \in MM BY <1>t, RemovePlayerType
  <2>3. [n EXCEPT !.invited = @ \ {s}] \in MM BY <2>2 DEF MM
  <2> QED BY <2>1, <2>3
<1>7. ASSUME NEW s \in Session, NEW target \in Session, KickMember(s, target)
      PROVE  LeaveCurrentTeam(mm, target)
  BY <1>7 DEF KickMember
<1>8. ASSUME \/ \E i \in invites : ExpireInvite(i)
             \/ \E q \in Queue : QueuePops(q)
             \/ InstanceReady \/ InstanceDies \/ UNCHANGED vars
      PROVE  members' = members
  BY <1>8 DEF ExpireInvite, QueuePops, InstanceReady, InstanceDies, teamVars, vars
<1> QED BY <1>t, <1>1, <1>2, <1>3, <1>4, <1>5, <1>6, <1>7, <1>8 DEF Next

\* What JoinsByConsent and LeadershipMoves say of one team in one step.
LEMMA ChangesByConsent ==
    ASSUME TeamInv, [Next]_vars, NEW t \in TeamId
    PROVE  /\ \A s \in Session : s \in MembersOf(t)' \ MembersOf(t) =>
                 \E i \in invites \ invites' :
                    \/ i.invitee = s /\ i.inviter = leader'[t]
                    \/ i.inviter = s /\ leader'[t] = s /\ members[t] = << >>
           /\ (members[t] # << >> /\ members'[t] # << >> /\ leader'[t] # leader[t]) =>
                 \/ members'[t] = members[t]
                 \/ leader[t] \notin MembersOf(t)' /\ leader'[t] = Head(members'[t])
<1> USE BoundAssumption, SentinelAssumption
<1>1. CASE members' = members
  <2>1. MembersOf(t)' = MembersOf(t) BY <1>1 DEF MembersOf
  <2> QED BY <1>1, <2>1
<1>2. ASSUME NEW s \in Session, NEW m \in MM, LeaveCurrentTeam(m, s)
      PROVE  MembersOf(t)' \subseteq MembersOf(t) /\ HandsOver(t)
  BY <1>2, LeaveTeamStep DEF TeamInv
<1>3. ASSUME NEW i \in invites \ invites', Acceptable(i), JoinTeam(i)
      PROVE  TakesIn(t, i)
  <2>1. i \in Invite /\ i.inviter # i.invitee
    BY <1>3 DEF TeamInv, TypeOK, InvitesUnambiguous
  <2> QED BY <1>3, <2>1, JoinTeamStep DEF TeamInv, Acceptable
<1>4. CASE \E s \in Session, m \in MM : LeaveCurrentTeam(m, s)
  BY <1>2, <1>4 DEF HandsOver
<1>5. CASE \E i \in invites \ invites' : Acceptable(i) /\ JoinTeam(i)
  BY <1>3, <1>5 DEF TakesIn
<1> QED BY <1>1, <1>4, <1>5, TeamChanges

\* Nobody is put into a team who has not accepted an invitation by its leader, or
\* whose own invitation has not just founded it: crossing invitations, promotions
\* and departures in between notwithstanding.
THEOREM MembersConsent == Spec => JoinsByConsent
<1>1. TeamInv /\ [Next]_vars =>
          [\A s \in Session, t \in TeamId :
              s \in MembersOf(t)' \ MembersOf(t) =>
                 \E i \in invites \ invites' :
                    \/ i.invitee = s /\ i.inviter = leader'[t]
                    \/ i.inviter = s /\ leader'[t] = s /\ members[t] = << >>]_vars
  BY ChangesByConsent
<1> QED BY <1>1, TeamInvariant, PTL DEF Spec, JoinsByConsent

\* The lead changes hands only by promotion, or goes to the front of the list
\* when the leader leaves.
THEOREM LeadershipPassesOn == Spec => LeadershipMoves
<1>1. TeamInv /\ [Next]_vars =>
          [\A t \in TeamId :
              (members[t] # << >> /\ members'[t] # << >> /\ leader'[t] # leader[t]) =>
                 \/ members'[t] = members[t]
                 \/ leader[t] \notin MembersOf(t)' /\ leader'[t] = Head(members'[t])]_vars
  BY ChangesByConsent
<1> QED BY <1>1, TeamInvariant, PTL DEF Spec, LeadershipMoves
=============================================================================
