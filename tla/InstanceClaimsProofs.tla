------------------------ MODULE InstanceClaimsProofs ------------------------
(***************************************************************************)
(* The rows of ControlServer implement InstanceClaims, for every number of  *)
(* instances, players and ports and under every fault the model has.        *)
(*                                                                          *)
(* CoreInv of InstanceLifecycleProofs gives what a single step needs to be  *)
(* read as a step on claims: rows from nextId on are unused, ports and maps *)
(* are held once, a parent has one successor.  There is one lemma for each  *)
(* shape of step.                                                           *)
(***************************************************************************)
EXTENDS InstanceLifecycleProofs

HeldAll == [i \in Id |-> Held(i)]
Over    == {i \in Id : ended[i]}

\* What a row holds: its port, map and predecessor while it is live.
LEMMA HeldPort ==
    ASSUME NEW i \in Id, NEW q
    PROVE  <<"port", q>> \in Held(i) <=> IsLive(i) /\ port[i] = q
BY DEF Held

LEMMA HeldMap ==
    ASSUME NEW i \in Id, NEW k
    PROVE  <<"map", k>> \in Held(i) <=> IsLive(i) /\ kind[i] # "match" /\ kind[i] = k
BY DEF Held

LEMMA HeldHeir ==
    ASSUME NEW i \in Id, NEW p
    PROVE  <<"heir", p>> \in Held(i) <=> IsLive(i) /\ pred[i] # NoId /\ pred[i] = p
BY DEF Held

\* The successors that wait for i are the drafts of i.
LEMMA WaitingDrafts ==
    ASSUME NEW i \in Id
    PROVE  Claims!Waiting(i) = Drafts(i)
<1>1. \A j \in Id : state[j] = "DRAFTING" => IsLive(j)
  BY DEF IsLive, Live
<1>2. i # NoId
  BY DEF Id, NoId
<1>3. \A j \in Id : <<"heir", i>> \in HeldAll[j] <=> IsLive(j) /\ pred[j] = i
  BY HeldHeir, <1>2 DEF HeldAll
<1> QED BY <1>1, <1>3 DEF Claims!Waiting, Drafts, HeldAll

\* A row that keeps its columns holds what it held as long as it is live, and
\* nothing when it is not.
LEMMA HeldKept ==
    ASSUME NEW i \in Id, kind'[i] = kind[i], port'[i] = port[i], pred'[i] = pred[i]
    PROVE  /\ IsLive(i) /\ IsLive(i)' => Held(i)' = Held(i)
           /\ ~IsLive(i) /\ ~IsLive(i)' => Held(i)' = Held(i)
           /\ ~IsLive(i)' => Held(i)' = {}
BY DEF Held

-----------------------------------------------------------------------------
(* The shapes of steps.                                                     *)

\* Rows that stop, or nothing, is a Stop of those rows.
LEMMA StopRefines ==
    ASSUME CoreInv,
           UNCHANGED <<kind, port, pred, ended>>,
           state' \in [Id -> RowState],
           \A i \in Id : state'[i] = state[i] \/ (IsLive(i) /\ state'[i] = "STOPPED")
    PROVE  [Claims!Next]_Claims!claimVars
<1> DEFINE S == {i \in Id : state'[i] # state[i]}
<1>1. S \subseteq Claims!Up
  BY DEF Claims!Up, IsLive, Live
<1>2. state' = [j \in Id |-> IF j \in S THEN "STOPPED" ELSE state[j]]
  OBVIOUS
<1>3. \A j \in S : Held(j)' = {}
  BY HeldKept DEF IsLive, Live
<1>4. \A j \in Id \ S : Held(j)' = Held(j)
  BY HeldKept DEF IsLive, Live
<1>5. HeldAll' = [j \in Id |-> IF j \in S THEN {} ELSE HeldAll[j]]
  BY <1>3, <1>4 DEF HeldAll
<1>6. UNCHANGED Over
  BY DEF Over
<1>7. Claims!Stop(S)
  BY <1>1, <1>2, <1>5, <1>6 DEF Claims!Stop, HeldAll, Over
<1> QED BY <1>1, <1>7 DEF Claims!Next

\* Nothing happens to the rows.
LEMMA StutterRefines ==
    ASSUME CoreInv, UNCHANGED <<state, kind, port, pred, ended>>
    PROVE  [Claims!Next]_Claims!claimVars
<1>1. state' \in [Id -> RowState]
  BY DEF CoreInv, CoreTypes, RowState
<1> QED BY <1>1, StopRefines

\* A row is inserted: it is granted its port, map and predecessor, or it is
\* stillborn.
LEMMA SpawnRefines ==
    ASSUME CoreInv, BoundAssumption,
           NEW k \in {"home", "zone", "match"}, NEW parent \in Id \cup {NoId},
           NEW ok \in BOOLEAN,
           Spawn(k, parent, ok),
           UNCHANGED <<ended, link, exitArmed>>,
           parent # NoId => k = "match" /\ link[parent] = "hello" /\ Successors(parent) = {},
           k = "home" => ~HomeExists,
           k = "zone" => ~ZoneExists
    PROVE  [Claims!Next]_Claims!claimVars
<1>1. PICK q \in NextPorts : port' = [port EXCEPT ![nextId] = q]
  BY DEF Spawn
<1>0. PICK n \in Id : n = nextId
  BY DEF Spawn
<1>2. /\ state[n] = "NONE"
      /\ q \in Port /\ q \notin UsedPorts
  BY <1>0, <1>1 DEF Spawn, CoreInv, CoreTypes, UnusedRows, NextPorts, Id
<1>3. /\ state' = [state EXCEPT ![n] = IF ok THEN "STARTING" ELSE "STOPPED"]
      /\ kind' = [kind EXCEPT ![n] = k]
      /\ pred' = [pred EXCEPT ![n] = parent]
      /\ port' = [port EXCEPT ![n] = q]
  BY <1>0, <1>1 DEF Spawn
<1>4. /\ kind'[n] = k /\ pred'[n] = parent /\ port'[n] = q
      /\ state'[n] = IF ok THEN "STARTING" ELSE "STOPPED"
      /\ \A j \in Id : j # n => /\ state'[j] = state[j] /\ kind'[j] = kind[j]
                                /\ pred'[j] = pred[j] /\ port'[j] = port[j]
  BY <1>2, <1>3 DEF CoreInv, CoreTypes
<1>5. UNCHANGED Over
  BY DEF Over
<1>6. \A j \in Id : j # n => Held(j)' = Held(j)
  BY <1>4, HeldKept DEF IsLive
<1>7. ~IsLive(n) /\ Held(n) = {}
  BY <1>2 DEF Held, IsLive, Live
<1>8. CASE ~ok
  <2>1. ~IsLive(n)'
    BY <1>4, <1>8 DEF IsLive, Live
  <2>2. Held(n)' = {}
    BY <2>1 DEF Held
  <2>3. HeldAll' = HeldAll
    BY <1>6, <1>7, <2>2 DEF HeldAll
  <2>4. state' = [state EXCEPT ![n] = "STOPPED"]
    BY <1>3, <1>8
  <2>5. Claims!Stillborn(n)
    BY <1>2, <1>5, <2>3, <2>4 DEF Claims!Stillborn, HeldAll, Over
  <2> QED BY <1>2, <2>5 DEF Claims!Next
<1>9. CASE ok
  <2> DEFINE R == Held(n)'
  <2>1. IsLive(n)'
    BY <1>4, <1>9 DEF IsLive, Live
  <2>2. R = {<<"port", q>>}
            \cup (IF k # "match" THEN {<<"map", k>>} ELSE {})
            \cup (IF parent # NoId THEN {<<"heir", parent>>} ELSE {})
    BY <1>4, <2>1 DEF Held
  <2> HIDE DEF R
  <2>3. <<"port", q>> \in Claims!Ports
    BY <1>2 DEF Claims!Ports
  <2>4. R \in SUBSET Claims!Claim
    BY <2>2, <2>3 DEF Claims!Claim
  <2>5. R \cap Claims!Ports # {}
    BY <2>2, <2>3
  <2>6. ASSUME NEW j \in Id
        PROVE  Held(j) \cap R = {}
    <3>1. <<"port", q>> \notin Held(j)
      BY <1>2, HeldPort DEF UsedPorts
    <3>2. k # "match" => <<"map", k>> \notin Held(j)
      <4>1. IsLive(j) /\ kind[j] = "zone" => state[j] \in {"STARTING", "READY"}
        BY DEF CoreInv, DraftsWatched, ParentsLinked, IsLive, Live
      <4> QED BY <4>1, HeldMap DEF HomeExists, ZoneExists
    <3>3. parent # NoId => <<"heir", parent>> \notin Held(j)
      BY HeldHeir DEF Successors
    <3> QED BY <2>2, <3>1, <3>2, <3>3
  <2>7. HeldAll' = [HeldAll EXCEPT ![n] = R]
    BY <1>6 DEF HeldAll, R
  <2>8. state' = [state EXCEPT ![n] = "STARTING"]
    BY <1>3, <1>9
  <2>9. \A j \in Id : HeldAll[j] \cap R = {}
    BY <2>6 DEF HeldAll
  <2>10. Claims!Grant(n, R)
    BY <1>2, <1>5, <2>5, <2>7, <2>8, <2>9 DEF Claims!Grant, HeldAll, Over
  <2> QED BY <1>2, <2>4, <2>10 DEF Claims!Next
<1> QED BY <1>8, <1>9

\* What a promotion leaves: every draft of i is READY, the rest as it was.
LEMMA PromotionIs ==
    ASSUME CoreInv, NEW i \in Id, NEW st \in Promotions(i)
    PROVE  st = [j \in Id |-> IF j \in Claims!Waiting(i) THEN "READY" ELSE state[j]]
<1>1. /\ st \in [Id -> RowState]
      /\ \A j \in Id : \/ st[j] = state[j]
                       \/ state[j] = "DRAFTING" /\ st[j] = "READY" /\ pred[j] = i
      /\ \A j \in Id : pred[j] = i => st[j] # "DRAFTING"
  BY PromotionShape
<1>2. \A j \in Id : st[j] = IF j \in Drafts(i) THEN "READY" ELSE state[j]
  BY <1>1 DEF Drafts
<1> QED BY <1>1, <1>2, WaitingDrafts

\* MISSION_ENDED ends the mission and opens its successor.
LEMMA EndRefines ==
    ASSUME CoreInv, NEW i \in Id, MissionEnded(i)
    PROVE  [Claims!Next]_Claims!claimVars
<1>1. /\ UNCHANGED <<kind, port, pred>>
      /\ ended' = [ended EXCEPT ![i] = TRUE]
      /\ state' \in Promotions(i)
      /\ link[i] = "hello"
  BY DEF MissionEnded, rowVars
<1>2. state' = [j \in Id |-> IF j \in Claims!Waiting(i) THEN "READY" ELSE state[j]]
  BY <1>1, PromotionIs
<1>3. state[i] # "NONE"
  BY <1>1 DEF CoreInv, CoreTypes, UnusedRows, Id
<1>4. Over' = Over \cup {i}
  BY <1>1 DEF Over, CoreInv, CoreTypes
<1>5. \A j \in Id : IsLive(j)' <=> IsLive(j)
  BY <1>2, WaitingDrafts DEF Drafts, IsLive, Live
<1>6. \A j \in Id : Held(j)' = Held(j)
  BY <1>1, <1>5, HeldKept
<1>7. UNCHANGED HeldAll
  BY <1>6 DEF HeldAll
<1>8. Claims!End(i)
  BY <1>2, <1>3, <1>4, <1>7 DEF Claims!End, HeldAll, Over
<1> QED BY <1>8 DEF Claims!Next

\* The end of an identified IPC session takes the instance down and opens its
\* successor; the end of another session leaves the rows alone.
LEMMA DownRefines ==
    ASSUME CoreInv, NEW i \in Id, LinkDown(i)
    PROVE  [Claims!Next]_Claims!claimVars
<1>1. /\ UNCHANGED <<kind, port, pred, ended>>
      /\ IF link[i] = "hello" THEN OnDisconnect(i) ELSE UNCHANGED state
  BY DEF LinkDown, rowVars
<1>2. CASE link[i] # "hello"
  BY <1>1, <1>2, StutterRefines
<1>3. CASE link[i] = "hello"
  <2>1. PICK st \in Promotions(i) : state' = [st EXCEPT ![i] = "STOPPED"]
    BY <1>1, <1>3 DEF OnDisconnect
  <2>2. st = [j \in Id |-> IF j \in Claims!Waiting(i) THEN "READY" ELSE state[j]]
    BY PromotionIs
  <2>3. state' = [j \in Id |-> IF j = i THEN "STOPPED"
                               ELSE IF j \in Claims!Waiting(i) THEN "READY" ELSE state[j]]
    BY <2>1, <2>2
  <2>4. state[i] # "NONE"
    BY <1>3 DEF CoreInv, CoreTypes, UnusedRows, Id
  <2>5. ~IsLive(i)' /\ \A j \in Id : j # i => (IsLive(j)' <=> IsLive(j))
    BY <2>3, WaitingDrafts DEF Drafts, IsLive, Live
  <2>6. Held(i)' = {} /\ \A j \in Id : j # i => Held(j)' = Held(j)
    BY <1>1, <2>5, HeldKept
  <2>7. HeldAll' = [HeldAll EXCEPT ![i] = {}]
    BY <2>6 DEF HeldAll
  <2>8. UNCHANGED Over
    BY <1>1 DEF Over
  <2>9. Claims!Down(i)
    BY <2>3, <2>4, <2>7, <2>8 DEF Claims!Down, HeldAll, Over
  <2> QED BY <2>9 DEF Claims!Next
<1> QED BY <1>2, <1>3

\* INSTANCE_READY loads a STARTING row, held back while the mission it is to
\* follow is played, and means nothing to any other row.
LEMMA ReadyRefines ==
    ASSUME CoreInv, NEW i \in Id, Ready(i)
    PROVE  [Claims!Next]_Claims!claimVars
<1>1. UNCHANGED <<kind, port, pred, ended>> /\ state' = MarkReady(i)
  BY DEF Ready, rowVars
<1>2. CASE state[i] # "STARTING"
  BY <1>1, <1>2, StutterRefines DEF MarkReady
<1>3. CASE state[i] = "STARTING"
  <2>1. state' = [state EXCEPT ![i] = ReadyState(i)]
    BY <1>1, <1>3 DEF MarkReady
  <2>2. \A p \in Id : p \in Claims!Up \ Over <=> IsLive(p) /\ ~ended[p]
    BY DEF Claims!Up, Over, IsLive, Live
  <2>3. \A p \in Id : <<"heir", p>> \in HeldAll[i] <=> pred[i] # NoId /\ pred[i] = p
    BY <1>3, HeldHeir DEF HeldAll, IsLive, Live
  <2>4. pred[i] \in Id \cup {NoId} /\ NoId \notin Id
    BY DEF CoreInv, CoreTypes, Id, NoId
  <2>5. Claims!Played(i) <=> pred[i] # NoId /\ IsLive(pred[i]) /\ ~ended[pred[i]]
    <3>1. Claims!Played(i) <=> \E p \in Id : p \in Claims!Up \ Over /\ <<"heir", p>> \in HeldAll[i]
      BY DEF Claims!Played, Claims!Up, HeldAll, Over
    <3> QED BY <2>2, <2>3, <2>4, <3>1
  <2>6. state' = [state EXCEPT ![i] = IF Claims!Played(i) THEN "DRAFTING" ELSE "READY"]
    BY <2>1, <2>5 DEF ReadyState
  <2>7. \A j \in Id : IsLive(j)' <=> IsLive(j)
    BY <1>3, <2>6 DEF CoreInv, CoreTypes, IsLive, Live
  <2>8. UNCHANGED HeldAll
    BY <1>1, <2>7, HeldKept DEF HeldAll
  <2>9. UNCHANGED Over
    BY <1>1 DEF Over
  <2>10. Claims!Load(i)
    BY <1>3, <2>6, <2>8, <2>9 DEF Claims!Load, HeldAll, Over
  <2> QED BY <2>10 DEF Claims!Next
<1> QED BY <1>2, <1>3
-----------------------------------------------------------------------------
(* Every step has one of these shapes.                                      *)

LEMMA RefinesStep ==
    ASSUME CoreInv, TypeOK, BoundAssumption, [Next]_vars
    PROVE  [Claims!Next]_Claims!claimVars
<1> USE DEF rowVars, dllVars, matchVars, sessionVars, counters
<1>1. ASSUME NEW p \in Player, JoinQueue(p) \/ LeaveQueue(p) \/ Accept(p) \/ AckTimeout(p)
                               \/ ExitMission(p) \/ LeaveGame(p) \/ Disconnect(p)
      PROVE  [Claims!Next]_Claims!claimVars
  <2>1. UNCHANGED <<state, kind, port, pred, ended>>
    BY <1>1 DEF JoinQueue, LeaveQueue, Accept, AckTimeout, ExitMission, LeaveGame, Disconnect
  <2> QED BY <2>1, StutterRefines
<1>2. ASSUME NEW G \in SUBSET queued, PopFresh(G)
      PROVE  [Claims!Next]_Claims!claimVars
  <2>1. CASE PopNoPort(G)
    <3>1. UNCHANGED <<state, kind, port, pred, ended>>
      BY <1>2, <2>1 DEF PopFresh, PopNoPort
    <3> QED BY <3>1, StutterRefines
  <2>2. CASE PopSpawns(G) \/ PopForkFails(G)
    <3>1. PICK ok \in BOOLEAN : Spawn("match", NoId, ok)
      BY <2>2 DEF PopSpawns, PopForkFails
    <3>2. UNCHANGED <<ended, link, exitArmed>>
      BY <1>2 DEF PopFresh
    <3> QED BY <3>1, <3>2, SpawnRefines
  <2> QED BY <1>2, <2>1, <2>2 DEF PopFresh
<1>3. ASSUME NEW G \in SUBSET queued, NEW i \in Id, Coalesce(G, i) \/ PopExisting(G, i)
      PROVE  [Claims!Next]_Claims!claimVars
  <2>1. UNCHANGED <<state, kind, port, pred, ended>>
    BY <1>3 DEF Coalesce, PopExisting
  <2> QED BY <2>1, StutterRefines
<1>4. ASSUME SpawnHome \/ SpawnZone
      PROVE  [Claims!Next]_Claims!claimVars
  <2>1. PICK k \in {"home", "zone"} : /\ SpawnShared(k)
                                      /\ k = "home" => ~HomeExists
                                      /\ k = "zone" => ~ZoneExists
    BY <1>4 DEF SpawnHome, SpawnZone
  <2>2. PICK ok \in BOOLEAN : Spawn(k, NoId, ok)
    BY <2>1 DEF SpawnShared
  <2>3. UNCHANGED <<ended, link, exitArmed>>
    BY <2>1 DEF SpawnShared
  <2> QED BY <2>1, <2>2, <2>3, SpawnRefines
<1>5. ASSUME NEW i \in Id, RequestSuccessor(i)
      PROVE  [Claims!Next]_Claims!claimVars
  <2>1. PICK ok \in BOOLEAN : Spawn("match", i, ok)
    BY <1>5 DEF RequestSuccessor
  <2>2. /\ UNCHANGED <<ended, link, exitArmed>>
        /\ link[i] = "hello" /\ Successors(i) = {}
    BY <1>5 DEF RequestSuccessor
  <2> QED BY <2>1, <2>2, SpawnRefines
<1>6. ASSUME NEW i \in Id, Ready(i) \/ LinkDown(i) \/ MissionEnded(i)
      PROVE  [Claims!Next]_Claims!claimVars
  BY <1>6, ReadyRefines, DownRefines, EndRefines
<1>7. ASSUME NEW i \in Id, Connect(i) \/ Hello(i) \/ Die(i)
      PROVE  [Claims!Next]_Claims!claimVars
  <2>1. UNCHANGED <<state, kind, port, pred, ended>>
    BY <1>7 DEF Connect, Hello, Die
  <2> QED BY <2>1, StutterRefines
<1>8. ASSUME NEW i \in Id, NEW r, StopIfEmpty(i, r), UNCHANGED <<kind, port, pred, ended>>
      PROVE  [Claims!Next]_Claims!claimVars
  BY <1>8, StopIfEmptyShape, StopRefines
<1>9. ASSUME NEW i \in Id, InstanceEmpty(i)
      PROVE  [Claims!Next]_Claims!claimVars
  BY <1>8, <1>9 DEF InstanceEmpty
<1>10. ASSUME NEW i \in Id, NEW p \in Player, PlayerLeft(i, p)
       PROVE  [Claims!Next]_Claims!claimVars
  BY <1>8, <1>10 DEF PlayerLeft
<1>11. ASSUME NEW i \in Id, NEW p \in Player, NEW ok \in BOOLEAN, RegisterAck(i, p, ok)
       PROVE  [Claims!Next]_Claims!claimVars
  <2>1. UNCHANGED <<state, kind, port, pred, ended>>
    BY <1>11 DEF RegisterAck
  <2> QED BY <2>1, StutterRefines
<1>12. ASSUME NEW i \in Id, ForceExit(i)
       PROVE  [Claims!Next]_Claims!claimVars
  <2>1. UNCHANGED <<kind, port, pred, ended>>
    BY <1>12 DEF ForceExit
  <2>2. CASE IsLive(i) /\ ended[i] /\ kind[i] # "home"
    <3>1. StopIfEmpty(i, roster')
      BY <1>12, <2>2 DEF ForceExit
    <3> QED BY <1>8, <2>1, <3>1
  <2>3. CASE ~(IsLive(i) /\ ended[i] /\ kind[i] # "home")
    <3>1. UNCHANGED state
      BY <1>12, <2>3 DEF ForceExit
    <3> QED BY <2>1, <3>1, StutterRefines
  <2> QED BY <2>2, <2>3
<1>13. ASSUME NEW S \in SUBSET Id, \A j \in S : IsLive(j),
              state' = [j \in Id |-> IF j \in S THEN "STOPPED" ELSE state[j]],
              UNCHANGED <<kind, port, pred, ended>>
       PROVE  [Claims!Next]_Claims!claimVars
  <2>1. /\ state' \in [Id -> RowState]
        /\ \A j \in Id : state'[j] = state[j] \/ (IsLive(j) /\ state'[j] = "STOPPED")
    BY <1>13 DEF CoreInv, CoreTypes, RowState
  <2> QED BY <1>13, <2>1, StopRefines
<1>14. ASSUME NEW i \in Id, AdminStop(i)
       PROVE  [Claims!Next]_Claims!claimVars
  <2>1. /\ UNCHANGED <<kind, port, pred, ended>>
        /\ IsLive(i)
        /\ state' = [state EXCEPT ![i] = "STOPPED"]
    BY <1>14 DEF AdminStop
  <2> DEFINE S == {i}
  <2>2. state' = [j \in Id |-> IF j \in S THEN "STOPPED" ELSE state[j]]
    BY <2>1 DEF CoreInv, CoreTypes
  <2>3. S \in SUBSET Id /\ \A j \in S : IsLive(j)
    BY <2>1
  <2> HIDE DEF S
  <2> QED BY <1>13, <2>1, <2>2, <2>3
<1>15. ASSUME NEW S \in SUBSET IdleCandidates, IdleSweep(S)
       PROVE  [Claims!Next]_Claims!claimVars
  <2>1. /\ UNCHANGED <<kind, port, pred, ended>>
        /\ state' = [j \in Id |-> IF j \in S THEN "STOPPED" ELSE state[j]]
    BY <1>15 DEF IdleSweep
  <2>2. S \in SUBSET Id /\ \A j \in S : IsLive(j)
    BY DEF IdleCandidates, IsLive, Live
  <2> QED BY <1>13, <2>1, <2>2
<1>16. ASSUME NEW clean \in BOOLEAN, Restart(clean)
       PROVE  [Claims!Next]_Claims!claimVars
  <2> DEFINE S == {j \in Id : IsLive(j)}
  <2>1. /\ UNCHANGED <<kind, port, pred, ended>>
        /\ state' = [j \in Id |-> IF j \in S THEN "STOPPED" ELSE state[j]]
    BY <1>16 DEF Restart
  <2>2. S \in SUBSET Id /\ \A j \in S : IsLive(j)
    OBVIOUS
  <2> HIDE DEF S
  <2> QED BY <1>13, <2>1, <2>2
<1>17. ASSUME UNCHANGED vars
       PROVE  [Claims!Next]_Claims!claimVars
  BY <1>17, StutterRefines DEF vars
<1> QED
  BY <1>1, <1>2, <1>3, <1>4, <1>5, <1>6, <1>7, <1>9, <1>10, <1>11, <1>12, <1>14,
     <1>15, <1>16, <1>17 DEF Next

LEMMA InitRefines ==
    ASSUME Init
    PROVE  Claims!Init
<1>1. \A i \in Id : state[i] = "NONE" /\ ~ended[i] /\ Held(i) = {}
  BY DEF Init, Held, IsLive, Live
<1> QED BY <1>1 DEF Claims!Init, Init

\* The rows behave as InstanceClaims says, for every number of instances, ports
\* and players and whatever crashes, drops and restarts there are: no handler
\* hands out what is held, revives a row, or opens a successor early.
THEOREM RowsImplementClaims == Spec => RowsKeepPromise
<1>1. TypeOK /\ CoreInv /\ [Next]_vars => [Claims!Next]_Claims!claimVars
  BY BoundAssumption, RefinesStep
<1>2. Init => Claims!Init
  BY InitRefines
<1> QED BY <1>1, <1>2, InstanceTypeCorrect, CoreInvariant, PTL DEF Spec, RowsKeepPromise, Claims!Spec
=============================================================================
