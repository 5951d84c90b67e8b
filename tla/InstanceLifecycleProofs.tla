---------------------- MODULE InstanceLifecycleProofs ----------------------
(***************************************************************************)
(* What holds of the instance rows for every number of instances, players   *)
(* and ports, under every fault the model has: types, unique ports, one     *)
(* shared map, one successor, watched drafts, and rows that only move on.   *)
(*                                                                          *)
(* The argument is about nine variables only (coreVars).  The actions fall  *)
(* into a few shapes with respect to them: rows that stop, a row inserted,  *)
(* a successor promoted, a row that becomes ready, and a new IPC session.   *)
(* One lemma each shows that CoreInv survives such a step.                  *)
(***************************************************************************)
EXTENDS InstanceLifecycle, TLAPS

coreVars == <<nextId, state, kind, port, pred, ended, proc, link, exitArmed>>

CoreTypes ==
    /\ nextId \in 1 .. MaxId + 1
    /\ state \in [Id -> Live \cup {"NONE", "STOPPED"}]
    /\ kind \in [Id -> {"home", "zone", "match"}]
    /\ port \in [Id -> Port \cup {0}]
    /\ pred \in [Id -> Id \cup {NoId}]
    /\ ended \in [Id -> BOOLEAN]
    /\ proc \in [Id -> {"none", "up", "term", "gone"}]
    /\ link \in [Id -> {"none", "open", "hello"}]
    /\ exitArmed \subseteq Id

\* The rows from nextId on are not inserted yet, and nothing refers to them.
UnusedRows ==
    \A i \in Id : /\ i < nextId <=> state[i] # "NONE"
                  /\ i >= nextId => /\ proc[i] = "none" /\ link[i] = "none"
                                    /\ pred[i] = NoId /\ ~ended[i]
                  /\ pred[i] # NoId => pred[i] < nextId

\* Successors are match instances, and while the parent lives its identified
\* session, which asked for the successor, is still there.
ParentsLinked ==
    \A i \in Id : pred[i] # NoId =>
        /\ kind[i] = "match"
        /\ IsLive(pred[i]) => link[pred[i]] = "hello"

\* Only missions end.
OnlyMissionsEnd == \A i \in Id : ended[i] => kind[i] = "match"

\* The inductive invariant: what is to be shown, and the three facts above.
CoreInv ==
    /\ CoreTypes
    /\ UnusedRows
    /\ ParentsLinked
    /\ OnlyMissionsEnd
    /\ PortsUnique
    /\ OneSharedMap
    /\ OneSuccessor
    /\ DraftsWatched
    /\ EndedIsTimed

RowState == Live \cup {"NONE", "STOPPED"}

\* The step relation of RowsMoveForward.
Forward == \A i \in Id : Rank[state[i]] <= Rank[state'[i]]

\* The order of the states of a row.
LEMMA RankOrder ==
    /\ Rank["NONE"] = 0 /\ Rank["STARTING"] = 1 /\ Rank["DRAFTING"] = 2
    /\ Rank["READY"] = 3 /\ Rank["STOPPED"] = 4
BY DEF Rank

-----------------------------------------------------------------------------
(* The shapes of steps.                                                     *)

\* Rows stop, or nothing happens to them; a force-exit timer may go once its
\* row is stopped or never ended.
LEMMA StopStep ==
    ASSUME CoreInv,
           UNCHANGED <<nextId, kind, port, pred, ended, link>>,
           state' \in [Id -> RowState],
           \A i \in Id : state'[i] = state[i] \/ (IsLive(i) /\ state'[i] = "STOPPED"),
           proc' \in [Id -> {"none", "up", "term", "gone"}],
           \A i \in Id : proc[i] = "none" => proc'[i] = "none",
           exitArmed' \subseteq Id,
           \A i \in Id : ended[i] /\ state'[i] \in Live => i \in exitArmed'
    PROVE  CoreInv' /\ Forward
<1>1. CoreTypes'
  BY DEF CoreInv, CoreTypes, RowState
<1>2. UnusedRows'
  BY DEF CoreInv, CoreTypes, UnusedRows, IsLive, Live
<1>3. ParentsLinked' /\ OnlyMissionsEnd'
  BY DEF CoreInv, CoreTypes, ParentsLinked, OnlyMissionsEnd, IsLive, Live, NoId
<1>4. PortsUnique' /\ OneSharedMap' /\ OneSuccessor'
  BY DEF CoreInv, PortsUnique, OneSharedMap, OneSuccessor, IsLive, Live
<1>5. DraftsWatched' /\ EndedIsTimed'
  BY DEF CoreInv, DraftsWatched, EndedIsTimed, IsLive, Live
<1>6. Forward
  BY RankOrder DEF CoreInv, CoreTypes, Forward, IsLive, Live
<1> QED BY <1>1, <1>2, <1>3, <1>4, <1>5, <1>6 DEF CoreInv

\* A row is inserted: Spawn, with the checks of the handlers that call it.
LEMMA SpawnStep ==
    ASSUME CoreInv, BoundAssumption,
           NEW k \in {"home", "zone", "match"}, NEW parent \in Id \cup {NoId},
           NEW ok \in BOOLEAN,
           Spawn(k, parent, ok),
           UNCHANGED <<ended, link, exitArmed>>,
           parent # NoId => k = "match" /\ link[parent] = "hello" /\ Successors(parent) = {},
           k = "home" => ~HomeExists,
           k = "zone" => ~ZoneExists
    PROVE  CoreInv' /\ Forward
<1>1. PICK q \in NextPorts : port' = [port EXCEPT ![nextId] = q]
  BY DEF Spawn
<1> DEFINE n == nextId
<1>2. /\ n \in Id /\ nextId' = n + 1 /\ n \in Int
      /\ state[n] = "NONE" /\ link[n] = "none" /\ ~ended[n]
      /\ q \in Port /\ q \notin UsedPorts
  BY <1>1 DEF Spawn, CoreInv, CoreTypes, UnusedRows, NextPorts, Id
<1>3. /\ state' = [state EXCEPT ![n] = IF ok THEN "STARTING" ELSE "STOPPED"]
      /\ kind' = [kind EXCEPT ![n] = k]
      /\ pred' = [pred EXCEPT ![n] = parent]
      /\ proc' = [proc EXCEPT ![n] = IF ok THEN "up" ELSE "none"]
      /\ port' = [port EXCEPT ![n] = q]
  BY <1>1 DEF Spawn
<1>4. parent # NoId => parent < n /\ parent # n
  BY <1>2 DEF CoreInv, CoreTypes, UnusedRows, NoId, Id
<1> HIDE DEF n
<1>5. CoreTypes'
  BY <1>2, <1>3 DEF CoreInv, CoreTypes, Id, Live
<1>6. UnusedRows'
  BY <1>2, <1>3, <1>4 DEF CoreInv, CoreTypes, UnusedRows, NoId, Id, n
<1>7. ParentsLinked'
  BY <1>2, <1>3, <1>4 DEF CoreInv, CoreTypes, UnusedRows, ParentsLinked, IsLive, Live, NoId, n
<1>8. OnlyMissionsEnd'
  BY <1>2, <1>3 DEF CoreInv, CoreTypes, OnlyMissionsEnd
<1>9. PortsUnique'
  BY <1>2, <1>3 DEF CoreInv, CoreTypes, PortsUnique, UsedPorts, IsLive, Live
<1>10. OneSharedMap'
  <2>1. \A i \in Id : IsLive(i) /\ kind[i] = "zone" => state[i] \in {"STARTING", "READY"}
    BY DEF CoreInv, DraftsWatched, ParentsLinked, IsLive, Live
  <2> QED BY <1>2, <1>3, <2>1 DEF CoreInv, CoreTypes, OneSharedMap, HomeExists, ZoneExists, IsLive, Live
<1>11. OneSuccessor'
  BY <1>2, <1>3 DEF CoreInv, CoreTypes, OneSuccessor, Successors, IsLive, Live
<1>12. DraftsWatched'
  BY <1>2, <1>3 DEF CoreInv, CoreTypes, DraftsWatched
<1>13. EndedIsTimed'
  BY <1>2, <1>3 DEF CoreInv, CoreTypes, EndedIsTimed, IsLive
<1>14. Forward
  BY <1>2, <1>3, RankOrder DEF CoreInv, CoreTypes, Forward, Live
<1> QED BY <1>5, <1>6, <1>7, <1>8, <1>9, <1>10, <1>11, <1>12, <1>13, <1>14 DEF CoreInv

\* At most one row is promoted, and then no draft of i is left.
LEMMA PromotionShape ==
    ASSUME CoreInv, NEW i \in Id, NEW st \in Promotions(i)
    PROVE  /\ st \in [Id -> RowState]
           /\ \A j \in Id : \/ st[j] = state[j]
                            \/ state[j] = "DRAFTING" /\ st[j] = "READY" /\ pred[j] = i
           /\ \A j \in Id : pred[j] = i => st[j] # "DRAFTING"
<1>1. CASE Drafts(i) = {}
  BY <1>1 DEF CoreInv, CoreTypes, Promotions, Drafts, RowState
<1>2. CASE Drafts(i) # {}
  <2>1. PICK s \in Drafts(i) : st = [state EXCEPT ![s] = "READY"]
    BY <1>2 DEF Promotions
  <2>2. \A j \in Drafts(i) : j = s
    BY <2>1, i # NoId DEF CoreInv, OneSuccessor, Drafts, IsLive, Live, Id, NoId
  <2> QED BY <2>1, <2>2 DEF CoreInv, CoreTypes, Drafts, RowState, Live
<1> QED BY <1>1, <1>2

\* MISSION_ENDED promotes the draft that was waiting for it.
LEMMA MissionEndedStep ==
    ASSUME CoreInv, NEW i \in Id, MissionEnded(i)
    PROVE  CoreInv' /\ Forward
<1> DEFINE st == state'
<1>1. /\ st \in [Id -> RowState]
      /\ \A j \in Id : \/ st[j] = state[j]
                       \/ state[j] = "DRAFTING" /\ st[j] = "READY" /\ pred[j] = i
      /\ \A j \in Id : pred[j] = i => st[j] # "DRAFTING"
  BY PromotionShape DEF MissionEnded
<1>2. /\ UNCHANGED <<nextId, kind, port, pred, proc, link>>
      /\ ended' = [ended EXCEPT ![i] = TRUE]
      /\ exitArmed' = exitArmed \cup {i}
      /\ kind[i] = "match" /\ link[i] = "hello"
  BY DEF MissionEnded, rowVars
<1>3. CoreTypes'
  BY <1>1, <1>2 DEF CoreInv, CoreTypes, RowState
<1>4. UnusedRows'
  BY <1>1, <1>2 DEF CoreInv, CoreTypes, UnusedRows
<1>5. ParentsLinked' /\ OnlyMissionsEnd'
  BY <1>1, <1>2 DEF CoreInv, CoreTypes, ParentsLinked, OnlyMissionsEnd, IsLive, Live, NoId
<1>6. PortsUnique' /\ OneSharedMap' /\ OneSuccessor'
  BY <1>1, <1>2 DEF CoreInv, PortsUnique, OneSharedMap, OneSuccessor, IsLive, Live
<1>7. DraftsWatched' /\ EndedIsTimed'
  BY <1>1, <1>2 DEF CoreInv, CoreTypes, DraftsWatched, EndedIsTimed, IsLive, Live, NoId
<1>8. Forward
  BY <1>1, RankOrder DEF CoreInv, CoreTypes, Forward, Live
<1> QED BY <1>3, <1>4, <1>5, <1>6, <1>7, <1>8 DEF CoreInv

\* The end of an IPC session stops the row and promotes its draft.
LEMMA LinkDownStep ==
    ASSUME CoreInv, NEW i \in Id, LinkDown(i)
    PROVE  CoreInv' /\ Forward
<1>1. /\ UNCHANGED <<nextId, kind, port, pred, ended, proc, exitArmed>>
      /\ link' = [link EXCEPT ![i] = "none"]
      /\ link[i] # "none"
      /\ IF link[i] = "hello" THEN OnDisconnect(i) ELSE UNCHANGED state
  BY DEF LinkDown, rowVars
<1>2. CASE link[i] = "hello"
  <2>1. PICK st \in Promotions(i) : state' = [st EXCEPT ![i] = "STOPPED"]
    BY <1>1, <1>2 DEF OnDisconnect
  <2>2. /\ st \in [Id -> RowState]
        /\ \A j \in Id : \/ st[j] = state[j]
                         \/ state[j] = "DRAFTING" /\ st[j] = "READY" /\ pred[j] = i
        /\ \A j \in Id : pred[j] = i => st[j] # "DRAFTING"
    BY PromotionShape
  <2>3. CoreTypes'
    BY <1>1, <2>1, <2>2 DEF CoreInv, CoreTypes, RowState
  <2>4. UnusedRows'
    <3>1. i < nextId /\ state[i] # "NONE"
      BY <1>2 DEF CoreInv, CoreTypes, UnusedRows, Id
    <3>2. \A j \in Id : state'[j] = "NONE" <=> state[j] = "NONE"
      BY <2>1, <2>2, <3>1
    <3> QED BY <1>1, <3>1, <3>2 DEF CoreInv, CoreTypes, UnusedRows, Id
  <2>5. ParentsLinked' /\ OnlyMissionsEnd'
    BY <1>1, <2>1, <2>2 DEF CoreInv, CoreTypes, ParentsLinked, OnlyMissionsEnd, IsLive, Live, NoId
  <2>6. PortsUnique' /\ OneSharedMap' /\ OneSuccessor'
    <3>1. \A j \in Id : state'[j] \in Live => state[j] \in Live
      BY <2>1, <2>2 DEF Live
    <3> QED BY <1>1, <3>1 DEF CoreInv, PortsUnique, OneSharedMap, OneSuccessor, IsLive
  <2>7. DraftsWatched' /\ EndedIsTimed'
    BY <1>1, <2>1, <2>2 DEF CoreInv, CoreTypes, DraftsWatched, EndedIsTimed, IsLive, Live, NoId
  <2>8. Forward
    BY <2>1, <2>2, RankOrder DEF CoreInv, CoreTypes, Forward, Live
  <2> QED BY <2>3, <2>4, <2>5, <2>6, <2>7, <2>8 DEF CoreInv
<1>3. CASE link[i] # "hello"
  <2>1. UNCHANGED state
    BY <1>1, <1>3
  <2>2. CoreTypes' /\ UnusedRows'
    BY <1>1, <2>1 DEF CoreInv, CoreTypes, UnusedRows
  <2>3. ParentsLinked' /\ OnlyMissionsEnd' /\ DraftsWatched'
    BY <1>1, <1>3, <2>1 DEF CoreInv, CoreTypes, ParentsLinked, OnlyMissionsEnd, DraftsWatched, IsLive, NoId
  <2>4. PortsUnique' /\ OneSharedMap' /\ OneSuccessor' /\ EndedIsTimed'
    BY <1>1, <2>1 DEF CoreInv, PortsUnique, OneSharedMap, OneSuccessor, EndedIsTimed, IsLive
  <2>5. Forward
    BY <2>1, RankOrder DEF CoreInv, CoreTypes, Forward, Live
  <2> QED BY <2>2, <2>3, <2>4, <2>5 DEF CoreInv
<1> QED BY <1>2, <1>3

\* INSTANCE_READY makes a row READY, or DRAFTING under a parent that plays.
LEMMA ReadyStep ==
    ASSUME CoreInv, NEW i \in Id, Ready(i)
    PROVE  CoreInv' /\ Forward
<1>1. /\ UNCHANGED <<nextId, kind, port, pred, ended, proc, link, exitArmed>>
      /\ \A j \in Id : j # i => state'[j] = state[j]
      /\ state' \in [Id -> RowState]
      /\ \/ state'[i] = state[i]
         \/ state[i] = "STARTING" /\ state'[i] = "READY"
         \/ /\ state[i] = "STARTING" /\ state'[i] = "DRAFTING"
            /\ pred[i] # NoId /\ IsLive(pred[i]) /\ ~ended[pred[i]]
  BY DEF Ready, MarkReady, ReadyState, CoreInv, CoreTypes, RowState, Live, rowVars
<1>2. CoreTypes'
  BY <1>1 DEF CoreInv, CoreTypes, RowState
<1>3. UnusedRows'
  BY <1>1 DEF CoreInv, CoreTypes, UnusedRows
<1>4. ParentsLinked' /\ OnlyMissionsEnd'
  BY <1>1 DEF CoreInv, CoreTypes, ParentsLinked, OnlyMissionsEnd, IsLive, Live, NoId
<1>5. PortsUnique' /\ OneSharedMap' /\ OneSuccessor'
  BY <1>1 DEF CoreInv, PortsUnique, OneSharedMap, OneSuccessor, IsLive, Live
<1>6. DraftsWatched'
  BY <1>1 DEF CoreInv, CoreTypes, DraftsWatched, ParentsLinked, IsLive, Live, NoId
<1>7. EndedIsTimed'
  BY <1>1 DEF CoreInv, EndedIsTimed, IsLive, Live
<1>8. Forward
  BY <1>1, RankOrder DEF CoreInv, CoreTypes, Forward, Live
<1> QED BY <1>2, <1>3, <1>4, <1>5, <1>6, <1>7, <1>8 DEF CoreInv

\* A new or newly identified IPC session.
LEMMA SessionStep ==
    ASSUME CoreInv, NEW i \in Id, Connect(i) \/ Hello(i)
    PROVE  CoreInv' /\ Forward
<1>1. /\ UNCHANGED <<nextId, state, kind, port, pred, ended, proc, exitArmed>>
      /\ link' \in [Id -> {"none", "open", "hello"}]
      /\ \A j \in Id : j # i => link'[j] = link[j]
      /\ link[i] # "hello"
      /\ i < nextId
  <2>1. proc[i] # "none" \/ link[i] # "none"
    BY DEF Connect, Hello
  <2>2. i < nextId
    BY <2>1 DEF CoreInv, CoreTypes, UnusedRows, Id
  <2> QED BY <2>2 DEF Connect, Hello, rowVars, CoreInv, CoreTypes
<1>2. CoreTypes' /\ UnusedRows'
  BY <1>1 DEF CoreInv, CoreTypes, UnusedRows, Id
<1>3. ParentsLinked' /\ OnlyMissionsEnd' /\ DraftsWatched'
  BY <1>1 DEF CoreInv, CoreTypes, ParentsLinked, OnlyMissionsEnd, DraftsWatched, IsLive, NoId
<1>4. PortsUnique' /\ OneSharedMap' /\ OneSuccessor' /\ EndedIsTimed'
  BY <1>1 DEF CoreInv, PortsUnique, OneSharedMap, OneSuccessor, EndedIsTimed, IsLive
<1>5. Forward
  BY <1>1, RankOrder DEF CoreInv, CoreTypes, Forward, Live
<1> QED BY <1>2, <1>3, <1>4, <1>5 DEF CoreInv

\* A restart of ControlServer stops every row and ends every session.
LEMMA RestartStep ==
    ASSUME CoreInv, NEW clean \in BOOLEAN, Restart(clean)
    PROVE  CoreInv' /\ Forward
<1>1. /\ UNCHANGED <<nextId, kind, port, pred, ended>>
      /\ state' = [i \in Id |-> IF IsLive(i) THEN "STOPPED" ELSE state[i]]
      /\ link' = [i \in Id |-> "none"]
      /\ proc' \in [Id -> {"none", "up", "term", "gone"}]
      /\ \A i \in Id : proc[i] = "none" => proc'[i] = "none"
      /\ exitArmed' = {}
  BY DEF Restart, Signalled, rowVars, CoreInv, CoreTypes
<1>2. \A i \in Id : state'[i] \in {"NONE", "STOPPED"} /\ (state'[i] = "NONE" <=> state[i] = "NONE")
  BY <1>1 DEF CoreInv, CoreTypes, IsLive, Live
<1>3. CoreTypes'
  BY <1>1, <1>2 DEF CoreInv, CoreTypes
<1>4. UnusedRows'
  BY <1>1, <1>2 DEF CoreInv, CoreTypes, UnusedRows
<1>5. ParentsLinked' /\ OnlyMissionsEnd'
  BY <1>1, <1>2 DEF CoreInv, CoreTypes, ParentsLinked, OnlyMissionsEnd, IsLive, Live, NoId
<1>6. PortsUnique' /\ OneSharedMap' /\ OneSuccessor' /\ DraftsWatched' /\ EndedIsTimed'
  BY <1>1, <1>2 DEF PortsUnique, OneSharedMap, OneSuccessor, DraftsWatched, EndedIsTimed, IsLive, Live
<1>7. Forward
  BY <1>1, <1>2, RankOrder DEF CoreInv, CoreTypes, Forward, Live
<1> QED BY <1>3, <1>4, <1>5, <1>6, <1>7 DEF CoreInv

-----------------------------------------------------------------------------
(* Every step has one of these shapes.                                      *)

LEMMA SignalledTypes ==
    ASSUME CoreInv, NEW S
    PROVE  /\ Signalled(S) \in [Id -> {"none", "up", "term", "gone"}]
           /\ \A i \in Id : proc[i] = "none" => Signalled(S)[i] = "none"
BY DEF Signalled, CoreInv, CoreTypes

\* A step that leaves the rows, processes, sessions and timers alone.
LEMMA CoreStutter ==
    ASSUME CoreInv, UNCHANGED coreVars
    PROVE  CoreInv' /\ Forward
<1>1. /\ state' \in [Id -> RowState]
      /\ proc' \in [Id -> {"none", "up", "term", "gone"}]
      /\ exitArmed' \subseteq Id
      /\ \A i \in Id : ended[i] /\ state'[i] \in Live => i \in exitArmed'
  BY DEF CoreInv, CoreTypes, RowState, coreVars, EndedIsTimed, IsLive
<1> QED BY <1>1, StopStep DEF coreVars

\* StopNonHomeInstanceIfEmpty stops one row, or none.
LEMMA StopIfEmptyShape ==
    ASSUME CoreInv, NEW i \in Id, NEW r, StopIfEmpty(i, r)
    PROVE  /\ state' \in [Id -> RowState]
           /\ \A j \in Id : state'[j] = state[j] \/ (IsLive(j) /\ state'[j] = "STOPPED")
           /\ proc' \in [Id -> {"none", "up", "term", "gone"}]
           /\ \A j \in Id : proc[j] = "none" => proc'[j] = "none"
           /\ kind[i] # "home" /\ r[i] = {} => state'[i] \notin Live
<1>1. CASE kind[i] # "home" /\ IsLive(i) /\ r[i] = {}
  <2>1. /\ state' = [state EXCEPT ![i] = "STOPPED"]
        /\ proc' = Signalled({i})
    BY <1>1 DEF StopIfEmpty
  <2> QED BY <1>1, <2>1, SignalledTypes DEF CoreInv, CoreTypes, RowState, Live, IsLive
<1>2. CASE ~(kind[i] # "home" /\ IsLive(i) /\ r[i] = {})
  <2>1. UNCHANGED <<state, proc>>
    BY <1>2 DEF StopIfEmpty
  <2> QED BY <1>2, <2>1 DEF CoreInv, CoreTypes, RowState, IsLive
<1> QED BY <1>1, <1>2

LEMMA CoreStep ==
    ASSUME CoreInv, TypeOK, BoundAssumption, [Next]_vars
    PROVE  CoreInv' /\ Forward
<1> USE DEF rowVars, dllVars, matchVars, sessionVars, counters
<1>1. ASSUME NEW p \in Player, JoinQueue(p) \/ LeaveQueue(p) \/ Accept(p) \/ AckTimeout(p)
                               \/ ExitMission(p) \/ LeaveGame(p) \/ Disconnect(p)
      PROVE  CoreInv' /\ Forward
  <2>1. UNCHANGED coreVars
    BY <1>1 DEF coreVars, JoinQueue, LeaveQueue, Accept, AckTimeout, ExitMission, LeaveGame, Disconnect
  <2> QED BY <2>1, CoreStutter
<1>2. ASSUME NEW G \in SUBSET queued, PopFresh(G)
      PROVE  CoreInv' /\ Forward
  <2>1. CASE PopNoPort(G)
    <3>1. UNCHANGED coreVars
      BY <1>2, <2>1 DEF coreVars, PopFresh, PopNoPort
    <3> QED BY <3>1, CoreStutter
  <2>2. CASE PopSpawns(G) \/ PopForkFails(G)
    <3>1. PICK ok \in BOOLEAN : Spawn("match", NoId, ok)
      BY <2>2 DEF PopSpawns, PopForkFails
    <3>2. UNCHANGED <<ended, link, exitArmed>>
      BY <1>2 DEF PopFresh
    <3> QED BY <3>1, <3>2, SpawnStep
  <2> QED BY <1>2, <2>1, <2>2 DEF PopFresh
<1>3. ASSUME NEW G \in SUBSET queued, NEW i \in Id, Coalesce(G, i) \/ PopExisting(G, i)
      PROVE  CoreInv' /\ Forward
  <2>1. UNCHANGED coreVars
    BY <1>3 DEF coreVars, Coalesce, PopExisting
  <2> QED BY <2>1, CoreStutter
<1>4. ASSUME SpawnHome \/ SpawnZone
      PROVE  CoreInv' /\ Forward
  <2>1. PICK k \in {"home", "zone"} : /\ SpawnShared(k)
                                      /\ k = "home" => ~HomeExists
                                      /\ k = "zone" => ~ZoneExists
    BY <1>4 DEF SpawnHome, SpawnZone
  <2>2. PICK ok \in BOOLEAN : Spawn(k, NoId, ok)
    BY <2>1 DEF SpawnShared
  <2>3. UNCHANGED <<ended, link, exitArmed>>
    BY <2>1 DEF SpawnShared
  <2> QED BY <2>1, <2>2, <2>3, SpawnStep
<1>5. ASSUME NEW i \in Id, RequestSuccessor(i)
      PROVE  CoreInv' /\ Forward
  <2>1. PICK ok \in BOOLEAN : Spawn("match", i, ok)
    BY <1>5 DEF RequestSuccessor
  <2>2. /\ UNCHANGED <<ended, link, exitArmed>>
        /\ link[i] = "hello" /\ Successors(i) = {}
    BY <1>5 DEF RequestSuccessor
  <2> QED BY <2>1, <2>2, SpawnStep
<1>6. ASSUME NEW i \in Id, Connect(i) \/ Hello(i) \/ Ready(i) \/ LinkDown(i) \/ MissionEnded(i)
      PROVE  CoreInv' /\ Forward
  BY <1>6, SessionStep, ReadyStep, LinkDownStep, MissionEndedStep
<1>7. ASSUME NEW i \in Id, Die(i)
      PROVE  CoreInv' /\ Forward
  <2>1. /\ UNCHANGED <<nextId, state, kind, port, pred, ended, link, exitArmed>>
        /\ proc' \in [Id -> {"none", "up", "term", "gone"}]
        /\ \A j \in Id : proc[j] = "none" => proc'[j] = "none"
    BY <1>7 DEF Die, CoreInv, CoreTypes
  <2>2. /\ state' \in [Id -> RowState] /\ exitArmed' \subseteq Id
        /\ \A j \in Id : ended[j] /\ state'[j] \in Live => j \in exitArmed'
    BY <2>1 DEF CoreInv, CoreTypes, RowState, EndedIsTimed, IsLive
  <2> QED BY <2>1, <2>2, StopStep
<1>8. ASSUME NEW i \in Id, NEW r, StopIfEmpty(i, r),
             UNCHANGED <<nextId, kind, port, pred, ended, link, exitArmed>>
      PROVE  CoreInv' /\ Forward
  <2>1. /\ exitArmed' \subseteq Id
        /\ \A j \in Id : ended[j] /\ state'[j] \in Live => j \in exitArmed'
    BY <1>8, StopIfEmptyShape DEF CoreInv, CoreTypes, EndedIsTimed, IsLive, Live
  <2> QED BY <1>8, <2>1, StopIfEmptyShape, StopStep
<1>9. ASSUME NEW i \in Id, InstanceEmpty(i)
      PROVE  CoreInv' /\ Forward
  BY <1>8, <1>9 DEF InstanceEmpty
<1>10. ASSUME NEW i \in Id, NEW p \in Player, PlayerLeft(i, p)
       PROVE  CoreInv' /\ Forward
  BY <1>8, <1>10 DEF PlayerLeft
<1>11. ASSUME NEW i \in Id, NEW p \in Player, NEW ok \in BOOLEAN, RegisterAck(i, p, ok)
       PROVE  CoreInv' /\ Forward
  <2>1. UNCHANGED coreVars
    BY <1>11 DEF coreVars, RegisterAck
  <2> QED BY <2>1, CoreStutter
<1>12. ASSUME NEW i \in Id, ForceExit(i)
       PROVE  CoreInv' /\ Forward
  <2>1. /\ UNCHANGED <<nextId, kind, port, pred, ended, link>>
        /\ exitArmed' = exitArmed \ {i}
    BY <1>12 DEF ForceExit
  <2>2. CASE IsLive(i) /\ ended[i] /\ kind[i] # "home"
    <3>1. StopIfEmpty(i, roster') /\ roster'[i] = {}
      BY <1>12, <2>2 DEF ForceExit, TypeOK
    <3>2. /\ state' \in [Id -> RowState] /\ exitArmed' \subseteq Id
          /\ \A j \in Id : ended[j] /\ state'[j] \in Live => j \in exitArmed'
      BY <2>1, <2>2, <3>1, StopIfEmptyShape DEF CoreInv, CoreTypes, EndedIsTimed, IsLive, Live
    <3> QED BY <2>1, <3>1, <3>2, StopIfEmptyShape, StopStep
  <2>3. CASE ~(IsLive(i) /\ ended[i] /\ kind[i] # "home")
    <3>1. UNCHANGED <<state, proc>>
      BY <1>12, <2>3 DEF ForceExit
    <3>2. ended[i] => kind[i] # "home"
      BY DEF CoreInv, OnlyMissionsEnd
    <3>3. /\ state' \in [Id -> RowState] /\ exitArmed' \subseteq Id
          /\ proc' \in [Id -> {"none", "up", "term", "gone"}]
          /\ \A j \in Id : ended[j] /\ state'[j] \in Live => j \in exitArmed'
      BY <2>1, <2>3, <3>1, <3>2 DEF CoreInv, CoreTypes, RowState, EndedIsTimed, IsLive
    <3> QED BY <2>1, <3>1, <3>3, StopStep
  <2> QED BY <2>2, <2>3
<1>13. ASSUME NEW i \in Id, AdminStop(i)
       PROVE  CoreInv' /\ Forward
  <2>1. /\ UNCHANGED <<nextId, kind, port, pred, ended, link, exitArmed>>
        /\ IsLive(i)
        /\ state' = [state EXCEPT ![i] = "STOPPED"]
        /\ proc' = Signalled({i})
    BY <1>13 DEF AdminStop
  <2>2. /\ state' \in [Id -> RowState] /\ exitArmed' \subseteq Id
        /\ \A j \in Id : state'[j] = state[j] \/ (IsLive(j) /\ state'[j] = "STOPPED")
        /\ \A j \in Id : ended[j] /\ state'[j] \in Live => j \in exitArmed'
    BY <2>1 DEF CoreInv, CoreTypes, RowState, EndedIsTimed, IsLive, Live
  <2> QED BY <2>1, <2>2, SignalledTypes, StopStep
<1>14. ASSUME NEW S \in SUBSET IdleCandidates, IdleSweep(S)
       PROVE  CoreInv' /\ Forward
  <2>1. /\ UNCHANGED <<nextId, kind, port, pred, ended, link, exitArmed>>
        /\ state' = [i \in Id |-> IF i \in S THEN "STOPPED" ELSE state[i]]
        /\ proc' = Signalled(S)
        /\ \A i \in S : state[i] = "READY"
    BY <1>14 DEF IdleSweep, IdleCandidates
  <2>2. /\ state' \in [Id -> RowState] /\ exitArmed' \subseteq Id
        /\ \A j \in Id : state'[j] = state[j] \/ (IsLive(j) /\ state'[j] = "STOPPED")
        /\ \A j \in Id : ended[j] /\ state'[j] \in Live => j \in exitArmed'
    BY <2>1 DEF CoreInv, CoreTypes, RowState, EndedIsTimed, IsLive, Live
  <2> QED BY <2>1, <2>2, SignalledTypes, StopStep
<1>15. ASSUME NEW clean \in BOOLEAN, Restart(clean)
       PROVE  CoreInv' /\ Forward
  BY <1>15, RestartStep
<1>16. ASSUME UNCHANGED vars
       PROVE  CoreInv' /\ Forward
  BY <1>16, CoreStutter DEF vars, coreVars
<1> QED
  BY <1>1, <1>2, <1>3, <1>4, <1>5, <1>6, <1>7, <1>9, <1>10, <1>11, <1>12, <1>13,
     <1>14, <1>15, <1>16 DEF Next

-----------------------------------------------------------------------------
(* Types.                                                                   *)

LEMMA ScrubsTypes ==
    ASSUME NEW f \in [Id -> SUBSET Player], NEW G \in SUBSET Player, NEW g \in Scrubs(f, G)
    PROVE  g \in [Id -> SUBSET Player]
BY DEF Scrubs

LEMMA SpawnTypes ==
    ASSUME TypeOK, BoundAssumption,
           NEW k \in {"home", "zone", "match"}, NEW parent \in Id \cup {NoId},
           NEW ok \in BOOLEAN, Spawn(k, parent, ok)
    PROVE  /\ nextId \in Id
           /\ nextId' \in 1 .. MaxId + 1
           /\ state' \in [Id -> Live \cup {"NONE", "STOPPED"}]
           /\ kind' \in [Id -> {"home", "zone", "match"}]
           /\ port' \in [Id -> Port \cup {0}]
           /\ pred' \in [Id -> Id \cup {NoId}]
           /\ proc' \in [Id -> {"none", "up", "term", "gone"}]
<1>1. PICK q \in NextPorts : port' = [port EXCEPT ![nextId] = q]
  BY DEF Spawn
<1>2. q \in Port
  BY DEF NextPorts
<1> QED BY <1>1, <1>2 DEF Spawn, TypeOK, BoundAssumption, Id, Live

LEMMA StopIfEmptyTypes ==
    ASSUME TypeOK, NEW i \in Id, NEW r, StopIfEmpty(i, r)
    PROVE  /\ state' \in [Id -> Live \cup {"NONE", "STOPPED"}]
           /\ reserved' \in [Id -> SUBSET Player]
           /\ proc' \in [Id -> {"none", "up", "term", "gone"}]
BY SMTT(60) DEF StopIfEmpty, Signalled, TypeOK

LEMMA RouteOutTypes ==
    ASSUME TypeOK, NEW G \in SUBSET Player, NEW s \in Id \cup {NoId}, RouteOut(G, s)
    PROVE  /\ assigned' \in [Player -> Id \cup {NoId}]
           /\ invite' \in [Player -> Id \cup {NoId}]
           /\ ackInst' \in [Player -> Id \cup {NoId}]
           /\ ackVia' \in [Player -> {"accept", "target"}]
           /\ regs' \subseteq Player \X Id
BY DEF RouteOut, TypeOK

LEMMA CancelledTypes ==
    ASSUME TypeOK, NEW G, Cancelled(G)
    PROVE  /\ inQueue' \in [Player -> BOOLEAN]
           /\ invite' \in [Player -> Id \cup {NoId}]
BY DEF Cancelled, TypeOK

LEMMA RouteTargetsTypes ==
    ASSUME NEW i \in Id, NEW s \in RouteTargets(i)
    PROVE  s \in Id \cup {NoId}
BY DEF RouteTargets, Successors

LEMMA SettleAcceptTypes ==
    ASSUME TypeOK, NEW p \in Player, NEW t \in Id \cup {NoId}, SettleAccept(p, t)
    PROVE  /\ reserved' \in [Id -> SUBSET Player]
           /\ invite' \in [Player -> Id \cup {NoId}]
BY SMTT(60) DEF SettleAccept, TypeOK

LEMMA TypeStep ==
    ASSUME TypeOK, BoundAssumption, [Next]_vars
    PROVE  TypeOK'
<1> USE DEF rowVars, dllVars, matchVars, sessionVars, counters
<1>1. ASSUME NEW p \in Player, JoinQueue(p)
      PROVE  TypeOK'
  BY <1>1 DEF JoinQueue, TypeOK, BoundAssumption
<1>2. ASSUME NEW p \in Player, LeaveQueue(p)
      PROVE  TypeOK'
  <2>1. pend' \in [Id -> SUBSET Player] /\ reserved' \in [Id -> SUBSET Player]
    BY <1>2, ScrubsTypes DEF LeaveQueue, TypeOK
  <2> QED BY <1>2, <2>1 DEF LeaveQueue, TypeOK, NoId
<1>3. ASSUME NEW p \in Player, Accept(p)
      PROVE  TypeOK'
  <2>1. invite[p] \in Id
    BY <1>3 DEF Accept, TypeOK
  <2>2. CASE state[invite[p]] = "READY" /\ link[invite[p]] = "hello"
    <3>1. /\ UNCHANGED <<reserved, invite>>
          /\ regs' \subseteq Player \X Id
          /\ ackInst' \in [Player -> Id \cup {NoId}]
          /\ ackVia' \in [Player -> {"accept", "target"}]
      BY <1>3, <2>1, <2>2 DEF Accept, TypeOK
    <3> QED BY <1>3, <3>1 DEF Accept, TypeOK
  <2>3. CASE ~(state[invite[p]] = "READY" /\ link[invite[p]] = "hello")
    <3>1. /\ UNCHANGED <<regs, ackInst, ackVia>>
          /\ reserved' \in [Id -> SUBSET Player]
          /\ invite' \in [Player -> Id \cup {NoId}]
      BY SMTT(60), <1>3, <2>1, <2>3 DEF Accept, TypeOK
    <3> QED BY <1>3, <3>1 DEF Accept, TypeOK
  <2> QED BY <2>2, <2>3
<1>4. ASSUME NEW p \in Player, AckTimeout(p)
      PROVE  TypeOK'
  <2>1. invite[p] \in Id \cup {NoId}
    BY DEF TypeOK
  <2> QED BY <1>4, <2>1, SettleAcceptTypes DEF AckTimeout, TypeOK
<1>5. ASSUME NEW p \in Player, ExitMission(p)
      PROVE  TypeOK'
  <2>1. assigned[p] \in Id \cup {NoId}
    BY DEF TypeOK
  <2>2. PICK s \in Id \cup {NoId} : RouteOut({p}, s)
    BY <1>5, <2>1, RouteTargetsTypes DEF ExitMission
  <2>3. roster' \in [Id -> SUBSET Player]
    BY <1>5 DEF ExitMission, TypeOK
  <2>4. {p} \in SUBSET Player
    OBVIOUS
  <2>5. /\ assigned' \in [Player -> Id \cup {NoId}]
        /\ invite' \in [Player -> Id \cup {NoId}]
        /\ ackInst' \in [Player -> Id \cup {NoId}]
        /\ ackVia' \in [Player -> {"accept", "target"}]
        /\ regs' \subseteq Player \X Id
    BY <2>2, <2>4, RouteOutTypes
  <2> QED BY <1>5, <2>3, <2>5 DEF ExitMission, TypeOK
<1>6. ASSUME NEW p \in Player, LeaveGame(p)
      PROVE  TypeOK'
  BY <1>6 DEF LeaveGame, TypeOK
<1>7. ASSUME NEW p \in Player, Disconnect(p)
      PROVE  TypeOK'
  <2>1. pend' \in [Id -> SUBSET Player] /\ reserved' \in [Id -> SUBSET Player]
    BY SMTT(60), <1>7, ScrubsTypes DEF Disconnect, TypeOK
  <2>2. roster' \in [Id -> SUBSET Player]
    BY <1>7 DEF Disconnect, TypeOK
  <2> QED BY <1>7, <2>1, <2>2 DEF Disconnect, TypeOK
<1>8. ASSUME NEW G \in SUBSET queued, PopFresh(G)
      PROVE  TypeOK'
  <2>1. G \subseteq Player /\ queued' \subseteq Player
    BY <1>8 DEF PopFresh, TypeOK
  <2>2. CASE PopNoPort(G)
    BY <1>8, <2>1, <2>2 DEF PopFresh, PopNoPort, TypeOK
  <2>3. CASE PopSpawns(G)
    <3>1. Spawn("match", NoId, TRUE)
      BY <2>3 DEF PopSpawns
    <3>2. nextId \in Id
      BY <3>1 DEF Spawn
    <3>3. hasPend' \subseteq Id /\ pend' \in [Id -> SUBSET Player]
      BY <2>1, <2>3, <3>2 DEF PopSpawns, TypeOK
    <3> QED BY <1>8, <2>1, <2>3, <3>1, <3>3, SpawnTypes DEF PopFresh, PopSpawns, TypeOK
  <2>4. CASE PopForkFails(G)
    <3>1. Spawn("match", NoId, FALSE) /\ Cancelled(G)
      BY <2>4 DEF PopForkFails
    <3>2. reserved' \in [Id -> SUBSET Player]
      BY <2>1, <2>4, ScrubsTypes DEF PopForkFails, TypeOK
    <3> QED BY <1>8, <2>1, <2>4, <3>1, <3>2, SpawnTypes, CancelledTypes DEF PopFresh, PopForkFails, TypeOK
  <2> QED BY <1>8, <2>2, <2>3, <2>4 DEF PopFresh
<1>9. ASSUME NEW G \in SUBSET queued, NEW i \in Id, Coalesce(G, i) \/ PopExisting(G, i)
      PROVE  TypeOK'
  <2>1. G \subseteq Player
    BY DEF TypeOK
  <2> QED BY SMTT(60), <1>9, <2>1 DEF Coalesce, PopExisting, TypeOK
<1>10. ASSUME NEW k \in {"home", "zone", "match"}, SpawnShared(k)
       PROVE  TypeOK'
  <2>1. PICK ok \in BOOLEAN : Spawn(k, NoId, ok)
    BY <1>10 DEF SpawnShared
  <2>2. /\ nextId' \in 1 .. MaxId + 1
        /\ state' \in [Id -> Live \cup {"NONE", "STOPPED"}]
        /\ kind' \in [Id -> {"home", "zone", "match"}]
        /\ port' \in [Id -> Port \cup {0}]
        /\ pred' \in [Id -> Id \cup {NoId}]
        /\ proc' \in [Id -> {"none", "up", "term", "gone"}]
    BY <2>1, SpawnTypes
  <2> QED BY <1>10, <2>2 DEF SpawnShared, TypeOK
<1>11. ASSUME NEW i \in Id, RequestSuccessor(i)
       PROVE  TypeOK'
  <2>1. PICK ok \in BOOLEAN : Spawn("match", i, ok)
    BY <1>11 DEF RequestSuccessor
  <2> QED BY <1>11, <2>1, SpawnTypes DEF RequestSuccessor, TypeOK
<1>12. ASSUME NEW i \in Id, Connect(i) \/ Hello(i) \/ Die(i)
       PROVE  TypeOK'
  BY <1>12 DEF Connect, Hello, Die, TypeOK
<1>13. ASSUME NEW i \in Id, Ready(i)
       PROVE  TypeOK'
  <2>1. state' \in [Id -> Live \cup {"NONE", "STOPPED"}]
    BY <1>13 DEF Ready, MarkReady, ReadyState, TypeOK, Live
  <2> QED BY <1>13, <2>1 DEF Ready, TypeOK, OneShot
<1>14. ASSUME NEW i \in Id, LinkDown(i)
       PROVE  TypeOK'
  <2>1. /\ sent' \in [Id -> SUBSET OneShot]
        /\ ingame' \in [Id -> SUBSET Player]
        /\ emptyDue' \subseteq Id
        /\ regs' \subseteq Player \X Id
    BY <1>14 DEF LinkDown, Forgotten, Lost, TypeOK, OneShot
  <2>2. CASE link[i] = "hello"
    <3>1. OnDisconnect(i)
      BY <1>14, <2>2 DEF LinkDown
    <3>2. state' \in [Id -> Live \cup {"NONE", "STOPPED"}]
      BY <3>1 DEF OnDisconnect, Promotions, Drafts, TypeOK, Live
    <3>3. pend[i] \cap online \in SUBSET Player
      BY DEF TypeOK
    <3>4. reserved' \in [Id -> SUBSET Player]
      <4>1. PICK r \in Scrubs(reserved, pend[i] \cap online) : reserved' = [r EXCEPT ![i] = {}]
        BY <3>1 DEF OnDisconnect
      <4>2. r \in [Id -> SUBSET Player]
        BY <3>3, ScrubsTypes DEF TypeOK
      <4> QED BY <4>1, <4>2
    <3>5. /\ inQueue' \in [Player -> BOOLEAN]
          /\ invite' \in [Player -> Id \cup {NoId}]
      BY <3>1, CancelledTypes DEF OnDisconnect
    <3> QED BY <1>14, <2>1, <3>1, <3>2, <3>4, <3>5 DEF LinkDown, OnDisconnect, TypeOK
  <2>3. CASE link[i] # "hello"
    <3>1. /\ link' \in [Id -> {"none", "open", "hello"}]
          /\ UNCHANGED <<state, roster, hasPend, pend, reserved, inQueue, invite>>
      BY <1>14, <2>3 DEF LinkDown, TypeOK
    <3>2. UNCHANGED <<rowVars, ended, proc, exitArmed, queued, online, ackInst,
                      ackVia, assigned, counters>>
      BY <1>14 DEF LinkDown
    <3> QED BY <2>1, <3>1, <3>2 DEF TypeOK
  <2> QED BY <2>2, <2>3
<1>15. ASSUME NEW i \in Id, InstanceEmpty(i)
       PROVE  TypeOK'
  BY <1>15, StopIfEmptyTypes DEF InstanceEmpty, TypeOK
<1>16. ASSUME NEW i \in Id, MissionEnded(i)
       PROVE  TypeOK'
  <2>1. state' \in [Id -> Live \cup {"NONE", "STOPPED"}]
    BY SMTT(60), <1>16 DEF MissionEnded, Promotions, Drafts, TypeOK, Live
  <2> QED BY <1>16, <2>1 DEF MissionEnded, TypeOK, OneShot
<1>17. ASSUME NEW i \in Id, ForceExit(i)
       PROVE  TypeOK'
  <2>1. CASE IsLive(i) /\ ended[i] /\ kind[i] # "home"
    <3> DEFINE G == {p \in roster[i] \cap online : assigned[p] = i}
    <3>1. PICK s \in RouteTargets(i) : RouteOut(G, s)
      BY <1>17, <2>1 DEF ForceExit
    <3>2. s \in Id \cup {NoId} /\ G \in SUBSET Player
      BY RouteTargetsTypes DEF TypeOK
    <3>3. /\ roster' \in [Id -> SUBSET Player]
          /\ StopIfEmpty(i, roster')
      BY <1>17, <2>1 DEF ForceExit, TypeOK
    <3> HIDE DEF G
    <3> QED BY <1>17, <3>1, <3>2, <3>3, RouteOutTypes, StopIfEmptyTypes DEF ForceExit, TypeOK
  <2>2. CASE ~(IsLive(i) /\ ended[i] /\ kind[i] # "home")
    BY <1>17, <2>2 DEF ForceExit, TypeOK
  <2> QED BY <2>1, <2>2
<1>18. ASSUME NEW i \in Id, AdminStop(i)
       PROVE  TypeOK'
  BY <1>18 DEF AdminStop, Signalled, TypeOK
<1>19. ASSUME NEW i \in Id, NEW p \in Player, PlayerLeft(i, p)
       PROVE  TypeOK'
  <2>1. /\ roster' \in [Id -> SUBSET Player] /\ ingame' \in [Id -> SUBSET Player]
        /\ emptyDue' \subseteq Id
        /\ StopIfEmpty(i, roster')
    BY <1>19 DEF PlayerLeft, TypeOK
  <2> QED BY <1>19, <2>1, StopIfEmptyTypes DEF PlayerLeft, TypeOK
<1>20. ASSUME NEW i \in Id, NEW p \in Player, NEW ok \in BOOLEAN, RegisterAck(i, p, ok)
       PROVE  TypeOK'
  <2>1. ackInst[p] \in Id \cup {NoId}
    BY DEF TypeOK
  <2>2. CASE ackInst[p] = NoId
    BY <1>20, <2>2 DEF RegisterAck, TypeOK
  <2>3. CASE ackInst[p] # NoId
    <3>1. /\ roster' \in [Id -> SUBSET Player] /\ ingame' \in [Id -> SUBSET Player]
          /\ assigned' \in [Player -> Id \cup {NoId}]
          /\ inQueue' \in [Player -> BOOLEAN]
      <4>1. CASE ok
        <5>1. Registered(p, ackInst[p])
          BY <1>20, <2>3, <4>1 DEF RegisterAck
        <5>2. roster' \in [Id -> SUBSET Player] /\ ingame' \in [Id -> SUBSET Player]
          BY <2>1, <2>3, <5>1 DEF Registered, TypeOK
        <5>3. assigned' \in [Player -> Id \cup {NoId}]
          BY <2>1, <2>3, <5>1 DEF Registered, TypeOK
        <5>4. inQueue' \in [Player -> BOOLEAN]
          <6>1. inQueue \in [Player -> BOOLEAN]
            BY DEF TypeOK
          <6> QED BY <5>1, <6>1 DEF Registered
        <5> QED BY <5>2, <5>3, <5>4
      <4>2. CASE ~ok
        <5>1. Refused(p)
          BY <1>20, <2>3, <4>2 DEF RegisterAck
        <5> QED BY <5>1 DEF Refused, TypeOK
      <4> QED BY <4>1, <4>2
    <3>2. /\ reserved' \in [Id -> SUBSET Player]
          /\ invite' \in [Player -> Id \cup {NoId}]
      BY <1>20, <2>1, <2>3, SettleAcceptTypes DEF RegisterAck
    <3> QED BY <1>20, <3>1, <3>2 DEF RegisterAck, TypeOK
  <2> QED BY <2>2, <2>3
<1>21. ASSUME NEW S \in SUBSET IdleCandidates, IdleSweep(S)
       PROVE  TypeOK'
  BY <1>21 DEF IdleSweep, Signalled, TypeOK
<1>22. ASSUME NEW clean \in BOOLEAN, Restart(clean)
       PROVE  TypeOK'
  BY <1>22 DEF Restart, Signalled, TypeOK, BoundAssumption
<1>23. ASSUME UNCHANGED vars
       PROVE  TypeOK'
  BY <1>23 DEF vars, TypeOK
<1> QED
  BY <1>1, <1>2, <1>3, <1>4, <1>5, <1>6, <1>7, <1>8, <1>9, <1>10, <1>11, <1>12, <1>13,
     <1>14, <1>15, <1>16, <1>17, <1>18, <1>19, <1>20, <1>21, <1>22, <1>23
  DEF Next, SpawnHome, SpawnZone

-----------------------------------------------------------------------------
(* The theorems.                                                            *)

LEMMA InitTypes == BoundAssumption /\ Init => TypeOK
BY DEF BoundAssumption, Init, TypeOK, Id, NoId

LEMMA InitCore == BoundAssumption /\ Init => CoreInv
<1> SUFFICES ASSUME BoundAssumption, Init PROVE CoreInv
  OBVIOUS
<1>1. CoreTypes
  BY InitTypes DEF TypeOK, CoreTypes
<1>2. UnusedRows
  BY DEF Init, UnusedRows, Id, NoId, BoundAssumption
<1>3. ParentsLinked /\ OnlyMissionsEnd /\ DraftsWatched /\ EndedIsTimed
  BY DEF Init, ParentsLinked, OnlyMissionsEnd, DraftsWatched, EndedIsTimed
<1>4. PortsUnique /\ OneSharedMap /\ OneSuccessor
  BY DEF Init, PortsUnique, OneSharedMap, OneSuccessor, IsLive, Live
<1> QED BY <1>1, <1>2, <1>3, <1>4 DEF CoreInv

\* Every variable keeps its type, for every set of players and ports and every
\* bound: no handler leaves the registry or a session malformed.
THEOREM InstanceTypeCorrect == Spec => []TypeOK
BY BoundAssumption, InitTypes, TypeStep, PTL DEF Spec

\* The inductive invariant of the rows holds throughout.
THEOREM CoreInvariant == Spec => []CoreInv
<1>1. TypeOK /\ CoreInv /\ [Next]_vars => CoreInv'
  BY BoundAssumption, CoreStep
<1>2. Init => CoreInv
  BY BoundAssumption, InitCore
<1> QED BY <1>1, <1>2, InstanceTypeCorrect, PTL DEF Spec

\* AllocatePort never hands out the port of a row that is not STOPPED.
THEOREM PortsStayUnique == Spec => []PortsUnique
<1>1. CoreInv => PortsUnique
  BY DEF CoreInv
<1> QED BY <1>1, CoreInvariant, PTL

\* There is never a second home map or a second instance of a zone.
THEOREM SharedMapsStaySingle == Spec => []OneSharedMap
<1>1. CoreInv => OneSharedMap
  BY DEF CoreInv
<1> QED BY <1>1, CoreInvariant, PTL

\* REQUEST_SUCCESSOR never gives a mission a second live successor.
THEOREM SuccessorsStaySingle == Spec => []OneSuccessor
<1>1. CoreInv => OneSuccessor
  BY DEF CoreInv
<1> QED BY <1>1, CoreInvariant, PTL

\* A DRAFTING successor always has a parent session that will promote it.
THEOREM DraftsStayWatched == Spec => []DraftsWatched
<1>1. CoreInv => DraftsWatched
  BY DEF CoreInv
<1> QED BY <1>1, CoreInvariant, PTL

\* A mission that ended and still runs has its force-exit timer armed.
THEOREM EndedStaysTimed == Spec => []EndedIsTimed
<1>1. CoreInv => EndedIsTimed
  BY DEF CoreInv
<1> QED BY <1>1, CoreInvariant, PTL

\* No late message takes a row back: a STOPPED instance stays STOPPED.
THEOREM RowsOnlyAdvance == Spec => RowsMoveForward
<1>1. TypeOK /\ CoreInv /\ [Next]_vars =>
          [\A i \in Id : Rank[state[i]] <= Rank[state'[i]]]_vars
  BY BoundAssumption, CoreStep DEF Forward
<1> QED BY <1>1, InstanceTypeCorrect, CoreInvariant, PTL DEF Spec, RowsMoveForward
=============================================================================
