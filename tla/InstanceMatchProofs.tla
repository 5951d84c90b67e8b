------------------------ MODULE InstanceMatchProofs ------------------------
(***************************************************************************)
(* What becomes of the players the queue has popped: a pending match is     *)
(* resolved or can still be, a seat is reserved only where it is of use,    *)
(* and nobody is popped into nothing.                                       *)
(*                                                                          *)
(* Unlike the facts about rows these depend on what goes wrong.  A process  *)
(* that dies, or is stopped, before INSTANCE_HELLO is never noticed         *)
(* (NoEarly); a READY lost with its connection is not sent again (NoDrop);  *)
(* a pop without a free port forgets the players (EnoughPorts).             *)
(***************************************************************************)
EXTENDS InstanceLifecycleProofs, FiniteSetTheorems

NoEarly == "early" \notin Faults
NoDrop  == "drop" \notin Faults

\* AllocatePort always finds one, even if every row is live.
EnoughPorts == IsFiniteSet(Port) /\ MaxId < Cardinality(Port)

-----------------------------------------------------------------------------
(* Reserved seats.                                                          *)

\* Players wait in pending_matches_ only; a pending match belongs to an inserted
\* row that follows nobody and, until its session is identified, is loading.
PendingIsLoading ==
    \A i \in Id : /\ pend[i] # {} => i \in hasPend
                  /\ i \in hasPend => /\ i < nextId /\ pred[i] = NoId
                                      /\ \/ link[i] = "hello"
                                         \/ state[i] = "STARTING" /\ ~ended[i]

SeatsInv == PendingIsLoading /\ ReservationsBacked

seatVars == <<nextId, state, pred, ended, link, hasPend>>

\* Players leave matches and seats, or nothing happens.
LEMMA SeatsQuiet ==
    ASSUME SeatsInv, UNCHANGED seatVars,
           \A i \in Id : pend'[i] \subseteq pend[i] /\ reserved'[i] \subseteq reserved[i]
    PROVE  SeatsInv'
BY DEF SeatsInv, PendingIsLoading, ReservationsBacked, seatVars

\* Rows stop with their reservations, and pending ones only if they are identified.
LEMMA SeatsStop ==
    ASSUME SeatsInv, UNCHANGED <<nextId, pred, ended, link, hasPend, pend>>,
           \A i \in Id : \/ state'[i] = state[i] /\ reserved'[i] \subseteq reserved[i]
                         \/ reserved'[i] = {} /\ (i \in hasPend => link[i] = "hello")
    PROVE  SeatsInv'
BY DEF SeatsInv, PendingIsLoading, ReservationsBacked

LEMMA SeatsStopIfEmpty ==
    ASSUME TypeOK, SeatsInv, NEW i \in Id, NEW r, StopIfEmpty(i, r),
           UNCHANGED <<nextId, pred, ended, link, hasPend, pend>>,
           i \in hasPend => link[i] = "hello"
    PROVE  SeatsInv'
<1>1. \A j \in Id : \/ state'[j] = state[j] /\ reserved'[j] \subseteq reserved[j]
                    \/ reserved'[j] = {} /\ (j \in hasPend => link[j] = "hello")
  BY DEF StopIfEmpty, TypeOK
<1> QED BY <1>1, SeatsStop

\* A new row, with or without the match that waits for it.
LEMMA SeatsSpawn ==
    ASSUME BoundAssumption, TypeOK, CoreInv, SeatsInv,
           NEW k, NEW parent \in Id \cup {NoId}, NEW ok \in BOOLEAN,
           Spawn(k, parent, ok),
           UNCHANGED <<ended, link>>,
           \A i \in Id : reserved'[i] \subseteq reserved[i],
           \/ UNCHANGED <<hasPend, pend>>
           \/ /\ ok /\ parent = NoId
              /\ hasPend' = hasPend \cup {nextId}
              /\ \A i \in Id : i # nextId => pend'[i] = pend[i]
    PROVE  SeatsInv'
<1> DEFINE n == nextId
<1>1. /\ n \in Id /\ nextId' = n + 1 /\ n \in Int
      /\ state[n] = "NONE" /\ link[n] = "none" /\ ~ended[n]
  BY DEF Spawn, CoreInv, CoreTypes, UnusedRows, Id
<1>2. /\ state' = [state EXCEPT ![n] = IF ok THEN "STARTING" ELSE "STOPPED"]
      /\ pred' = [pred EXCEPT ![n] = parent]
  BY DEF Spawn
<1>3. reserved[n] = {} /\ pend[n] = {} /\ n \notin hasPend
  BY <1>1 DEF SeatsInv, PendingIsLoading, ReservationsBacked
<1>4. ReservationsBacked'
  BY <1>1, <1>2, <1>3 DEF SeatsInv, ReservationsBacked, TypeOK
<1>5. PendingIsLoading'
  <2>1. CASE UNCHANGED <<hasPend, pend>>
    BY <1>1, <1>2, <1>3, <2>1 DEF SeatsInv, PendingIsLoading, TypeOK, Id
  <2>2. CASE /\ ok /\ parent = NoId
             /\ hasPend' = hasPend \cup {n}
             /\ \A i \in Id : i # n => pend'[i] = pend[i]
    BY <1>1, <1>2, <1>3, <2>2 DEF SeatsInv, PendingIsLoading, TypeOK, Id
  <2> QED BY <2>1, <2>2
<1> QED BY <1>4, <1>5 DEF SeatsInv

\* INSTANCE_READY turns the match into reservations: the row was loading and had
\* nobody to wait for, or its session is identified.
LEMMA SeatsReady ==
    ASSUME TypeOK, SeatsInv, NEW i \in Id, Ready(i)
    PROVE  SeatsInv'
<1>1. /\ UNCHANGED <<nextId, pred, ended, link>>
      /\ state' = MarkReady(i) /\ hasPend' = hasPend \ {i}
      /\ pend' = [pend EXCEPT ![i] = {}]
      /\ reserved' = [reserved EXCEPT ![i] = @ \cup pend[i]]
  BY DEF Ready, rowVars
<1>2. \A j \in Id : j # i => state'[j] = state[j]
  BY <1>1 DEF MarkReady, TypeOK
<1>3. state[i] # "STARTING" => state'[i] = state[i]
  BY <1>1 DEF MarkReady
<1>4. state[i] = "STARTING" /\ pred[i] = NoId => state'[i] = "READY"
  BY <1>1 DEF MarkReady, ReadyState, TypeOK
<1>5. PendingIsLoading'
  BY <1>1, <1>2 DEF SeatsInv, PendingIsLoading, TypeOK
<1>6. ReservationsBacked'
  <2>1. reserved'[i] # {} => state'[i] = "READY" \/ link'[i] = "hello"
    BY <1>1, <1>3, <1>4 DEF SeatsInv, PendingIsLoading, ReservationsBacked, TypeOK
  <2> QED BY <1>1, <1>2, <2>1 DEF SeatsInv, ReservationsBacked, TypeOK
<1> QED BY <1>5, <1>6 DEF SeatsInv

\* Removing players from the entries that name them only shrinks entries.
LEMMA ScrubsShrink ==
    ASSUME NEW f \in [Id -> SUBSET Player], NEW G \in SUBSET Player, NEW g \in Scrubs(f, G)
    PROVE  \A i \in Id : g[i] \subseteq f[i]
BY DEF Scrubs

\* A promotion takes a DRAFTING row to READY.
LEMMA PromotionsReady ==
    ASSUME TypeOK, NEW i \in Id, NEW st \in Promotions(i)
    PROVE  \A j \in Id : st[j] = state[j] \/ (state[j] = "DRAFTING" /\ st[j] = "READY")
BY DEF Promotions, Drafts, TypeOK

LEMMA SeatsLinkDown ==
    ASSUME TypeOK, SeatsInv, NEW i \in Id, LinkDown(i)
    PROVE  SeatsInv'
<1>1. /\ UNCHANGED <<nextId, pred, ended>>
      /\ link' = [link EXCEPT ![i] = "none"]
  BY DEF LinkDown, rowVars
<1>2. CASE link[i] # "hello"
  <2>1. UNCHANGED <<state, hasPend, pend, reserved>>
    BY <1>2 DEF LinkDown
  <2> QED BY <1>1, <1>2, <2>1 DEF SeatsInv, PendingIsLoading, ReservationsBacked, TypeOK
<1>3. CASE link[i] = "hello"
  <2>1. OnDisconnect(i)
    BY <1>3 DEF LinkDown
  <2>2. PICK st \in Promotions(i) : state' = [st EXCEPT ![i] = "STOPPED"]
    BY <2>1 DEF OnDisconnect
  <2>3. \A j \in Id : j # i => state'[j] = state[j]
                               \/ (state[j] = "DRAFTING" /\ state'[j] = "READY")
    BY <2>2, PromotionsReady
  <2>4. \A j \in Id : reserved'[j] \subseteq reserved[j] /\ (j = i => reserved'[j] = {})
    <3>1. PICK r \in Scrubs(reserved, pend[i] \cap online) : reserved' = [r EXCEPT ![i] = {}]
      BY <2>1 DEF OnDisconnect
    <3>2. \A j \in Id : r[j] \subseteq reserved[j]
      BY ScrubsShrink DEF TypeOK
    <3>3. r \in [Id -> SUBSET Player]
      BY ScrubsTypes DEF TypeOK
    <3> QED BY <3>1, <3>2, <3>3
  <2>5. hasPend' = hasPend \ {i} /\ pend' = [pend EXCEPT ![i] = {}]
    BY <2>1 DEF OnDisconnect
  <2>6. PendingIsLoading'
    BY <1>1, <2>3, <2>5 DEF SeatsInv, PendingIsLoading, TypeOK
  <2>7. ReservationsBacked'
    BY <1>1, <2>3, <2>4 DEF SeatsInv, ReservationsBacked, TypeOK
  <2> QED BY <2>6, <2>7 DEF SeatsInv
<1> QED BY <1>2, <1>3

LEMMA SeatsStep ==
    ASSUME NoEarly, BoundAssumption, TypeOK, CoreInv, SeatsInv, [Next]_vars
    PROVE  SeatsInv'
<1> USE DEF rowVars, dllVars, matchVars, sessionVars, counters, seatVars
<1>1. ASSUME NEW p \in Player, JoinQueue(p) \/ ExitMission(p) \/ LeaveGame(p)
      PROVE  SeatsInv'
  BY <1>1, SeatsQuiet DEF JoinQueue, ExitMission, LeaveGame
<1>2. ASSUME NEW p \in Player, LeaveQueue(p) \/ Disconnect(p)
      PROVE  SeatsInv'
  <2>1. pend' \in Scrubs(pend, {p}) /\ reserved' \in Scrubs(reserved, {p})
    BY <1>2 DEF LeaveQueue, Disconnect
  <2>2. UNCHANGED seatVars
    BY <1>2 DEF LeaveQueue, Disconnect
  <2> QED BY <2>1, <2>2, ScrubsShrink, SeatsQuiet DEF TypeOK
<1>3. ASSUME NEW p \in Player, NEW t \in Id \cup {NoId},
             SettleAccept(p, t) \/ UNCHANGED reserved, UNCHANGED <<seatVars, pend>>
      PROVE  SeatsInv'
  <2>1. \A i \in Id : reserved'[i] \subseteq reserved[i]
    BY <1>3 DEF SettleAccept, TypeOK
  <2> QED BY <1>3, <2>1, SeatsQuiet
<1>4. ASSUME NEW p \in Player, Accept(p)
      PROVE  SeatsInv'
  <2>1. \A i \in Id : reserved'[i] \subseteq reserved[i]
    BY <1>4 DEF Accept, TypeOK
  <2> QED BY <1>4, <2>1, SeatsQuiet DEF Accept
<1>5. ASSUME NEW p \in Player, AckTimeout(p)
      PROVE  SeatsInv'
  <2>1. invite[p] \in Id \cup {NoId}
    BY DEF TypeOK
  <2> QED BY <1>3, <1>5, <2>1 DEF AckTimeout
<1>6. ASSUME NEW i \in Id, NEW p \in Player, NEW ok \in BOOLEAN, RegisterAck(i, p, ok)
      PROVE  SeatsInv'
  <2>1. ackInst[p] \in Id \cup {NoId}
    BY DEF TypeOK
  <2>2. SettleAccept(p, ackInst[p]) \/ UNCHANGED reserved
    BY <1>6 DEF RegisterAck
  <2>3. UNCHANGED <<seatVars, pend>>
    BY <1>6 DEF RegisterAck
  <2> QED BY <1>3, <2>1, <2>2, <2>3
<1>7. ASSUME NEW G \in SUBSET queued, PopFresh(G)
      PROVE  SeatsInv'
  <2>1. CASE PopNoPort(G)
    BY <1>7, <2>1, SeatsQuiet DEF PopFresh, PopNoPort
  <2>2. CASE PopSpawns(G)
    <3>1. /\ Spawn("match", NoId, TRUE) /\ UNCHANGED <<ended, link, reserved>>
          /\ hasPend' = hasPend \cup {nextId}
          /\ \A i \in Id : i # nextId => pend'[i] = pend[i]
      BY <1>7, <2>2 DEF PopFresh, PopSpawns, TypeOK
    <3> QED BY <3>1, SeatsSpawn
  <2>3. CASE PopForkFails(G)
    <3>1. /\ Spawn("match", NoId, FALSE) /\ UNCHANGED <<ended, link, hasPend, pend>>
          /\ reserved' \in Scrubs(reserved, G \cap online)
      BY <1>7, <2>3 DEF PopFresh, PopForkFails
    <3>2. \A i \in Id : reserved'[i] \subseteq reserved[i]
      BY <3>1, ScrubsShrink DEF TypeOK
    <3> QED BY <3>1, <3>2, SeatsSpawn
  <2> QED BY <1>7, <2>1, <2>2, <2>3 DEF PopFresh
<1>8. ASSUME NEW G \in SUBSET queued, NEW i \in Id, Coalesce(G, i)
      PROVE  SeatsInv'
  BY <1>8 DEF Coalesce, Coalesces, SeatsInv, PendingIsLoading, ReservationsBacked, TypeOK
<1>9. ASSUME NEW G \in SUBSET queued, NEW i \in Id, PopExisting(G, i)
      PROVE  SeatsInv'
  BY <1>9 DEF PopExisting, Joinable, SeatsInv, PendingIsLoading, ReservationsBacked, TypeOK
<1>10. ASSUME NEW k, NEW parent \in Id \cup {NoId}, \E ok \in BOOLEAN : Spawn(k, parent, ok),
              UNCHANGED <<ended, link, matchVars>>
       PROVE  SeatsInv'
  BY <1>10, SeatsSpawn
<1>11. ASSUME SpawnHome \/ SpawnZone
       PROVE  SeatsInv'
  <2>1. PICK k : SpawnShared(k)
    BY <1>11 DEF SpawnHome, SpawnZone
  <2> QED BY <1>10, <2>1 DEF SpawnShared
<1>12. ASSUME NEW i \in Id, RequestSuccessor(i)
       PROVE  SeatsInv'
  BY <1>10, <1>12 DEF RequestSuccessor
<1>13. ASSUME NEW i \in Id, Connect(i) \/ Hello(i)
       PROVE  SeatsInv'
  BY <1>13 DEF Connect, Hello, SeatsInv, PendingIsLoading, ReservationsBacked, TypeOK
<1>14. ASSUME NEW i \in Id, Die(i)
       PROVE  SeatsInv'
  BY <1>14, SeatsQuiet DEF Die
<1>15. ASSUME NEW i \in Id, MissionEnded(i)
       PROVE  SeatsInv'
  <2>1. \A j \in Id : state'[j] = state[j] \/ (state[j] = "DRAFTING" /\ state'[j] = "READY")
    BY <1>15, PromotionsReady DEF MissionEnded
  <2>2. /\ link[i] = "hello" /\ ended' = [ended EXCEPT ![i] = TRUE]
        /\ UNCHANGED <<nextId, pred, link, hasPend, pend, reserved>>
    BY <1>15 DEF MissionEnded
  <2> QED BY <2>1, <2>2 DEF SeatsInv, PendingIsLoading, ReservationsBacked, TypeOK
<1>16. ASSUME NEW i \in Id, InstanceEmpty(i)
       PROVE  SeatsInv'
  BY <1>16, SeatsStopIfEmpty DEF InstanceEmpty
<1>17. ASSUME NEW i \in Id, NEW p \in Player, PlayerLeft(i, p)
       PROVE  SeatsInv'
  BY <1>17, SeatsStopIfEmpty DEF PlayerLeft
<1>18. ASSUME NEW i \in Id, ForceExit(i)
       PROVE  SeatsInv'
  <2>1. CASE IsLive(i) /\ ended[i] /\ kind[i] # "home"
    <3>1. StopIfEmpty(i, roster') /\ UNCHANGED <<nextId, pred, ended, link, hasPend, pend>>
      BY <1>18, <2>1 DEF ForceExit
    <3>2. i \in hasPend => link[i] = "hello"
      BY <2>1 DEF SeatsInv, PendingIsLoading
    <3> QED BY <3>1, <3>2, SeatsStopIfEmpty
  <2>2. CASE ~(IsLive(i) /\ ended[i] /\ kind[i] # "home")
    BY <1>18, <2>2, SeatsQuiet DEF ForceExit
  <2> QED BY <2>1, <2>2
<1>19. ASSUME NEW i \in Id, AdminStop(i)
       PROVE  SeatsInv'
  <2>1. \A j \in Id : \/ state'[j] = state[j] /\ reserved'[j] \subseteq reserved[j]
                      \/ reserved'[j] = {} /\ (j \in hasPend => link[j] = "hello")
    BY <1>19 DEF AdminStop, TypeOK, NoEarly
  <2> QED BY <1>19, <2>1, SeatsStop DEF AdminStop
<1>20. ASSUME NEW S \in SUBSET IdleCandidates, IdleSweep(S)
       PROVE  SeatsInv'
  <2>1. \A j \in S : j \in hasPend => link[j] = "hello"
    BY DEF IdleCandidates, SeatsInv, PendingIsLoading
  <2>2. \A j \in Id : \/ state'[j] = state[j] /\ reserved'[j] \subseteq reserved[j]
                      \/ reserved'[j] = {} /\ (j \in hasPend => link[j] = "hello")
    BY <1>20, <2>1 DEF IdleSweep
  <2> QED BY <1>20, <2>2, SeatsStop DEF IdleSweep
<1>21. ASSUME NEW clean \in BOOLEAN, Restart(clean)
       PROVE  SeatsInv'
  BY <1>21 DEF Restart, SeatsInv, PendingIsLoading, ReservationsBacked
<1>22. CASE UNCHANGED vars
  BY <1>22, SeatsQuiet DEF vars
<1> QED
  BY <1>1, <1>2, <1>4, <1>5, <1>6, <1>7, <1>8, <1>9, <1>11, <1>12, <1>13, <1>14, <1>15,
     <1>16, <1>17, <1>18, <1>19, <1>20, <1>21, <1>22, SeatsReady, SeatsLinkDown DEF Next

\* Where no process dies or is stopped before HELLO, a reserved seat belongs to a
\* READY instance or to one whose session will drop it, for any interleaving of
\* pops, READY before HELLO, stops, dropped connections and restarts.
THEOREM SeatsStayBacked == NoEarly => (Spec => []ReservationsBacked)
<1> SUFFICES ASSUME NoEarly PROVE Spec => []ReservationsBacked
  OBVIOUS
<1>1. Init => SeatsInv
  BY DEF Init, SeatsInv, PendingIsLoading, ReservationsBacked
<1>2. TypeOK /\ CoreInv /\ SeatsInv /\ [Next]_vars => SeatsInv'
  BY BoundAssumption, SeatsStep
<1>3. SeatsInv => ReservationsBacked
  BY DEF SeatsInv
<1> QED BY <1>1, <1>2, <1>3, InstanceTypeCorrect, CoreInvariant, PTL DEF Spec

-----------------------------------------------------------------------------
(* Pending matches.                                                         *)

\* A pending match is of an inserted row, and rows not inserted have sent nothing.
RescueInv ==
    /\ PendingRescued
    /\ \A i \in hasPend : i < nextId
    /\ \A i \in Id : i >= nextId => sent[i] = {}

\* Processes are signalled at most, and nobody is added to a match.
LEMMA RescueQuiet ==
    ASSUME TypeOK, RescueInv, UNCHANGED <<nextId, sent, link, hasPend>>,
           \A i \in Id : proc'[i] = proc[i] \/ (proc[i] = "up" /\ proc'[i] = "term")
    PROVE  RescueInv'
BY DEF TypeOK, RescueInv, PendingRescued

LEMMA SignalledShape ==
    ASSUME NEW S, proc' = Signalled(S)
    PROVE  \A i \in Id : proc'[i] = proc[i] \/ (proc[i] = "up" /\ proc'[i] = "term")
BY DEF Signalled

LEMMA RescueStopIfEmpty ==
    ASSUME TypeOK, RescueInv, NEW i \in Id, NEW r, StopIfEmpty(i, r),
           UNCHANGED <<nextId, sent, link, hasPend>>
    PROVE  RescueInv'
<1>1. CASE proc' = Signalled({i})
  BY <1>1, SignalledShape, RescueQuiet
<1>2. CASE UNCHANGED proc
  BY <1>2, RescueQuiet
<1> QED BY <1>1, <1>2 DEF StopIfEmpty

\* The row inserted was not pending, and its process has said nothing yet.
LEMMA RescueSpawn ==
    ASSUME BoundAssumption, TypeOK, RescueInv,
           NEW k, NEW parent, NEW ok \in BOOLEAN, Spawn(k, parent, ok),
           UNCHANGED <<sent, link>>,
           hasPend' = hasPend \/ (ok /\ hasPend' = hasPend \cup {nextId})
    PROVE  RescueInv'
<1> DEFINE n == nextId
<1>1. /\ n \in Id /\ n \in Int /\ nextId' = n + 1
      /\ proc' = [proc EXCEPT ![n] = IF ok THEN "up" ELSE "none"]
  BY DEF Spawn, TypeOK, Id
<1>2. n \notin hasPend /\ sent[n] = {}
  BY <1>1 DEF RescueInv
<1>3. \A i \in hasPend : i \in Id /\ i # n
  BY <1>2 DEF TypeOK
<1>4. PendingRescued'
  <2>1. \A i \in hasPend : sent'[i] = sent[i] /\ proc'[i] = proc[i] /\ link'[i] = link[i]
    BY <1>1, <1>3 DEF TypeOK
  <2>2. \A i \in hasPend : "READY" \notin sent'[i] /\ (proc'[i] \in {"up", "term"} \/ link'[i] = "hello")
    BY <2>1 DEF RescueInv, PendingRescued
  <2>3. ok => "READY" \notin sent'[n] /\ proc'[n] = "up"
    BY <1>1, <1>2 DEF TypeOK
  <2> QED BY <2>2, <2>3 DEF PendingRescued
<1>5. \A i \in hasPend' : i < nextId'
  BY <1>1, <1>3 DEF RescueInv, Id
<1>6. \A i \in Id : i >= nextId' => sent'[i] = {}
  BY <1>1 DEF RescueInv, Id
<1> QED BY <1>4, <1>5, <1>6 DEF RescueInv

\* An identified session ends with its match; another one ends only after its
\* process, which a pending match rules out.
LEMMA RescueLinkDown ==
    ASSUME NoDrop, TypeOK, CoreInv, RescueInv, NEW i \in Id, LinkDown(i)
    PROVE  RescueInv'
<1>1. /\ proc[i] = "gone" /\ link[i] # "none"
      /\ UNCHANGED <<nextId, proc>>
      /\ link' = [link EXCEPT ![i] = "none"]
      /\ sent' = [sent EXCEPT ![i] = OneShot]
  BY DEF LinkDown, NoDrop, Forgotten, rowVars
<1>2. i \notin hasPend' /\ hasPend' \subseteq hasPend
  BY <1>1 DEF LinkDown, OnDisconnect, RescueInv, PendingRescued
<1>3. ~(i >= nextId)
  BY <1>1 DEF CoreInv, UnusedRows
<1>4. \A j \in Id : j # i => link'[j] = link[j] /\ sent'[j] = sent[j]
  BY <1>1 DEF TypeOK
<1>5. \A j \in hasPend' : j \in Id /\ j # i /\ j \in hasPend
  BY <1>2 DEF TypeOK
<1>6. PendingRescued'
  BY <1>1, <1>4, <1>5 DEF RescueInv, PendingRescued
<1> QED BY <1>1, <1>3, <1>4, <1>5, <1>6 DEF RescueInv

LEMMA RescueStep ==
    ASSUME NoEarly, NoDrop, BoundAssumption, TypeOK, CoreInv, RescueInv, [Next]_vars
    PROVE  RescueInv'
<1> USE DEF rowVars, dllVars, matchVars, sessionVars, counters
<1>1. ASSUME UNCHANGED <<nextId, sent, link, hasPend, proc>>
      PROVE  RescueInv'
  BY <1>1, RescueQuiet
<1>2. ASSUME NEW p \in Player, JoinQueue(p) \/ LeaveQueue(p) \/ Accept(p) \/ AckTimeout(p)
                               \/ ExitMission(p) \/ LeaveGame(p) \/ Disconnect(p)
      PROVE  RescueInv'
  BY <1>1, <1>2 DEF JoinQueue, LeaveQueue, Accept, AckTimeout, ExitMission, LeaveGame,
                    Disconnect
<1>3. ASSUME NEW G \in SUBSET queued, PopFresh(G)
      PROVE  RescueInv'
  <2>1. CASE PopNoPort(G)
    BY <1>1, <1>3, <2>1 DEF PopFresh, PopNoPort
  <2>2. CASE PopSpawns(G)
    BY <1>3, <2>2, RescueSpawn DEF PopFresh, PopSpawns
  <2>3. CASE PopForkFails(G)
    BY <1>3, <2>3, RescueSpawn DEF PopFresh, PopForkFails
  <2> QED BY <1>3, <2>1, <2>2, <2>3 DEF PopFresh
<1>4. ASSUME NEW G \in SUBSET queued, NEW i \in Id, Coalesce(G, i) \/ PopExisting(G, i)
      PROVE  RescueInv'
  BY <1>1, <1>4 DEF Coalesce, PopExisting
<1>5. ASSUME SpawnHome \/ SpawnZone
      PROVE  RescueInv'
  <2>1. PICK k : SpawnShared(k)
    BY <1>5 DEF SpawnHome, SpawnZone
  <2> QED BY <2>1, RescueSpawn DEF SpawnShared
<1>6. ASSUME NEW i \in Id, RequestSuccessor(i)
      PROVE  RescueInv'
  BY <1>6, RescueSpawn DEF RequestSuccessor
<1>7. ASSUME NEW i \in Id, Connect(i) \/ Hello(i)
      PROVE  RescueInv'
  BY <1>7 DEF Connect, Hello, RescueInv, PendingRescued, TypeOK
<1>8. ASSUME NEW i \in Id, Ready(i)
      PROVE  RescueInv'
  <2>1. /\ link[i] # "none" /\ sent' = [sent EXCEPT ![i] = @ \cup {"READY"}]
        /\ hasPend' = hasPend \ {i} /\ UNCHANGED <<nextId, proc, link>>
    BY <1>8 DEF Ready
  <2>2. ~(i >= nextId)
    BY <2>1 DEF CoreInv, UnusedRows
  <2> QED BY <2>1, <2>2 DEF RescueInv, PendingRescued, TypeOK
<1>9. ASSUME NEW i \in Id, Die(i)
      PROVE  RescueInv'
  BY <1>9 DEF Die, NoEarly, RescueInv, PendingRescued, TypeOK
<1>10. ASSUME NEW i \in Id, MissionEnded(i)
       PROVE  RescueInv'
  <2>1. /\ "READY" \in sent[i] /\ sent' = [sent EXCEPT ![i] = @ \cup {"ENDED"}]
        /\ UNCHANGED <<nextId, proc, link, hasPend>>
    BY <1>10 DEF MissionEnded
  <2> QED BY <2>1 DEF RescueInv, PendingRescued, TypeOK
<1>11. ASSUME NEW i \in Id, NEW p \in Player, PlayerLeft(i, p)
       PROVE  RescueInv'
  BY <1>11, RescueStopIfEmpty DEF PlayerLeft
<1>12. ASSUME NEW i \in Id, NEW p \in Player, NEW ok \in BOOLEAN, RegisterAck(i, p, ok)
       PROVE  RescueInv'
  BY <1>1, <1>12 DEF RegisterAck
<1>13. ASSUME NEW i \in Id, InstanceEmpty(i)
       PROVE  RescueInv'
  BY <1>13, RescueStopIfEmpty DEF InstanceEmpty
<1>14. ASSUME NEW i \in Id, ForceExit(i)
       PROVE  RescueInv'
  <2>1. UNCHANGED <<nextId, sent, link, hasPend>>
    BY <1>14 DEF ForceExit
  <2>2. UNCHANGED proc \/ StopIfEmpty(i, roster')
    BY <1>14 DEF ForceExit
  <2> QED BY <1>1, <2>1, <2>2, RescueStopIfEmpty
<1>15. ASSUME NEW i \in Id, AdminStop(i)
       PROVE  RescueInv'
  BY <1>15, SignalledShape, RescueQuiet DEF AdminStop
<1>16. ASSUME NEW S \in SUBSET IdleCandidates, IdleSweep(S)
       PROVE  RescueInv'
  BY <1>16, SignalledShape, RescueQuiet DEF IdleSweep
<1>17. ASSUME NEW clean \in BOOLEAN, Restart(clean)
       PROVE  RescueInv'
  BY <1>17 DEF Restart, RescueInv, PendingRescued
<1>18. CASE UNCHANGED vars
  BY <1>1, <1>18 DEF vars
<1> QED
  BY <1>2, <1>3, <1>4, <1>5, <1>6, <1>7, <1>8, <1>9, <1>10, <1>11, <1>12, <1>13, <1>14,
     <1>15, <1>16, <1>17, <1>18, RescueLinkDown DEF Next

\* Where no process dies or is stopped before HELLO and no connection of a living
\* process drops, a pending match always has a process that can still report READY
\* or a session whose end cancels it (INSTANCE_READY, on_disconnect).
THEOREM PendingStaysRescued == NoEarly /\ NoDrop => (Spec => []PendingRescued)
<1> SUFFICES ASSUME NoEarly, NoDrop PROVE Spec => []PendingRescued
  OBVIOUS
<1>1. Init => RescueInv
  BY DEF Init, RescueInv, PendingRescued
<1>2. TypeOK /\ CoreInv /\ RescueInv /\ [Next]_vars => RescueInv'
  BY BoundAssumption, RescueStep
<1>3. RescueInv => PendingRescued
  BY DEF RescueInv
<1> QED BY <1>1, <1>2, <1>3, InstanceTypeCorrect, CoreInvariant, PTL DEF Spec

-----------------------------------------------------------------------------
(* Popped players.                                                          *)

\* Fewer rows can be live than there are ports.
LEMMA PortLeft ==
    ASSUME EnoughPorts, BoundAssumption
    PROVE  ~PoolExhausted
<1> DEFINE L == {j \in Id : IsLive(j)}
           f == [j \in L |-> port[j]]
<1>1. IsFiniteSet(L) /\ Cardinality(L) <= MaxId
  <2>1. IsFiniteSet(Id) /\ Cardinality(Id) <= MaxId
    <3>1. MaxId \in Int /\ 1 \in Int /\ MaxId >= 0
      BY DEF BoundAssumption
    <3>2. IsFiniteSet(1 .. MaxId) /\ Cardinality(1 .. MaxId) = IF 1 > MaxId THEN 0 ELSE MaxId - 1 + 1
      BY <3>1, FS_Interval
    <3> QED BY <3>1, <3>2 DEF Id
  <2>2. IsFiniteSet(L) /\ Cardinality(L) <= Cardinality(Id)
    BY <2>1, FS_Subset
  <2> QED BY <2>1, <2>2, FS_CardinalityType DEF BoundAssumption
<1>2. IsFiniteSet(UsedPorts) /\ Cardinality(UsedPorts) <= Cardinality(L)
  <2>1. f \in Surjection(L, UsedPorts)
    BY DEF Surjection, UsedPorts
  <2> QED BY <1>1, <2>1, FS_Surjection
<1>3. Port \subseteq UsedPorts => Cardinality(Port) <= Cardinality(UsedPorts)
  BY <1>2, FS_Subset
<1>4. /\ Cardinality(Port) \in Nat /\ Cardinality(UsedPorts) \in Nat
      /\ Cardinality(L) \in Nat /\ MaxId \in Nat
  BY <1>1, <1>2, FS_CardinalityType DEF EnoughPorts, BoundAssumption
<1> QED BY <1>1, <1>2, <1>3, <1>4 DEF EnoughPorts, PoolExhausted

\* What PoppedNotLost says of one step.
PopKept ==
    \A p \in queued \ queued' : p \in online' =>
        (\E i \in Id : p \in pend'[i]) \/ invite'[p] # NoId \/ ~inQueue'[p]

LEMMA PopStep ==
    ASSUME EnoughPorts, BoundAssumption, TypeOK, Next
    PROVE  PopKept
<1> USE DEF rowVars, dllVars, matchVars, sessionVars, counters
<1>1. ASSUME queued \subseteq queued'
      PROVE  PopKept
  BY <1>1 DEF PopKept
<1>2. ASSUME NEW p \in Player, JoinQueue(p) \/ Accept(p) \/ AckTimeout(p) \/ ExitMission(p)
                               \/ LeaveGame(p)
      PROVE  PopKept
  BY <1>1, <1>2 DEF JoinQueue, Accept, AckTimeout, ExitMission, LeaveGame
<1>3. ASSUME NEW p \in Player, LeaveQueue(p) \/ Disconnect(p)
      PROVE  PopKept
  BY <1>3 DEF LeaveQueue, Disconnect, PopKept, TypeOK
<1>4. ASSUME NEW G \in SUBSET queued, PopFresh(G)
      PROVE  PopKept
  <2>1. queued' = queued \ G /\ online' = online /\ G \subseteq Player
    BY <1>4 DEF PopFresh, TypeOK
  <2>2. ~PopNoPort(G)
    BY PortLeft DEF PopNoPort
  <2>3. CASE PopSpawns(G)
    <3>1. nextId \in Id /\ pend'[nextId] = G
      BY <2>3 DEF PopSpawns, Spawn, TypeOK
    <3> QED BY <2>1, <3>1 DEF PopKept
  <2>4. CASE PopForkFails(G)
    BY <2>1, <2>4 DEF PopForkFails, Cancelled, PopKept
  <2> QED BY <1>4, <2>2, <2>3, <2>4 DEF PopFresh
<1>5. ASSUME NEW G \in SUBSET queued, NEW i \in Id, Coalesce(G, i)
      PROVE  PopKept
  BY <1>5 DEF Coalesce, PopKept, TypeOK
<1>6. ASSUME NEW G \in SUBSET queued, NEW i \in Id, PopExisting(G, i)
      PROVE  PopKept
  BY <1>6 DEF PopExisting, PopKept, TypeOK, Id, NoId
<1>7. ASSUME SpawnHome \/ SpawnZone \/ \E i \in Id : RequestSuccessor(i)
      PROVE  PopKept
  BY <1>1, <1>7 DEF SpawnHome, SpawnZone, SpawnShared, RequestSuccessor
<1>8. ASSUME NEW i \in Id, Connect(i) \/ Hello(i) \/ Ready(i) \/ LinkDown(i) \/ Die(i)
                           \/ InstanceEmpty(i) \/ MissionEnded(i) \/ ForceExit(i) \/ AdminStop(i)
      PROVE  PopKept
  <2>1. UNCHANGED queued
    BY <1>8 DEF Connect, Hello, Ready, LinkDown, Die, InstanceEmpty, MissionEnded, ForceExit,
                AdminStop
  <2> QED BY <1>1, <2>1
<1>9. ASSUME NEW i \in Id, NEW p \in Player,
             PlayerLeft(i, p) \/ \E ok \in BOOLEAN : RegisterAck(i, p, ok)
      PROVE  PopKept
  BY <1>1, <1>9 DEF PlayerLeft, RegisterAck
<1>10. ASSUME NEW S \in SUBSET IdleCandidates, IdleSweep(S)
       PROVE  PopKept
  BY <1>1, <1>10 DEF IdleSweep
<1>11. ASSUME NEW clean \in BOOLEAN, Restart(clean)
       PROVE  PopKept
  BY <1>11 DEF Restart, PopKept
<1> QED
  BY <1>2, <1>3, <1>4, <1>5, <1>6, <1>7, <1>8, <1>9, <1>10, <1>11 DEF Next

\* With a port for every row that can be live, each player the queue gives up is in
\* a pending match, invited, or told that the match is off; without one the match-pop
\* callback returns early and forgets the group (the run instance_no_port).
THEOREM PoppedStayKnown == EnoughPorts => (Spec => PoppedNotLost)
<1> SUFFICES ASSUME EnoughPorts PROVE Spec => PoppedNotLost
  OBVIOUS
<1>1. TypeOK /\ [Next]_vars => [PopKept]_vars
  BY BoundAssumption, PopStep
<1> QED BY <1>1, InstanceTypeCorrect, PTL DEF Spec, PoppedNotLost, PopKept
=============================================================================
