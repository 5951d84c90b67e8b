------------------------- MODULE InstanceLifecycle -------------------------
(***************************************************************************)
(* The life of a game instance, from the queue pop, home-map request, zone  *)
(* travel or successor request that spawns it to the row that says STOPPED. *)
(*                                                                          *)
(* Four parties share the work and see each other only through messages:    *)
(* the rows of ga_instances and ga_instance_players (InstanceRegistry), the *)
(* operating-system process (InstanceSpawner), the IPC session of its DLL   *)
(* (IpcServer), and the sessions of the matched players (MatchmakingService *)
(* and TcpSession).  ControlServer runs every handler on one asio thread,   *)
(* so a handler is one action; a process dies, connects and sends whenever  *)
(* it likes.  SIGCHLD is ignored: the only sign of a death is the end of    *)
(* the IPC session.                                                         *)
(***************************************************************************)
EXTENDS Integers, FiniteSets

CONSTANTS
    Player,        \* session guids, each used for one login
    MaxId,         \* bound on ga_instances.instance_id
    Port,          \* cfg.udp_port_range
    Cap,           \* GetQueueInstanceCap of the one match queue
    Continue,      \* the queue's continue_in_queue
    Spawns,        \* which spawners the environment exercises
    Faults,        \* what may go wrong, see FaultKind
    MaxJoins,      \* bound on the number of times players join the queue
    MaxRestarts    \* bound on restarts of ControlServer

\* A process crashes; it does so, or is stopped, before INSTANCE_HELLO; an IPC
\* connection drops while its process lives; an operator stops an instance; a
\* player disconnects; a registration times out.
FaultKind == {"crash", "early", "drop", "admin", "disconnect", "timeout"}

ASSUME BoundAssumption ==
    /\ MaxId \in Nat
    /\ Port \subseteq Nat
    /\ Cap \in Nat
    /\ MaxJoins \in Nat /\ MaxRestarts \in Nat
    /\ Spawns \subseteq {"home", "zone", "match"}
    /\ Faults \subseteq FaultKind
    /\ Continue \in BOOLEAN

VARIABLES
    nextId,     \* the rowid the next INSERT INTO ga_instances gets
    state,      \* ga_instances.state, "NONE" for a row not inserted yet
    kind,       \* is_home_map / queue_id: "home", "match" (queued) or "zone"
    port,       \* ga_instances.udp_port
    pred,       \* ga_instances.predecessor_instance_id
    ended,      \* ga_instances.end_mission_at IS NOT NULL
    roster,     \* ga_instance_players rows with left_at IS NULL
    proc,       \* the instance's process: up, sent SIGTERM, or gone
    link,       \* its IPC session: none, open, or identified by HELLO
    sent,       \* one-shot messages its DLL has delivered
    ingame,     \* players with a connection to the instance
    emptyDue,   \* instances whose INSTANCE_EMPTY is on its way
    regs,       \* PLAYER_REGISTER messages whose ACK is on its way
    exitArmed,  \* instances with a mission-end force-exit timer
    queued,     \* players in the match queue
    hasPend,    \* keys of pending_matches_
    pend,       \* PendingMatch::session_guids
    reserved,   \* ready_match_reservations_
    online,     \* players with a live TcpSession
    inQueue,    \* TcpSession::current_match_queue_id_ # 0
    invite,     \* TcpSession::pending_match_instance_id_
    ackInst,    \* the instance the session's pending_acks_ callback is for
    ackVia,     \* which handler registered that callback
    assigned,   \* TcpSession::assigned_instance_id_
    joins,      \* joins of the queue so far
    restarts    \* restarts of ControlServer so far

rowVars     == <<nextId, kind, port, pred>>
dllVars     == <<sent, ingame, emptyDue, regs>>
matchVars   == <<queued, hasPend, pend, reserved>>
sessionVars == <<online, inQueue, invite, ackInst, ackVia, assigned>>
counters    == <<joins, restarts>>
vars == <<rowVars, state, ended, roster, proc, link, dllVars, exitArmed,
          matchVars, sessionVars, counters>>

Id      == 1 .. MaxId
NoId    == 0
Live    == {"STARTING", "DRAFTING", "READY"}
OneShot == {"READY", "ENDED"}

TypeOK ==
    /\ nextId \in 1 .. MaxId + 1
    /\ state \in [Id -> Live \cup {"NONE", "STOPPED"}]
    /\ kind \in [Id -> {"home", "zone", "match"}]
    /\ port \in [Id -> Port \cup {0}]
    /\ pred \in [Id -> Id \cup {NoId}]
    /\ ended \in [Id -> BOOLEAN]
    /\ roster \in [Id -> SUBSET Player]
    /\ proc \in [Id -> {"none", "up", "term", "gone"}]
    /\ link \in [Id -> {"none", "open", "hello"}]
    /\ sent \in [Id -> SUBSET OneShot]
    /\ ingame \in [Id -> SUBSET Player]
    /\ emptyDue \subseteq Id
    /\ regs \subseteq Player \X Id
    /\ exitArmed \subseteq Id
    /\ queued \subseteq Player
    /\ hasPend \subseteq Id
    /\ pend \in [Id -> SUBSET Player]
    /\ reserved \in [Id -> SUBSET Player]
    /\ online \subseteq Player
    /\ inQueue \in [Player -> BOOLEAN]
    /\ invite \in [Player -> Id \cup {NoId}]
    /\ ackInst \in [Player -> Id \cup {NoId}]
    /\ ackVia \in [Player -> {"accept", "target"}]
    /\ assigned \in [Player -> Id \cup {NoId}]
    /\ joins \in 0 .. MaxJoins
    /\ restarts \in 0 .. MaxRestarts

Init ==
    /\ nextId = 1
    /\ state = [i \in Id |-> "NONE"]
    /\ kind = [i \in Id |-> "match"]
    /\ port = [i \in Id |-> 0]
    /\ pred = [i \in Id |-> NoId]
    /\ ended = [i \in Id |-> FALSE]
    /\ roster = [i \in Id |-> {}]
    /\ proc = [i \in Id |-> "none"]
    /\ link = [i \in Id |-> "none"]
    /\ sent = [i \in Id |-> {}]
    /\ ingame = [i \in Id |-> {}]
    /\ emptyDue = {}
    /\ regs = {}
    /\ exitArmed = {}
    /\ queued = {}
    /\ hasPend = {}
    /\ pend = [i \in Id |-> {}]
    /\ reserved = [i \in Id |-> {}]
    /\ online = Player
    /\ inQueue = [p \in Player |-> FALSE]
    /\ invite = [p \in Player |-> NoId]
    /\ ackInst = [p \in Player |-> NoId]
    /\ ackVia = [p \in Player |-> "accept"]
    /\ assigned = [p \in Player |-> NoId]
    /\ joins = 0
    /\ restarts = 0

-----------------------------------------------------------------------------
(* Queries and updates of the registry.                                     *)

IsLive(i) == state[i] \in Live

\* Mutant: only rows that reached READY hold their port.
ReadyHoldPorts == {port[i] : i \in {j \in Id : state[j] = "READY"}}

UsedPorts == {port[i] : i \in {j \in Id : IsLive(j)}}

\* Mutant: the scan over the range is off by one.
NextPortsOffByOne == {q + 1 : q \in Port \ UsedPorts}

\* AllocatePort takes the lowest port that no row but a STOPPED one holds.
NextPorts ==
    {q \in Port \ UsedPorts : \A r \in Port : r < q => r \in UsedPorts}

PoolExhausted == Port \subseteq UsedPorts

\* Mutant: a successor still starting does not count.
VisibleSuccessors(i) == {j \in Id : pred[j] = i /\ state[j] \in {"DRAFTING", "READY"}}

\* GetSuccessor: any row that names i as predecessor and is not STOPPED.
Successors(i) == {j \in Id : pred[j] = i /\ IsLive(j)}

Drafts(i) == {j \in Id : pred[j] = i /\ state[j] = "DRAFTING"}

\* Mutant: the orphan fallback promotes nothing.
NoPromotions(i) == {state}

\* The states a promotion may leave: one DRAFTING successor becomes READY.
Promotions(i) ==
    IF Drafts(i) = {} THEN {state}
                      ELSE {[state EXCEPT ![s] = "READY"] : s \in Drafts(i)}

\* Mutant: MarkReady ignores whether the mission already ended.
HeldBack(i) == IF pred[i] # NoId /\ IsLive(pred[i]) THEN "DRAFTING" ELSE "READY"

\* MarkReady holds a successor back while its parent still plays.
ReadyState(i) ==
    IF /\ pred[i] # NoId
       /\ IsLive(pred[i])
       /\ ~ended[pred[i]]
    THEN "DRAFTING" ELSE "READY"

\* Mutant: MarkReady without its WHERE state='STARTING'.
MarkReadyAlways(i) == [state EXCEPT ![i] = ReadyState(i)]

MarkReady(i) ==
    IF state[i] = "STARTING" THEN [state EXCEPT ![i] = ReadyState(i)] ELSE state

\* StopInstanceProcess: SIGTERM now, SIGKILL after the grace period.
Signalled(S) == [i \in Id |-> IF i \in S /\ proc[i] = "up" THEN "term" ELSE proc[i]]

\* One row inserted as STARTING and its process forked; a failed fork marks
\* the row STOPPED before the handler returns.
Spawn(k, parent, ok) ==
    /\ nextId \in Id
    /\ nextId' = nextId + 1
    /\ \E q \in NextPorts : port' = [port EXCEPT ![nextId] = q]
    /\ state' = [state EXCEPT ![nextId] = IF ok THEN "STARTING" ELSE "STOPPED"]
    /\ kind' = [kind EXCEPT ![nextId] = k]
    /\ pred' = [pred EXCEPT ![nextId] = parent]
    /\ proc' = [proc EXCEPT ![nextId] = IF ok THEN "up" ELSE "none"]

\* Mutant: an empty instance is left to the idle sweep.
NeverStopEmpty(i, r) == UNCHANGED <<state, reserved, proc>>

\* StopNonHomeInstanceIfEmpty, given the rosters r the handler has written.
StopIfEmpty(i, r) ==
    IF kind[i] # "home" /\ IsLive(i) /\ r[i] = {}
    THEN /\ state' = [state EXCEPT ![i] = "STOPPED"]
         /\ reserved' = [reserved EXCEPT ![i] = {}]
         /\ proc' = Signalled({i})
    ELSE UNCHANGED <<state, reserved, proc>>

-----------------------------------------------------------------------------
(* Players and the match queue.                                             *)

\* Removing each player of G from the first entry of f that names him: the
\* searches of RemovePlayer and RemoveReadyMatchReservation stop there, and
\* an unordered_map puts any entry first.
Scrubs(f, G) ==
    {[i \in Id |-> f[i] \ {p \in G : c[p] = i}] :
        c \in {d \in [G -> Id \cup {NoId}] :
                 \A p \in G : IF \E i \in Id : p \in f[i]
                              THEN d[p] # NoId /\ p \in f[d[p]]
                              ELSE d[p] = NoId}}

\* DeliverMatchCancelled for every member of G that still has a session.
Cancelled(G) ==
    /\ inQueue' = [p \in Player |-> IF p \in G \cap online THEN FALSE ELSE inQueue[p]]
    /\ invite' = [p \in Player |-> IF p \in G \cap online THEN NoId ELSE invite[p]]

JoinQueue(p) ==
    /\ p \in online \ queued
    /\ joins < MaxJoins
    /\ joins' = joins + 1
    /\ queued' = queued \cup {p}
    /\ inQueue' = [inQueue EXCEPT ![p] = TRUE]
    /\ UNCHANGED <<rowVars, state, ended, roster, proc, link, dllVars, exitArmed,
                   hasPend, pend, reserved, online, invite, ackInst, ackVia,
                   assigned, restarts>>

LeaveQueue(p) ==
    /\ p \in online
    /\ inQueue[p] \/ invite[p] # NoId
    /\ queued' = queued \ {p}
    /\ pend' \in Scrubs(pend, {p})
    /\ reserved' \in Scrubs(reserved, {p})
    /\ inQueue' = [inQueue EXCEPT ![p] = FALSE]
    /\ invite' = [invite EXCEPT ![p] = NoId]
    /\ UNCHANGED <<rowVars, state, ended, roster, proc, link, dllVars, exitArmed,
                   hasPend, online, ackInst, ackVia, assigned, counters>>

\* What a rule may pop: the rules themselves are abstracted to any group of
\* queued players within the instance cap.
Poppable(G) == G # {} /\ Cardinality(G) <= Cap

\* A pending match of a live instance with room for the whole group.
Coalesces(G, i) ==
    /\ i \in hasPend
    /\ IsLive(i)
    /\ Cardinality(pend[i]) + Cardinality(G) <= Cap

Coalesce(G, i) ==
    /\ Poppable(G) /\ Coalesces(G, i)
    /\ queued' = queued \ G
    /\ pend' = [pend EXCEPT ![i] = @ \cup G]
    /\ UNCHANGED <<rowVars, state, ended, roster, proc, link, dllVars, exitArmed,
                   hasPend, reserved, sessionVars, counters>>

\* GetReadyMissionInstances and GetReservedReadyInstances: a READY mission
\* that has not ended, with somebody in it or on the way.
Joinable(i) ==
    /\ kind[i] = "match" /\ state[i] = "READY" /\ ~ended[i]
    /\ roster[i] \cup reserved[i] # {}

PopExisting(G, i) ==
    /\ Poppable(G) /\ Joinable(i)
    /\ Cardinality(roster[i]) + Cardinality(reserved[i]) + Cardinality(G) <= Cap
    /\ queued' = queued \ G
    /\ reserved' = [reserved EXCEPT ![i] = @ \cup G]
    /\ invite' = [p \in Player |-> IF p \in G \cap online THEN i ELSE invite[p]]
    /\ UNCHANGED <<rowVars, state, ended, roster, proc, link, dllVars, exitArmed,
                   hasPend, pend, online, inQueue, ackInst, ackVia, assigned,
                   counters>>

\* The match-pop callback for a fresh instance.
PopSpawns(G) ==
    /\ Spawn("match", NoId, TRUE)
    /\ hasPend' = hasPend \cup {nextId}
    /\ pend' = [pend EXCEPT ![nextId] = G]
    /\ UNCHANGED <<reserved, inQueue, invite>>

\* Mutant: a failed fork cancels nothing.
PopForkForgets(G) ==
    /\ Spawn("match", NoId, FALSE)
    /\ UNCHANGED <<hasPend, pend, reserved, inQueue, invite>>

PopForkFails(G) ==
    /\ Spawn("match", NoId, FALSE)
    /\ Cancelled(G)
    /\ reserved' \in Scrubs(reserved, G \cap online)
    /\ UNCHANGED <<hasPend, pend>>

PopNoPort(G) ==
    /\ PoolExhausted
    /\ UNCHANGED <<rowVars, state, proc, hasPend, pend, reserved, inQueue, invite>>

PopFresh(G) ==
    /\ "match" \in Spawns
    /\ Poppable(G)
    /\ ~\E i \in Id : Coalesces(G, i)
    /\ queued' = queued \ G
    /\ PopSpawns(G) \/ PopForkFails(G) \/ PopNoPort(G)
    /\ UNCHANGED <<ended, roster, link, dllVars, exitArmed, online, ackInst,
                   ackVia, assigned, counters>>

-----------------------------------------------------------------------------
(* The other spawners.                                                      *)

\* Mutant: only a READY home counts, as in GetReadyHomeInstance.
ReadyHomeExists == \E i \in Id : kind[i] = "home" /\ state[i] = "READY"

HomeExists == \E i \in Id : kind[i] = "home" /\ IsLive(i)

ZoneExists == \E i \in Id : kind[i] = "zone" /\ state[i] \in {"STARTING", "READY"}

SpawnShared(k) ==
    /\ k \in Spawns
    /\ \E ok \in BOOLEAN : Spawn(k, NoId, ok)
    /\ UNCHANGED <<ended, roster, link, dllVars, exitArmed, matchVars,
                   sessionVars, counters>>

SpawnHome == ~HomeExists /\ SpawnShared("home")
SpawnZone == ~ZoneExists /\ SpawnShared("zone")

\* REQUEST_SUCCESSOR: ignored while a successor lives, without a continuing
\* queue, or without a port.  The handler does not count on one request only.
RequestSuccessor(i) ==
    /\ kind[i] = "match" /\ link[i] = "hello" /\ "READY" \in sent[i]
    /\ Successors(i) = {} /\ Continue
    /\ \E ok \in BOOLEAN : Spawn("match", i, ok)
    /\ UNCHANGED <<ended, roster, link, dllVars, exitArmed, matchVars,
                   sessionVars, counters>>

-----------------------------------------------------------------------------
(* IPC sessions and the process behind them.                                *)

\* IpcThread connects, and after a drop connects again, while it runs.
Connect(i) ==
    /\ proc[i] \in {"up", "term"} /\ link[i] = "none"
    /\ link' = [link EXCEPT ![i] = "open"]
    /\ UNCHANGED <<rowVars, state, ended, roster, proc, dllVars, exitArmed,
                   matchVars, sessionVars, counters>>

\* INSTANCE_HELLO is accepted whatever the row says.
Hello(i) ==
    /\ link[i] = "open"
    /\ link' = [link EXCEPT ![i] = "hello"]
    /\ UNCHANGED <<rowVars, state, ended, roster, proc, dllVars, exitArmed,
                   matchVars, sessionVars, counters>>

\* Mutant: the pending match is read and not consumed.
ReadyKeepsMatch(i) ==
    /\ link[i] # "none" /\ "READY" \notin sent[i]
    /\ sent' = [sent EXCEPT ![i] = @ \cup {"READY"}]
    /\ state' = MarkReady(i)
    /\ reserved' = [reserved EXCEPT ![i] = @ \cup pend[i]]
    /\ invite' = [p \in Player |-> IF p \in pend[i] \cap online THEN i ELSE invite[p]]
    /\ UNCHANGED <<rowVars, ended, roster, proc, link, ingame, emptyDue, regs,
                   exitArmed, queued, hasPend, pend, online, inQueue, ackInst,
                   ackVia, assigned, counters>>

\* INSTANCE_READY: the row becomes READY or DRAFTING, and the players of the
\* pending match are reserved a seat and invited.  A READY queued before the
\* connection was up is read before HELLO.
Ready(i) ==
    /\ link[i] # "none" /\ "READY" \notin sent[i]
    /\ sent' = [sent EXCEPT ![i] = @ \cup {"READY"}]
    /\ state' = MarkReady(i)
    /\ hasPend' = hasPend \ {i}
    /\ pend' = [pend EXCEPT ![i] = {}]
    /\ reserved' = [reserved EXCEPT ![i] = @ \cup pend[i]]
    /\ invite' = [p \in Player |-> IF p \in pend[i] \cap online THEN i ELSE invite[p]]
    /\ UNCHANGED <<rowVars, ended, roster, proc, link, ingame, emptyDue, regs,
                   exitArmed, queued, online, inQueue, ackInst, ackVia, assigned,
                   counters>>

\* Mutant: the disconnect handler forgets the pending match.
OnDisconnectKeepsMatch(i) ==
    /\ \E st \in Promotions(i) : state' = [st EXCEPT ![i] = "STOPPED"]
    /\ reserved' = [reserved EXCEPT ![i] = {}]
    /\ roster' = [roster EXCEPT ![i] = {}]
    /\ UNCHANGED <<hasPend, pend, inQueue, invite>>

\* Mutant: stopping the row leaves its seat reservations behind.
OnDisconnectKeepsSeats(i) ==
    /\ \E st \in Promotions(i) : state' = [st EXCEPT ![i] = "STOPPED"]
    /\ Cancelled(pend[i])
    /\ reserved' \in Scrubs(reserved, pend[i] \cap online)
    /\ hasPend' = hasPend \ {i}
    /\ pend' = [pend EXCEPT ![i] = {}]
    /\ roster' = [roster EXCEPT ![i] = {}]

\* on_disconnect of a session that said HELLO: promote the orphaned
\* successor, cancel the match that never became ready, stop the row.
OnDisconnect(i) ==
    /\ \E st \in Promotions(i) : state' = [st EXCEPT ![i] = "STOPPED"]
    /\ Cancelled(pend[i])
    /\ \E r \in Scrubs(reserved, pend[i] \cap online) :
          reserved' = [r EXCEPT ![i] = {}]
    /\ hasPend' = hasPend \ {i}
    /\ pend' = [pend EXCEPT ![i] = {}]
    /\ roster' = [roster EXCEPT ![i] = {}]

\* What a process that is gone will never send.
Forgotten(i) ==
    /\ sent' = [sent EXCEPT ![i] = OneShot]
    /\ ingame' = [ingame EXCEPT ![i] = {}]
    /\ emptyDue' = emptyDue \ {i}
    /\ regs' = {r \in regs : r[2] # i}

\* What a drop of the connection may lose: do_write takes a message off the
\* queue before it is written.
Lost(i) ==
    /\ \E m \in IF "READY" \in sent[i] THEN {"READY", "ENDED"} ELSE {"READY"} :
          sent' \in {sent, [sent EXCEPT ![i] = @ \cup {m}]}
    /\ \E G \in SUBSET ingame[i] : ingame' = [ingame EXCEPT ![i] = @ \ G]
    /\ emptyDue' \in {emptyDue, emptyDue \ {i}}
    /\ regs' \in {regs, {r \in regs : r[2] # i}}

LinkDown(i) ==
    /\ link[i] # "none"
    /\ proc[i] = "gone" \/ "drop" \in Faults
    /\ link' = [link EXCEPT ![i] = "none"]
    /\ IF link[i] = "hello"
       THEN OnDisconnect(i)
       ELSE UNCHANGED <<state, roster, hasPend, pend, reserved, inQueue, invite>>
    /\ IF proc[i] = "gone" THEN Forgotten(i) ELSE Lost(i)
    /\ UNCHANGED <<rowVars, ended, proc, exitArmed, queued, online, ackInst,
                   ackVia, assigned, counters>>

\* A crash, an exit, or the SIGTERM and SIGKILL of StopInstanceProcess.
Die(i) ==
    /\ proc[i] = "term" \/ (proc[i] = "up" /\ "crash" \in Faults)
    /\ "early" \in Faults \/ link[i] = "hello"
    /\ proc' = [proc EXCEPT ![i] = "gone"]
    /\ UNCHANGED <<rowVars, state, ended, roster, link, dllVars, exitArmed,
                   matchVars, sessionVars, counters>>

-----------------------------------------------------------------------------
(* Registration of a player with an instance, and leaving it.               *)

\* MATCH_ACCEPT: the session registers with the instance it was invited to
\* if that is READY and has an IPC session, and forgets the invitation if not.
Accept(p) ==
    LET i == invite[p] IN
    /\ p \in online /\ i # NoId
    /\ IF state[i] = "READY" /\ link[i] = "hello"
       THEN /\ regs' = regs \cup {<<p, i>>}
            /\ ackInst' = [ackInst EXCEPT ![p] = i]
            /\ ackVia' = [ackVia EXCEPT ![p] = "accept"]
            /\ UNCHANGED <<reserved, invite>>
       ELSE /\ reserved' = [reserved EXCEPT ![i] = @ \ {p}]
            /\ invite' = [invite EXCEPT ![p] = NoId]
            /\ UNCHANGED <<regs, ackInst, ackVia>>
    /\ UNCHANGED <<rowVars, state, ended, roster, proc, link, sent, ingame,
                   emptyDue, exitArmed, queued, hasPend, pend, online, inQueue,
                   assigned, counters>>

\* The callback of a successful PLAYER_REGISTER_ACK, for instance t.
Registered(p, t) ==
    /\ roster' = [roster EXCEPT ![t] = @ \cup {p}]
    /\ ingame' = IF state[t] = "READY" THEN [ingame EXCEPT ![t] = @ \cup {p}] ELSE ingame
    /\ assigned' = [assigned EXCEPT ![p] =
                      IF ackVia[p] = "target" /\ state[t] # "READY" THEN NoId ELSE t]
    /\ inQueue' = [inQueue EXCEPT ![p] =
                      IF ackVia[p] = "accept" /\ state[t] = "READY" THEN FALSE ELSE @]

Refused(p) ==
    /\ assigned' = [assigned EXCEPT ![p] = IF ackVia[p] = "target" THEN NoId ELSE @]
    /\ UNCHANGED <<roster, ingame, inQueue>>

\* Every end of a MATCH_ACCEPT registration drops reservation and invitation.
SettleAccept(p, t) ==
    IF ackVia[p] = "accept"
    THEN /\ reserved' = IF t = NoId THEN reserved ELSE [reserved EXCEPT ![t] = @ \ {p}]
         /\ invite' = [invite EXCEPT ![p] = NoId]
    ELSE UNCHANGED <<reserved, invite>>

\* PLAYER_REGISTER_ACK from instance i.  pending_acks_ is keyed by the session
\* guid alone, so it runs the callback that is there, whatever that is for.
RegisterAck(i, p, ok) ==
    LET t == ackInst[p] IN
    /\ <<p, i>> \in regs /\ link[i] = "hello"
    /\ regs' = regs \ {<<p, i>>}
    /\ ackInst' = [ackInst EXCEPT ![p] = NoId]
    /\ IF t = NoId
       THEN UNCHANGED <<roster, ingame, assigned, inQueue, reserved, invite>>
       ELSE /\ SettleAccept(p, t)
            /\ IF ok THEN Registered(p, t) ELSE Refused(p)
    /\ UNCHANGED <<rowVars, state, ended, proc, link, sent, emptyDue, exitArmed,
                   queued, hasPend, pend, online, ackVia, counters>>

\* The 60 s timer of a registration.
AckTimeout(p) ==
    /\ "timeout" \in Faults
    /\ ackInst[p] # NoId
    /\ ackInst' = [ackInst EXCEPT ![p] = NoId]
    /\ SettleAccept(p, invite[p])
    /\ UNCHANGED <<rowVars, state, ended, roster, proc, link, dllVars, exitArmed,
                   queued, hasPend, pend, online, inQueue, ackVia, assigned,
                   counters>>

\* PLAYER_LEFT, sent when the instance cleans up a player's connection; the
\* last one is followed by INSTANCE_EMPTY.
PlayerLeft(i, p) ==
    /\ link[i] = "hello" /\ p \in ingame[i]
    /\ ingame' = [ingame EXCEPT ![i] = @ \ {p}]
    /\ emptyDue' = IF ingame[i] = {p} THEN emptyDue \cup {i} ELSE emptyDue
    /\ roster' = [roster EXCEPT ![i] = @ \ {p}]
    /\ StopIfEmpty(i, roster')
    /\ UNCHANGED <<rowVars, ended, link, sent, regs, exitArmed, queued, hasPend,
                   pend, sessionVars, counters>>

InstanceEmpty(i) ==
    /\ link[i] = "hello" /\ i \in emptyDue
    /\ emptyDue' = emptyDue \ {i}
    /\ StopIfEmpty(i, roster)
    /\ UNCHANGED <<rowVars, ended, roster, link, sent, ingame, regs, exitArmed,
                   queued, hasPend, pend, sessionVars, counters>>

-----------------------------------------------------------------------------
(* The end of a mission.                                                    *)

\* MISSION_ENDED: stamp the row, promote its successor, arm the 30 s timer.
MissionEnded(i) ==
    /\ kind[i] = "match" /\ link[i] = "hello"
    /\ "READY" \in sent[i] /\ "ENDED" \notin sent[i]
    /\ sent' = [sent EXCEPT ![i] = @ \cup {"ENDED"}]
    /\ ended' = [ended EXCEPT ![i] = TRUE]
    /\ state' \in Promotions(i)
    /\ exitArmed' = exitArmed \cup {i}
    /\ UNCHANGED <<rowVars, roster, proc, link, ingame, emptyDue, regs, matchVars,
                   sessionVars, counters>>

\* Where route_from_mission_instance registers the players of instance i: its
\* READY successor once the mission has ended, NoId for the home map.
RouteTargets(i) ==
    IF ended[i] /\ Continue /\ Successors(i) # {}
    THEN {IF state[s] = "READY" /\ link[s] = "hello" THEN s ELSE NoId : s \in Successors(i)}
    ELSE {NoId}

\* The session side of routing the players G out of a mission to s.
RouteOut(G, s) ==
    /\ assigned' = [p \in Player |-> IF p \in G THEN NoId ELSE assigned[p]]
    /\ invite' = [p \in Player |-> IF p \in G THEN NoId ELSE invite[p]]
    /\ ackInst' = [p \in Player |-> IF p \in G THEN s ELSE ackInst[p]]
    /\ ackVia' = [p \in Player |-> IF p \in G /\ s # NoId THEN "target" ELSE ackVia[p]]
    /\ regs' = IF s = NoId THEN regs ELSE regs \cup (G \X {s})

\* GSC_CHANGE_INSTANCE{0,0} of a player who is in a mission, or nowhere.
ExitMission(p) ==
    LET i == assigned[p] IN
    /\ p \in online
    /\ IF i = NoId
       THEN RouteOut({p}, NoId) /\ UNCHANGED roster
       ELSE /\ roster' = [roster EXCEPT ![i] = @ \ {p}]
            /\ \E s \in RouteTargets(i) : RouteOut({p}, s)
    /\ UNCHANGED <<rowVars, state, ended, proc, link, sent, ingame, emptyDue,
                   exitArmed, matchVars, online, inQueue, counters>>

\* PLAYER_LEAVE_GAME, and GSC_CHANGE_INSTANCE of a player at home: assignment
\* and invitation are forgotten, a registration under way is not.
LeaveGame(p) ==
    /\ p \in online
    /\ assigned' = [assigned EXCEPT ![p] = NoId]
    /\ invite' = [invite EXCEPT ![p] = NoId]
    /\ UNCHANGED <<rowVars, state, ended, roster, proc, link, dllVars, exitArmed,
                   matchVars, online, inQueue, ackInst, ackVia, counters>>

\* The force-exit timer: everybody still on the roster is marked left, those
\* whose session is still assigned here are routed on, and the instance stops.
ForceExit(i) ==
    /\ i \in exitArmed
    /\ exitArmed' = exitArmed \ {i}
    /\ IF IsLive(i) /\ ended[i] /\ kind[i] # "home"
       THEN /\ \E s \in RouteTargets(i) :
                  RouteOut({p \in roster[i] \cap online : assigned[p] = i}, s)
            /\ roster' = [roster EXCEPT ![i] = {}]
            /\ StopIfEmpty(i, roster')
       ELSE UNCHANGED <<assigned, invite, ackInst, ackVia, regs, roster, state,
                        reserved, proc>>
    /\ UNCHANGED <<rowVars, ended, link, sent, ingame, emptyDue, queued, hasPend,
                   pend, online, inQueue, counters>>

-----------------------------------------------------------------------------
(* Disconnects, the operator, the sweep and ControlServer's own restart.    *)

\* handle_socket_disconnect: PLAYER_CLOSE to the instance, or the row marked
\* left when there is no IPC session to send it on.
Disconnect(p) ==
    LET i == assigned[p] IN
    /\ "disconnect" \in Faults
    /\ p \in online
    /\ online' = online \ {p}
    /\ roster' = IF i # NoId /\ link[i] # "hello"
                 THEN [roster EXCEPT ![i] = @ \ {p}] ELSE roster
    /\ queued' = queued \ {p}
    /\ pend' \in Scrubs(pend, {p})
    /\ reserved' \in Scrubs(reserved, {p})
    /\ inQueue' = [inQueue EXCEPT ![p] = FALSE]
    /\ invite' = [invite EXCEPT ![p] = NoId]
    /\ ackInst' = [ackInst EXCEPT ![p] = NoId]
    /\ assigned' = [assigned EXCEPT ![p] = NoId]
    /\ UNCHANGED <<rowVars, state, ended, proc, link, dllVars, exitArmed, hasPend,
                   ackVia, counters>>

\* The dashboard's stop-instance.
AdminStop(i) ==
    /\ "admin" \in Faults
    /\ IsLive(i)
    /\ "early" \in Faults \/ link[i] = "hello"
    /\ proc' = Signalled({i})
    /\ state' = [state EXCEPT ![i] = "STOPPED"]
    /\ roster' = [roster EXCEPT ![i] = {}]
    /\ reserved' = [reserved EXCEPT ![i] = {}]
    /\ UNCHANGED <<rowVars, ended, link, dllVars, exitArmed, queued, hasPend, pend,
                   sessionVars, counters>>

MissionUp == \E i \in Id : kind[i] # "home" /\ state[i] \in {"STARTING", "READY"}

\* GetIdleInstances, but for the five minutes: READY, empty, and not a home
\* that a mission keeps warm.
IdleCandidates ==
    {i \in Id : /\ state[i] = "READY" /\ roster[i] = {}
                /\ kind[i] = "home" => ~MissionUp}

\* The 60 s sweep: S, the candidates empty for five minutes, are stopped, and
\* every roster row whose session is gone is marked left.
IdleSweep(S) ==
    /\ S \subseteq IdleCandidates
    /\ proc' = Signalled(S)
    /\ state' = [i \in Id |-> IF i \in S THEN "STOPPED" ELSE state[i]]
    /\ reserved' = [i \in Id |-> IF i \in S THEN {} ELSE reserved[i]]
    /\ roster' = [i \in Id |-> roster[i] \cap online]
    /\ UNCHANGED <<rowVars, ended, link, dllVars, exitArmed, queued, hasPend, pend,
                   sessionVars, counters>>

\* ControlServer stops and starts again.  A clean stop signals every running
\* instance; a crash leaves the processes alone.  ClearStaleInstances then
\* stops every row.  All sessions, queues and timers are lost.
Restart(clean) ==
    /\ restarts < MaxRestarts
    /\ restarts' = restarts + 1
    /\ proc' = IF clean THEN Signalled({i \in Id : IsLive(i)}) ELSE proc
    /\ roster' = [i \in Id |-> IF clean /\ IsLive(i) THEN {} ELSE roster[i]]
    /\ state' = [i \in Id |-> IF IsLive(i) THEN "STOPPED" ELSE state[i]]
    /\ link' = [i \in Id |-> "none"]
    /\ queued' = {} /\ hasPend' = {}
    /\ pend' = [i \in Id |-> {}]
    /\ reserved' = [i \in Id |-> {}]
    /\ online' = {}
    /\ inQueue' = [p \in Player |-> FALSE]
    /\ invite' = [p \in Player |-> NoId]
    /\ ackInst' = [p \in Player |-> NoId]
    /\ assigned' = [p \in Player |-> NoId]
    /\ exitArmed' = {}
    /\ UNCHANGED <<rowVars, ended, dllVars, ackVia, joins>>

-----------------------------------------------------------------------------
Next ==
    \/ \E p \in Player : \/ JoinQueue(p) \/ LeaveQueue(p) \/ Accept(p)
                         \/ AckTimeout(p) \/ ExitMission(p) \/ LeaveGame(p)
                         \/ Disconnect(p)
    \/ \E G \in SUBSET queued : \/ PopFresh(G)
                                \/ \E i \in Id : Coalesce(G, i) \/ PopExisting(G, i)
    \/ SpawnHome
    \/ SpawnZone
    \/ \E i \in Id : \/ RequestSuccessor(i) \/ Connect(i) \/ Hello(i) \/ Ready(i)
                     \/ LinkDown(i) \/ Die(i) \/ InstanceEmpty(i) \/ MissionEnded(i)
                     \/ ForceExit(i) \/ AdminStop(i)
    \/ \E i \in Id, p \in Player : \/ PlayerLeft(i, p)
                                   \/ \E ok \in BOOLEAN : RegisterAck(i, p, ok)
    \/ \E S \in SUBSET IdleCandidates : IdleSweep(S)
    \/ \E clean \in BOOLEAN : Restart(clean)

Spec == Init /\ [][Next]_vars

\* The sweep finds i empty for five minutes, sooner or later.
SweepTakes(i) == \E S \in SUBSET IdleCandidates : i \in S /\ IdleSweep(S)

\* Fairness: a running DLL connects, says HELLO and finishes loading its map;
\* a mission somebody plays ends (its timer runs out); a signalled process is
\* killed; asio delivers the end of a socket and an expired timer, the sweep's
\* included.  Players and operators owe nothing.
FairSpec ==
    /\ Spec
    /\ WF_vars(IdleSweep({}))
    /\ \A i \in Id : /\ WF_vars(Connect(i)) /\ WF_vars(Hello(i)) /\ WF_vars(Ready(i))
                     /\ WF_vars(ingame[i] # {} /\ MissionEnded(i))
                     /\ WF_vars(ForceExit(i)) /\ WF_vars(SweepTakes(i))
                     /\ WF_vars(proc[i] = "gone" /\ LinkDown(i))
                     /\ WF_vars(proc[i] = "term" /\ Die(i))
-----------------------------------------------------------------------------
(* Properties.                                                              *)

\* Two instances that are not STOPPED never share a UDP port: AllocatePort
\* and the inserts that follow it never hand one port out twice.
PortsUnique ==
    \A i, j \in Id : IsLive(i) /\ IsLive(j) /\ i # j => port[i] # port[j]

\* There is at most one home instance and one instance of an open zone,
\* however many logins, travels and spawns race (SetHomeMapSpawner,
\* OpenWorldTravel::Request).
OneSharedMap ==
    \A i, j \in Id :
        IsLive(i) /\ IsLive(j) /\ kind[i] = kind[j] /\ kind[i] # "match" => i = j

\* A mission has at most one successor that is not STOPPED, which is what
\* lets GetSuccessor and both promotions look at one row only.
OneSuccessor ==
    \A i, j \in Id :
        IsLive(i) /\ IsLive(j) /\ pred[i] = pred[j] /\ pred[i] # NoId => i = j

\* A successor in DRAFTING still has somebody to promote it: its parent has
\* not ended and has an identified IPC session, whose MISSION_ENDED or end
\* will (MarkMissionEnded, PromoteSuccessor).
DraftsWatched ==
    \A i \in Id : state[i] = "DRAFTING" =>
        pred[i] # NoId /\ link[pred[i]] = "hello" /\ ~ended[pred[i]]

\* A mission that has ended and still runs has its force-exit timer armed, so
\* firing it always gets the instance stopped.
EndedIsTimed == \A i \in Id : ended[i] /\ IsLive(i) => i \in exitArmed

\* A match waiting for its instance has a process that can still report
\* READY, or an identified session whose end cancels the match.
PendingRescued ==
    \A i \in hasPend : /\ "READY" \notin sent[i]
                       /\ proc[i] \in {"up", "term"} \/ link[i] = "hello"

\* Seats are reserved only in a READY instance, or in one whose session is
\* still there to drop them when it ends (DropReadyMatchReservations).
ReservationsBacked ==
    \A i \in Id : reserved[i] # {} => state[i] = "READY" \/ link[i] = "hello"

Rank == [NONE |-> 0, STARTING |-> 1, DRAFTING |-> 2, READY |-> 3, STOPPED |-> 4]

\* A row only moves forward: nothing revives a STOPPED instance and nothing
\* takes a READY one back, whatever message arrives late.
RowsMoveForward == [][\A i \in Id : Rank[state[i]] <= Rank[state'[i]]]_vars

\* A player the queue gives up is in a pending match, invited, or told that
\* the match is off.
PoppedNotLost ==
    [][\A p \in queued \ queued' : p \in online' =>
          (\E i \in Id : p \in pend'[i]) \/ invite'[p] # NoId \/ ~inQueue'[p]]_vars

\* No player waits in a pending match for ever: the instance becomes READY and
\* he is invited, or its end cancels the match (INSTANCE_READY, on_disconnect).
MatchResolves ==
    \A i \in Id, p \in Player : (p \in pend[i]) ~> (p \notin pend[i])

\* No successor waits in DRAFTING forever.
DraftResolves == \A i \in Id : (state[i] = "DRAFTING") ~> (state[i] # "DRAFTING")

\* Every mission that ends is stopped in the end.
EndedStops == \A i \in Id : ended[i] ~> (state[i] = "STOPPED")

-----------------------------------------------------------------------------
(* The rows implement InstanceClaims.                                       *)

\* The claims a row stands for while it is not STOPPED.
Held(i) ==
    IF IsLive(i)
    THEN {<<"port", port[i]>>}
         \cup (IF kind[i] # "match" THEN {<<"map", kind[i]>>} ELSE {})
         \cup (IF pred[i] # NoId THEN {<<"heir", pred[i]>>} ELSE {})
    ELSE {}

Claims == INSTANCE InstanceClaims
    WITH phase <- state, held <- [i \in Id |-> Held(i)], over <- {i \in Id : ended[i]}

\* Whatever ControlServer, its instances, players and operators do, and however
\* their messages interleave, the rows behave as InstanceClaims says: nothing is
\* claimed twice, rows only move on, and a successor opens when, and only when,
\* the mission before it is over or down.
RowsKeepPromise == Claims!Spec
=============================================================================
