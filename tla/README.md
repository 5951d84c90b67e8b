# Verification of the Commonwealth Global Agenda server

This directory holds TLA+ models of the server in `src/`, the TLC
configurations that check them on small instances, and TLAPS proofs of the
invariants that matter most for instances of every size. `PROJECT.json` maps each
definition to the source lines it stands for.

Paths below are relative to `src/src/`.

## 1. The system

**ControlServer** is one Linux (or Windows) process. It speaks the game's TCP
protocol with the clients (`TcpSession`), forms teams (`TeamService`) and matches
(`MatchmakingService`), starts and stops game instances (`InstanceSpawner`), keeps
their rows in SQLite (`InstanceRegistry`) and talks to them over a local TCP
connection with framed JSON (`IpcServer`). Every packet, IPC message and timer is
handled on one asio thread, so a handler runs to completion before the next one
starts. The only other threads are the detached ones that send SIGKILL after a
grace period.

**A game instance** is a separate process: a closed engine with a DLL of hooks
(`GameServer/`, `IpcClient/`). It loads a map, connects, reports what happens in
the mission and may die at any time. `SIGCHLD` is ignored, so ControlServer
learns of a death only from the end of the IPC connection.

### Inventory

| Component | State | Operations | Talks to | What is hard | What makes it correct |
|---|---|---|---|---|---|
| TeamService | open invitations, teams, leaders | invite, accept, decline, leave, promote, kick, expire, disconnect | TcpSession, MatchmakingService | answers that arrive after the situation changed; crossing invitations | teams disjoint and led; invitations between people online; joining by consent |
| MatchmakingService | queued parties, delayed-pop timer, fairness records, pending matches, seat reservations | add, remove, pop, coalesce, drop in, reload, track and drop reservations | rules, InstanceRegistry, TcpSession, spawn callback | a party in two queues; one step of the pop failing; coalescing with a dying instance | a popped player is never lost; the delayed pop is never lost; parties are popped whole, no match overfilled; a seat is reserved only where it can be taken |
| InstanceRegistry | `ga_instances`, `ga_instance_players` | insert, ready, ended, promote, stop, allocate port, join, leave, recover | everybody | rows that outlive or predecease their process | unique ports, one home, one successor, states only move forward |
| InstanceSpawner | processes | fork, SIGTERM, SIGKILL | main | failed forks, grace period | every spawn is unwound or registered |
| IpcServer | sessions by instance, pending ACK callbacks, force-exit timers | HELLO, READY, REGISTER_ACK, PLAYER_LEFT, EMPTY, MISSION_ENDED, REQUEST_SUCCESSOR, disconnect | DLL, all of the above | crash before or after each message, reconnects, lost messages, late ACKs | pending matches resolve, drafts are promoted, ended missions stop |
| TcpSession | session fields, ACK timer | login, queue join/leave, accept, change instance, leave, disconnect | all of the above | handlers that each clear part of the fields | sessions, reservations and rosters agree |
| OpenWorldTravel | none of its own | find or spawn the shared zone | InstanceRegistry, TcpSession | two travellers at once | one instance of a zone |
| IpcClient (DLL) | outbound queue, connection | connect, reconnect, write | IpcServer | a message is taken off the queue before it is written | (assumed lossy) |
| PlayerRegistry, connections, cleanup (DLL) | registry entries with token and generation, connections | register, HELLO, JOIN, leave, close, reap, clean up | IpcServer, client | ACKs matched by guid; timers that overlap; a late cleanup hitting a newer registration | a client is only sent where it is registered; nobody waits without a timer; no ghost rows |
| Match rules and balancing | none | pure functions of parties, instances, configuration and fairness records | MatchmakingService | parties stay whole, seat limits, ties, odd classes | sides equal where the queue says so, everybody's turn comes |
| Agencies, alliances, friends | tables | invite, accept, kick, rank, disband | TcpSession, Database | several rows per operation | planned |
| Database, PlayerSessionStore, chat, MMR, overlay, login, loadouts, quests, engine hooks | tables, caches | look-ups, storage, display | | mostly I/O | not modelled |

`PROJECT.json` lists all components with the reason for what is left out, and under
`hazards` what is hard to test, at the line where it bites.

## 2. Modules

| Module | Models |
|---|---|
| `TeamService` | teams, invitations, the queue entry of a team, the queue fields of a session |
| `TeamServiceProofs` | theorems about it |
| `TeamQueueProofs` | a theorem about its queue entries when there is one queue |
| `InstanceLifecycle` | rows, processes, IPC sessions, pending matches, reservations, registration, mission end, sweep, restart |
| `InstanceClaims` | what the registry promises: claims on ports, shared maps and successions, and when a successor opens |
| `InstanceLifecycleProofs` | theorems about the rows, processes and sessions of `InstanceLifecycle` |
| `InstanceMatchProofs` | theorems about its pending matches, reservations and popped players |
| `InstanceClaimsProofs` | the proof that `InstanceLifecycle` implements `InstanceClaims` |
| `PlayerRegistration` | one session's registrations with home and missions: ACKs, timers, polls, IPC messages, registry entries, connections |
| `PlayerRegistrationProofs` | theorems about it |
| `MatchRules` | the rules and balancing algorithms, as operators |
| `MatchQueue` | one queue: parties, delayed pop, TryPop, matches it fills, fairness records, reload |
| `MatchRulesProofs` | what a rule may return: folds, sorts, sides, backfill plans, defenders, the three rules |
| `MatchQueueProofs` | theorems about the queue, which rest on it |
| `MCTeamService`, `MCInstanceLifecycle`, `MCPlayerRegistration`, `MCMatchQueue` | constants and symmetry for TLC |

Each concern has one module that models it in full, and the others see it coarsely. `TeamService` looks at *who* is queued
together and reduces what follows a pop to "forming", "ready" and "dead".
`InstanceLifecycle` looks at *where* the popped players go and reduces a party to
single players. `MatchQueue` looks at *which* parties are popped, when and onto which
side, and reduces an instance to pending, ready and over. `PlayerRegistration` follows
one popped player into the instance and reduces the instance to its row, its IPC link
and its connections.

### TeamService

`invites` is `invites_` (a set ordered by id), `members`/`leader` are the fields of
`Team`, `mm` holds the parties of each queue, the queue each session's HUD shows
(`current_match_queue_id_`), the players whose match is starting (`forming`) and the
invited ones. A session guid is used for one login: `status` goes from new to
online to gone.

One action per handler: `RequestInvite`, `AcceptInvite`, `HandleLeave` (TEAM_LEAVE is
both "decline" and "leave"), `PromoteLeader`, `KickMember`, `ExpireInvite`, `Login`,
`MatchJoinTeam`, `MatchJoinSolo`, `MatchLeave`, `MatchAccept`, `PlayerLogoff`,
`PlayerLeaveGame`, `SocketDisconnect`, and from outside `QueuePops`, `InstanceReady`,
`InstanceDies`. The helpers carry what a handler does on the way
(`DequeueForCompositionChange`, `LeaveCurrentTeam`, `CancelInvitesFor`,
`RemovePlayer`, `OnQueueChanged`). `queues_` is an `unordered_map`; where a scan stops
at the first queue that holds a party, the model chooses any.

Abstracted: match rules (any queued parties may be popped, and a pop may fail),
names and messages, the difficulty override, the colliding 31-bit hash in
`SoloPartyId`.

### InstanceLifecycle

| Variable | Code |
|---|---|
| `nextId state kind port pred ended` | columns of `ga_instances` |
| `roster` | `ga_instance_players` with `left_at IS NULL` |
| `proc` | the process: up, signalled, gone |
| `link` | its IPC session: none, open, identified by HELLO |
| `sent ingame emptyDue regs` | what the DLL has sent, who is connected to it, and what is on its way |
| `exitArmed` | force-exit timers |
| `queued hasPend pend reserved` | the queue, `pending_matches_`, `ready_match_reservations_` |
| `online inQueue invite ackInst ackVia assigned` | `TcpSession` and `pending_acks_` |

Actions: the queue (`JoinQueue`, `LeaveQueue`, `Coalesce`, `PopExisting`, `PopFresh`
with its three outcomes spawned, fork failed, no port), the other spawners
(`SpawnHome`, `SpawnZone`, `RequestSuccessor`), IPC (`Connect`, `Hello`, `Ready`,
`LinkDown`), `Die`, registration (`Accept`, `RegisterAck`, `AckTimeout`), leaving
(`PlayerLeft`, `InstanceEmpty`, `ExitMission`, `LeaveGame`, `Disconnect`), the end of a
mission (`MissionEnded`, `ForceExit`), and `AdminStop`, `IdleSweep`, `Restart`.

Faults are chosen by the constant `Faults`: *crash* (a process dies), *early* (it may
also die or be stopped before HELLO), *drop* (an IPC connection ends while the process
lives and reconnects; messages already taken off the queue may be lost), *admin*,
*disconnect*, *timeout*. `MaxRestarts` lets ControlServer stop cleanly or crash and
start again.

Abstracted:

- the match rules are "any group of queued players within the cap"; instances are OPEN
  and there is one queue; seat limits other than the cap, task forces and
  pre-assigned teams are left out;
- going home is `NoId`: the home instance exists as a row, players are not
  registered with it; open zones get no players either;
- the five minutes of the sweep become "any subset of the empty instances"; the other
  timers fire at any time after they were armed;
- a session has one registration timer, and tokens and generations are left out:
  both are in `PlayerRegistration`;
- one IPC session per instance; an old session that ends after the new one said HELLO
  is likewise listed without a property.

`InstanceClaims` is its abstract specification: instances hold *claims* (a port, the home
map or a zone, the succession of a mission), nothing is claimed twice, and an instance
that follows another opens exactly when the one before is over or down. The refinement
mapping reads it off the rows: `phase` is `state`, `held` is computed by `Held` from `port`,
`kind` and `pred` of a row that is not STOPPED, `over` is `end_mission_at`. Everything
else, processes, links, messages, players, is hidden. The property `RowsKeepPromise` says
that every behaviour of `InstanceLifecycle` is one of `InstanceClaims`.

### PlayerRegistration

A login gets a new guid, and every map involved is keyed by guid; one session is
therefore the whole story of a key. Session fields (`assigned`, `token`, `invited`,
`spectating`), `pending_acks_` (`ack`), `pending_ack_timer_` and the waits that are still
running (`ackTimer`, `timers`), the sleeping loops of `wait_for_home_map_then_register`
(`polls`), the two FIFO directions of each IPC link (`toDll`, `toControl`), the entry in
the instance's `PlayerRegistry` with its generation, its connections
(`GClientConnectionsData`), and of the client only where it was told to go and which
connection it keeps alive (`dest`, `at`). Registrations are numbered, and the number
stands for the register token.

Actions: registering (`SelectCharacter`, `HomePoll`, `MatchAccept`, `Spectate`, and from
`ChangeInstance` and `Unspectate`), the ends of a registration (`RegisterAck`,
`AckTimeout`), leaving (`LeaveGame`, `SocketDisconnect`, `GhostSweep`, `PlayerLeft`), the DLL
(`DllRegister`, `DllLeave`, `DllClose`, `Hello`, `Join`, `Quiet`, `Reap`), the instance
(`HomeReady`, `Stop`, `Down`).

Abstracted: what a registration carries (character, skills, task force); the details of
the home poll (two-second steps, up to 120 s) become "wakes up at any time"; the choice of a
successor to move on to is any READY mission.

### MatchRules and MatchQueue

`MatchRules` holds the pure part: `PackParties`, `StrictBalance` (`SelectClassEqualSubset`,
`PlanDeficitBackfill`, `PlanPairJoin`), `SidePlacement` (`Assign` with its whole and
individual passes), `DefenderRotation` (`Defenders`), and the three rules `CoopRule`,
`AgentRule`, `VersusRule`. Its loops are folds and `std::stable_sort` is an insertion sort of
positions: both can be checked and proved about. `MatchQueue` evaluates them on the parties and instances its own
steps lead to. `TryPop` is a loop that takes one match at a time and starts again; the
variable `pop` holds it open, and no other handler runs until it is through. The four ends
of one round are `PopNothing`, `PopLater` (the delay gate), and `PopDropIn`, `PopCoalesce`,
`PopFresh`.

Nothing in MATCH_JOIN, `AddParty` or the rules asks whether a player is in a match already, and
the model does not either: a player whose match is pending, loading or running may queue
again, be popped into a second match or into the one that expects him, and be expected and
present at once. The only guard of `AddParty` about other parties is that a player is not queued
in two of them, which `QueueMatchesTeams` of `TeamService` checks and `OneQueueMatchesTeams` proves
for one queue; a party that queues again is the same party and moves to the end.

A timer object is a number; `waits` are those with a running wait, `due` those whose
handler is already queued. `cancel` and `expires_after` abort the former and cannot recall
the latter, as in asio.

Abstracted:

- all ratings are the default 1000, so `MmrSwap` has nothing to gain and only the number
  of rated players on a side matters; costs are integers in hundredths;
- matches become ready in different seconds, so `last_defended` orders them strictly;
- ties between guids and between party ids are broken by position;
- a cap of 0 is no limit (the instance's own maximum is larger than the model);
- `MATCH_ACCEPT` and the ACK of the registration are one step (`Arrive`): what lies between is
  in `PlayerRegistration`. `invite` is the session's `pending_match_instance_id_` and
  `pending_match_task_force_`; a player who disconnects may be invited and queue again, as a new
  login with the same id;
- an instance that is over is one that ended, stopped or died; it may have kept its
  reservations until the provider looks for it, and `Reserving` lets them be the ones that are
  erased;
- `MaybeRouteInviteeIntoTeamMatch`, the invitation of a member who joined a team after its
  PARTY_LOCKED match was popped, is left out;
- map pools with recency and DLC ownership, and `RoleWeightedSplit`, are left out.

## 3. Runs

| Run | Instance | Shows |
|---|---|---|
| `team_queue` | 3 players, 1 queue, 3 invitations | `TypeOK`, `TeamsDisjoint`, `TeamsLed`, `InvitesLive`, `InvitesUnambiguous`, `QueueMatchesTeams`, `JoinsByConsent`, `LeadershipMoves` |
| `instance_match` | 2 players with 2 instances, or 1 player with a chain of 3 missions; crash/admin/disconnect/timeout | `PendingRescued`, `ReservationsBacked`, `PoppedNotLost`, `OneSuccessor`, `DraftsWatched` |
| `instance_drops` | 1 player, home/zone/mission, 2 rows on 2 ports, crash/early/drop/admin, 1 restart | `TypeOK`, `PortsUnique`, `OneSharedMap`, `DraftsWatched`, `EndedIsTimed`, `RowsMoveForward`, `RowsKeepPromise` |
| `instance_live` | 1 player, 2 instances, crash/admin/disconnect/timeout, fair | `MatchResolves`, `DraftResolves`, `EndedStops` |
| `registration` | 1 session, 1 home and 2 missions (one with a match, the other its successor and open to spectators), 2 connections each, 3 registrations, fair sweep | `TypeOK`, `PendingAckTimed`, `SentIsRegistered`, `GhostsCleared`, `GoneStaysGone` |
| `match_queue` | 9 configurations, up to 6 players in 2 line-ups who do 3 to 6 things in all, one team, up to 2 reloads | `TypeOK`, `TimerBacked`, `PartiesAtomic`, `AddedWithinCap`, `BackfillRepairs`, `StrictSidesEqual`, `ExclusionFair`, `DefendersExact`, `RotationFair` |

Deadlock is not checked: with the counters used up and everybody gone the
system may rest.

*Why these bounds.* A stale or crossing invitation needs a third player, and so does a
team that loses one member and keeps two. A duplicate successor needs a parent and two rows, hence three ids; every other
property of rows relates two. Coalescing and the fight for a seat need two players. The run
`instance_match` has both and not at once: `LastRowInChain` admits the third row only while one player
has queued and nobody has disconnected.
Two ports make the pool run dry with home and zone up, and be refilled. One restart
is enough for processes that outlive their rows. Three registrations are home, match and
the one that overtakes it; a stale connection beside the new one needs two slots. Six
players fill a strict queue with two of each of three classes; five make a Double Agent
match whose defenders no set of whole parties fills. Everything a player does (queue, leave,
lock, arrive, turn down, depart) counts as a move: five let two players be popped for a match,
one queue again while it is pending, a third queue beside him and one arrive; six fill the
strict queue. Reloads are tried on queues of at
most three players, since the timer does not depend on who they are.

`SentIsRegistered` assumes one home map (`OneHome`), which `OneSharedMap` provides as long as a
stopping home is gone before the next is READY. With two READY homes the ACK callback sends
the client to whichever `GetReadyHomeInstance` returns, registered there or not.

*Fairness* (`FairSpec`): a running DLL connects, says HELLO and reports READY; a
mission somebody plays ends, because its timer runs out; a signalled process is gone in
the end (SIGKILL); asio delivers the end of a socket; the force-exit timer and the
sweep fire. Nothing is assumed of players, operators or ACKs. *drop* is left out of the
fair runs: a connection that drops for ever before HELLO starves everything. `instance_live`
leaves *early* out as well, because with it `MatchResolves` is false of the code: a process that
dies before HELLO has no session whose end anybody handles. The run `instance_early` admits it
and shows the match that waits for ever; nothing is claimed about rescue after an early death. In `PlayerRegistration` the only fair action is the ghost sweep, which
the idle check of `main.cpp` runs every minute.

### Disagreements between the code and its comments

These runs end in a violation, and `findings` quotes the lines:

| Run | What happens |
|---|---|
| `team_two_queues` | MATCH_JOIN does not refuse a second queue; a composition change dequeues one entry only, the other is popped with people no longer together |
| `instance_no_port` | no free port: the popped players are in no queue, no match, and are told nothing |
| `instance_early` | a process that dies before HELLO is never noticed, and its match stays pending for ever |
| `registration_leave` | MATCH_ACCEPT registers without a token, so PLAYER_LEAVE addresses no connection of the mission and the old one lingers |
| `match_subset` | `SelectClassEqualSubset` is called exact for solo pools and is not: Assault, Medic, Assault under a cap of two pops nobody |
| `match_coalesce` | a pop merged into a pending match is placed as if the match were empty, so newcomers pile up on one side |

Met on the way, without a run of their own:

- on a socket drop `RemovePlayer` dequeues the whole team silently before `TeamService` can
  tell the members (`TcpSession.cpp:624`; `TeamService.hpp:117` says everybody is messaged);
- an ACK after the stop inserts an active roster row in a STOPPED instance
  (`TcpSession.cpp:3159`; `InstanceRegistry.hpp:104` promises none);
- a player who queues again while he is expected in a match may be popped into that match:
  `TrackReadyMatchReservations` skips him (`MatchmakingService.cpp:792`) and a merge keeps his side
  (1261), so the rest of an even group enters alone. `StrictSidesEqual` and `BackfillRepairs` are
  therefore about groups nobody of whom is expected there (`AllNew`); without the condition TLC
  violates both;
- JOIN never copies the generation of a registry entry, so every cleanup takes its
  connection for one "never bound" and keeps the entry (`NetConnection__Cleanup.cpp:79`);
- a stale connection's cleanup sends PLAYER_LEFT unguarded, which marks a player who is
  back in the same instance as left (`MatchStats.cpp:37` knows of it);
- a client that says HELLO after PLAYER_CLOSE or the ghost sweep stays connected without a
  session (`TcpSession.cpp:601`);
- leaving a queue, and a seat freed in an OPEN match, evaluate nothing, though the comment at
  `MatchmakingService.cpp:305` speaks of "the next join/leave event";
- players popped in the next round of the same TryPop get an 'excluded' record first;
- a PARTY_LOCKED party that arrives while a timer is armed for others waits with them,
  although the comment at `MatchmakingService.cpp:1170` says it skips the delay;
- a handler already queued fires right after its timer was re-armed: same timer object;
- membership survives a socket drop according to `TeamService.hpp:123-130` and
  `TcpSession.cpp:2256`, while the branch that did so is compiled out (`TeamService.cpp:570`):
  whoever drops has left his team. `InvitesLive` is therefore about invitations only, which
  `CancelInvitesFor` closes in either case; that members are online holds of the code as it is and
  is part of the invariant of the proofs (`NoGhosts`), not a property of its own;
- `RemovePlayer` leaves its loop at the first pending match that names the player
  (`MatchmakingService.cpp:733`); one who queued again while his match was pending may be in two, and
  the other goes on to expect him after he has disconnected;
- AddParty may pop the queue and cancel the match at once (a failed fork), and `NotifyTeamQueued`
  afterwards shows the members IN QUEUE although they wait nowhere (`TcpSession.cpp:2496`);
- a UDP port is handed out again while the process of the STOPPED row is in its grace period.

## 4. Theorems

All theorems hold for every value of the constants that satisfies the named
assumptions (`BoundAssumption`, `SentinelAssumption`, `QueueAssumption`: bounds are naturals,
sentinels are not members, faults, spawners and configurations are among the known ones). Bounds such as `MaxId` are
arbitrary naturals, so they do not limit the results.

**TeamServiceProofs**: `TeamTypeCorrect`, `TeamsStayDisjoint`, `TeamsStayLed`,
`InvitesStayLive`, `InvitesStayUnambiguous`. The inductive invariant `TeamInv` is the
conjunction of the four properties, the type invariant, `NoGhosts` (members are online too) and "finitely many
invitations" (needed for the cardinality bound on outgoing ones). None is inductive
alone: that an accepted invitation adds a new member rests on disjointness and on the
checks against `TeamOf`; that a departure leaves a led team rests on the leader being a
member; that members are online rests on invitations naming online players. The proof
has a lemma for leaving a team, one for joining, and one step per action.
`MembersConsent` (`JoinsByConsent`) and `LeadershipPassesOn` (`LeadershipMoves`) are about steps:
`TeamChanges` says what a step can do to the teams, an acceptance of an open invitation
(`TakesIn`), a departure (`HandsOver`) or a promotion.

**TeamQueueProofs**: `OneQueueMatchesTeams`, `QueueMatchesTeams` under the hypothesis
`OneQueue`. `DequeueForCompositionChange` erases the party from one queue; if there is one
queue only, whoever leaves or joins a team then has no entry left (`DequeueRemoves`), and
the entries that remain are those of teams the step did not touch. The hypothesis is
needed: the run `team_two_queues` violates the property with two.

**InstanceLifecycleProofs**: `InstanceTypeCorrect`, `PortsStayUnique`,
`SharedMapsStaySingle`, `SuccessorsStaySingle`, `DraftsStayWatched`, `EndedStaysTimed`,
`RowsOnlyAdvance`, with every fault and any number of restarts. The inductive invariant
`CoreInv` adds three facts: rows from `nextId` on are untouched (`UnusedRows`), so an
insert disturbs nobody; a mission that is still live and has had a successor still
has its identified session (`ParentsLinked`), which is what makes a new draft
watched; only missions end (`OnlyMissionsEnd`), so that the force-exit timer, which skips
home maps, applies. It speaks of nine variables; each action is one of a few shapes with
respect to these (rows stop, a row is inserted, a successor is promoted, a row becomes
ready, a session opens), with one lemma per shape.

**InstanceClaimsProofs**: `RowsImplementClaims`, the refinement `RowsKeepPromise`. The
initial state maps to the initial state of `InstanceClaims`, and under `CoreInv` each shape of
step maps to one of its steps or to a stutter: an insert opens an instance with claims nobody
holds, because ports, shared maps and successions are unique among live rows and the new
row was unused; a mission that ends or a row that goes down opens the successor that waits for
it; rows that stop give their claims up.

**PlayerRegistrationProofs**: `TypeCorrect`, `PendingAckTimedAlways`,
`SentIsRegisteredAlways`. The last rests on the inductive invariant `SentInv`: connections never
carry a generation (`Unbound`), so no cleanup removes an entry; every registration for home
went to a home (`HomeRegs`); and whoever waits for an ACK, or has one on the way, has
asked an instance that holds the entry or has the message before it (`Asked`). It shows that
matching ACKs by guid alone is harmless for JOIN as long as there is one home.
`GoneForGood` (`GoneStaysGone`) rests on `GoneInv`: a dead session has no ACK callback, no timer
and no poll, so no step that is left can register it or add it to a roster.

**InstanceMatchProofs**: three properties that depend on what goes wrong, each with the weakest
condition on the faults it needs. `SeatsStayBacked` (`ReservationsBacked`) assumes `NoEarly`: a
process that dies or is stopped before INSTANCE_HELLO has no session whose end would release
its seats. `PendingStaysRescued` (`PendingRescued`) assumes `NoEarly` and `NoDrop`: a READY that
is lost with its connection is not sent again. `PoppedStayKnown` (`PoppedNotLost`) assumes
`EnoughPorts`: without a port the match-pop callback returns and forgets the group, which the
run `instance_no_port` shows. `SeatsInv` adds that a pending match belongs to a row that is loading (`PendingIsLoading`);
`RescueInv` that its row has been inserted and that a row still to be inserted has sent
nothing. Every other fault, restarts included, is allowed.

**MatchRulesProofs**: `EvaluateGood`, the contract between the rules and TryPop, which commits
a result without another look: the parties taken are queued (`GoodResult`), each of their
players and nobody else has side 1 or 2, the instance is one that was offered, and there is a
seat for everybody (`Seated`). The rules are folds, and `FoldLeft` is a CHOOSE of a recursive
function. `FoldExists` shows that the function exists for any step that stays in a set, and
`FoldSteps` that it is the step repeated; with these, each loop of the code has a lemma
that says what it keeps: `KeepPart` (a filter), `SortType` (a stable sort invents nothing),
`PackBound` (packing keeps to the seats), `AssignType` (sides), `SelectType` (the class-equal
subset stays under the cap), `DeficitType` and `PairJoinType` (backfill plans take solo
parties as far as free seats go). Seats are counted in party sizes (`Heads`), and
`PlayersBound` says that this never misses a player.
`EvaluateMends` is about the one result that enters a closed match, a backfill. A deficit plan
puts players only on the side that has fewer of their class, at most as many as it lacks
(`DeficitFills`); a pair join puts one player of a class on each of two equal sides
(`PairJoinPairs`). Both need that nobody is queued twice or already in the instance
(`Strangers`), and that sorting and filtering draw each party once (`Drawn`), for which
`InsertionOrder` says that a sort lists every position once, in order.
`CoopEven` is about a new match of a strict queue. `SelectEven`: each round drops a party while a
class is odd, so after as many rounds as parties every class is even. `IndividualEven`: the
greedy placement divides such players equally. Its invariant (`Leveled`) is that no class leads
by more than one player, nor do Assault and Recon together. Healers come first (`HealSorted`),
so when a player is placed the classes that heal more are complete, therefore even, and at
most one class besides his own leads (`LeveledStep`); then one more head on the wrong side costs
more than any tie-break or heal score can give back (`CheaperSide`: the heal scores of two
choices differ by at most 200 hundredths, `HealSum`).
`CoopFirst` says of the same match whom it passes over (`Foremost`). The parties are sorted by
exclusions (`PrioritySorted`). Packing them keeps the order, and a solo for whom there is no
seat has no solo behind him who gets one, since seats are only used up (`PackFirst`). A round
that drops a party takes the last of the solos of its class, who has the weakest claim
(`VictimLast`), and `DropFirst` is the step that carries both facts through the rounds.
`AgentExact` and `AgentRotated` are about `Defenders`. Costs are sums over sets, a CHOOSE of a
recursive function again, and `CostStep` says that a cost is one rank and the cost of the rest.
The best set of whole parties exists because costs, worst ranks and, as bit masks, the sets
themselves have a least one (`BestThere`, `MaskLeast`). If a solo in it had a higher rank than a
solo outside, swapping the two would give a set of the same size that costs less (`FitAhead`).
If no whole parties fill the seats, the parties that do not fit behind the packed ones include
one to split: heads are players when nobody is in two parties (`HeadsExact`), so the packed
parties cannot be all of them (`SpillNext`), and its strongest members fill the seats that are left
(`StrongestCount`). Means are compared by cross products, which order parties consistently
(`MeanOrder`), so a solo is packed before any solo with a higher rank (`PackOrder`, `SpillAhead`).

**MatchQueueProofs**: `TimerBackedAlways`, with `TimerInv` adding that a timer that is gone
has no wait left (`GoneIsEmpty`); a pop touches the timer through `PopLater` and `Fire` only.
`QueueTypeCorrect`: `TypeInv` adds that nobody waits in a queue that is gone, since `Evaluate`
has no case for it. The other theorems rest on `QueueInv`: `TypeInv`, `ApartInv` (two queued
parties share nobody) and `PendingInv` (nobody has arrived in a pending match). It says nothing
about players being in one place, since they may be in several. `LessOrPop` is the step lemma:
in each match players are lost, or TryPop adds some to one match (`AddedPopped`), those of the
taken parties, which leave the queue (`PoppedTaken`).
`PartiesAtomicAlways` (`PartiesAtomic`) follows: whoever is added is in a taken party, all of
whose members are then in that match, and by `ApartInv` in no party that stays.
`CapRespected` (`AddedWithinCap`): each of the three ways of a pop has the seats, from the
provider's count for a drop-in, from the guard of `Coalesces` for a pending match, from the rule
for a new one; who is counted twice, arrived and expected, was so before.
`RepairsAlways` (`BackfillRepairs`): a BACKFILL_ONLY instance is joined by a backfill only. Its sides are
those of `Seats`, which the provider showed the rule; with `AllNew` the reserved seats of those who
enter are new (`SeatsJoined`), so they fill the gap (`ReservedFills`) or come in pairs
(`ReservedPairs`) as the plan says.
`EqualAlways` (`StrictSidesEqual`) carries `CoopEven` over: a new match has the sides of the result,
a pending one gains them whole, by `AllNew`.
`FairAlways` (`ExclusionFair`) carries `CoopFirst` over: the taken parties are those that leave
the queue, for a match of their own or a pending one. It is about every strict queue,
also one whose teams must stay whole, and leaves out only players who asked for a match of
their own and get it at once. `DefendersAlways` (`DefendersExact`) and `RotationAlways` (`RotationFair`)
carry `AgentExact` and `AgentRotated` over: a Double Agent result is SEALED and for a new
instance, so it joins and is merged into nothing (`PopSealed`), and the parties that leave the
queue are the ones it takes, which by `ApartInv` share nobody. The assumption `QueueAssumption` says that players are finitely
many, that teams are sequences of them, have a leader and nobody twice, and that configurations are of the
known kinds.

**Model-checked only**: the liveness properties, since liveness and ENABLED are outside the
prover's reach.

## 5. Plan

Modules: open-world travel with players; two overlapping IPC sessions of one instance;
agencies and alliances with their ranks; wave revive and tickets in the DLL.

## 6. Not modelled

The engine hooks, the SDK and the vendored libraries; SQL storage without protocol
(characters, inventory, mail, agencies, migrations); chat, ratings, overlay and statistics;
packet formats; login checks. The reasons are in `PROJECT.json`.
