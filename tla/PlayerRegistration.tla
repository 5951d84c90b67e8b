------------------------- MODULE PlayerRegistration -------------------------
(***************************************************************************)
(* How one login session gets into a game instance and out of it.           *)
(*                                                                          *)
(* The session's TcpSession sends PLAYER_REGISTER to an instance and tells  *)
(* the client GSC_GO_PLAY once a PLAYER_REGISTER_ACK comes back, or gives   *)
(* up after 60 s; the instance's DLL keeps the registration in its          *)
(* PlayerRegistry, lets a client that is in there JOIN, and reports         *)
(* PLAYER_LEFT when it cleans up a connection.  Every map involved is keyed *)
(* by the session guid, and a login gets a new guid, so one session is the  *)
(* whole story of a key.  The IPC link of an instance is FIFO both ways.    *)
(***************************************************************************)
EXTENDS Integers, Sequences, FiniteSets

CONSTANTS
    Home,        \* home-map instances
    Mission,     \* mission instances
    Conn,        \* slots for an instance's connections with the session's client
    Matches,     \* missions that a match is opened for
    Requests,    \* what the player and the network do besides, see RequestKind
    Stoppable,   \* instances that may be stopped, or die, at any time
    MaxRegs,     \* bound on registrations
    MaxPolls     \* bound on home-map polls running at once

\* Go on to a successor, spectate, leave; lose the TCP socket.
RequestKind == {"target", "spectate", "leave", "drop"}

ASSUME RegistrationAssumption ==
    /\ Home \cap Mission = {}
    /\ Conn \subseteq Nat /\ IsFiniteSet(Conn)
    /\ Matches \subseteq Mission
    /\ Requests \subseteq RequestKind
    /\ Stoppable \subseteq Home \cup Mission
    /\ MaxRegs \in Nat /\ MaxPolls \in Nat

Instance == Home \cup Mission
None     == "None"

ASSUME NoneAssumption == None \notin Instance

VARIABLES
    row,         \* ga_instances.state
    up,          \* instances with an IPC session in g_sessions
    roster,      \* instances where the session has a row with left_at NULL
    live,        \* session_guid_ is set and in g_sessions_
    assigned,    \* assigned_instance_id_
    token,       \* active_register_token_
    invited,     \* pending_match_instance_id_
    spectating,  \* is_spectating_
    regs,        \* the registrations so far, each with its instance and handler
    ack,         \* the registration whose callback is in pending_acks_
    ackTimer,    \* the registration whose timer is pending_ack_timer_
    timers,      \* registrations whose 60 s wait is running
    polls,       \* wait_for_home_map_then_register loops that are asleep
    toDll,       \* IPC messages on their way to an instance
    toControl,   \* IPC messages on their way back
    registry,    \* PlayerRegistry::by_guid_ of an instance, and its generation
    conns,       \* the session's entries of GClientConnectionsData
    dest,        \* client: the instance of a GSC_GO_PLAY it has yet to follow
    at           \* client: the connection it keeps alive

rowVars     == <<row, up>>
sessionVars == <<live, assigned, token, invited, spectating>>
ackVars     == <<regs, ack, ackTimer, timers>>
dllVars     == <<registry, conns>>
clientVars  == <<dest, at>>
vars == <<rowVars, roster, sessionVars, ackVars, polls, toDll, toControl,
          dllVars, clientVars>>

RegNo    == 1 .. MaxRegs
Token    == 0 .. MaxRegs
Via      == {"home", "target", "match", "spectate"}
ToDllMsg == [type : {"REGISTER", "LEAVE", "CLOSE"}, token : Token]
ToCtlMsg == {"ACK", "LEFT"}
Connection == [st : {"free", "hello", "joined"}, closed : BOOLEAN, token : Token, gen : Nat]
Free     == [st |-> "free", closed |-> FALSE, token |-> 0, gen |-> 0]
Entry    == [gen : Nat, token : Token, held : BOOLEAN]

TypeOK ==
    /\ row \in [Instance -> {"STARTING", "READY", "STOPPED"}]
    /\ up \subseteq Instance
    /\ roster \subseteq Instance
    /\ live \in BOOLEAN
    /\ assigned \in Instance \cup {None}
    /\ token \in Token
    /\ invited \in Mission \cup {None}
    /\ spectating \in BOOLEAN
    /\ regs \in Seq([inst : Instance, via : Via])
    /\ Len(regs) <= MaxRegs
    /\ ack \in 0 .. Len(regs)
    /\ ackTimer \in 0 .. Len(regs)
    /\ timers \subseteq 1 .. Len(regs)
    /\ polls \in 0 .. MaxPolls
    /\ toDll \in [Instance -> Seq(ToDllMsg)]
    /\ toControl \in [Instance -> Seq(ToCtlMsg)]
    /\ registry \in [Instance -> Entry]
    /\ conns \in [Instance -> [Conn -> Connection]]
    /\ dest \in Instance \cup {None}
    /\ at \in (Instance \X Conn) \cup {<<>>}

Init ==
    /\ row \in [Instance -> {"STARTING", "READY"}]
    /\ \A m \in Mission : row[m] = "READY"
    /\ up = Instance
    /\ roster = {}
    /\ live = TRUE
    /\ assigned = None
    /\ token = 0
    /\ invited = None
    /\ spectating = FALSE
    /\ regs = <<>>
    /\ ack = 0
    /\ ackTimer = 0
    /\ timers = {}
    /\ polls = 0
    /\ toDll = [i \in Instance |-> <<>>]
    /\ toControl = [i \in Instance |-> <<>>]
    /\ registry = [i \in Instance |-> [gen |-> 0, token |-> 0, held |-> FALSE]]
    /\ conns = [i \in Instance |-> [c \in Conn |-> Free]]
    /\ dest = None
    /\ at = <<>>

-----------------------------------------------------------------------------
(* Registering.                                                             *)

ReadyHomes == {h \in Home : row[h] = "READY"}

Message(type, t) == [type |-> type, token |-> t]

\* SendToInstance: false, and nothing sent, without an IPC session.
Sent(i, m) == IF i \in up THEN [toDll EXCEPT ![i] = Append(@, m)] ELSE toDll

\* Mutants: the callback goes under the number after the one sent; the timer is
\* left to whoever armed the last one.
ArmNext(n, T) ==
    /\ ack' = n + 1
    /\ ackTimer' = n + 1
    /\ timers' = T \cup {n + 1}

ArmUntimed(n, T) ==
    /\ ack' = n
    /\ ackTimer' = ackTimer
    /\ timers' = T

\* A new registration n: its callback replaces the one in pending_acks_ and its
\* timer the one in pending_ack_timer_; the timer replaced there keeps running,
\* its own async_wait holds it.  T are the timers running before.
Arm(n, T) ==
    /\ ack' = n
    /\ ackTimer' = n
    /\ timers' = T \cup {n}

\* PLAYER_REGISTER from the home, target and spectate paths: the callback is
\* registered first and withdrawn when sending fails.  Tokens are only compared,
\* so the number of the registration stands for next_register_token_++.
RegisterWithToken(i, via, T) ==
    /\ Len(regs) < MaxRegs
    /\ regs' = Append(regs, [inst |-> i, via |-> via])
    /\ token' = Len(regs) + 1
    /\ toDll' = Sent(i, Message("REGISTER", Len(regs) + 1))
    /\ IF i \in up
       THEN Arm(Len(regs) + 1, T)
       ELSE ack' = 0 /\ ackTimer' = 0 /\ timers' = T

\* wait_for_home_map_then_register: register with a READY home, or look again
\* in two seconds.  The assignment stays a until there is one.
HomeOrPoll(a, T, callback, timer) ==
    \/ /\ \E h \in ReadyHomes : assigned' = h /\ RegisterWithToken(h, "home", T)
       /\ UNCHANGED polls
    \/ /\ ReadyHomes = {}
       /\ polls < MaxPolls
       /\ polls' = polls + 1
       /\ assigned' = a
       /\ ack' = callback /\ ackTimer' = timer /\ timers' = T
       /\ UNCHANGED <<token, regs, toDll>>

\* GSC_SELECT_CHARACTER or ADD_PLAYER_CHARACTER, on the character screen.
SelectCharacter ==
    /\ live /\ at = <<>> /\ dest = None
    /\ HomeOrPoll(assigned, timers, ack, ackTimer)
    /\ UNCHANGED <<rowVars, roster, live, invited, spectating, toControl,
                   dllVars, clientVars>>

\* A poll wakes up: it registers, goes back to sleep (no step), or gives up
\* after 120 s and leaves the client where it is.
HomePoll ==
    /\ polls > 0
    /\ polls' = polls - 1
    /\ \/ UNCHANGED <<assigned, token, ackVars, toDll>>
       \/ \E h \in ReadyHomes : assigned' = h /\ RegisterWithToken(h, "home", timers)
    /\ UNCHANGED <<rowVars, roster, live, invited, spectating, toControl,
                   dllVars, clientVars>>

\* send_match_invitation, for a match that became ready.
Invite(m) ==
    /\ m \in Matches
    /\ live /\ at # <<>> /\ invited # m /\ row[m] = "READY"
    /\ Len(regs) < MaxRegs
    /\ invited' = m
    /\ UNCHANGED <<rowVars, roster, live, assigned, token, spectating, ackVars,
                   polls, toDll, toControl, dllVars, clientVars>>

\* MATCH_ACCEPT: no register_token is put in the message and
\* active_register_token_ keeps the token of an earlier registration.
MatchAccept ==
    /\ live /\ invited # None /\ at # <<>>
    /\ IF row[invited] = "READY" /\ invited \in up
       THEN /\ Len(regs) < MaxRegs
            /\ regs' = Append(regs, [inst |-> invited, via |-> "match"])
            /\ toDll' = Sent(invited, Message("REGISTER", 0))
            /\ Arm(Len(regs) + 1, timers)
            /\ UNCHANGED invited
       ELSE /\ invited' = None
            /\ UNCHANGED <<ackVars, toDll>>
    /\ UNCHANGED <<rowVars, roster, live, assigned, token, spectating, polls,
                   toControl, dllVars, clientVars>>

\* The -spectate chat command.
Spectate(m) ==
    /\ "spectate" \in Requests
    /\ live /\ at # <<>> /\ row[m] = "READY"
    /\ RegisterWithToken(m, "spectate", timers)
    /\ UNCHANGED <<rowVars, roster, live, assigned, invited, spectating, polls,
                   toControl, dllVars, clientVars>>

-----------------------------------------------------------------------------
(* The end of a registration: its ACK or its timer.                         *)

GoPlay(i) == dest' = i

\* The callback of registration n, which cancels its own timer.
Registered(n) ==
    LET i == regs[n].inst
        T == timers \ {n} IN
    CASE regs[n].via = "home" ->
             /\ IF ReadyHomes = {}
                THEN UNCHANGED <<roster, dest>>
                ELSE \E h \in ReadyHomes :
                        /\ roster' = IF h = i THEN roster \cup {i} ELSE roster
                        /\ GoPlay(h)
             /\ ack' = 0 /\ timers' = T
             /\ UNCHANGED <<assigned, token, invited, spectating, regs, ackTimer,
                            polls, toDll>>
      [] regs[n].via = "target" ->
             /\ roster' = roster \cup {i}
             /\ IF row[i] = "READY"
                THEN /\ assigned' = i /\ GoPlay(i)
                     /\ ack' = 0 /\ timers' = T
                     /\ UNCHANGED <<token, regs, ackTimer, polls, toDll>>
                ELSE HomeOrPoll(None, T, 0, ackTimer) /\ UNCHANGED dest
             /\ UNCHANGED <<invited, spectating>>
      [] regs[n].via = "match" ->
             /\ roster' = roster \cup {i}
             /\ assigned' = i
             /\ IF row[i] = "READY" THEN GoPlay(i) ELSE UNCHANGED dest
             /\ invited' = None
             /\ ack' = 0 /\ timers' = T
             /\ UNCHANGED <<token, spectating, regs, ackTimer, polls, toDll>>
      [] regs[n].via = "spectate" ->
             /\ IF row[i] = "READY"
                THEN assigned' = i /\ spectating' = TRUE /\ GoPlay(i)
                ELSE assigned' = None /\ spectating' = FALSE /\ UNCHANGED dest
             /\ ack' = 0 /\ timers' = T
             /\ UNCHANGED <<roster, token, invited, regs, ackTimer, polls, toDll>>

Deliver(i) == toControl' = [toControl EXCEPT ![i] = Tail(@)]

\* PLAYER_REGISTER_ACK from instance i carries the guid and nothing else: it
\* runs the callback that is there, for whatever registration that is.
RegisterAck(i) ==
    /\ toControl[i] # <<>> /\ Head(toControl[i]) = "ACK"
    /\ Deliver(i)
    /\ IF ack # 0
       THEN Registered(ack)
       ELSE UNCHANGED <<roster, assigned, token, invited, spectating, ackVars,
                        polls, toDll, dest>>
    /\ UNCHANGED <<rowVars, live, dllVars, at>>

\* The 60 s of registration n are over: ClearPendingAck by guid, and what the
\* handler that armed the timer does about it.
AckTimeout(n) ==
    /\ n \in timers
    /\ IF regs[n].via = "target"
       THEN HomeOrPoll(assigned, timers \ {n}, 0, ackTimer)
       ELSE /\ ack' = 0 /\ timers' = timers \ {n}
            /\ UNCHANGED <<assigned, token, regs, ackTimer, polls, toDll>>
    /\ invited' = IF regs[n].via = "match" THEN None ELSE invited
    /\ UNCHANGED <<rowVars, roster, live, spectating, toControl, dllVars, clientVars>>

-----------------------------------------------------------------------------
(* Leaving.                                                                 *)

\* PLAYER_LEAVE_GAME, the Disconnect button: the client has closed its UDP
\* socket and is back on the character screen.
LeaveGame ==
    /\ "leave" \in Requests
    /\ live /\ at # <<>>
    /\ toDll' = IF assigned = None THEN toDll ELSE Sent(assigned, Message("LEAVE", token))
    /\ assigned' = None /\ token' = 0 /\ invited' = None
    /\ dest' = None /\ at' = <<>>
    /\ UNCHANGED <<rowVars, roster, live, spectating, ackVars, polls, toControl,
                   dllVars>>

\* GSC_CHANGE_INSTANCE at home only drops the invitation; elsewhere it gives up
\* the seat and the registration under way and goes home, or to the successor
\* of a mission that has ended.
ChangeInstance ==
    /\ live /\ at # <<>>
    /\ IF assigned \in Home
       THEN /\ invited' = IF row[assigned] = "READY" THEN None ELSE invited
            /\ UNCHANGED <<roster, assigned, token, ackVars, polls, toDll>>
       ELSE LET T == timers \ {ackTimer}
                callback == IF ackTimer = 0 THEN ack ELSE 0 IN
            /\ invited' = None
            /\ roster' = roster \ {assigned}
            /\ \/ HomeOrPoll(None, T, callback, 0)
               \/ /\ "target" \in Requests /\ assigned # None
                  /\ \E s \in Mission \ {assigned} :
                        row[s] = "READY" /\ s \in up /\ RegisterWithToken(s, "target", T)
                  /\ assigned' = None
                  /\ UNCHANGED polls
    /\ UNCHANGED <<rowVars, live, spectating, toControl, dllVars, clientVars>>

\* The -unspectate chat command: exit_spectate closes the connection and goes
\* home.
Unspectate ==
    LET i     == assigned
        close == IF i \in up THEN <<Message("CLOSE", token)>> ELSE <<>> IN
    /\ live /\ spectating
    /\ spectating' = FALSE
    /\ \/ \E h \in ReadyHomes :
             /\ Len(regs) < MaxRegs
             /\ assigned' = h
             /\ regs' = Append(regs, [inst |-> h, via |-> "home"])
             /\ token' = Len(regs) + 1
             /\ toDll' = [j \in Instance |->
                     toDll[j]
                     \o (IF j = i THEN close ELSE <<>>)
                     \o (IF j = h /\ h \in up
                         THEN <<Message("REGISTER", Len(regs) + 1)>> ELSE <<>>)]
             /\ IF h \in up
                THEN Arm(Len(regs) + 1, timers)
                ELSE ack' = 0 /\ ackTimer' = 0 /\ UNCHANGED timers
             /\ UNCHANGED polls
       \/ /\ ReadyHomes = {}
          /\ polls < MaxPolls
          /\ polls' = polls + 1
          /\ assigned' = None
          /\ token' = IF i = None THEN token ELSE 0
          /\ toDll' = [j \in Instance |-> IF j = i THEN toDll[j] \o close ELSE toDll[j]]
          /\ UNCHANGED ackVars
    /\ UNCHANGED <<rowVars, roster, live, invited, toControl, dllVars, clientVars>>

\* Mutant: the callback stays in pending_acks_.
SocketDisconnectKeepsAck ==
    /\ "drop" \in Requests
    /\ live
    /\ live' = FALSE
    /\ ackTimer' = 0 /\ timers' = {} /\ polls' = 0
    /\ assigned' = None /\ token' = 0 /\ invited' = None /\ spectating' = FALSE
    /\ toDll' = IF assigned = None THEN toDll ELSE Sent(assigned, Message("CLOSE", token))
    /\ roster' = IF assigned \in up THEN roster ELSE roster \ {assigned}
    /\ UNCHANGED <<rowVars, regs, ack, toControl, dllVars, clientVars>>

\* handle_socket_disconnect; the client's UDP side may go on.  Timers and polls
\* that outlive session_guid_ find no session and do nothing.
SocketDisconnect ==
    /\ "drop" \in Requests
    /\ live
    /\ live' = FALSE
    /\ ack' = 0 /\ ackTimer' = 0 /\ timers' = {} /\ regs' = <<>> /\ polls' = 0
    /\ assigned' = None /\ token' = 0 /\ invited' = None /\ spectating' = FALSE
    /\ toDll' = IF assigned = None THEN toDll ELSE Sent(assigned, Message("CLOSE", token))
    /\ roster' = IF assigned \in up THEN roster ELSE roster \ {assigned}
    /\ UNCHANGED <<rowVars, toControl, dllVars, clientVars>>

\* Mutant: the row is left to the PLAYER_LEFT that the closed connection brings.
GhostSweepCloses ==
    /\ ~live /\ roster # {}
    /\ toDll' = [i \in Instance |-> IF i \in roster \cap up
                                    THEN Append(toDll[i], Message("CLOSE", 0))
                                    ELSE toDll[i]]
    /\ Len(toDll[CHOOSE i \in roster : TRUE]) < MaxRegs
    /\ UNCHANGED <<rowVars, roster, sessionVars, ackVars, polls, toControl, dllVars,
                   clientVars>>

\* The ghost-player reconciliation of the idle check.
GhostSweep ==
    /\ ~live /\ roster # {}
    /\ toDll' = [i \in Instance |-> IF i \in roster \cap up
                                    THEN Append(toDll[i], Message("CLOSE", 0))
                                    ELSE toDll[i]]
    /\ roster' = {}
    /\ UNCHANGED <<rowVars, sessionVars, ackVars, polls, toControl, dllVars, clientVars>>

\* PLAYER_LEFT: the row is left, and a mission without other players stopped.
PlayerLeft(i) ==
    /\ toControl[i] # <<>> /\ Head(toControl[i]) = "LEFT"
    /\ Deliver(i)
    /\ roster' = roster \ {i}
    /\ row' \in {row, [row EXCEPT ![i] = IF i \in Mission THEN "STOPPED" ELSE @]}
    /\ UNCHANGED <<up, sessionVars, ackVars, polls, toDll, dllVars, clientVars>>

-----------------------------------------------------------------------------
(* In the instance.                                                         *)

Known(i) == {c \in Conn : conns[i][c].st # "free"}

\* The connections PLAYER_LEAVE and PLAYER_CLOSE are about: a token other than
\* 0 must be the one the connection joined with.
Addressed(i, m) == {c \in Known(i) : m.token = 0 \/ conns[i][c].token = m.token}

\* Mutant: Unregister, whatever the generation.
UnregisteredAnyway(i, gen) == [registry EXCEPT ![i].held = FALSE, ![i].token = 0]

\* UnregisterIfGeneration, where the connection has a generation at all.
Unregistered(i, gen) ==
    IF gen # 0 /\ registry[i].held /\ registry[i].gen = gen
    THEN [registry EXCEPT ![i].held = FALSE, ![i].token = 0]
    ELSE registry

\* NetConnection__Cleanup of the connections S: a PLAYER_LEFT for each, and the
\* registry entry goes with the last one.
Cleanup(i, S) ==
    /\ conns' = [conns EXCEPT ![i] = [c \in Conn |-> IF c \in S THEN Free ELSE @[c]]]
    /\ toControl' = [toControl EXCEPT ![i] = @ \o [k \in 1 .. Cardinality(S) |-> "LEFT"]]
    /\ IF S # {} /\ S = Known(i)
       THEN \E c \in S : registry' = Unregistered(i, conns[i][c].gen)
       ELSE UNCHANGED registry

Receive(i, type) ==
    /\ toDll[i] # <<>> /\ Head(toDll[i]).type = type
    /\ toDll' = [toDll EXCEPT ![i] = Tail(@)]

DllRegister(i) ==
    /\ Receive(i, "REGISTER")
    /\ registry' = [registry EXCEPT ![i] = [gen   |-> @.gen + 1,
                                            token |-> Head(toDll[i]).token,
                                            held  |-> TRUE]]
    /\ toControl' = [toControl EXCEPT ![i] = Append(@, "ACK")]
    /\ UNCHANGED <<rowVars, roster, sessionVars, ackVars, polls, conns, clientVars>>

DllLeave(i) ==
    /\ Receive(i, "LEAVE")
    /\ Cleanup(i, Addressed(i, Head(toDll[i])))
    /\ at' = IF at # <<>> /\ at[1] = i /\ conns'[i][at[2]].st = "free" THEN <<>> ELSE at
    /\ UNCHANGED <<rowVars, roster, sessionVars, ackVars, polls, dest>>

DllClose(i) ==
    /\ Receive(i, "CLOSE")
    /\ conns' = [conns EXCEPT ![i] = [c \in Conn |->
                    IF c \in Addressed(i, Head(toDll[i])) THEN [@[c] EXCEPT !.closed = TRUE]
                                                          ELSE @[c]]]
    /\ UNCHANGED <<rowVars, roster, sessionVars, ackVars, polls, toControl, registry,
                   clientVars>>

\* HELLO on the new connection of a client that follows its GSC_GO_PLAY.
Hello(i, c) ==
    /\ dest = i /\ i \in up
    /\ c \notin Known(i) /\ \A d \in Conn : d < c => d \in Known(i)
    /\ conns' = [conns EXCEPT ![i][c].st = "hello"]
    /\ dest' = None
    /\ at' = <<i, c>>
    /\ UNCHANGED <<rowVars, roster, sessionVars, ackVars, polls, toDll, toControl,
                   registry>>

\* JOIN copies the token of the registry entry into the connection, not its
\* generation; without an entry the connection is closed.
Join(i, c) ==
    /\ conns[i][c].st = "hello" /\ ~conns[i][c].closed
    /\ at = <<i, c>>
    /\ conns' = [conns EXCEPT ![i][c] =
            IF registry[i].held THEN [@ EXCEPT !.st = "joined", !.token = registry[i].token]
                                ELSE [@ EXCEPT !.closed = TRUE]]
    /\ UNCHANGED <<rowVars, roster, sessionVars, ackVars, polls, toDll, toControl,
                   registry, clientVars>>

\* Close notification, or ConnectionTimeout of a connection gone quiet.
Quiet(i, c) ==
    /\ c \in Known(i) /\ ~conns[i][c].closed
    /\ at # <<i, c>>
    /\ conns' = [conns EXCEPT ![i][c].closed = TRUE]
    /\ UNCHANGED <<rowVars, roster, sessionVars, ackVars, polls, toDll, toControl,
                   registry, clientVars>>

\* TickDispatch reaps a closed connection.
Reap(i, c) ==
    /\ c \in Known(i) /\ conns[i][c].closed
    /\ Cleanup(i, {c})
    /\ at' = IF at = <<i, c>> THEN <<>> ELSE at
    /\ UNCHANGED <<rowVars, roster, sessionVars, ackVars, polls, toDll, dest>>

-----------------------------------------------------------------------------
(* The instance itself; InstanceLifecycle has the detail.                   *)

HomeReady(h) ==
    /\ row[h] = "STARTING" /\ h \in up
    /\ row' = [row EXCEPT ![h] = "READY"]
    /\ UNCHANGED <<up, roster, sessionVars, ackVars, polls, toDll, toControl,
                   dllVars, clientVars>>

\* MarkStopped, by the operator, the idle check or the end of the mission.
Stop(i) ==
    /\ i \in Stoppable /\ row[i] # "STOPPED"
    /\ row' = [row EXCEPT ![i] = "STOPPED"]
    /\ roster' = roster \ {i}
    /\ UNCHANGED <<up, sessionVars, ackVars, polls, toDll, toControl, dllVars,
                   clientVars>>

\* The process is gone and on_disconnect has stopped the row.
Down(i) ==
    /\ i \in up
    /\ row[i] = "STOPPED" \/ i \in Stoppable
    /\ up' = up \ {i}
    /\ row' = [row EXCEPT ![i] = "STOPPED"]
    /\ roster' = roster \ {i}
    /\ toDll' = [toDll EXCEPT ![i] = <<>>]
    /\ toControl' = [toControl EXCEPT ![i] = <<>>]
    /\ registry' = [registry EXCEPT ![i].held = FALSE]
    /\ conns' = [conns EXCEPT ![i] = [c \in Conn |-> Free]]
    /\ at' = IF at # <<>> /\ at[1] = i THEN <<>> ELSE at
    /\ UNCHANGED <<sessionVars, ackVars, polls, dest>>

Next ==
    \/ SelectCharacter \/ HomePoll \/ MatchAccept
    \/ \E m \in Mission : Invite(m) \/ Spectate(m)
    \/ \E n \in RegNo : AckTimeout(n)
    \/ LeaveGame \/ ChangeInstance \/ Unspectate \/ SocketDisconnect \/ GhostSweep
    \/ \E i \in Instance :
          \/ RegisterAck(i) \/ PlayerLeft(i)
          \/ DllRegister(i) \/ DllLeave(i) \/ DllClose(i)
          \/ \E c \in Conn : Hello(i, c) \/ Join(i, c) \/ Quiet(i, c) \/ Reap(i, c)
          \/ Stop(i) \/ Down(i)
    \/ \E h \in Home : HomeReady(h)

Spec == Init /\ [][Next]_vars

\* The idle check of main.cpp runs the sweep once a minute.
FairSpec == Spec /\ WF_vars(GhostSweep)

-----------------------------------------------------------------------------
(* Properties.                                                              *)

\* A registration that is waited for has its own timer running, and it is the
\* latest one: no ClearPendingAck, replaced timer or late ACK leaves the client
\* waiting on a callback that nothing will ever end.
PendingAckTimed ==
    ack # 0 => ack = Len(regs) /\ ack \in timers /\ ack = ackTimer

OneHome == \A g, h \in Home : g = h

InFlight(i) == \E k \in DOMAIN toDll[i] : toDll[i][k].type = "REGISTER"

\* PLAYER_REGISTER has reached instance i, is on its way, or cannot any more.
Expected(i) == i \in up => registry[i].held \/ InFlight(i)

\* With one home map, a client told to play somewhere, or connecting there, is
\* registered there or about to be: although ACKs are matched by guid alone and
\* connections are cleaned up late, JOIN finds no player whom the control server
\* has sent and the instance has forgotten.
SentIsRegistered ==
    OneHome => \A i \in Instance : (dest = i \/ \E c \in Conn : at = <<i, c>>) => Expected(i)

\* The rows of a session that is gone are cleared, whatever message was lost,
\* skipped as stale or overtaken on the way.
GhostsCleared == (~live /\ roster # {}) ~> (roster = {})

\* And they stay cleared: no ACK, timer or poll that outlives the session puts it
\* on a roster or makes an instance expect it again.
GoneStaysGone ==
    [][~live => /\ roster' \subseteq roster
                /\ \A i \in Instance : Len(toDll'[i]) > Len(toDll[i]) =>
                      toDll'[i][Len(toDll'[i])].type = "CLOSE"]_vars

\* The comment on PLAYER_LEAVE_GAME: the connection is torn down right now and
\* does not linger until ConnectionTimeout.
LeaveTearsDown ==
    [][\A i \in Mission, c \in Conn :
          (/\ toDll[i] # <<>> /\ Head(toDll[i]).type = "LEAVE" /\ toDll'[i] = Tail(toDll[i])
           /\ conns[i][c].st = "joined" /\ at # <<i, c>>)
          => conns'[i][c].st = "free"]_vars
=============================================================================
