----------------------------- MODULE MatchQueue -----------------------------
(***************************************************************************)
(* One match queue of MatchmakingService: the parties that wait, the        *)
(* delayed pop with its timer, the matches it forms, joins and repairs, and *)
(* the reload of its configuration.  MatchRules decides what is popped.     *)
(*                                                                          *)
(* A handler that ends in TryPop sets pop, and until the loop is through    *)
(* nothing else happens: TryPop takes one match at a time.                  *)
(***************************************************************************)
EXTENDS MatchRules

CONSTANTS
    Id,         \* players' ids
    Lineups,    \* the classes they may play, as functions of their ids
    Teams,      \* possible teams, as sequences of ids
    Config,     \* configurations of the queue, see ConfigType
    Verified    \* ids of the players verified for pvp

\* rule "none": the queue is not in the database.  rearm: pop_delay_policy is
\* not Fixed.  The last three are bounds of the model: who uses the queue, how much
\* the players do in all, and how often it is reloaded.
ConfigType ==
    [rule : {"coop", "agent", "versus", "none"}, team : {"own", "mixed", "block"},
     side : {"ignore", "preferred", "required"}, force : {"pinned", "balanced", "pvp"},
     cap : Nat, min : Nat, delay : BOOLEAN, rearm : BOOLEAN, instant : BOOLEAN,
     strict : BOOLEAN, backfill : BOOLEAN, pair : BOOLEAN, verified : BOOLEAN,
     fair : BOOLEAN, crowd : SUBSET Id, moves : Nat, reloads : Nat]

ASSUME QueueAssumption ==
    /\ IsFiniteSet(Id) /\ Teams \subseteq Seq(Id) \ {<<>>}
    /\ \A t \in Teams : \A j, k \in DOMAIN t : t[j] = t[k] => j = k
    /\ \A f \in Lineups : f \in [Id -> Classes]
    /\ \A c \in Config : c \in ConfigType

VARIABLES
    cfg,       \* Queue::config
    class,     \* profile id of each player
    parties,   \* Queue::parties, in the order they joined
    solo,      \* players with solo_lock
    timer,     \* the timer object of Queue::delayed_pop, 0 when there is none
    made,      \* timer objects made so far
    waits,     \* timers with an async_wait that has not expired
    due,       \* timers whose handler is queued with no error
    pop,       \* TryPop under way: "no", or whether the delay is over
    match,     \* pending matches and running instances, in the order formed
    invite,    \* each session's pending_match_instance_id_ and _task_force_
    fair,      \* FairnessStats of each player
    moves,     \* what the players have done so far
    reloads

queueVars == <<parties, solo>>
timerVars == <<timer, made, waits, due>>
matchVars == <<match, invite, fair>>
vars == <<cfg, class, queueVars, timerVars, pop, matchVars, moves, reloads>>

Player(i)  == [id |-> i, class |-> class[i]]
Solo(i)    == [members |-> <<Player(i)>>, team |-> FALSE]
Team(t)    == [members |-> [k \in DOMAIN t |-> Player(t[k])], team |-> TRUE]
Ids(S)     == {q.id : q \in S}
Queued     == Ids(Players(parties))
Without(a, S) == [q \in DOMAIN a \ S |-> a[q]]
NoInvite   == [match |-> 0, side |-> 1]

\* A match: who is expected (the pending match, then the reservations) and who has
\* arrived, with their sides.
Formed(r)  == [state |-> "pending", tf |-> r.tf, live |-> Nobody, access |-> r.access,
               cap |-> r.cap, credited |-> {}]
Over(a)    == [state |-> "over", tf |-> Nobody, live |-> Nobody, access |-> a, cap |-> 0,
               credited |-> {}]
NoRecord   == [excluded |-> 0, lifetime |-> 0, played |-> 0, lastDefended |-> 0, defended |-> 0]

Init ==
    /\ cfg \in {c \in Config : c.rule # "none"}
    /\ class \in Lineups
    /\ parties = <<>>
    /\ solo = {}
    /\ timer = 0 /\ made = 0 /\ waits = {} /\ due = {}
    /\ pop = "no"
    /\ match = <<>>
    /\ invite = [i \in Id |-> NoInvite]
    /\ fair = [i \in Id |-> NoRecord]
    /\ moves = 0 /\ reloads = 0

-----------------------------------------------------------------------------
(* The delayed pop.                                                         *)

\* delayed_pop.reset() after timer->cancel(): a wait that has not expired is
\* aborted, a handler already queued is not.
Disarm == timer' = 0 /\ waits' = waits \ {timer} /\ UNCHANGED <<made, due>>

\* Mutant: the wait that expires_after aborts is not started again.
RearmSilent == waits' = waits \ {timer} /\ UNCHANGED <<timer, made, due>>

\* expires_after and async_wait on the same timer object.
Rearm == waits' = waits \cup {timer} /\ UNCHANGED <<timer, made, due>>

MaybeResetDelayedPop(ps, join) ==
    IF Heads(ps) < cfg.min THEN Disarm
    ELSE IF cfg.rearm /\ join THEN Rearm ELSE UNCHANGED timerVars

Full(ps) == cfg.instant /\ cfg.cap > 0 /\ Heads(ps) >= cfg.cap

\* OnQueueChanged with the queue now ps.
OnQueueChanged(ps, join) ==
    IF join /\ Full(ps)
    THEN Disarm /\ pop' = "elapsed"
    ELSE IF timer # 0
         THEN MaybeResetDelayedPop(ps, join) /\ UNCHANGED pop
         ELSE pop' = "delay" /\ UNCHANGED timerVars

\* A timer's wait is over; its handler is queued.
Expire(t) ==
    /\ pop = "no" /\ t \in waits
    /\ waits' = waits \ {t}
    /\ due' = due \cup {t}
    /\ UNCHANGED <<cfg, class, queueVars, timer, made, pop, matchVars, moves, reloads>>

\* The handler: nothing, unless its timer is still the one of delayed_pop.
Fire(t) ==
    /\ pop = "no" /\ t \in due
    /\ due' = due \ {t}
    /\ IF cfg.rule # "none" /\ timer = t
       THEN timer' = 0 /\ pop' = "elapsed"
       ELSE UNCHANGED <<timer, pop>>
    /\ UNCHANGED <<cfg, class, queueVars, made, waits, matchVars, moves, reloads>>

-----------------------------------------------------------------------------
(* Joining and leaving the queue.                                           *)

\* Each thing a player does counts towards the bound on them.
Moves == moves < cfg.moves /\ moves' = moves + 1

Others(p) == Keep(parties, ToSet(parties) \ {p})

\* AddParty, after the checks of MATCH_JOIN: blocked and oversized teams are
\* refused.  A party that queues again goes to the end.  Nobody asks whether its
\* players are in a match; they are in no other party, see QueueMatchesTeams of
\* TeamService.
AddParty(p) ==
    /\ Moves /\ pop = "no" /\ cfg.rule # "none"
    /\ Ids(Members(p)) \subseteq cfg.crowd
    /\ p \in ToSet(parties) \/ Ids(Members(p)) \cap Queued = {}
    /\ p.team => cfg.team # "block" /\ Size(p) <= cfg.cap
    /\ parties' = Append(Others(p), p)
    /\ OnQueueChanged(parties', TRUE)
    /\ UNCHANGED <<cfg, class, solo, matchVars, reloads>>

\* The whole party goes, and nothing is evaluated.
Dequeue(p) ==
    /\ parties' = Others(p)
    /\ IF timer # 0 THEN MaybeResetDelayedPop(parties', FALSE) ELSE UNCHANGED timerVars

\* RemoveParty, for teams.
RemoveParty(p) ==
    /\ Moves /\ pop = "no" /\ p \in ToSet(parties) /\ p.team
    /\ Dequeue(p)
    /\ UNCHANGED <<cfg, class, solo, pop, matchVars, reloads>>

OneOf(S) == IF S = {} THEN {0} ELSE S

\* The pending matches that name i, and the instances with a reservation for him.
\* One that is over may have kept his until the provider looks for it.
Pending(i)   == {m \in DOMAIN match : match[m].state = "pending" /\ Player(i) \in DOMAIN match[m].tf}
Reserving(i) == {m \in DOMAIN match : \/ match[m].state = "ready" /\ Player(i) \in DOMAIN match[m].tf
                                     \/ match[m].state = "over"}

\* RemovePlayer: his party leaves the queue, he leaves one pending match and one
\* reservation.  A kick leaves his invitation, MATCH_LEAVE and a disconnect do not.
RemovePlayer(i) ==
    /\ Moves /\ pop = "no"
    /\ \/ \E p \in ToSet(parties) : i \in Ids(Members(p)) /\ Dequeue(p)
       \/ i \notin Queued /\ UNCHANGED <<parties, timerVars>>
    /\ \E m \in OneOf(Pending(i)), n \in OneOf(Reserving(i)) :
          match' = [k \in DOMAIN match |-> IF k \in {m, n}
                       THEN [match[k] EXCEPT !.tf = Without(@, {Player(i)})] ELSE match[k]]
    /\ invite' \in {invite, [invite EXCEPT ![i] = NoInvite]}
    /\ UNCHANGED <<cfg, class, solo, pop, fair, reloads>>

\* -togglesolomode while queued alone.
SetSoloLock(i) ==
    /\ Moves /\ pop = "no"
    /\ \E k \in DOMAIN parties : parties[k] = Solo(i)
    /\ solo' = IF i \in solo THEN solo \ {i} ELSE solo \cup {i}
    /\ OnQueueChanged(parties, FALSE)
    /\ UNCHANGED <<cfg, class, parties, matchVars, reloads>>

-----------------------------------------------------------------------------
(* TryPop.                                                                  *)

Eligible ==
    Keep(parties, {p \in ToSet(parties) : cfg.verified => Ids(Members(p)) \subseteq Verified})

Seat(q, kind) == [id |-> q.id, class |-> q.class, seat |-> kind]

\* The seats of a match as the instance provider counts them: a player who is
\* expected where he has arrived has two.
Seats(m) ==
    LET live == match[m].live
        tf   == match[m].tf IN
    [s \in {Seat(q, "live") : q \in DOMAIN live} \cup {Seat(q, "reserved") : q \in DOMAIN tf} |->
        IF s.seat = "live" THEN live[Player(s.id)] ELSE tf[Player(s.id)]]

Occupied(m) == Cardinality(DOMAIN Seats(m))

\* The instance provider: the READY instances that have players, arrived or
\* expected, and a seat under the cap the queue has now.
Joinable ==
    {m \in DOMAIN match : /\ match[m].state = "ready" /\ Occupied(m) > 0
                          /\ cfg.cap > 0 => Occupied(m) < cfg.cap}

Running(m) ==
    [id |-> m, tf |-> Seats(m), access |-> match[m].access,
     free |-> IF cfg.cap > 0 THEN cfg.cap - Occupied(m) ELSE -1]

\* Instances whose players have not arrived come last.
Lined(ids) == \A j, k \in DOMAIN ids :
                 j < k /\ DOMAIN match[ids[k]].live # {} => DOMAIN match[ids[j]].live # {}

Provided == {[k \in DOMAIN ids |-> Running(ids[k])] : ids \in {s \in SetToSeqs(Joinable) : Lined(s)}}

Claims == IF cfg.fair THEN fair ELSE [i \in Id |-> NoRecord]

Result(insts) == IF parties = <<>> \/ Eligible = <<>> THEN NoResult
                 ELSE Evaluate(cfg, Eligible, insts, Claims, solo)

\* Mutant: with or without room for it.
CoalescesAny(r, m) ==
    /\ r.inst = 0 /\ r.access = "OPEN"
    /\ match[m].state = "pending" /\ match[m].access = "OPEN"

\* An OPEN pending match with room for the whole result.
Coalesces(r, m) ==
    /\ r.inst = 0 /\ r.access = "OPEN"
    /\ match[m].state = "pending" /\ match[m].access = "OPEN"
    /\ match[m].cap > 0 => Cardinality(DOMAIN match[m].tf) + Heads(r.taken) <= match[m].cap

Merge(a, b) == [q \in DOMAIN a \cup DOMAIN b |-> IF q \in DOMAIN a THEN a[q] ELSE b[q]]

\* 'excluded' for the eligible players a new match does not take.
RecordExclusions(r) ==
    IF ~cfg.fair \/ r.inst # 0 THEN fair
    ELSE [i \in Id |-> IF i \in Ids(Players(Eligible)) \ Ids(Players(r.taken))
                       THEN [fair[i] EXCEPT !.excluded = @ + 1, !.lifetime = @ + 1]
                       ELSE fair[i]]

\* 'played', once per player and instance, and 'defender' for side 2 of a
\* Double Agent match.
Credits == cfg.fair /\ cfg.rule # "none"

\* Mutant: 'played' takes one exclusion back instead of all.
RecordMatchEntryByOne(m, tf) ==
    [i \in Id |-> IF i \in Ids(DOMAIN tf) \ match[m].credited
                  THEN [fair[i] EXCEPT !.excluded = @ - 1, !.played = @ + 1]
                  ELSE fair[i]]

RecordMatchEntry(m, tf) ==
    LET new == Ids(DOMAIN tf) \ match[m].credited
        defends(i) == cfg.rule = "agent" /\ \E q \in DOMAIN tf : q.id = i /\ tf[q] = 2
        now == 1 + Max({fair[i].lastDefended : i \in Id}) IN
    IF ~Credits THEN fair
    ELSE [i \in Id |->
            IF i \notin new THEN fair[i]
            ELSE [fair[i] EXCEPT !.excluded = 0, !.played = @ + 1,
                                 !.defended = IF defends(i) THEN @ + 1 ELSE @,
                                 !.lastDefended = IF defends(i) THEN now ELSE @]]

\* MATCH_INVITATION to all of tf: the session forgets the one before.
Invited(m, tf) ==
    [i \in Id |-> IF Player(i) \in DOMAIN tf THEN [match |-> m, side |-> tf[Player(i)]]
                  ELSE invite[i]]

\* DeliverMatchCancelled to each of S: the invitation is forgotten and c[i], one of his
\* reservations, is removed.
Releases(S)  == {c \in [S -> DOMAIN match \cup {0}] : \A i \in S : c[i] \in OneOf(Reserving(i))}
Released(c)  == [m \in DOMAIN match |->
                    [match[m] EXCEPT !.tf = Without(@, {Player(i) : i \in {j \in DOMAIN c : c[j] = m}})]]
Cancelled(c) == [i \in Id |-> IF i \in DOMAIN c THEN NoInvite ELSE invite[i]]

Credited(m, tf) == match[m].credited \cup IF Credits THEN Ids(DOMAIN tf) ELSE {}

\* Mutant: only the first of the taken parties leaves the queue.
CommitFirst(r) ==
    /\ parties' = Others(r.taken[1])
    /\ pop' = IF parties' = <<>> THEN "no" ELSE pop
    /\ UNCHANGED <<cfg, class, solo, timerVars, moves, reloads>>

\* The taken parties leave the queue and TryPop is called again if any is left.
Commit(r) ==
    /\ parties' = Keep(parties, ToSet(parties) \ ToSet(r.taken))
    /\ pop' = IF parties' = <<>> THEN "no" ELSE pop
    /\ UNCHANGED <<cfg, class, solo, timerVars, moves, reloads>>

Fresh(r)    == r.taken # <<>> /\ r.inst = 0
BelowMin(r) == Fresh(r) /\ Heads(r.taken) < cfg.min
Delayed(r)  == Fresh(r) /\ pop = "delay" /\ r.access # "PARTY_LOCKED" /\ cfg.delay

PopNothing(r) ==
    /\ r.taken = <<>> \/ BelowMin(r)
    /\ pop' = "no"
    /\ UNCHANGED <<cfg, class, queueVars, timerVars, matchVars, moves, reloads>>

\* The pop-delay gate: a timer is armed, unless one is running.
PopLater(r) ==
    /\ r.taken # <<>> /\ ~BelowMin(r) /\ Delayed(r)
    /\ pop' = "no"
    /\ IF timer # 0 THEN UNCHANGED timerVars
       ELSE /\ made' = made + 1
            /\ timer' = made + 1
            /\ waits' = waits \cup {made + 1}
            /\ UNCHANGED due
    /\ UNCHANGED <<cfg, class, queueVars, matchVars, moves, reloads>>

Now(r) == r.taken # <<>> /\ ~BelowMin(r) /\ ~Delayed(r)

\* Whoever is expected already keeps his side and is invited to the new one.
PopDropIn(r) ==
    /\ Now(r) /\ r.inst # 0
    /\ match' = [match EXCEPT ![r.inst].tf = Merge(@, r.tf),
                              ![r.inst].credited = Credited(r.inst, r.tf)]
    /\ fair' = RecordMatchEntry(r.inst, r.tf)
    /\ invite' = Invited(r.inst, r.tf)
    /\ Commit(r)

PopCoalesce(r) ==
    /\ Now(r)
    /\ \E m \in DOMAIN match :
          Coalesces(r, m) /\ match' = [match EXCEPT ![m].tf = Merge(@, r.tf)]
    /\ fair' = RecordExclusions(r)
    /\ Commit(r)
    /\ UNCHANGED invite

\* The instance is spawned, unless there is no port, which nobody is told, or no
\* process, which cancels the match.
PopFresh(r) ==
    /\ Now(r) /\ r.inst = 0
    /\ \A m \in DOMAIN match : ~Coalesces(r, m)
    /\ \/ match' \in {match, Append(match, Formed(r))} /\ UNCHANGED invite
       \/ \E c \in Releases(Ids(DOMAIN r.tf)) : match' = Released(c) /\ invite' = Cancelled(c)
    /\ fair' = RecordExclusions(r)
    /\ Commit(r)

TryPop ==
    /\ pop # "no"
    /\ \E r \in {Result(insts) : insts \in Provided} :
          PopNothing(r) \/ PopLater(r) \/ PopDropIn(r) \/ PopCoalesce(r) \/ PopFresh(r)

-----------------------------------------------------------------------------
(* What happens to a match; InstanceLifecycle has the detail.               *)

\* INSTANCE_READY consumes the pending match: its players are invited, and a queue
\* with CoopMatchRule reserves their seats.
InstanceReady(m) ==
    /\ pop = "no" /\ match[m].state = "pending"
    /\ match' = [match EXCEPT ![m].state = "ready", ![m].credited = Credited(m, match[m].tf),
                              ![m].tf = IF cfg.rule = "coop" THEN @ ELSE Nobody]
    /\ fair' = RecordMatchEntry(m, match[m].tf)
    /\ invite' = Invited(m, match[m].tf)
    /\ UNCHANGED <<cfg, class, queueVars, timerVars, pop, moves, reloads>>

\* MATCH_ACCEPT and the ACK of the registration, in one; PlayerRegistration has both.
Arrive(i) ==
    /\ Moves /\ pop = "no" /\ invite[i] # NoInvite /\ match[invite[i].match].state = "ready"
    /\ match' = [match EXCEPT ![invite[i].match].tf = Without(@, {Player(i)}),
                              ![invite[i].match].live = Put(@, {Player(i)}, invite[i].side)]
    /\ invite' = [invite EXCEPT ![i] = NoInvite]
    /\ UNCHANGED <<cfg, class, queueVars, timerVars, pop, fair, reloads>>

\* A registration that fails, is refused or times out gives the seat back; going to the
\* character selection or out of a mission only forgets the invitation.
TurnDown(i) ==
    /\ Moves /\ pop = "no" /\ invite[i] # NoInvite
    /\ match' \in {match, [match EXCEPT ![invite[i].match].tf = Without(@, {Player(i)})]}
    /\ invite' = [invite EXCEPT ![i] = NoInvite]
    /\ UNCHANGED <<cfg, class, queueVars, timerVars, pop, fair, reloads>>

\* PLAYER_LEFT: the last one who had arrived stops the instance, even if others
\* are expected, and a queue with backfill is evaluated.
PlayerLeft(m, q) ==
    /\ Moves /\ pop = "no" /\ q \in DOMAIN match[m].live
    /\ match' = IF DOMAIN match[m].live = {q}
                THEN [match EXCEPT ![m] = Over(@.access)]
                ELSE [match EXCEPT ![m].live = Without(@, {q})]
    /\ pop' = IF cfg.backfill /\ cfg.rule # "none" THEN "delay" ELSE pop
    /\ UNCHANGED <<cfg, class, queueVars, timerVars, invite, fair, reloads>>

\* The mission ends, or the instance stops or dies: a pending match is cancelled.
InstanceGone(m) ==
    /\ pop = "no" /\ match[m].state # "over"
    /\ \E c \in Releases(IF match[m].state = "pending" THEN Ids(DOMAIN match[m].tf) ELSE {}) :
          /\ match' = [Released(c) EXCEPT ![m] = Over(@.access)]
          /\ invite' = Cancelled(c)
    /\ UNCHANGED <<cfg, class, queueVars, timerVars, pop, fair, moves, reloads>>

\* ReloadQueues: a queue that stays keeps its parties and its timer, one that is
\* gone loses both; a queue with waiters and no timer is evaluated.
ReloadQueues(c) ==
    /\ pop = "no" /\ reloads < cfg.reloads
    /\ c.crowd = cfg.crowd /\ c.moves = cfg.moves /\ c.reloads = cfg.reloads
    /\ reloads' = reloads + 1
    /\ cfg' = c
    /\ parties' = IF c.rule = "none" THEN <<>> ELSE parties
    /\ IF c.rule = "none" THEN Disarm ELSE UNCHANGED timerVars
    /\ pop' = IF parties' # <<>> /\ timer = 0 THEN "delay" ELSE "no"
    /\ UNCHANGED <<class, solo, matchVars, moves>>

Next ==
    \/ TryPop
    \/ \E i \in Id : \/ AddParty(Solo(i)) \/ SetSoloLock(i) \/ RemovePlayer(i)
                     \/ Arrive(i) \/ TurnDown(i)
    \/ \E t \in Teams : AddParty(Team(t))
    \/ \E p \in ToSet(parties) : RemoveParty(p)
    \/ \E t \in waits : Expire(t)
    \/ \E t \in due : Fire(t)
    \/ \E m \in DOMAIN match :
          \/ InstanceReady(m) \/ InstanceGone(m)
          \/ \E q \in DOMAIN match[m].live : PlayerLeft(m, q)
    \/ \E c \in Config : ReloadQueues(c)

Spec == Init /\ [][Next]_vars

-----------------------------------------------------------------------------
(* Properties.                                                              *)

\* The types of the variables; a count of FairnessStats never wraps below zero.
TypeOK ==
    /\ cfg \in Config /\ class \in Lineups
    /\ parties \in Seq({Solo(i) : i \in Id} \cup {Team(t) : t \in Teams})
    /\ solo \subseteq Id
    /\ made \in Nat /\ timer \in 0 .. made
    /\ waits \subseteq 1 .. made /\ due \subseteq 1 .. made
    /\ pop \in {"no", "delay", "elapsed"}
    /\ \A m \in DOMAIN match :
          /\ match[m].state \in {"pending", "ready", "over"}
          /\ \A a \in {match[m].tf, match[m].live} :
                 DOMAIN a \subseteq {Player(i) : i \in Id} /\ \A q \in DOMAIN a : a[q] \in {1, 2}
          /\ match[m].access \in {"OPEN", "PARTY_LOCKED", "SEALED", "BACKFILL_ONLY"}
          /\ match[m].cap \in Nat /\ match[m].credited \subseteq Id
    /\ invite \in [Id -> [match : {0} \cup DOMAIN match, side : {1, 2}]]
    /\ \A i \in Id : \A f \in DOMAIN NoRecord : fair[i][f] \in Nat
    /\ moves \in Nat /\ reloads \in Nat

\* A queue with a delayed pop has a wait under way for it or a handler on its
\* way, whatever joins, leaves, re-arms and reloads came in between: the pop that
\* everyone in the queue waits for is never lost.
TimerBacked == timer # 0 => timer \in waits \cup due

Added(m) == DOMAIN match'[m].tf \ IF m \in DOMAIN match THEN DOMAIN match[m].tf ELSE {}

Popped   == ToSet(parties) \ ToSet(parties')

\* "The party is atomic from here on: it pops, coalesces, and dequeues as a unit":
\* whoever is put into a match has left the queue, and so has his whole party, which is
\* in that match, whatever matches its members were in before.
PartiesAtomic ==
    [][\A m \in DOMAIN match' : Added(m) # {} =>
          /\ Ids(Added(m)) \cap Ids(Players(parties')) = {}
          /\ \A p \in Popped : Members(p) \subseteq DOMAIN match'[m].tf]_vars

\* Players are put into a match only up to its cap while it is pending and up to
\* the cap of the queue once it runs; whole parties, several pops, players who queue
\* again and a cap changed by a reload do not overfill it.  A PARTY_LOCKED match has
\* the size of its parties.
AddedWithinCap ==
    [][\A m \in DOMAIN match' :
          LET cap == IF match'[m].state = "ready" THEN cfg.cap ELSE match'[m].cap IN
          Added(m) # {} /\ match'[m].access # "PARTY_LOCKED" /\ cap > 0
              => Occupied(m)' <= cap]_vars

\* Match m is new, or nobody who is popped is expected there already.
AllNew(m) == m \in DOMAIN match => \A p \in Popped : Members(p) \cap DOMAIN match[m].tf = {}

\* What a queue with CoopMatchRule and strict_class_balance pops has equally many of
\* each class on both sides, in whatever order the players joined, unless teams must
\* stay whole; so do those who join a pending match and were not in it.
StrictSidesEqual ==
    [][\A m \in DOMAIN match' :
          cfg.rule = "coop" /\ cfg.force = "pvp" /\ cfg.strict /\ cfg.side # "required"
              /\ match'[m].state = "pending" /\ match'[m].access # "PARTY_LOCKED" /\ AllNew(m)
              => ClassImbalance([q \in Added(m) |-> match'[m].tf[q]]) = 0]_vars

\* Whoever enters a running BACKFILL_ONLY match makes its sides, of players who arrived
\* or are expected, more equal, or leaves equal sides equal; unless one of those who are
\* popped is expected there already and keeps his side.
BackfillRepairs ==
    [][\A m \in DOMAIN match :
          match'[m].state = "ready" /\ match[m].access = "BACKFILL_ONLY"
              /\ Added(m) # {} /\ AllNew(m)
              => \/ ClassImbalance(Seats(m)') < ClassImbalance(Seats(m))
                 \/ ClassImbalance(Seats(m)') = 0]_vars

\* What a queue with CoopMatchRule and strict_class_balance pops does not pass over a
\* solo player for one of the same class who was passed over less often, unless he
\* asked for a match of his own.
ExclusionFair ==
    [][\A m \in DOMAIN match' :
          cfg.rule = "coop" /\ cfg.force = "pvp" /\ cfg.strict
              /\ match'[m].state = "pending" /\ match'[m].access # "PARTY_LOCKED"
              /\ Added(m) # {}
              => LET solos == {p \in ToSet(Eligible) : Size(p) = 1 /\ ~p.team}
                     left  == solos \cap ToSet(parties') IN
                 \A p \in solos \ left, q \in left :
                    p.members[1].class = q.members[1].class
                        => Exclusions(q, Claims) <= Exclusions(p, Claims)]_vars

\* A Double Agent match has the number of defenders its size asks for; at most
\* one party is on both sides, and only if no set of whole parties fills the
\* defenders' seats.
DefendersExact ==
    [][\A m \in DOMAIN match' :
          cfg.rule = "agent" /\ match'[m].state = "pending" /\ Added(m) # {}
              => LET tf       == match'[m].tf
                     seats    == Cardinality(DOMAIN tf) - Attackers[Cardinality(DOMAIN tf)]
                     split    == {p \in Popped : Cardinality({tf[q] : q \in Members(p)}) = 2} IN
                 /\ Cardinality(Side(tf, 2)) = seats
                 /\ Cardinality(split) <= 1
                 /\ split # {} => \A S \in SUBSET Popped :
                                     Cardinality(UNION {Members(p) : p \in S}) # seats]_vars

\* Of two solo players in a Double Agent match the one who defended more recently
\* does not defend while the other attacks.
RotationFair ==
    [][\A m \in DOMAIN match' :
          cfg.rule = "agent" /\ cfg.fair /\ match'[m].state = "pending"
              => \A p, q \in Added(m) :
                    /\ Solo(p.id) \in Popped /\ Solo(q.id) \in Popped
                    /\ match'[m].tf[p] = 2 /\ match'[m].tf[q] = 1
                    => fair[p.id].lastDefended <= fair[q.id].lastDefended]_vars

\* In a queue of solo players the class-equal subset is as large as any under the
\* cap: "Exact for solo-only pools".
SubsetExact ==
    cfg.strict /\ pop # "no" /\ (\A k \in DOMAIN parties : Size(parties[k]) = 1)
        => LET chosen == SelectClassEqualSubset(parties, cfg.cap, Claims)
               equal(S) == \A c \in Classes : Count(S, c) % 2 = 0 IN
           \A S \in SUBSET Players(parties) :
              equal(S) /\ (cfg.cap > 0 => Cardinality(S) <= cfg.cap)
                  => Cardinality(S) <= Heads(chosen)

\* Solo players who enter a match of a queue with the Balanced policy, "place on
\* the smaller of {team1, team2} by headcount", leave sides that are one apart at
\* most, or no further apart than they were.
NewcomersEven ==
    [][\A m \in DOMAIN match' :
          cfg.force = "balanced" /\ cfg.team = "block" /\ Added(m) # {}
              => \/ SizeGap(Seats(m)') <= 1
                 \/ m \in DOMAIN match /\ SizeGap(Seats(m)') <= SizeGap(Seats(m))]_vars
=============================================================================
