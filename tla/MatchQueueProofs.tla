-------------------------- MODULE MatchQueueProofs --------------------------
(***************************************************************************)
(* That a delayed pop is never lost, that the queue and its matches stay    *)
(* well formed, that parties are popped whole, that no pop overfills a      *)
(* match, that a backfill mends the sides of a running one, that what a     *)
(* strict queue pops has equal sides and passes over nobody for a player    *)
(* with less of a claim, and that a Double Agent match has its defenders in *)
(* turn, for every configuration, any number of players, who may queue      *)
(* again while a match waits for them, and any sequence of reloads.         *)
(***************************************************************************)
EXTENDS MatchQueue, MatchRulesProofs

-----------------------------------------------------------------------------
(* The delayed pop.                                                         *)

\* A handler that finds its queue gone leaves delayed_pop alone, which is right
\* only because a queue that is gone has none and nobody can wait in it.
GoneIsEmpty == cfg.rule = "none" => timer = 0 /\ parties = <<>>

TimerInv == TimerBacked /\ GoneIsEmpty

\* A queue that is gone has no result.
LEMMA GoneNoResult ==
    ASSUME GoneIsEmpty, cfg.rule = "none", NEW r, r \in {Result(insts) : insts \in Provided}
    PROVE  r.taken = <<>>
  BY DEF GoneIsEmpty, Result, NoResult

\* Disarming and re-arming keep the wait that the timer needs.
LEMMA DisarmKeeps ==
    ASSUME TimerBacked, Disarm
    PROVE  TimerBacked'
  BY DEF TimerBacked, Disarm

\* Re-arming keeps a wait.
LEMMA RearmKeeps ==
    ASSUME TimerBacked, Rearm
    PROVE  TimerBacked'
  BY DEF TimerBacked, Rearm

\* So does leaving the timer alone.
LEMMA SameTimerKeeps ==
    ASSUME TimerBacked, UNCHANGED timerVars
    PROVE  TimerBacked'
  BY DEF TimerBacked, timerVars

\* MaybeResetDelayedPop and OnQueueChanged.
LEMMA ResetKeeps ==
    ASSUME TimerBacked, NEW ps, NEW join, MaybeResetDelayedPop(ps, join)
    PROVE  TimerBacked'
  BY DisarmKeeps, RearmKeeps, SameTimerKeeps DEF MaybeResetDelayedPop

\* OnQueueChanged.
LEMMA ChangedKeeps ==
    ASSUME TimerBacked, NEW ps, NEW join, OnQueueChanged(ps, join)
    PROVE  TimerBacked'
  BY DisarmKeeps, ResetKeeps, SameTimerKeeps DEF OnQueueChanged

\* One TryPop, whatever the rule returns.
LEMMA PopKeeps ==
    ASSUME TimerInv, TryPop
    PROVE  TimerInv'
  <1> PICK r \in {Result(insts) : insts \in Provided} :
          PopNothing(r) \/ PopLater(r) \/ PopDropIn(r) \/ PopCoalesce(r) \/ PopFresh(r)
    BY DEF TryPop
  <1>r. cfg.rule = "none" => r.taken = <<>>
    BY GoneNoResult DEF TimerInv
  <1>1. CASE PopNothing(r)
    BY <1>1, SameTimerKeeps DEF PopNothing, TimerInv, GoneIsEmpty, timerVars, queueVars
  <1>2. CASE PopLater(r)
    <2>1. TimerBacked'
      BY <1>2, SameTimerKeeps DEF PopLater, TimerInv, TimerBacked
    <2>2. GoneIsEmpty'
      BY <1>2, <1>r DEF PopLater, GoneIsEmpty
    <2> QED BY <2>1, <2>2 DEF TimerInv
  <1>3. CASE Now(r) /\ Commit(r)
    <2>1. TimerBacked'
      BY <1>3, SameTimerKeeps DEF Commit, TimerInv
    <2>2. GoneIsEmpty'
      BY <1>3, <1>r DEF Commit, Now, GoneIsEmpty
    <2> QED BY <2>1, <2>2 DEF TimerInv
  <1> QED
    BY <1>1, <1>2, <1>3 DEF PopDropIn, PopCoalesce, PopFresh

\* The queue's own operations.
LEMMA QueueKeeps ==
    ASSUME TimerInv,
           \/ \E p : AddParty(p)
           \/ \E p : RemoveParty(p)
           \/ \E i : SetSoloLock(i) \/ RemovePlayer(i)
    PROVE  TimerInv'
  <1>0. ASSUME NEW p \in ToSet(parties), Dequeue(p), cfg' = cfg
        PROVE  TimerInv'
    <2>1. cfg.rule # "none"
      BY <1>0 DEF TimerInv, GoneIsEmpty, ToSet
    <2> QED
      BY <1>0, <2>1, ResetKeeps, SameTimerKeeps DEF Dequeue, TimerInv, GoneIsEmpty
  <1>1. CASE \E p : AddParty(p)
    BY <1>1, ChangedKeeps DEF AddParty, TimerInv, GoneIsEmpty
  <1>2. ASSUME NEW p, RemoveParty(p)
        PROVE  TimerInv'
    BY <1>0, <1>2 DEF RemoveParty
  <1>3. ASSUME NEW i, SetSoloLock(i)
        PROVE  TimerInv'
    <2>1. cfg.rule # "none"
      BY <1>3 DEF SetSoloLock, TimerInv, GoneIsEmpty
    <2> QED
      BY <1>3, <2>1, ChangedKeeps DEF SetSoloLock, TimerInv, GoneIsEmpty
  <1>4. ASSUME NEW i, RemovePlayer(i)
        PROVE  TimerInv'
    <2>1. CASE \E p \in ToSet(parties) : Dequeue(p)
      BY <1>0, <1>4, <2>1 DEF RemovePlayer
    <2>2. CASE UNCHANGED <<parties, timerVars>>
      BY <1>4, <2>2, SameTimerKeeps DEF RemovePlayer, TimerInv, GoneIsEmpty, timerVars
    <2> QED BY <1>4, <2>1, <2>2 DEF RemovePlayer
  <1> QED BY <1>1, <1>2, <1>3, <1>4

\* Every step keeps the timer backed.
LEMMA TimerInvStep ==
    ASSUME TimerInv, [Next]_vars
    PROVE  TimerInv'
  <1>1. CASE TryPop
    BY <1>1, PopKeeps
  <1>2. CASE \/ \E i \in Id : AddParty(Solo(i)) \/ SetSoloLock(i) \/ RemovePlayer(i)
             \/ \E t \in Teams : AddParty(Team(t))
             \/ \E p \in ToSet(parties) : RemoveParty(p)
    BY <1>2, QueueKeeps
  <1>3. ASSUME NEW t \in waits, Expire(t)
        PROVE  TimerInv'
    BY <1>3 DEF Expire, TimerInv, TimerBacked, GoneIsEmpty, queueVars
  <1>4. ASSUME NEW t \in due, Fire(t)
        PROVE  TimerInv'
    BY <1>4 DEF Fire, TimerInv, TimerBacked, GoneIsEmpty, queueVars
  <1>5. ASSUME \/ \E m : InstanceReady(m) \/ InstanceGone(m) \/ \E q : PlayerLeft(m, q)
               \/ \E i : Arrive(i) \/ TurnDown(i)
        PROVE  TimerInv'
    BY <1>5, SameTimerKeeps
       DEF InstanceReady, InstanceGone, PlayerLeft, Arrive, TurnDown, TimerInv, GoneIsEmpty,
           queueVars, timerVars
  <1>6. ASSUME NEW c \in Config, ReloadQueues(c)
        PROVE  TimerInv'
    <2>1. TimerBacked'
      BY <1>6, DisarmKeeps, SameTimerKeeps DEF ReloadQueues, TimerInv
    <2>2. GoneIsEmpty'
      BY <1>6 DEF ReloadQueues, GoneIsEmpty, Disarm
    <2> QED BY <2>1, <2>2 DEF TimerInv
  <1>7. CASE UNCHANGED vars
    BY <1>7 DEF vars, queueVars, timerVars, TimerInv, TimerBacked, GoneIsEmpty
  <1> QED
    BY <1>1, <1>2, <1>3, <1>4, <1>5, <1>6, <1>7 DEF Next

\* Whatever players, timers, instances and reloads do, a queue whose delayed_pop
\* is set has a wait under way or a handler on its way.
THEOREM TimerBackedAlways == Spec => []TimerBacked
  <1>1. Init => TimerInv
    BY DEF Init, TimerInv, TimerBacked, GoneIsEmpty
  <1>2. TimerInv /\ [Next]_vars => TimerInv'
    BY TimerInvStep
  <1>3. TimerInv => TimerBacked
    BY DEF TimerInv
  <1> QED BY <1>1, <1>2, <1>3, PTL DEF Spec

-----------------------------------------------------------------------------
(* The types.                                                               *)

\* Everyone who can be in a party, and every party.
AllPlayers == {Player(i) : i \in Id}
AllParties == {Solo(i) : i \in Id} \cup {Team(t) : t \in Teams}

\* The seats they can have in a match, and whom the rules are told of.
SeatsOf(kind) == {Seat(q, kind) : q \in AllPlayers}
AllSeats      == SeatsOf("live") \cup SeatsOf("reserved")
Everyone      == AllPlayers \cup AllSeats

\* Matches of players in Q.
MatchOf(Q) == [state : {"pending", "ready", "over"}, tf : SideMaps(Q), live : SideMaps(Q),
               access : Access, cap : Nat, credited : SUBSET Id]

\* An invitation is to a match that was formed.
Invitation == {NoInvite} \cup [match : DOMAIN match, side : {1, 2}]

\* FairnessStats.
RecordType ==
    [excluded : Nat, lifetime : Nat, played : Nat, lastDefended : Nat, defended : Nat]

\* TypeOK, with matches and records as a whole, and that nobody waits in a queue that
\* is gone: Evaluate has no case for it.
TypeInv ==
    /\ cfg \in Config /\ class \in Lineups
    /\ parties \in Seq(AllParties)
    /\ solo \subseteq Id
    /\ made \in Nat /\ timer \in 0 .. made
    /\ waits \subseteq 1 .. made /\ due \subseteq 1 .. made
    /\ pop \in {"no", "delay", "elapsed"}
    /\ match \in Seq(MatchOf(AllPlayers))
    /\ invite \in [Id -> Invitation]
    /\ fair \in [Id -> RecordType]
    /\ moves \in Nat /\ reloads \in Nat
    /\ cfg.rule = "none" => parties = <<>>

\* Players are finitely many and known by their ids.
LEMMA AllPlayersType ==
    /\ IsFiniteSet(AllPlayers)
    /\ Ids(AllPlayers) \subseteq Id
    /\ \A i \in Id : Player(i) \in AllPlayers
    /\ \A q \in AllPlayers : q.id \in Id /\ Player(q.id) = q
  <1>1. IsFiniteSet(Id)
    BY QueueAssumption
  <1>2. IsFiniteSet(AllPlayers)
    <2> DEFINE F == [i \in Id |-> Player(i)]
    <2>1. F \in Surjection(Id, AllPlayers)
      BY DEF AllPlayers, Surjection
    <2> QED BY <1>1, <2>1, FS_Surjection DEF ExistsSurjection
  <1> QED BY <1>2 DEF AllPlayers, Ids, Player

\* Seats are finitely many, and no player is one.
LEMMA EveryoneType ==
    /\ IsFiniteSet(Everyone)
    /\ AllPlayers \cap AllSeats = {}
  <1>1. ASSUME NEW kind PROVE IsFiniteSet(SeatsOf(kind))
    <2> DEFINE F == [q \in AllPlayers |-> Seat(q, kind)]
    <2>1. F \in Surjection(AllPlayers, SeatsOf(kind))
      BY DEF SeatsOf, Surjection
    <2> QED BY <2>1, AllPlayersType, FS_Surjection DEF ExistsSurjection
  <1>2. IsFiniteSet(Everyone)
    <2>1. IsFiniteSet(AllSeats)
      BY <1>1, FS_Union DEF AllSeats
    <2> QED BY <2>1, AllPlayersType, FS_Union DEF Everyone
  <1>3. ASSUME NEW i, NEW q, NEW kind PROVE Player(i) # Seat(q, kind)
    <2>1. "seat" \in DOMAIN Seat(q, kind) /\ "seat" \notin DOMAIN Player(i)
      BY DEF Seat, Player
    <2> QED BY <2>1
  <1> QED BY <1>2, <1>3 DEF AllPlayers, AllSeats, SeatsOf

\* Parties are parties of players.
LEMMA AllPartiesType ==
    /\ AllParties \subseteq PartyOf(AllPlayers)
    /\ AllParties \subseteq PartyOf(Everyone)
  <1>1. ASSUME NEW i \in Id PROVE Solo(i) \in PartyOf(AllPlayers)
    BY AllPlayersType DEF Solo, PartyOf
  <1>2. ASSUME NEW t \in Teams PROVE Team(t) \in PartyOf(AllPlayers)
    <2>1. t \in Seq(Id)
      BY QueueAssumption
    <2>2. DOMAIN t = 1 .. Len(t) /\ Len(t) \in Nat /\ \A k \in 1 .. Len(t) : t[k] \in Id
      BY <2>1
    <2>3. \A k \in 1 .. Len(t) : Player(t[k]) \in AllPlayers
      BY <2>2, AllPlayersType
    <2>4. [k \in DOMAIN t |-> Player(t[k])] \in [1 .. Len(t) -> AllPlayers]
      BY <2>2, <2>3
    <2>5. [k \in DOMAIN t |-> Player(t[k])] \in Seq(AllPlayers)
      BY <2>2, <2>4
    <2> QED BY <2>5 DEF Team, PartyOf
  <1>3. PartyOf(AllPlayers) \subseteq PartyOf(Everyone)
    <2>1. Seq(AllPlayers) \subseteq Seq(Everyone)
      BY DEF Everyone
    <2> QED BY <2>1 DEF PartyOf
  <1> QED BY <1>1, <1>2, <1>3 DEF AllParties

\* A match's players and the ones it credited.
LEMMA MatchType ==
    ASSUME TypeInv, NEW m \in DOMAIN match
    PROVE  /\ match[m] \in MatchOf(AllPlayers)
           /\ match[m].tf \in SideMaps(AllPlayers)
           /\ match[m].live \in SideMaps(AllPlayers)
           /\ match[m].credited \subseteq Id
           /\ Ids(DOMAIN match[m].tf) \subseteq Id
  <1>1. match[m] \in MatchOf(AllPlayers)
    BY DEF TypeInv
  <1>2. /\ match[m].tf \in SideMaps(AllPlayers) /\ match[m].credited \subseteq Id
        /\ match[m].live \in SideMaps(AllPlayers)
    BY <1>1 DEF MatchOf
  <1>3. DOMAIN match[m].tf \subseteq AllPlayers
    BY <1>2, SideMapType
  <1>4. Ids(DOMAIN match[m].tf) \subseteq Id
    BY <1>3, AllPlayersType DEF Ids
  <1> QED BY <1>1, <1>2, <1>4

\* The seats of a match: of those who have arrived and those who are expected.
LEMMA SeatsType ==
    ASSUME TypeInv, NEW m \in DOMAIN match
    PROVE  /\ Seats(m) \in SideMaps(AllSeats)
           /\ IsFiniteSet(DOMAIN Seats(m)) /\ Occupied(m) \in Nat
           /\ DOMAIN Seats(m) = {Seat(q, "live") : q \in DOMAIN match[m].live}
                                   \cup {Seat(q, "reserved") : q \in DOMAIN match[m].tf}
           /\ \A q \in DOMAIN match[m].live : Seats(m)[Seat(q, "live")] = match[m].live[q]
           /\ \A q \in DOMAIN match[m].tf : Seats(m)[Seat(q, "reserved")] = match[m].tf[q]
  <1> DEFINE live == match[m].live
             tf   == match[m].tf
             D    == {Seat(q, "live") : q \in DOMAIN live} \cup {Seat(q, "reserved") : q \in DOMAIN tf}
             val(s) == IF s.seat = "live" THEN live[Player(s.id)] ELSE tf[Player(s.id)]
  <1>0. /\ DOMAIN live \subseteq AllPlayers /\ live \in [DOMAIN live -> {1, 2}]
        /\ DOMAIN tf \subseteq AllPlayers /\ tf \in [DOMAIN tf -> {1, 2}]
    BY MatchType, SideMapType
  <1>1. Seats(m) = [s \in D |-> val(s)]
    BY DEF Seats
  <1> HIDE DEF live, tf
  <1>2. \A q \in DOMAIN live : val(Seat(q, "live")) = live[q] /\ live[q] \in {1, 2}
    BY <1>0, AllPlayersType DEF Seat
  <1>3. \A q \in DOMAIN tf : val(Seat(q, "reserved")) = tf[q] /\ tf[q] \in {1, 2}
    BY <1>0, AllPlayersType DEF Seat
  <1>4. D \subseteq AllSeats
    BY <1>0 DEF AllSeats, SeatsOf
  <1>5. \A s \in D : val(s) \in {1, 2}
    BY <1>2, <1>3
  <1>6. /\ \A q \in DOMAIN live : Seats(m)[Seat(q, "live")] = live[q]
        /\ \A q \in DOMAIN tf : Seats(m)[Seat(q, "reserved")] = tf[q]
    BY <1>1, <1>2, <1>3
  <1> HIDE DEF D, val
  <1>7. Seats(m) \in [D -> {1, 2}] /\ DOMAIN Seats(m) = D
    BY <1>1, <1>5
  <1>8. IsFiniteSet(D)
    <2>1. AllSeats \subseteq Everyone
      BY DEF Everyone
    <2> QED BY <1>4, <2>1, EveryoneType, FS_Subset
  <1>9. Occupied(m) \in Nat
    BY <1>7, <1>8, FS_CardinalityType DEF Occupied
  <1>10. Seats(m) \in SideMaps(AllSeats)
    BY <1>4, <1>7 DEF SideMaps
  <1> QED BY <1>6, <1>7, <1>8, <1>9, <1>10 DEF D, live, tf

\* What the instance provider returns is well formed, and READY.
LEMMA ProvidedType ==
    ASSUME TypeInv, NEW insts \in Provided
    PROVE  /\ insts \in Seq(InstOf(Everyone)) /\ InstIds(insts) \subseteq Joinable
           /\ \A k \in DOMAIN insts : insts[k] = Running(insts[k].id) /\ insts[k].id \in Joinable
  <1>1. PICK ids \in SetToSeqs(Joinable) : insts = [k \in DOMAIN ids |-> Running(ids[k])]
    BY DEF Provided
  <1>2. IsFiniteSet(Joinable)
    <2>1. Len(match) \in Nat /\ DOMAIN match = 1 .. Len(match)
      BY DEF TypeInv
    <2>2. IsFiniteSet(1 .. Len(match)) /\ Joinable \subseteq 1 .. Len(match)
      BY <2>1, Interval DEF Joinable
    <2> QED BY <2>2, FS_Subset
  <1>3. PICK n \in Nat : DOMAIN ids = 1 .. n /\ \A k \in 1 .. n : ids[k] \in Joinable
    <2>1. Cardinality(Joinable) \in Nat
      BY <1>2, FS_CardinalityType
    <2> QED BY <1>1, <2>1 DEF SetToSeqs
  <1>4. ASSUME NEW m \in Joinable PROVE Running(m) \in InstOf(Everyone)
    <2>1. m \in DOMAIN match /\ m \in Nat \ {0}
      BY DEF Joinable, TypeInv
    <2>2. match[m].access \in Access
      BY <2>1, MatchType DEF MatchOf
    <2>3. cfg.cap \in Nat
      BY QueueAssumption DEF TypeInv, ConfigType
    <2>4. Seats(m) \in SideMaps(AllSeats) /\ Occupied(m) \in Nat
      BY <2>1, SeatsType
    <2>5. Seats(m) \in SideMaps(Everyone)
      BY <2>4 DEF SideMaps, Everyone
    <2> QED BY <2>1, <2>2, <2>3, <2>4, <2>5 DEF Running, InstOf
  <1>5. insts \in [1 .. n -> InstOf(Everyone)]
    BY <1>1, <1>3, <1>4
  <1>6. InstIds(insts) \subseteq Joinable
    BY <1>1, <1>3 DEF InstIds, Running
  <1>7. \A k \in DOMAIN insts : insts[k] = Running(insts[k].id) /\ insts[k].id \in Joinable
    BY <1>1, <1>3 DEF Running
  <1> QED BY <1>5, <1>6, <1>7

\* The result of TryPop's evaluation: queued parties, sides for their players, a
\* joinable instance or a new one, and a seat for each.
LEMMA ResultGood ==
    ASSUME TypeInv, NEW insts \in Provided
    PROVE  /\ GoodResult(Result(insts), ToSet(parties), Joinable)
           /\ Seated(Result(insts), insts)
  <1> PICK r : r = Result(insts)
    OBVIOUS
  <1>2. CASE r = NoResult
    BY <1>2, NoResultGood, NoResultSeated
  <1>3. CASE r # NoResult
    <2>1. parties # <<>> /\ r = Evaluate(cfg, Eligible, insts, Claims, solo)
      BY <1>3 DEF Result
    <2>2. GoodConfig(cfg)
      <3>1. cfg \in ConfigType /\ cfg.rule # "none"
        BY <2>1, QueueAssumption DEF TypeInv
      <3> QED BY <3>1 DEF ConfigType, GoodConfig
    <2>3. parties \in Seq(PartyOf(Everyone))
      BY AllPartiesType DEF TypeInv
    <2>4. /\ Eligible \in Seq(PartyOf(Everyone))
          /\ ToSet(Eligible) \subseteq ToSet(parties)
      <3>1. \A k \in DOMAIN Eligible : Eligible[k] \in ToSet(parties)
        BY <2>3, KeepPart DEF Eligible
      <3> QED BY <2>3, <3>1, KeepPart DEF Eligible, ToSet
    <2>5. GoodResult(r, ToSet(Eligible), InstIds(insts)) /\ Seated(r, insts)
      BY <2>1, <2>2, <2>4, ProvidedType, EveryoneType, EvaluateGood
    <2>6. InstIds(insts) \subseteq Joinable
      BY ProvidedType
    <2>7. r.taken \in Seq(ToSet(parties))
      BY <2>4, <2>5 DEF GoodResult
    <2> QED BY <2>5, <2>6, <2>7 DEF GoodResult
  <1> QED BY <1>2, <1>3

\* The sides of two groups of players.
LEMMA MergeType ==
    ASSUME NEW Q, NEW a \in SideMaps(Q), NEW b \in SideMaps(Q)
    PROVE  Merge(a, b) \in SideMaps(Q)
  <1>1. /\ DOMAIN a \subseteq Q /\ a \in [DOMAIN a -> {1, 2}]
        /\ DOMAIN b \subseteq Q /\ b \in [DOMAIN b -> {1, 2}]
    BY SideMapType
  <1>2. \A q \in DOMAIN a \cup DOMAIN b : (IF q \in DOMAIN a THEN a[q] ELSE b[q]) \in {1, 2}
    BY <1>1
  <1>3. Merge(a, b) \in [DOMAIN a \cup DOMAIN b -> {1, 2}]
    BY <1>2 DEF Merge
  <1>4. DOMAIN a \cup DOMAIN b \in SUBSET Q
    BY <1>1
  <1> QED BY <1>3, <1>4 DEF SideMaps

\* The sides of who is left.
LEMMA WithoutType ==
    ASSUME NEW Q, NEW a \in SideMaps(Q), NEW S
    PROVE  Without(a, S) \in SideMaps(Q) /\ DOMAIN Without(a, S) \subseteq DOMAIN a
  <1>1. DOMAIN a \subseteq Q /\ a \in [DOMAIN a -> {1, 2}]
    BY SideMapType
  <1>2. Without(a, S) \in [DOMAIN a \ S -> {1, 2}]
    BY <1>1 DEF Without
  <1>3. DOMAIN a \ S \in SUBSET Q
    BY <1>1
  <1> QED BY <1>2, <1>3 DEF SideMaps, Without

\* A match that is over.
LEMMA OverType ==
    ASSUME NEW Q, NEW a \in Access
    PROVE  Over(a) \in MatchOf(Q)
  BY NobodyType DEF Over, MatchOf

\* The sides a result gives.
LEMMA TakenType ==
    ASSUME TypeInv, NEW r, GoodResult(r, ToSet(parties), Joinable)
    PROVE  r.tf \in SideMaps(AllPlayers) /\ Ids(DOMAIN r.tf) \subseteq Id
  <1>1. ToSet(parties) \subseteq PartyOf(AllPlayers)
    BY AllPartiesType DEF TypeInv, ToSet
  <1>2. r.taken \in Seq(PartyOf(AllPlayers))
    BY <1>1 DEF GoodResult
  <1>3. Players(r.taken) \in SUBSET AllPlayers
    BY <1>2, PlayersType
  <1>4. r.tf \in SideMaps(AllPlayers) /\ DOMAIN r.tf \subseteq AllPlayers
    BY <1>3 DEF GoodResult, SideMaps
  <1> QED BY <1>4, AllPlayersType DEF Ids

\* RecordMatchEntry changes counts of the players only, and no count below zero.
LEMMA EntryType ==
    ASSUME TypeInv, NEW m, NEW tf
    PROVE  RecordMatchEntry(m, tf) \in [Id -> RecordType]
  <1> DEFINE last == {fair[i].lastDefended : i \in Id}
             now  == 1 + Max(last)
  <1>0. \A i \in Id : fair[i] \in RecordType
    BY DEF TypeInv
  <1>1. ASSUME Id # {} PROVE now \in Nat
    <2>1. last \in SUBSET Nat /\ last # {}
      BY <1>0, <1>1 DEF RecordType
    <2>2. IsFiniteSet(last)
      <3> DEFINE F == [i \in Id |-> fair[i].lastDefended]
      <3>1. F \in Surjection(Id, last)
        BY DEF Surjection
      <3> QED BY <3>1, QueueAssumption, FS_Surjection
    <2> HIDE DEF last
    <2>3. Max(last) \in Nat
      BY <2>1, <2>2, MaxNat
    <2> QED BY <2>3
  <1> DEFINE defends(i) == cfg.rule = "agent" /\ \E q \in DOMAIN tf : q.id = i /\ tf[q] = 2
             entered(i) == [fair[i] EXCEPT !.excluded = 0, !.played = @ + 1,
                                           !.defended = IF defends(i) THEN @ + 1 ELSE @,
                                           !.lastDefended = IF defends(i) THEN now ELSE @]
  <1> HIDE DEF now, last
  <1>2. ASSUME NEW i \in Id PROVE entered(i) \in RecordType
    <2> HIDE DEF defends
    <2>1. now \in Nat /\ fair[i] \in RecordType
      BY <1>0, <1>1
    <2> PICK f \in RecordType : f = fair[i]
      BY <2>1
    <2>2. f.played + 1 \in Nat /\ f.defended + 1 \in Nat /\ f.defended \in Nat /\ f.lastDefended \in Nat
      BY DEF RecordType
    <2>3. \A x, y, z \in Nat :
             [f EXCEPT !.excluded = 0, !.played = x, !.defended = y, !.lastDefended = z] \in RecordType
      BY DEF RecordType
    <2> QED BY <2>1, <2>2, <2>3
  <1> HIDE DEF entered
  <1> DEFINE new == Ids(DOMAIN tf) \ match[m].credited
  <1>3. RecordMatchEntry(m, tf) =
           IF ~Credits THEN fair
           ELSE [i \in Id |-> IF i \notin new THEN fair[i] ELSE entered(i)]
    BY DEF RecordMatchEntry, entered, now, last
  <1> HIDE DEF new
  <1>4. [i \in Id |-> IF i \notin new THEN fair[i] ELSE entered(i)] \in [Id -> RecordType]
    BY <1>0, <1>2
  <1>5. fair \in [Id -> RecordType]
    BY DEF TypeInv
  <1> QED BY <1>3, <1>4, <1>5

\* So does RecordExclusions.
LEMMA ExclusionsType ==
    ASSUME TypeInv, NEW r
    PROVE  RecordExclusions(r) \in [Id -> RecordType]
  <1>0. fair \in [Id -> RecordType] /\ \A i \in Id : fair[i] \in RecordType
    BY DEF TypeInv
  <1> DEFINE passed(i) == [fair[i] EXCEPT !.excluded = @ + 1, !.lifetime = @ + 1]
             X == Ids(Players(Eligible)) \ Ids(Players(r.taken))
  <1>1. ASSUME NEW i \in Id PROVE passed(i) \in RecordType
    <2> PICK f \in RecordType : f = fair[i]
      BY <1>0
    <2>1. f.excluded + 1 \in Nat /\ f.lifetime + 1 \in Nat
      BY DEF RecordType
    <2>2. \A x, y \in Nat : [f EXCEPT !.excluded = x, !.lifetime = y] \in RecordType
      BY DEF RecordType
    <2> QED BY <2>1, <2>2
  <1>2. RecordExclusions(r) =
           IF ~cfg.fair \/ r.inst # 0 THEN fair
           ELSE [i \in Id |-> IF i \in X THEN passed(i) ELSE fair[i]]
    BY DEF RecordExclusions
  <1> HIDE DEF passed, X
  <1>3. [i \in Id |-> IF i \in X THEN passed(i) ELSE fair[i]] \in [Id -> RecordType]
    BY <1>0, <1>1
  <1> QED BY <1>0, <1>2, <1>3

\* What no action but a reload and the pops changes.
TimerTypes ==
    /\ made \in Nat /\ timer \in 0 .. made
    /\ waits \subseteq 1 .. made /\ due \subseteq 1 .. made

\* A player's class does not change.
LEMMA ClassStays ==
    ASSUME [Next]_vars
    PROVE  /\ class' = class
           /\ AllPlayers' = AllPlayers
           /\ AllParties' = AllParties
  <1>1. class' = class
    BY DEF Next, vars, TryPop, PopNothing, PopLater, PopDropIn, PopCoalesce, PopFresh, Commit,
           AddParty, SetSoloLock, RemoveParty, RemovePlayer, Arrive, TurnDown, Expire, Fire,
           InstanceReady, InstanceGone, PlayerLeft, ReloadQueues
  <1> QED BY <1>1 DEF AllPlayers, AllParties, Player, Solo, Team

\* The matches as a sequence that changes nothing but who is expected, has arrived, and
\* how far they are.
LEMMA MatchesType ==
    ASSUME match \in Seq(MatchOf(AllPlayers)), NEW x, x = [m \in DOMAIN match |-> x[m]],
           \A m \in DOMAIN match : x[m] \in MatchOf(AllPlayers)
    PROVE  x \in Seq(MatchOf(AllPlayers)) /\ DOMAIN x = DOMAIN match
  <1> PICK n \in Nat : DOMAIN match = 1 .. n
    OBVIOUS
  <1> QED OBVIOUS

\* Some of the players of a match are no longer expected.
LEMMA FewerType ==
    ASSUME NEW Q, NEW M \in MatchOf(Q), NEW S, NEW x, x = [M EXCEPT !.tf = Without(@, S)]
    PROVE  x \in MatchOf(Q) /\ DOMAIN x.tf \subseteq DOMAIN M.tf
  <1>1. M.tf \in SideMaps(Q)
    BY DEF MatchOf
  <1> PICK a : a = Without(M.tf, S)
    OBVIOUS
  <1>2. a \in SideMaps(Q) /\ DOMAIN a \subseteq DOMAIN M.tf
    BY <1>1, WithoutType
  <1>3. [M EXCEPT !.tf = a] \in MatchOf(Q)
    BY <1>2 DEF MatchOf
  <1>4. x.tf = a
    BY DEF MatchOf
  <1> QED BY <1>2, <1>3, <1>4

\* In match m of x fewer players are expected; if it is pending it was, and nobody has
\* arrived since.
Less(x, m) ==
    /\ DOMAIN x[m].tf \subseteq DOMAIN match[m].tf
    /\ x[m].state = "pending" => /\ match[m].state = "pending"
                                 /\ DOMAIN x[m].live \subseteq DOMAIN match[m].live

\* x are the matches, in some of which fewer players are expected.
Fewer(x) ==
    /\ x \in Seq(MatchOf(AllPlayers)) /\ DOMAIN x = DOMAIN match
    /\ \A m \in DOMAIN match : Less(x, m)

\* DeliverMatchCancelled and RemovePlayer only take players out.
LEMMA ReleasedType ==
    ASSUME TypeInv, NEW c
    PROVE  Fewer(Released(c))
  <1> DEFINE x == Released(c)
  <1>1. match \in Seq(MatchOf(AllPlayers))
    BY DEF TypeInv
  <1>2. \A m \in DOMAIN match : x[m] \in MatchOf(AllPlayers) /\ Less(x, m)
    <2> SUFFICES ASSUME NEW m \in DOMAIN match
                 PROVE  x[m] \in MatchOf(AllPlayers) /\ Less(x, m)
      OBVIOUS
    <2> PICK S : S = {Player(i) : i \in {j \in DOMAIN c : c[j] = m}}
      OBVIOUS
    <2> PICK y : y = x[m]
      OBVIOUS
    <2> PICK M \in MatchOf(AllPlayers) : M = match[m]
      BY MatchType
    <2>1. y = [M EXCEPT !.tf = Without(@, S)]
      BY DEF Released
    <2>3. y \in MatchOf(AllPlayers) /\ DOMAIN y.tf \subseteq DOMAIN M.tf
      BY <2>1, FewerType
    <2>4. y.state = M.state /\ y.live = M.live
      BY <2>1 DEF MatchOf
    <2> QED BY <2>3, <2>4 DEF Less
  <1>3. x = [m \in DOMAIN match |-> x[m]]
    BY DEF Released
  <1> HIDE DEF x
  <1>4. x \in Seq(MatchOf(AllPlayers)) /\ DOMAIN x = DOMAIN match
    BY <1>1, <1>2, <1>3, MatchesType
  <1> QED BY <1>2, <1>4 DEF Fewer, x

\* RemovePlayer takes one player out of two matches at most.
LEMMA RemovedType ==
    ASSUME TypeInv, NEW i, RemovePlayer(i)
    PROVE  Fewer(match')
  <1>1. match \in Seq(MatchOf(AllPlayers))
    BY DEF TypeInv
  <1> PICK m \in OneOf(Pending(i)), n \in OneOf(Reserving(i)) : match' = [k \in DOMAIN match |->
          IF k \in {m, n} THEN [match[k] EXCEPT !.tf = Without(@, {Player(i)})] ELSE match[k]]
    BY DEF RemovePlayer
  <1>2. \A k \in DOMAIN match : match'[k] \in MatchOf(AllPlayers) /\ Less(match', k)
    <2> SUFFICES ASSUME NEW k \in DOMAIN match
                 PROVE  match'[k] \in MatchOf(AllPlayers) /\ Less(match', k)
      OBVIOUS
    <2> PICK y : y = match'[k]
      OBVIOUS
    <2> PICK M \in MatchOf(AllPlayers) : M = match[k]
      BY MatchType
    <2>1. y = [M EXCEPT !.tf = Without(@, {Player(i)})] \/ y = M
      OBVIOUS
    <2>3. y \in MatchOf(AllPlayers) /\ DOMAIN y.tf \subseteq DOMAIN M.tf
      BY <2>1, FewerType
    <2>4. y.state = M.state /\ y.live = M.live
      BY <2>1 DEF MatchOf
    <2> QED BY <2>3, <2>4 DEF Less
  <1> PICK x : x = match'
    OBVIOUS
  <1>4. x = [k \in DOMAIN match |-> x[k]] /\ \A k \in DOMAIN match : x[k] \in MatchOf(AllPlayers)
    BY <1>2
  <1>3. x \in Seq(MatchOf(AllPlayers)) /\ DOMAIN x = DOMAIN match
    BY <1>1, <1>4, MatchesType
  <1> QED BY <1>2, <1>3 DEF Fewer

\* An invitation of before is one of after, while no match is forgotten.
LEMMA InviteKept ==
    ASSUME TypeInv, DOMAIN match \subseteq DOMAIN match',
           \A i \in Id : invite'[i] \in {invite[i], NoInvite}, invite' = [i \in Id |-> invite'[i]]
    PROVE  invite' \in [Id -> Invitation']
  <1>1. \A i \in Id : invite[i] \in Invitation
    BY DEF TypeInv
  <1>2. Invitation \subseteq Invitation' /\ NoInvite \in Invitation'
    BY DEF Invitation, NoInvite
  <1>3. \A i \in Id : invite'[i] \in Invitation'
    BY <1>1, <1>2
  <1> QED BY <1>3

\* MATCH_INVITATION names a match that was formed.
LEMMA InvitedType ==
    ASSUME TypeInv, DOMAIN match \subseteq DOMAIN match', NEW m \in DOMAIN match,
           NEW tf \in SideMaps(AllPlayers), invite' = Invited(m, tf)
    PROVE  invite' \in [Id -> Invitation']
  <1>1. \A i \in Id : invite[i] \in Invitation
    BY DEF TypeInv
  <1>2. Invitation \subseteq Invitation'
    BY DEF Invitation, NoInvite
  <1>3. \A q \in DOMAIN tf : tf[q] \in {1, 2}
    BY SideMapType
  <1>4. \A i \in Id : invite'[i] \in Invitation'
    BY <1>1, <1>2, <1>3 DEF Invited, Invitation
  <1>5. invite' = [i \in Id |-> invite'[i]]
    BY DEF Invited
  <1> QED BY <1>4, <1>5

\* Nobody's invitation changes, or his own is forgotten.
LEMMA InviteForgot ==
    ASSUME TypeInv, DOMAIN match \subseteq DOMAIN match',
           \/ invite' = invite \/ (\E c : invite' = Cancelled(c))
           \/ \E i \in Id : invite' = [invite EXCEPT ![i] = NoInvite]
    PROVE  invite' \in [Id -> Invitation']
  <1>1. invite = [i \in Id |-> invite[i]]
    BY DEF TypeInv
  <1>2. /\ \A i \in Id : invite'[i] \in {invite[i], NoInvite}
        /\ invite' = [i \in Id |-> invite'[i]]
    BY <1>1 DEF Cancelled
  <1> QED BY <1>2, InviteKept

\* The rest of the queue.
LEMMA OthersType ==
    ASSUME TypeInv, NEW p
    PROVE  Others(p) \in Seq(AllParties)
  BY KeepPart DEF TypeInv, Others

\* Timer objects that are disarmed, re-armed or left alone.
LEMMA TimerTypeKeeps ==
    ASSUME TimerTypes, Disarm \/ (Rearm /\ timer # 0) \/ UNCHANGED timerVars
    PROVE  TimerTypes'
  <1>1. CASE Disarm
    BY <1>1 DEF Disarm, TimerTypes
  <1>2. CASE Rearm /\ timer # 0
    BY <1>2 DEF Rearm, TimerTypes
  <1>3. CASE UNCHANGED timerVars
    BY <1>3 DEF timerVars, TimerTypes
  <1> QED BY <1>1, <1>2, <1>3

\* MaybeResetDelayedPop of a queue with a timer.
LEMMA ResetType ==
    ASSUME TimerTypes, NEW ps, NEW join, timer # 0, MaybeResetDelayedPop(ps, join)
    PROVE  TimerTypes'
  BY TimerTypeKeeps DEF MaybeResetDelayedPop

\* OnQueueChanged.
LEMMA ChangedType ==
    ASSUME TimerTypes, pop \in {"no", "delay", "elapsed"}, NEW ps, NEW join,
           OnQueueChanged(ps, join)
    PROVE  TimerTypes' /\ pop' \in {"no", "delay", "elapsed"}
  <1>1. CASE join /\ Full(ps)
    <2>1. Disarm /\ pop' = "elapsed"
      BY <1>1 DEF OnQueueChanged
    <2> QED BY <2>1, TimerTypeKeeps
  <1>2. CASE ~(join /\ Full(ps)) /\ timer # 0
    <2>1. MaybeResetDelayedPop(ps, join) /\ pop' = pop
      BY <1>2 DEF OnQueueChanged
    <2> QED BY <1>2, <2>1, ResetType
  <1>3. CASE ~(join /\ Full(ps)) /\ timer = 0
    <2>1. UNCHANGED timerVars /\ pop' = "delay"
      BY <1>3 DEF OnQueueChanged
    <2> QED BY <2>1, TimerTypeKeeps
  <1> QED BY <1>1, <1>2, <1>3

\* The operations on the queue.
LEMMA QueueTypes ==
    ASSUME TypeInv,
           \/ \E i \in Id : AddParty(Solo(i)) \/ SetSoloLock(i) \/ RemovePlayer(i)
           \/ \E t \in Teams : AddParty(Team(t))
           \/ \E p \in ToSet(parties) : RemoveParty(p)
    PROVE  TypeInv'
  <1>c. AllPlayers' = AllPlayers /\ AllParties' = AllParties
    BY ClassStays DEF Next
  <1>t. TypeInv /\ TimerTypes
    BY DEF TypeInv, TimerTypes
  <1>v. moves \in Nat => (Moves => moves' \in Nat)
    BY DEF Moves
  <1>1. ASSUME NEW p \in AllParties, AddParty(p) PROVE TypeInv'
    <2>1. parties' \in Seq(AllParties)
      BY <1>1, OthersType, AppendProperties DEF AddParty
    <2>2. TimerTypes' /\ pop' \in {"no", "delay", "elapsed"}
      BY <1>1, <1>t, ChangedType DEF AddParty, TypeInv
    <2>3. moves' \in Nat
      BY <1>1, <1>v DEF AddParty, TypeInv
    <2> QED
      BY <1>1, <1>c, <2>1, <2>2, <2>3
         DEF AddParty, TypeInv, TimerTypes, MatchOf, matchVars, Invitation
  <1>2. ASSUME NEW p \in ToSet(parties), Dequeue(p)
        PROVE  /\ parties' \in Seq(AllParties) /\ TimerTypes' /\ cfg.rule # "none"
    <2>1. parties' \in Seq(AllParties)
      BY <1>2, OthersType DEF Dequeue
    <2>2. TimerTypes'
      BY <1>2, <1>t, ResetType, TimerTypeKeeps DEF Dequeue
    <2>3. cfg.rule # "none"
      BY DEF TypeInv, ToSet
    <2> QED BY <2>1, <2>2, <2>3
  <1>3. ASSUME NEW p \in ToSet(parties), RemoveParty(p) PROVE TypeInv'
    <2>1. parties' \in Seq(AllParties) /\ TimerTypes' /\ cfg.rule # "none" /\ moves' \in Nat
      BY <1>2, <1>3, <1>v DEF RemoveParty, TypeInv
    <2> QED BY <1>3, <1>c, <2>1
            DEF RemoveParty, TypeInv, TimerTypes, MatchOf, matchVars, Invitation
  <1>4. ASSUME NEW i \in Id, RemovePlayer(i) PROVE TypeInv'
    <2>1. /\ parties' \in Seq(AllParties) /\ TimerTypes'
          /\ cfg.rule = "none" => parties' = <<>>
      <3>1. CASE \E p \in ToSet(parties) : Dequeue(p)
        BY <1>2, <3>1
      <3>2. CASE UNCHANGED <<parties, timerVars>>
        BY <1>t, <3>2, TimerTypeKeeps DEF TypeInv
      <3> QED BY <1>4, <3>1, <3>2 DEF RemovePlayer
    <2>2. match' \in Seq(MatchOf(AllPlayers)) /\ DOMAIN match' = DOMAIN match
      BY <1>4, RemovedType DEF Fewer
    <2>3. invite' = invite \/ invite' = [invite EXCEPT ![i] = NoInvite]
      BY <1>4 DEF RemovePlayer
    <2>4. invite' \in [Id -> Invitation']
      BY <2>2, <2>3, InviteForgot
    <2>5. moves' \in Nat
      BY <1>4, <1>v DEF RemovePlayer, TypeInv
    <2> QED BY <1>4, <1>c, <2>1, <2>2, <2>4, <2>5
            DEF RemovePlayer, TypeInv, TimerTypes, MatchOf
  <1>5. ASSUME NEW i \in Id, SetSoloLock(i) PROVE TypeInv'
    <2>1. TimerTypes' /\ pop' \in {"no", "delay", "elapsed"}
      BY <1>5, <1>t, ChangedType DEF SetSoloLock, TypeInv
    <2>2. moves' \in Nat /\ solo' \subseteq Id
      BY <1>5, <1>v DEF SetSoloLock, TypeInv
    <2> QED BY <1>5, <1>c, <2>1, <2>2
            DEF SetSoloLock, TypeInv, TimerTypes, MatchOf, matchVars, Invitation
  <1> QED BY <1>1, <1>3, <1>4, <1>5 DEF AllParties

\* What one TryPop does to match m that gets players from the result r: it runs and r
\* joins it, it is pending and r is merged into it, or it is new.
Enters(r, m) ==
    \/ /\ m \in DOMAIN match
       /\ (match[m].state = "ready" /\ r.inst = m) \/ Coalesces(r, m)
       /\ match'[m].tf = Merge(match[m].tf, r.tf)
       /\ match'[m].state = match[m].state /\ match'[m].live = match[m].live
       /\ match'[m].access = match[m].access /\ match'[m].cap = match[m].cap
    \/ r.inst = 0 /\ m \notin DOMAIN match /\ match'[m] = Formed(r)

\* Only the match the result is for gets players; every other one keeps its own, loses
\* some, and is where it was.
LEMMA PopEnters ==
    ASSUME TypeInv, NEW r, GoodResult(r, ToSet(parties), Joinable),
           PopDropIn(r) \/ PopCoalesce(r) \/ PopFresh(r)
    PROVE  /\ match' \in Seq(MatchOf(AllPlayers))
           /\ DOMAIN match \subseteq DOMAIN match'
           /\ invite' \in [Id -> Invitation']
           /\ \A m \in DOMAIN match' :
                 \/ m \in DOMAIN match /\ Less(match', m)
                 \/ Enters(r, m)
  <1>m. match \in Seq(MatchOf(AllPlayers))
    BY DEF TypeInv
  <1>f. r.tf \in SideMaps(AllPlayers) /\ Ids(DOMAIN r.tf) \subseteq Id
    BY TakenType
  <1>1. CASE PopDropIn(r)
    <2>1. r.inst \in DOMAIN match /\ match[r.inst].state = "ready"
      BY <1>1 DEF PopDropIn, GoodResult, Joinable
    <2>2. match[r.inst] \in MatchOf(AllPlayers)
      BY <2>1, MatchType
    <2>3. Merge(match[r.inst].tf, r.tf) \in SideMaps(AllPlayers)
      BY <1>f, <2>1, MatchType, MergeType
    <2>4. Credited(r.inst, r.tf) \subseteq Id
      BY <1>f, <2>1, MatchType DEF Credited
    <2> PICK M \in MatchOf(AllPlayers) :
           M = [match[r.inst] EXCEPT !.tf = Merge(match[r.inst].tf, r.tf),
                                     !.credited = Credited(r.inst, r.tf)]
      BY <2>2, <2>3, <2>4 DEF MatchOf
    <2>5. match' = [match EXCEPT ![r.inst] = M]
      BY <1>1, <2>1 DEF PopDropIn
    <2>6. /\ M.tf = Merge(match[r.inst].tf, r.tf) /\ M.state = match[r.inst].state
          /\ M.live = match[r.inst].live /\ M.access = match[r.inst].access
          /\ M.cap = match[r.inst].cap
      BY <2>2 DEF MatchOf
    <2>7. Enters(r, r.inst)
      BY <2>1, <2>5, <2>6 DEF Enters
    <2>8. match' \in Seq(MatchOf(AllPlayers)) /\ DOMAIN match' = DOMAIN match
      BY <1>m, <2>1, <2>5
    <2>9. invite' \in [Id -> Invitation']
      BY <1>1, <1>f, <2>1, <2>8, InvitedType DEF PopDropIn
    <2>10. \A m \in DOMAIN match : m # r.inst => match'[m] = match[m]
      BY <2>5
    <2> QED BY <2>7, <2>8, <2>9, <2>10 DEF Less
  <1>2. CASE PopCoalesce(r)
    <2>1. PICK n \in DOMAIN match : Coalesces(r, n) /\ match' = [match EXCEPT ![n].tf = Merge(@, r.tf)]
      BY <1>2 DEF PopCoalesce
    <2>2. match[n] \in MatchOf(AllPlayers)
      BY MatchType
    <2>3. Merge(match[n].tf, r.tf) \in SideMaps(AllPlayers)
      BY <1>f, MatchType, MergeType
    <2> PICK M \in MatchOf(AllPlayers) : M = [match[n] EXCEPT !.tf = Merge(match[n].tf, r.tf)]
      BY <2>2, <2>3 DEF MatchOf
    <2>5. match' = [match EXCEPT ![n] = M]
      BY <2>1
    <2>6. /\ M.tf = Merge(match[n].tf, r.tf) /\ M.state = match[n].state
          /\ M.live = match[n].live /\ M.access = match[n].access /\ M.cap = match[n].cap
      BY <2>2 DEF MatchOf
    <2>7. Enters(r, n)
      BY <2>1, <2>5, <2>6 DEF Enters
    <2>8. match' \in Seq(MatchOf(AllPlayers)) /\ DOMAIN match' = DOMAIN match
      BY <1>m, <2>5
    <2>9. invite' \in [Id -> Invitation']
      BY <1>2, <2>8, InviteForgot DEF PopCoalesce
    <2>10. \A m \in DOMAIN match : m # n => match'[m] = match[m]
      BY <2>5
    <2> QED BY <2>7, <2>8, <2>9, <2>10 DEF Less
  <1>3. CASE PopFresh(r) /\ match' = Append(match, Formed(r)) /\ UNCHANGED invite
    <2> PICK k \in Nat : k = Len(match) /\ DOMAIN match = 1 .. k
      BY <1>m
    <2> PICK M : M = Formed(r)
      OBVIOUS
    <2>1. M \in MatchOf(AllPlayers)
      BY <1>f, NobodyType DEF Formed, MatchOf, GoodResult
    <2>2. match' = Append(match, M)
      BY <1>3
    <2>3. /\ match' \in Seq(MatchOf(AllPlayers)) /\ DOMAIN match' = 1 .. k + 1
          /\ match'[k + 1] = M /\ \A m \in 1 .. k : match'[m] = match[m]
      BY <1>m, <2>1, <2>2
    <2>4. invite' \in [Id -> Invitation']
      BY <1>3, <2>3, InviteForgot
    <2>5. Enters(r, k + 1)
      BY <1>3, <2>3 DEF Enters, PopFresh
    <2>6. \A m \in DOMAIN match' : m \in DOMAIN match \/ m = k + 1
      BY <2>3
    <2> QED BY <2>3, <2>4, <2>5, <2>6 DEF Less
  <1>4. CASE match' = match /\ UNCHANGED invite
    BY <1>m, <1>4, InviteForgot DEF Less
  <1>5. ASSUME NEW c, match' = Released(c), invite' = Cancelled(c)
        PROVE  /\ match' \in Seq(MatchOf(AllPlayers)) /\ DOMAIN match \subseteq DOMAIN match'
               /\ invite' \in [Id -> Invitation']
               /\ \A m \in DOMAIN match' :
                    m \in DOMAIN match /\ Less(match', m)
    <2>1. Fewer(match')
      BY <1>5, ReleasedType
    <2>2. invite' \in [Id -> Invitation']
      BY <1>5, <2>1, InviteForgot DEF Fewer
    <2> QED BY <2>1, <2>2 DEF Fewer
  <1> QED BY <1>1, <1>2, <1>3, <1>4, <1>5 DEF PopFresh

\* One TryPop: what the rule returned is committed as it is.
LEMMA PopTypes ==
    ASSUME TypeInv, TryPop
    PROVE  TypeInv'
  <1> PICK insts \in Provided : \E r \in {Result(insts)} :
          PopNothing(r) \/ PopLater(r) \/ PopDropIn(r) \/ PopCoalesce(r) \/ PopFresh(r)
    BY DEF TryPop
  <1> PICK r : /\ r = Result(insts)
               /\ PopNothing(r) \/ PopLater(r) \/ PopDropIn(r) \/ PopCoalesce(r) \/ PopFresh(r)
    OBVIOUS
  <1>c. AllPlayers' = AllPlayers /\ AllParties' = AllParties
    BY ClassStays DEF Next
  <1>g. GoodResult(r, ToSet(parties), Joinable)
    BY ResultGood
  <1>k. ASSUME Commit(r)
        PROVE  /\ parties' \in Seq(AllParties)
               /\ pop' \in {"no", "delay", "elapsed"}
               /\ cfg.rule = "none" => parties' = <<>>
               /\ UNCHANGED <<cfg, class, solo, timer, made, waits, due, moves, reloads>>
    <2>1. parties' \in Seq(AllParties)
      BY <1>k, KeepPart DEF Commit, TypeInv
    <2>2. ASSUME cfg.rule = "none" PROVE parties' = <<>>
      <3>1. \A k \in DOMAIN parties' : parties'[k] \in ToSet(parties)
        BY <1>k, KeepPart DEF Commit, TypeInv
      <3>2. ToSet(parties) = {}
        BY <2>2 DEF ToSet, TypeInv
      <3>3. DOMAIN parties' = {}
        BY <3>1, <3>2
      <3> QED BY <2>1, <3>3
    <2> QED BY <1>k, <2>1, <2>2 DEF Commit, TypeInv, timerVars
  <1>1. CASE PopNothing(r)
    BY <1>1, <1>c DEF PopNothing, TypeInv, queueVars, timerVars, matchVars, MatchOf, Invitation
  <1>2. CASE PopLater(r)
    <2>1. TimerTypes'
      <3>1. TimerTypes
        BY DEF TypeInv, TimerTypes
      <3>2. CASE timer # 0
        BY <1>2, <3>1, <3>2, TimerTypeKeeps DEF PopLater
      <3>3. CASE timer = 0
        <4>1. /\ made' = made + 1 /\ timer' = made + 1
              /\ waits' = waits \cup {made + 1} /\ due' = due
          BY <1>2, <3>3 DEF PopLater
        <4>2. made + 1 \in Nat /\ 1 .. made \subseteq 1 .. made + 1 /\ made + 1 \in 1 .. made + 1
          BY <3>1 DEF TimerTypes
        <4> QED BY <3>1, <4>1, <4>2 DEF TimerTypes
      <3> QED BY <3>2, <3>3
    <2> QED BY <1>2, <1>c, <2>1
            DEF PopLater, TypeInv, TimerTypes, queueVars, matchVars, MatchOf, Invitation
  <1>3. CASE PopDropIn(r) \/ PopCoalesce(r) \/ PopFresh(r)
    <2>1. match' \in Seq(MatchOf(AllPlayers)) /\ invite' \in [Id -> Invitation']
      BY <1>3, <1>g, PopEnters
    <2>2. fair' \in [Id -> RecordType]
      BY <1>3, EntryType, ExclusionsType DEF PopDropIn, PopCoalesce, PopFresh
    <2>3. Commit(r)
      BY <1>3 DEF PopDropIn, PopCoalesce, PopFresh
    <2> QED BY <1>c, <1>k, <2>1, <2>2, <2>3 DEF TypeInv, MatchOf
  <1> QED BY <1>1, <1>2, <1>3

\* A match whose record is exchanged for another.
LEMMA ExchangeType ==
    ASSUME TypeInv, NEW m \in DOMAIN match, NEW M \in MatchOf(AllPlayers),
           match' = [match EXCEPT ![m] = M]
    PROVE  /\ match' \in Seq(MatchOf(AllPlayers)) /\ DOMAIN match' = DOMAIN match
           /\ match'[m] = M /\ \A n \in DOMAIN match : n # m => match'[n] = match[n]
  BY DEF TypeInv

\* What instances and players do to a match that was formed: nobody is newly expected.
LEMMA MatchTypes ==
    ASSUME TypeInv,
           \/ \E m \in DOMAIN match : \/ InstanceReady(m) \/ InstanceGone(m)
                                      \/ \E q \in DOMAIN match[m].live : PlayerLeft(m, q)
           \/ \E i \in Id : Arrive(i) \/ TurnDown(i)
    PROVE  TypeInv' /\ Fewer(match')
  <1>c. AllPlayers' = AllPlayers /\ AllParties' = AllParties
    BY ClassStays DEF Next
  <1>v. moves \in Nat /\ (Moves => moves' \in Nat)
    BY DEF Moves, TypeInv
  <1>n. Nobody \in SideMaps(AllPlayers) /\ DOMAIN Nobody = {}
    BY NobodyType DEF Nobody
  <1>1. ASSUME NEW m \in DOMAIN match, InstanceReady(m) PROVE TypeInv' /\ Fewer(match')
    <2>1. match[m] \in MatchOf(AllPlayers) /\ match[m].tf \in SideMaps(AllPlayers)
      BY MatchType
    <2>2. Credited(m, match[m].tf) \subseteq Id
      BY MatchType DEF Credited
    <2> PICK a : a = IF cfg.rule = "coop" THEN match[m].tf ELSE Nobody
      OBVIOUS
    <2>3. a \in SideMaps(AllPlayers) /\ DOMAIN a \subseteq DOMAIN match[m].tf
      BY <1>n, <2>1
    <2> PICK M : M = [match[m] EXCEPT !.state = "ready", !.credited = Credited(m, match[m].tf), !.tf = a]
      OBVIOUS
    <2>4. M \in MatchOf(AllPlayers) /\ M.tf = a /\ M.state = "ready"
      BY <2>1, <2>2, <2>3 DEF MatchOf
    <2>5. match' = [match EXCEPT ![m] = M]
      BY <1>1, <2>1 DEF InstanceReady, MatchOf
    <2>6. match' \in Seq(MatchOf(AllPlayers)) /\ Fewer(match')
      BY <2>3, <2>4, <2>5, ExchangeType DEF Fewer, Less
    <2>7. fair' \in [Id -> RecordType]
      BY <1>1, EntryType DEF InstanceReady
    <2>8. invite' \in [Id -> Invitation']
      BY <1>1, <2>1, <2>6, InvitedType DEF InstanceReady, Fewer
    <2> QED BY <1>1, <1>c, <2>6, <2>7, <2>8
            DEF InstanceReady, TypeInv, queueVars, timerVars, MatchOf
  <1>2. ASSUME NEW i \in Id, Arrive(i) PROVE TypeInv' /\ Fewer(match')
    <2>1. invite[i] \in Invitation /\ invite[i] # NoInvite
      BY <1>2 DEF TypeInv, Arrive
    <2> PICK m \in DOMAIN match : m = invite[i].match
      BY <2>1 DEF Invitation
    <2>2. match[m] \in MatchOf(AllPlayers) /\ match[m].tf \in SideMaps(AllPlayers)
          /\ match[m].live \in SideMaps(AllPlayers)
      BY MatchType
    <2> PICK a : a = Without(match[m].tf, {Player(i)})
      OBVIOUS
    <2> PICK b : b = Put(match[m].live, {Player(i)}, invite[i].side)
      OBVIOUS
    <2>3. a \in SideMaps(AllPlayers) /\ DOMAIN a \subseteq DOMAIN match[m].tf
      BY <2>2, WithoutType
    <2>4. b \in SideMaps(AllPlayers)
      <3>1. invite[i].side \in {1, 2} /\ {Player(i)} \in SUBSET AllPlayers
        BY <2>1, AllPlayersType DEF Invitation
      <3> QED BY <2>2, <3>1, PutType
    <2> PICK M : M = [match[m] EXCEPT !.tf = a, !.live = b]
      OBVIOUS
    <2>5. M \in MatchOf(AllPlayers) /\ M.tf = a /\ M.state = "ready"
      <3>1. match[m].state = "ready"
        BY <1>2 DEF Arrive
      <3> QED BY <2>2, <2>3, <2>4, <3>1 DEF MatchOf
    <2>6. match' = [match EXCEPT ![m] = M]
      <3>1. match' = [match EXCEPT ![m].tf = a, ![m].live = b]
        BY <1>2, <2>2 DEF Arrive, MatchOf
      <3> QED BY <3>1
    <2>7. match' \in Seq(MatchOf(AllPlayers)) /\ Fewer(match')
      BY <2>3, <2>5, <2>6, ExchangeType DEF Fewer, Less
    <2>8. invite' \in [Id -> Invitation']
      BY <1>2, <2>7, InviteForgot DEF Arrive, Fewer
    <2> QED BY <1>2, <1>c, <1>v, <2>7, <2>8 DEF Arrive, TypeInv, queueVars, timerVars, MatchOf
  <1>3. ASSUME NEW i \in Id, TurnDown(i) PROVE TypeInv' /\ Fewer(match')
    <2>1. invite[i] \in Invitation /\ invite[i] # NoInvite
      BY <1>3 DEF TypeInv, TurnDown
    <2> PICK m \in DOMAIN match : m = invite[i].match
      BY <2>1 DEF Invitation
    <2>2. match[m] \in MatchOf(AllPlayers) /\ match[m].tf \in SideMaps(AllPlayers)
      BY MatchType
    <2>3. match' \in Seq(MatchOf(AllPlayers)) /\ Fewer(match')
      <3>1. CASE match' = match
        BY <3>1 DEF TypeInv, Fewer, Less
      <3>2. CASE match' = [match EXCEPT ![m].tf = Without(@, {Player(i)})]
        <4> PICK N \in MatchOf(AllPlayers) : N = match[m]
          BY <2>2
        <4> PICK M : M = [N EXCEPT !.tf = Without(@, {Player(i)})]
          OBVIOUS
        <4>1. M \in MatchOf(AllPlayers) /\ DOMAIN M.tf \subseteq DOMAIN N.tf
          BY FewerType
        <4>2. M.state = N.state /\ M.live = N.live
          BY DEF MatchOf
        <4>3. match' = [match EXCEPT ![m] = M]
          BY <3>2
        <4> QED BY <4>1, <4>2, <4>3, ExchangeType DEF Fewer, Less
      <3> QED BY <1>3, <3>1, <3>2 DEF TurnDown
    <2>4. invite' \in [Id -> Invitation']
      BY <1>3, <2>3, InviteForgot DEF TurnDown, Fewer
    <2> QED BY <1>3, <1>c, <1>v, <2>3, <2>4 DEF TurnDown, TypeInv, queueVars, timerVars, MatchOf
  <1>4. ASSUME NEW m \in DOMAIN match, NEW q, PlayerLeft(m, q) PROVE TypeInv' /\ Fewer(match')
    <2>1. match[m] \in MatchOf(AllPlayers) /\ match[m].live \in SideMaps(AllPlayers)
          /\ match[m].access \in Access
      BY MatchType DEF MatchOf
    <2>2. match' \in Seq(MatchOf(AllPlayers)) /\ Fewer(match')
      <3>1. CASE match' = [match EXCEPT ![m] = Over(@.access)]
        <4> PICK M : M = Over(match[m].access)
          OBVIOUS
        <4>1. M \in MatchOf(AllPlayers) /\ DOMAIN M.tf = {} /\ M.state = "over"
          BY <1>n, <2>1, OverType DEF Over
        <4>2. match' = [match EXCEPT ![m] = M]
          BY <3>1
        <4> QED BY <4>1, <4>2, ExchangeType DEF Fewer, Less
      <3>2. CASE match' = [match EXCEPT ![m].live = Without(@, {q})]
        <4> PICK a : a = Without(match[m].live, {q})
          OBVIOUS
        <4> PICK M : M = [match[m] EXCEPT !.live = a]
          OBVIOUS
        <4>1. a \in SideMaps(AllPlayers) /\ DOMAIN a \subseteq DOMAIN match[m].live
          BY <2>1, WithoutType
        <4>2. /\ M \in MatchOf(AllPlayers) /\ M.tf = match[m].tf /\ M.state = match[m].state
              /\ M.live = a
          BY <2>1, <4>1 DEF MatchOf
        <4>3. match' = [match EXCEPT ![m] = M]
          BY <3>2
        <4> QED BY <4>1, <4>2, <4>3, ExchangeType DEF Fewer, Less
      <3> QED BY <1>4, <3>1, <3>2 DEF PlayerLeft
    <2>3. invite' \in [Id -> Invitation']
      BY <1>4, <2>2, InviteForgot DEF PlayerLeft, Fewer
    <2> QED BY <1>4, <1>c, <1>v, <2>2, <2>3 DEF PlayerLeft, TypeInv, queueVars, timerVars, MatchOf
  <1>5. ASSUME NEW m \in DOMAIN match, InstanceGone(m) PROVE TypeInv' /\ Fewer(match')
    <2> PICK c : match' = [Released(c) EXCEPT ![m] = Over(@.access)] /\ invite' = Cancelled(c)
      BY <1>5 DEF InstanceGone
    <2> PICK x : x = Released(c)
      OBVIOUS
    <2>1. x \in Seq(MatchOf(AllPlayers)) /\ DOMAIN x = DOMAIN match
          /\ \A n \in DOMAIN match : Less(x, n)
      BY ReleasedType DEF Fewer
    <2> PICK M : M = Over(x[m].access)
      OBVIOUS
    <2>2. M \in MatchOf(AllPlayers) /\ DOMAIN M.tf = {} /\ M.state = "over"
      <3>1. x[m] \in MatchOf(AllPlayers)
        BY <2>1
      <3>2. x[m].access \in Access
        BY <3>1 DEF MatchOf
      <3> QED BY <1>n, <3>2, OverType DEF Over
    <2>3. match' = [x EXCEPT ![m] = M]
      OBVIOUS
    <2>4. match' \in Seq(MatchOf(AllPlayers)) /\ Fewer(match')
      <3>1. match' \in Seq(MatchOf(AllPlayers)) /\ DOMAIN match' = DOMAIN match
        BY <2>1, <2>2, <2>3
      <3>2. \A n \in DOMAIN match : Less(match', n)
        BY <2>1, <2>2, <2>3 DEF Less
      <3> QED BY <3>1, <3>2 DEF Fewer
    <2>5. invite' \in [Id -> Invitation']
      BY <2>4, InviteForgot DEF Fewer
    <2> QED BY <1>5, <1>c, <2>4, <2>5 DEF InstanceGone, TypeInv, queueVars, timerVars, MatchOf
  <1> QED BY <1>1, <1>2, <1>3, <1>4, <1>5

\* Every step keeps the types.
LEMMA TypeInvStep ==
    ASSUME TypeInv, [Next]_vars
    PROVE  TypeInv'
  <1>c. AllPlayers' = AllPlayers /\ AllParties' = AllParties
    BY ClassStays
  <1>1. CASE TryPop
    BY <1>1, PopTypes
  <1>2. CASE \/ \E i \in Id : AddParty(Solo(i)) \/ SetSoloLock(i) \/ RemovePlayer(i)
             \/ \E t \in Teams : AddParty(Team(t))
             \/ \E p \in ToSet(parties) : RemoveParty(p)
    BY <1>2, QueueTypes
  <1>3. ASSUME NEW t \in waits, Expire(t)
        PROVE  TypeInv'
    BY <1>3, <1>c DEF Expire, TypeInv, queueVars, matchVars, MatchOf, Invitation
  <1>4. ASSUME NEW t \in due, Fire(t)
        PROVE  TypeInv'
    <2>1. TimerTypes' /\ pop' \in {"no", "delay", "elapsed"}
      BY <1>4 DEF Fire, TypeInv, TimerTypes
    <2> QED BY <1>4, <1>c, <2>1
            DEF Fire, TypeInv, TimerTypes, queueVars, matchVars, MatchOf, Invitation
  <1>5. CASE \/ \E m \in DOMAIN match : \/ InstanceReady(m) \/ InstanceGone(m)
                                        \/ \E q \in DOMAIN match[m].live : PlayerLeft(m, q)
             \/ \E i \in Id : Arrive(i) \/ TurnDown(i)
    BY <1>5, MatchTypes
  <1>6. ASSUME NEW c \in Config, ReloadQueues(c)
        PROVE  TypeInv'
    <2>1. TimerTypes'
      <3>1. TimerTypes
        BY DEF TypeInv, TimerTypes
      <3>2. Disarm \/ UNCHANGED timerVars
        BY <1>6 DEF ReloadQueues
      <3> QED BY <3>1, <3>2, TimerTypeKeeps
    <2>2. /\ parties' \in Seq(AllParties)
          /\ cfg' \in Config
          /\ cfg'.rule = "none" => parties' = <<>>
          /\ pop' \in {"no", "delay", "elapsed"}
          /\ reloads' \in Nat
      BY <1>6 DEF ReloadQueues, TypeInv
    <2> QED BY <1>6, <1>c, <2>1, <2>2
            DEF ReloadQueues, TypeInv, TimerTypes, matchVars, MatchOf, Invitation
  <1>7. CASE UNCHANGED vars
    BY <1>7, <1>c DEF vars, queueVars, timerVars, matchVars, TypeInv, MatchOf, Invitation
  <1> QED
    BY <1>1, <1>2, <1>3, <1>4, <1>5, <1>6, <1>7 DEF Next

\* A queue starts well formed.
LEMMA TypeInvInit ==
    ASSUME Init
    PROVE  TypeInv
  <1>1. cfg \in Config /\ cfg.rule # "none" /\ class \in Lineups
    BY DEF Init
  <1>2. NoRecord \in RecordType
    BY DEF NoRecord, RecordType
  <1>3. fair \in [Id -> RecordType]
    BY <1>2 DEF Init
  <1>4. invite \in [Id -> Invitation]
    BY DEF Init, Invitation
  <1> QED BY <1>1, <1>3, <1>4 DEF Init, TypeInv

\* The types of TypeOK.
LEMMA TypeInvOK ==
    ASSUME TypeInv
    PROVE  TypeOK
  <1>1. parties \in Seq({Solo(i) : i \in Id} \cup {Team(t) : t \in Teams})
    BY DEF TypeInv, AllParties
  <1>0. ASSUME NEW a \in SideMaps(AllPlayers)
        PROVE  DOMAIN a \subseteq {Player(i) : i \in Id} /\ \A q \in DOMAIN a : a[q] \in {1, 2}
    BY SideMapType DEF AllPlayers
  <1>2. ASSUME NEW m \in DOMAIN match
        PROVE  /\ match[m].state \in {"pending", "ready", "over"}
               /\ \A a \in {match[m].tf, match[m].live} :
                     DOMAIN a \subseteq {Player(i) : i \in Id} /\ \A q \in DOMAIN a : a[q] \in {1, 2}
               /\ match[m].access \in {"OPEN", "PARTY_LOCKED", "SEALED", "BACKFILL_ONLY"}
               /\ match[m].cap \in Nat /\ match[m].credited \subseteq Id
    <2>1. /\ match[m] \in MatchOf(AllPlayers) /\ match[m].tf \in SideMaps(AllPlayers)
          /\ match[m].live \in SideMaps(AllPlayers)
      BY MatchType
    <2> QED BY <1>0, <2>1 DEF MatchOf, Access
  <1>3. ASSUME NEW i \in Id, NEW f \in DOMAIN NoRecord
        PROVE  fair[i][f] \in Nat
    <2>1. f \in {"excluded", "lifetime", "played", "lastDefended", "defended"}
      BY DEF NoRecord
    <2>2. fair[i] \in RecordType
      BY DEF TypeInv
    <2> QED BY <2>1, <2>2 DEF RecordType
  <1>4. invite \in [Id -> [match : {0} \cup DOMAIN match, side : {1, 2}]]
    <2>1. Invitation \subseteq [match : {0} \cup DOMAIN match, side : {1, 2}]
      BY DEF Invitation, NoInvite
    <2> QED BY <2>1 DEF TypeInv
  <1> QED BY <1>1, <1>2, <1>3, <1>4 DEF TypeInv, TypeOK

\* Whatever a queue is configured to and reloaded with, its parties are parties that
\* joined, its matches have sides 1 and 2 for known players, every invitation is to a
\* match that was formed, and the counts of FairnessStats stay numbers: what a rule
\* returns and TryPop commits is well formed.
THEOREM QueueTypeCorrect == Spec => []TypeOK
  <1>1. Init => TypeInv
    BY TypeInvInit
  <1>2. TypeInv /\ [Next]_vars => TypeInv'
    BY TypeInvStep
  <1>3. TypeInv => TypeOK
    BY TypeInvOK
  <1> QED BY <1>1, <1>2, <1>3, PTL DEF Spec

-----------------------------------------------------------------------------
(* Whole parties, once.                                                   *)

\* The result a match gets its players from.
Pops(insts, r, m) ==
    /\ TryPop /\ r = Result(insts) /\ Now(r) /\ Commit(r)
    /\ GoodResult(r, ToSet(parties), Joinable) /\ Seated(r, insts)
    /\ Enters(r, m)

\* In a step a match loses players, if anything, or a pop puts some into it.
LEMMA LessOrPop ==
    ASSUME TypeInv, [Next]_vars
    PROVE  /\ DOMAIN match \subseteq DOMAIN match'
           /\ \A m \in DOMAIN match' :
                 \/ m \in DOMAIN match /\ Less(match', m)
                 \/ \E insts \in Provided : \E r : Pops(insts, r, m)
  <1>f. ASSUME match' = match \/ Fewer(match')
        PROVE  /\ DOMAIN match \subseteq DOMAIN match'
               /\ \A m \in DOMAIN match' : m \in DOMAIN match /\ Less(match', m)
    BY <1>f DEF Less, Fewer
  <1>1. CASE TryPop
    <2>1. PICK insts \in Provided : \E r \in {Result(insts)} :
              PopNothing(r) \/ PopLater(r) \/ PopDropIn(r) \/ PopCoalesce(r) \/ PopFresh(r)
      BY <1>1 DEF TryPop
    <2> PICK r : /\ r = Result(insts)
                 /\ PopNothing(r) \/ PopLater(r) \/ PopDropIn(r) \/ PopCoalesce(r) \/ PopFresh(r)
      BY <2>1
    <2>2. GoodResult(r, ToSet(parties), Joinable) /\ Seated(r, insts)
      BY ResultGood
    <2>3. CASE PopNothing(r) \/ PopLater(r)
      <3>1. match' = match
        BY <2>3 DEF PopNothing, PopLater, matchVars
      <3> QED BY <1>f, <3>1
    <2>4. CASE PopDropIn(r) \/ PopCoalesce(r) \/ PopFresh(r)
      <3>1. /\ DOMAIN match \subseteq DOMAIN match'
            /\ \A m \in DOMAIN match' : (m \in DOMAIN match /\ Less(match', m)) \/ Enters(r, m)
        BY <2>2, <2>4, PopEnters
      <3>2. Now(r) /\ Commit(r)
        BY <2>4 DEF PopDropIn, PopCoalesce, PopFresh
      <3>3. \A m : Enters(r, m) => Pops(insts, r, m)
        BY <1>1, <2>2, <3>2 DEF Pops
      <3> QED BY <3>1, <3>3
    <2> QED BY <2>3, <2>4
  <1>2. CASE \/ \E n \in DOMAIN match : \/ InstanceReady(n) \/ InstanceGone(n)
                                        \/ \E q \in DOMAIN match[n].live : PlayerLeft(n, q)
             \/ \E i \in Id : Arrive(i) \/ TurnDown(i)
    <2>1. Fewer(match')
      BY <1>2, MatchTypes
    <2> QED BY <1>f, <2>1
  <1>3. CASE \E i \in Id : RemovePlayer(i)
    <2>1. Fewer(match')
      BY <1>3, RemovedType
    <2> QED BY <1>f, <2>1
  <1>4. CASE \/ \E p : AddParty(p) \/ RemoveParty(p)
             \/ \E i : SetSoloLock(i)
             \/ \E t : Expire(t) \/ Fire(t)
             \/ \E c : ReloadQueues(c)
             \/ UNCHANGED vars
    <2>1. match' = match
      BY <1>4 DEF AddParty, RemoveParty, SetSoloLock, Expire, Fire, ReloadQueues, vars, matchVars
    <2> QED BY <1>f, <2>1
  <1> QED BY <1>1, <1>2, <1>3, <1>4 DEF Next

\* Only a pop puts players into a match, and they are those of its result.
LEMMA AddedPopped ==
    ASSUME TypeInv, [Next]_vars, NEW m \in DOMAIN match', Added(m) # {}
    PROVE  \E insts \in Provided : \E r : Pops(insts, r, m)
  <1>1. ~(m \in DOMAIN match /\ Less(match', m))
    BY DEF Added, Less
  <1> QED BY <1>1, LessOrPop

\* The parties that are popped are those that leave the queue, and their players are the
\* ones that enter.
LEMMA PoppedTaken ==
    ASSUME TypeInv, NEW insts, NEW r, NEW m \in DOMAIN match', Pops(insts, r, m)
    PROVE  /\ Popped = ToSet(r.taken)
           /\ ToSet(parties') = ToSet(parties) \ ToSet(r.taken)
           /\ DOMAIN r.tf = Players(r.taken)
           /\ DOMAIN r.tf = UNION {Members(p) : p \in Popped}
           /\ Added(m) \subseteq DOMAIN r.tf /\ DOMAIN r.tf \subseteq DOMAIN match'[m].tf
  <1>1. parties \in Seq(AllParties)
    BY DEF TypeInv
  <1>2. ToSet(parties') = ToSet(parties) \cap (ToSet(parties) \ ToSet(r.taken))
    BY <1>1, KeepSet DEF Pops, Commit
  <1>3. r.taken \in Seq(ToSet(parties)) /\ DOMAIN r.tf = Players(r.taken)
    BY DEF Pops, GoodResult
  <1>4. ToSet(r.taken) \subseteq ToSet(parties)
    BY <1>3 DEF ToSet
  <1>5. Popped = ToSet(r.taken)
    BY <1>2, <1>4 DEF Popped
  <1>6. Players(r.taken) = UNION {Members(p) : p \in ToSet(r.taken)}
    BY <1>3 DEF Players, ToSet
  <1>7. Enters(r, m)
    BY DEF Pops
  <1>8. Added(m) \subseteq DOMAIN r.tf /\ DOMAIN r.tf \subseteq DOMAIN match'[m].tf
    BY <1>7 DEF Enters, Added, Merge, Formed
  <1> QED BY <1>2, <1>3, <1>5, <1>6, <1>8

\* The ids of the players of a queued party.
InParty(k) == Ids(Members(parties[k]))

\* ps are queued parties, all of them in S; no two of ps share a player.
From(ps, S) == \A k \in DOMAIN ps : \E l \in DOMAIN parties : ps[k] = parties[l] /\ ps[k] \in S
Apart(ps)   == \A j, k \in DOMAIN ps : j # k => Ids(Members(ps[j])) \cap Ids(Members(ps[k])) = {}

\* Nobody waits in two parties.
ApartInv == Apart(parties)

\* What is left of the queue when only the parties in S stay.
LEMMA KeptParties ==
    ASSUME TypeInv, ApartInv, NEW S, NEW ps, ps = Keep(parties, S)
    PROVE  From(ps, S) /\ Apart(ps)
  <1>1. /\ \A k \in DOMAIN ps : ps[k] \in S /\ ps[k] \in ToSet(parties)
        /\ \A j, k \in DOMAIN ps : j # k =>
              \E i, l \in DOMAIN parties : i # l /\ ps[j] = parties[i] /\ ps[k] = parties[l]
    BY KeepPart DEF TypeInv
  <1>2. \A k \in DOMAIN ps : \E l \in DOMAIN parties : ps[k] = parties[l] /\ ps[k] \in S
    BY <1>1 DEF ToSet
  <1>3. ASSUME NEW j \in DOMAIN ps, NEW k \in DOMAIN ps, j # k
        PROVE  Ids(Members(ps[j])) \cap Ids(Members(ps[k])) = {}
    <2>1. PICK i, l \in DOMAIN parties : i # l /\ ps[j] = parties[i] /\ ps[k] = parties[l]
      BY <1>1, <1>3
    <2> QED BY <2>1 DEF ApartInv, Apart
  <1> QED BY <1>2, <1>3 DEF From, Apart

\* Parties leave the queue.
LEMMA FewerApart ==
    ASSUME TypeInv, ApartInv,
           parties' = parties \/ (\E S : parties' = Keep(parties, S)) \/ parties' = <<>>
    PROVE  ApartInv'
  <1>1. CASE parties' = parties
    BY <1>1 DEF ApartInv, Apart
  <1>2. ASSUME NEW S, parties' = Keep(parties, S) PROVE ApartInv'
    <2> PICK ps : ps = parties'
      OBVIOUS
    <2>1. Apart(ps)
      BY <1>2, KeptParties
    <2> QED BY <2>1 DEF ApartInv, Apart
  <1>3. CASE parties' = <<>>
    BY <1>3 DEF ApartInv, Apart
  <1> QED BY <1>1, <1>2, <1>3

\* A party joins: its players are not in the queue, or the party is and moves to the end.
LEMMA JoinApart ==
    ASSUME TypeInv, ApartInv, NEW p, AddParty(p)
    PROVE  ApartInv'
  <1> PICK ps : ps = Others(p)
    OBVIOUS
  <1>1. From(ps, ToSet(parties) \ {p}) /\ Apart(ps)
    BY KeptParties DEF Others
  <1> DEFINE New == Ids(Members(p))
  <1>2. ASSUME NEW k \in DOMAIN ps PROVE Ids(Members(ps[k])) \cap New = {}
    <2>1. PICK l \in DOMAIN parties : ps[k] = parties[l] /\ parties[l] # p
      BY <1>1 DEF From
    <2>2. CASE p \in ToSet(parties)
      <3>1. PICK j \in DOMAIN parties : parties[j] = p
        BY <2>2 DEF ToSet
      <3>2. j # l
        BY <2>1, <3>1
      <3> QED BY <2>1, <3>1, <3>2 DEF ApartInv, Apart
    <2>3. CASE p \notin ToSet(parties)
      <3>1. New \cap Queued = {}
        BY <2>3 DEF AddParty
      <3>2. Ids(Members(parties[l])) \subseteq Queued
        BY DEF Queued, Ids, Players
      <3> QED BY <2>1, <3>1, <3>2
    <2> QED BY <2>2, <2>3
  <1> HIDE DEF New
  <1>4. parties' = Append(ps, p) /\ ps \in Seq(AllParties)
    BY OthersType DEF AddParty
  <1>5. /\ Len(ps) \in Nat /\ DOMAIN ps = 1 .. Len(ps)
        /\ DOMAIN parties' = 1 .. Len(ps) + 1
        /\ parties'[Len(ps) + 1] = p
        /\ \A k \in 1 .. Len(ps) : parties'[k] = ps[k]
    BY <1>4
  <1>6. \A k \in DOMAIN parties' : k \in DOMAIN ps \/ k = Len(ps) + 1
    BY <1>5
  <1>7. /\ \A k \in DOMAIN ps : InParty(k)' = Ids(Members(ps[k]))
        /\ InParty(Len(ps) + 1)' = New
    BY <1>5 DEF InParty, New
  <1>8. \A j, k \in DOMAIN parties' : j # k => InParty(j)' \cap InParty(k)' = {}
    BY <1>1, <1>2, <1>6, <1>7 DEF Apart
  <1> QED BY <1>8 DEF ApartInv, Apart, InParty

\* Every step keeps parties apart.
LEMMA ApartStep ==
    ASSUME TypeInv, ApartInv, [Next]_vars
    PROVE  ApartInv'
  <1>1. ASSUME NEW p, AddParty(p) PROVE ApartInv'
    BY <1>1, JoinApart
  <1>2. ASSUME NEW p, Dequeue(p) PROVE ApartInv'
    BY <1>2, FewerApart DEF Dequeue, Others
  <1>3. ASSUME TryPop PROVE ApartInv'
    <2> PICK r : PopNothing(r) \/ PopLater(r) \/ PopDropIn(r) \/ PopCoalesce(r) \/ PopFresh(r)
      BY <1>3 DEF TryPop
    <2>1. parties' = parties \/ parties' = Keep(parties, ToSet(parties) \ ToSet(r.taken))
      BY DEF PopNothing, PopLater, PopDropIn, PopCoalesce, PopFresh, Commit, queueVars
    <2> QED BY <2>1, FewerApart
  <1>4. ASSUME NEW i, RemovePlayer(i) PROVE ApartInv'
    BY <1>2, <1>4, FewerApart DEF RemovePlayer
  <1>5. ASSUME \/ \E i : SetSoloLock(i) \/ Arrive(i) \/ TurnDown(i)
               \/ \E t : Expire(t) \/ Fire(t)
               \/ \E m : InstanceReady(m) \/ InstanceGone(m) \/ \E q : PlayerLeft(m, q)
               \/ \E c : ReloadQueues(c)
               \/ UNCHANGED vars
        PROVE  ApartInv'
    <2>1. parties' = parties \/ parties' = <<>>
      BY <1>5 DEF SetSoloLock, Arrive, TurnDown, Expire, Fire, InstanceReady, InstanceGone,
                  PlayerLeft, ReloadQueues, vars, queueVars
    <2> QED BY <2>1, FewerApart
  <1> QED
    BY <1>1, <1>2, <1>3, <1>4, <1>5 DEF Next, RemoveParty

\* Nobody has arrived in a match whose instance is not READY.
PendingInv == \A m \in DOMAIN match : match[m].state = "pending" => DOMAIN match[m].live = {}

\* A new match has nobody, and no step brings anybody to a pending one.
LEMMA PendingStep ==
    ASSUME TypeInv, PendingInv, [Next]_vars
    PROVE  PendingInv'
  <1>1. ASSUME NEW m \in DOMAIN match', match'[m].state = "pending"
        PROVE  DOMAIN match'[m].live = {}
    <2>1. CASE m \in DOMAIN match /\ Less(match', m)
      BY <1>1, <2>1 DEF PendingInv, Less
    <2>2. ASSUME NEW insts, NEW r, Pops(insts, r, m) PROVE DOMAIN match'[m].live = {}
      BY <1>1, <2>2 DEF Pops, Enters, PendingInv, Formed, Nobody
    <2> QED BY <2>1, <2>2, LessOrPop
  <1> QED BY <1>1 DEF PendingInv

\* The types, that parties are apart and that pending matches have nobody.
QueueInv == TypeInv /\ ApartInv /\ PendingInv

\* All of it always holds.
LEMMA QueueInvAlways == Spec => []QueueInv
  <1>1. Init => QueueInv
    BY TypeInvInit DEF Init, ApartInv, Apart, PendingInv, QueueInv
  <1>2. QueueInv /\ [Next]_vars => QueueInv'
    BY TypeInvStep, ApartStep, PendingStep DEF QueueInv
  <1> QED BY <1>1, <1>2, PTL DEF Spec

\* A pop takes whole parties: all their players enter the match, and none of those who
\* enter waits in the queue any longer, since nobody is in two parties.
LEMMA PopWhole ==
    ASSUME QueueInv, NEW insts, NEW r, NEW m \in DOMAIN match', Pops(insts, r, m)
    PROVE  /\ Ids(Added(m)) \cap Ids(Players(parties')) = {}
           /\ \A p \in Popped : Members(p) \subseteq DOMAIN match'[m].tf
  <1>0. TypeInv /\ ApartInv
    BY DEF QueueInv
  <1>1. /\ Popped = ToSet(r.taken)
        /\ ToSet(parties') = ToSet(parties) \ ToSet(r.taken)
        /\ DOMAIN r.tf = UNION {Members(p) : p \in Popped}
        /\ Added(m) \subseteq DOMAIN r.tf /\ DOMAIN r.tf \subseteq DOMAIN match'[m].tf
    BY <1>0, PoppedTaken
  <1>2. ASSUME NEW x \in Added(m), NEW y \in Players(parties') PROVE x.id # y.id
    <2>1. PICK p \in ToSet(r.taken) : x \in Members(p)
      BY <1>1
    <2>2. PICK l \in DOMAIN parties' : y \in Members(parties'[l])
      BY DEF Players
    <2> PICK q : q = parties'[l]
      OBVIOUS
    <2>3. q \in ToSet(parties) \ ToSet(r.taken)
      BY <1>1 DEF ToSet
    <2>4. p \in ToSet(parties)
      BY <1>1 DEF Popped
    <2>5. PICK j, k \in DOMAIN parties : p = parties[j] /\ q = parties[k]
      BY <2>3, <2>4 DEF ToSet
    <2>6. j # k
      BY <2>1, <2>3, <2>5
    <2>7. Ids(Members(p)) \cap Ids(Members(q)) = {}
      BY <1>0, <2>5, <2>6 DEF ApartInv, Apart
    <2> QED BY <2>1, <2>2, <2>7 DEF Ids
  <1>3. Ids(Added(m)) \cap Ids(Players(parties')) = {}
    BY <1>2 DEF Ids
  <1> QED BY <1>1, <1>3

\* Whatever a rule takes, a party is popped as a unit: it is in the match with all its
\* players, whether the match is new, pending or running and whatever matches they were
\* in before, and none of them is left in the queue.
THEOREM PartiesAtomicAlways == Spec => PartiesAtomic
  <1>1. QueueInv /\ [Next]_vars
        => [\A m \in DOMAIN match' : Added(m) # {} =>
              /\ Ids(Added(m)) \cap Ids(Players(parties')) = {}
              /\ \A p \in Popped : Members(p) \subseteq DOMAIN match'[m].tf]_vars
    <2> SUFFICES ASSUME QueueInv, [Next]_vars, NEW m \in DOMAIN match', Added(m) # {}
                 PROVE  /\ Ids(Added(m)) \cap Ids(Players(parties')) = {}
                        /\ \A p \in Popped : Members(p) \subseteq DOMAIN match'[m].tf
      OBVIOUS
    <2>p. PICK insts \in Provided : \E r : Pops(insts, r, m)
      BY AddedPopped DEF QueueInv
    <2>1. PICK r : Pops(insts, r, m)
      BY <2>p
    <2> QED BY <2>1, PopWhole
  <1> QED BY <1>1, QueueInvAlways, PTL DEF Spec, PartiesAtomic

-----------------------------------------------------------------------------
(* Under the cap.                                                         *)

\* Two sets have no more elements together than each for itself.
LEMMA UnionBound ==
    ASSUME NEW S, IsFiniteSet(S), NEW T, IsFiniteSet(T)
    PROVE  /\ Cardinality(S) \in Nat /\ Cardinality(T) \in Nat /\ Cardinality(S \cup T) \in Nat
           /\ Cardinality(S \cup T) <= Cardinality(S) + Cardinality(T)
  <1>1. IsFiniteSet(S \cup T) /\ IsFiniteSet(S \cap T)
    BY FS_Union, FS_Intersection
  <1>2. Cardinality(S \cup T) = Cardinality(S) + Cardinality(T) - Cardinality(S \cap T)
    BY FS_Union
  <1>3. {Cardinality(S), Cardinality(T), Cardinality(S \cup T), Cardinality(S \cap T)} \subseteq Nat
    BY <1>1, FS_CardinalityType
  <1> QED BY <1>2, <1>3

\* Players that are taken are at most the heads that were counted, and joined to a
\* match they add at most as many.
LEMMA HeadCount ==
    ASSUME TypeInv, NEW r, GoodResult(r, ToSet(parties), Joinable),
           NEW a \in SideMaps(AllPlayers)
    PROVE  /\ Heads(r.taken) \in Nat /\ IsFiniteSet(DOMAIN r.tf)
           /\ Cardinality(DOMAIN r.tf) <= Heads(r.taken)
           /\ Cardinality(DOMAIN Merge(a, r.tf)) <= Cardinality(DOMAIN a) + Heads(r.taken)
           /\ {Cardinality(DOMAIN r.tf), Cardinality(DOMAIN Merge(a, r.tf)),
               Cardinality(DOMAIN a)} \subseteq Nat
  <1>1. ToSet(parties) \subseteq PartyOf(AllPlayers)
    BY AllPartiesType DEF TypeInv, ToSet
  <1>2. r.taken \in Seq(PartyOf(AllPlayers)) /\ DOMAIN r.tf = Players(r.taken)
    BY <1>1 DEF GoodResult
  <1>3. IsFiniteSet(DOMAIN r.tf) /\ Cardinality(DOMAIN r.tf) <= Heads(r.taken)
    BY <1>2, PlayersBound
  <1>4. Heads(r.taken) \in Nat
    BY <1>2, HeadsType
  <1>5. IsFiniteSet(DOMAIN a)
    BY SideMapType, AllPlayersType, FS_Subset
  <1>6. DOMAIN Merge(a, r.tf) = DOMAIN a \cup DOMAIN r.tf
    BY DEF Merge
  <1> PICK x, y : x = DOMAIN a /\ y = DOMAIN r.tf
    OBVIOUS
  <1>7. /\ Cardinality(x) \in Nat /\ Cardinality(y) \in Nat
        /\ Cardinality(x \cup y) \in Nat /\ Cardinality(x \cup y) <= Cardinality(x) + Cardinality(y)
    BY <1>3, <1>5, UnionBound
  <1>8. Cardinality(x \cup y) <= Cardinality(x) + Heads(r.taken)
    BY <1>3, <1>4, <1>7
  <1> QED BY <1>3, <1>4, <1>6, <1>7, <1>8

\* The seats of those who arrived and those who are expected.
SeatSet(live, tf) == {Seat(q, "live") : q \in DOMAIN live} \cup {Seat(q, "reserved") : q \in DOMAIN tf}

\* They are the seats the provider counts, before a step and after it.
LEMMA SeatsDomain ==
    ASSUME NEW m
    PROVE  /\ DOMAIN Seats(m) = SeatSet(match[m].live, match[m].tf)
           /\ (DOMAIN Seats(m))' = SeatSet(match'[m].live, match'[m].tf)
           /\ Occupied(m) = Cardinality(SeatSet(match[m].live, match[m].tf))
           /\ Occupied(m)' = Cardinality(SeatSet(match'[m].live, match'[m].tf))
  BY DEF Seats, SeatSet, Occupied

\* Players have as many seats of a kind, at most.
LEMMA SeatsBound ==
    ASSUME NEW S, IsFiniteSet(S), NEW kind, NEW T, T = {Seat(q, kind) : q \in S}
    PROVE  IsFiniteSet(T) /\ Cardinality(T) \in Nat /\ Cardinality(T) <= Cardinality(S)
  <1> DEFINE F == [q \in S |-> Seat(q, kind)]
  <1>1. F \in Surjection(S, T)
    BY DEF Surjection
  <1>2. IsFiniteSet(T) /\ Cardinality(T) <= Cardinality(S)
    BY <1>1, FS_Surjection
  <1> QED BY <1>2, FS_CardinalityType

\* A seat of the result is a seat under the cap: the free seats the provider counted
\* are those of the match as it is.
LEMMA ResultSeated ==
    ASSUME TypeInv, NEW r, GoodResult(r, ToSet(parties), Joinable),
           NEW insts \in Provided, Seated(r, insts)
    PROVE  /\ r.inst = 0 /\ r.access # "PARTY_LOCKED" /\ r.cap > 0 => Heads(r.taken) <= r.cap
           /\ r.inst # 0 /\ cfg.cap > 0 => Occupied(r.inst) + Heads(r.taken) <= cfg.cap
  <1>1. r.inst = 0 /\ r.access # "PARTY_LOCKED" /\ r.cap > 0 => Heads(r.taken) <= r.cap
    BY DEF Seated
  <1>2. ASSUME r.inst # 0, cfg.cap > 0
        PROVE  Occupied(r.inst) + Heads(r.taken) <= cfg.cap
    <2>1. PICK k \in DOMAIN insts :
             insts[k].id = r.inst /\ (insts[k].free >= 0 => Heads(r.taken) <= insts[k].free)
      BY <1>2 DEF Seated
    <2>2. insts[k] = Running(r.inst)
      BY <2>1, ProvidedType
    <2>3. r.inst \in Joinable /\ r.inst \in DOMAIN match
      BY <1>2 DEF GoodResult, Joinable
    <2>4. insts[k].free = cfg.cap - Occupied(r.inst) /\ Occupied(r.inst) < cfg.cap
      BY <1>2, <2>2, <2>3 DEF Running, Joinable
    <2>5. cfg.cap \in Nat
      BY QueueAssumption DEF TypeInv, ConfigType
    <2>6. Occupied(r.inst) \in Nat
      BY <2>3, SeatsType
    <2>7. Heads(r.taken) \in Nat
      BY NobodyType, HeadCount
    <2> QED BY <2>1, <2>4, <2>5, <2>6, <2>7
  <1> QED BY <1>1, <1>2

\* A drop-in takes free seats, a pending match takes whom the guard of Coalesces lets in,
\* who need no other seats since nobody has arrived, and a new one has the cap of its
\* rule.
LEMMA PopWithinCap ==
    ASSUME QueueInv, NEW insts \in Provided, NEW r, NEW m \in DOMAIN match', Pops(insts, r, m),
           match'[m].access # "PARTY_LOCKED",
           NEW cap, cap = IF match'[m].state = "ready" THEN cfg.cap ELSE match'[m].cap, cap > 0
    PROVE  Occupied(m)' <= cap
  <1>i. TypeInv /\ PendingInv
    BY DEF QueueInv
  <1>g. /\ GoodResult(r, ToSet(parties), Joinable) /\ Seated(r, insts)
        /\ r.tf \in SideMaps(AllPlayers)
    BY <1>i, TakenType DEF Pops
  <1> PICK h \in Nat : h = Heads(r.taken)
    BY <1>g, <1>i, NobodyType, HeadCount
  <1> PICK X : X = {Seat(q, "reserved") : q \in DOMAIN r.tf}
    OBVIOUS
  <1>x. IsFiniteSet(X) /\ Cardinality(X) \in Nat /\ Cardinality(X) <= h
    <2>1. /\ IsFiniteSet(DOMAIN r.tf) /\ Cardinality(DOMAIN r.tf) <= h
          /\ Cardinality(DOMAIN r.tf) \in Nat
      BY <1>g, <1>i, NobodyType, HeadCount
    <2> QED BY <2>1, SeatsBound
  <1>1. CASE r.inst = m /\ m \in DOMAIN match /\ match[m].state = "ready"
    <2>1. match'[m].state = "ready" /\ match'[m].live = match[m].live
          /\ match'[m].tf = Merge(match[m].tf, r.tf)
      BY <1>1, <1>g DEF Pops, Enters, GoodResult, Joinable, Coalesces
    <2>2. r.inst # 0 /\ cap = cfg.cap /\ cap \in Nat
      BY <1>1, <1>i, <2>1, QueueAssumption DEF TypeInv, ConfigType
    <2>3. Occupied(m) + h <= cap
      BY <1>1, <1>g, <1>i, <2>2, ResultSeated
    <2>4. SeatSet(match'[m].live, match'[m].tf) = DOMAIN Seats(m) \cup X
      <3>1. DOMAIN match'[m].tf = DOMAIN match[m].tf \cup DOMAIN r.tf
        BY <2>1 DEF Merge
      <3>2. SeatSet(match'[m].live, match'[m].tf) = SeatSet(match[m].live, match[m].tf) \cup X
        BY <2>1, <3>1 DEF SeatSet
      <3> QED BY <3>2, SeatsDomain
    <2>5. Occupied(m)' = Cardinality(DOMAIN Seats(m) \cup X)
      BY <2>4, SeatsDomain
    <2>6. /\ Cardinality(DOMAIN Seats(m) \cup X) \in Nat /\ Occupied(m) \in Nat
          /\ Cardinality(DOMAIN Seats(m) \cup X) <= Occupied(m) + Cardinality(X)
      BY <1>1, <1>i, <1>x, SeatsType, UnionBound DEF Occupied
    <2> QED BY <1>x, <2>2, <2>3, <2>5, <2>6
  <1>2. CASE m \in DOMAIN match /\ Coalesces(r, m)
    <2>1. /\ match[m].state = "pending" /\ match'[m].state = "pending"
          /\ match'[m].live = match[m].live /\ match'[m].cap = match[m].cap
          /\ match'[m].tf = Merge(match[m].tf, r.tf)
      BY <1>2 DEF Pops, Enters, Coalesces
    <2>2. cap = match[m].cap /\ cap \in Nat /\ match[m].tf \in SideMaps(AllPlayers)
      BY <1>2, <1>i, <2>1, MatchType DEF MatchOf
    <2>3. Cardinality(DOMAIN match[m].tf) + h <= cap
      BY <1>2, <2>2 DEF Coalesces
    <2> PICK Y : Y = DOMAIN Merge(match[m].tf, r.tf)
      OBVIOUS
    <2>4. IsFiniteSet(Y) /\ Cardinality(Y) \in Nat /\ Cardinality(Y) <= cap
      <3>1. Y = DOMAIN match[m].tf \cup DOMAIN r.tf
        BY DEF Merge
      <3>2. IsFiniteSet(DOMAIN match[m].tf) /\ IsFiniteSet(DOMAIN r.tf)
        BY <1>g, <2>2, SideMapType, AllPlayersType, FS_Subset
      <3>3. Cardinality(Y) <= Cardinality(DOMAIN match[m].tf) + h
        BY <1>g, <1>i, <2>2, HeadCount
      <3>4. IsFiniteSet(Y) /\ Cardinality(Y) \in Nat /\ Cardinality(DOMAIN match[m].tf) \in Nat
        BY <3>1, <3>2, FS_Union, FS_CardinalityType
      <3> QED BY <2>2, <2>3, <3>3, <3>4
    <2>5. SeatSet(match'[m].live, match'[m].tf) = {Seat(q, "reserved") : q \in Y}
      <3>1. DOMAIN match'[m].live = {}
        BY <1>2, <1>i, <2>1 DEF PendingInv
      <3> QED BY <2>1, <3>1 DEF SeatSet
    <2> QED BY <2>2, <2>4, <2>5, SeatsBound, SeatsDomain
  <1>3. CASE r.inst = 0 /\ match'[m] = Formed(r)
    <2>1. /\ match'[m].tf = r.tf /\ DOMAIN match'[m].live = {}
          /\ match'[m].access = r.access /\ match'[m].cap = r.cap /\ match'[m].state = "pending"
      BY <1>3 DEF Formed, Nobody
    <2>2. cap = r.cap /\ cap \in Nat
      BY <1>g, <2>1 DEF GoodResult
    <2>3. h <= cap
      BY <1>3, <1>g, <1>i, <2>1, <2>2, ResultSeated
    <2>4. SeatSet(match'[m].live, match'[m].tf) = X
      BY <2>1 DEF SeatSet
    <2>5. Occupied(m)' = Cardinality(X)
      BY <2>4, SeatsDomain
    <2> QED BY <1>x, <2>2, <2>3, <2>5
  <1> QED BY <1>1, <1>2, <1>3 DEF Pops, Enters

\* No pop overfills a match, whatever was popped into it before, whoever is expected
\* where he is already, and whatever cap a reload gave the queue: each rule counts players
\* by party size, which may count a player twice and never misses one.
THEOREM CapRespected == Spec => AddedWithinCap
  <1>1. QueueInv /\ [Next]_vars
        => [\A m \in DOMAIN match' :
              LET cap == IF match'[m].state = "ready" THEN cfg.cap ELSE match'[m].cap IN
              Added(m) # {} /\ match'[m].access # "PARTY_LOCKED" /\ cap > 0
                  => Occupied(m)' <= cap]_vars
    <2> SUFFICES ASSUME QueueInv, [Next]_vars, NEW m \in DOMAIN match', Added(m) # {},
                        match'[m].access # "PARTY_LOCKED", NEW cap,
                        cap = IF match'[m].state = "ready" THEN cfg.cap ELSE match'[m].cap, cap > 0
                 PROVE  Occupied(m)' <= cap
      OBVIOUS
    <2>p. PICK insts \in Provided : \E r : Pops(insts, r, m)
      BY AddedPopped DEF QueueInv
    <2>1. PICK r : Pops(insts, r, m)
      BY <2>p
    <2> QED BY <2>1, PopWithinCap
  <1> QED BY <1>1, QueueInvAlways, PTL DEF Spec, AddedWithinCap

-----------------------------------------------------------------------------
(* Repairs.                                                               *)

\* Parties of the queue share no player with each other, and a seat is no player.
LEMMA QueueStrangers ==
    ASSUME TypeInv, ApartInv, NEW insts \in Provided
    PROVE  Strangers(Eligible, insts)
  <1>1. ASSUME NEW j \in DOMAIN parties, NEW k \in DOMAIN parties, j # k
        PROVE  Members(parties[j]) \cap Members(parties[k]) = {}
    <2>1. Ids(Members(parties[j])) \cap Ids(Members(parties[k])) = {}
      BY <1>1 DEF ApartInv, Apart
    <2> QED BY <2>1 DEF Ids
  <1>2. ASSUME NEW j \in DOMAIN parties
        PROVE  Members(parties[j]) \subseteq AllPlayers
    <2>1. parties[j] \in PartyOf(AllPlayers)
      BY AllPartiesType DEF TypeInv
    <2> QED BY <2>1, MembersType
  <1>3. ASSUME NEW k \in DOMAIN insts
        PROVE  DOMAIN insts[k].tf \subseteq AllSeats
    <2>1. insts[k] = Running(insts[k].id) /\ insts[k].id \in DOMAIN match
      BY ProvidedType DEF Joinable
    <2>2. insts[k].tf = Seats(insts[k].id)
      BY <2>1 DEF Running
    <2> QED BY <2>1, <2>2, SeatsType, SideMapType
  <1>4. ASSUME NEW j \in DOMAIN parties, NEW k \in DOMAIN insts
        PROVE  Members(parties[j]) \cap DOMAIN insts[k].tf = {}
    BY <1>2, <1>3, EveryoneType
  <1>5. Strangers(parties, insts)
    BY <1>1, <1>4 DEF Strangers
  <1>6. Drawn(Eligible, parties)
    <2>1. parties \in Seq(AllParties)
      BY DEF TypeInv
    <2> QED BY <2>1, KeepDrawn DEF Eligible
  <1> QED BY <1>5, <1>6, DrawnStrangers

\* What the rule returns for an instance that is BACKFILL_ONLY mends its sides.
LEMMA ResultMends ==
    ASSUME TypeInv, ApartInv, NEW insts \in Provided
    PROVE  Mended(Result(insts), insts)
  <1>1. CASE Result(insts) = NoResult
    BY <1>1 DEF Mended, NoResult
  <1>2. CASE Result(insts) # NoResult
    <2>1. parties # <<>> /\ Result(insts) = Evaluate(cfg, Eligible, insts, Claims, solo)
      BY <1>2 DEF Result
    <2>2. GoodConfig(cfg)
      <3>1. cfg \in ConfigType /\ cfg.rule # "none"
        BY <2>1, QueueAssumption DEF TypeInv
      <3> QED BY <3>1 DEF ConfigType, GoodConfig
    <2>3. parties \in Seq(PartyOf(Everyone))
      BY AllPartiesType DEF TypeInv
    <2>4. Eligible \in Seq(PartyOf(Everyone))
      BY <2>3, KeepPart DEF Eligible
    <2> QED BY <2>1, <2>2, <2>4, ProvidedType, EveryoneType, QueueStrangers, EvaluateMends
  <1> QED BY <1>1, <1>2

\* The seats of a match and their sides, and of those who are newly expected.
SeatMap(live, tf) ==
    [s \in SeatSet(live, tf) |-> IF s.seat = "live" THEN live[Player(s.id)] ELSE tf[Player(s.id)]]
Reserved(b) == [s \in {Seat(q, "reserved") : q \in DOMAIN b} |-> b[Player(s.id)]]

\* They are what the provider counts, before a step and after it.
LEMMA SeatsMap ==
    ASSUME class' = class, NEW m
    PROVE  /\ Seats(m) = SeatMap(match[m].live, match[m].tf)
           /\ Seats(m)' = SeatMap(match'[m].live, match'[m].tf)
  BY DEF Seats, SeatMap, SeatSet, Player

\* A seat tells its player and whether he has arrived.
LEMMA SeatMapType ==
    ASSUME NEW live \in SideMaps(AllPlayers), NEW tf \in SideMaps(AllPlayers),
           NEW S, S = SeatMap(live, tf)
    PROVE  /\ \A q \in AllPlayers : /\ Seat(q, "live") \in DOMAIN S <=> q \in DOMAIN live
                                    /\ Seat(q, "reserved") \in DOMAIN S <=> q \in DOMAIN tf
           /\ \A q \in DOMAIN live : S[Seat(q, "live")] = live[q]
           /\ \A q \in DOMAIN tf : S[Seat(q, "reserved")] = tf[q]
           /\ \A s \in DOMAIN S : \/ \E q \in DOMAIN live : s = Seat(q, "live")
                                  \/ \E q \in DOMAIN tf : s = Seat(q, "reserved")
  <1>1. DOMAIN live \subseteq AllPlayers /\ DOMAIN tf \subseteq AllPlayers
    BY SideMapType
  <1>2. ASSUME NEW p \in AllPlayers, NEW q \in AllPlayers, NEW j, NEW k
        PROVE  /\ Seat(p, j) = Seat(q, k) => p = q /\ j = k
               /\ Player(Seat(p, j).id) = p /\ Seat(p, j).seat = j
    <2>1. Seat(p, j).id = p.id /\ Seat(q, k).id = q.id /\ Seat(p, j).seat = j /\ Seat(q, k).seat = k
      BY DEF Seat
    <2> QED BY <2>1, AllPlayersType
  <1>3. DOMAIN S = SeatSet(live, tf)
    BY DEF SeatMap
  <1>4. \A s \in DOMAIN S : \/ \E q \in DOMAIN live : s = Seat(q, "live")
                            \/ \E q \in DOMAIN tf : s = Seat(q, "reserved")
    BY <1>3 DEF SeatSet
  <1>5. ASSUME NEW q \in AllPlayers
        PROVE  /\ Seat(q, "live") \in DOMAIN S <=> q \in DOMAIN live
               /\ Seat(q, "reserved") \in DOMAIN S <=> q \in DOMAIN tf
    <2>1. q \in DOMAIN live => Seat(q, "live") \in DOMAIN S
      BY <1>3 DEF SeatSet
    <2>2. q \in DOMAIN tf => Seat(q, "reserved") \in DOMAIN S
      BY <1>3 DEF SeatSet
    <2>3. Seat(q, "live") \in DOMAIN S => q \in DOMAIN live
      BY <1>1, <1>2, <1>4
    <2>4. Seat(q, "reserved") \in DOMAIN S => q \in DOMAIN tf
      BY <1>1, <1>2, <1>4
    <2> QED BY <2>1, <2>2, <2>3, <2>4
  <1>6. ASSUME NEW s \in DOMAIN S
        PROVE  S[s] = IF s.seat = "live" THEN live[Player(s.id)] ELSE tf[Player(s.id)]
    BY <1>3 DEF SeatMap
  <1>7. ASSUME NEW q \in DOMAIN live PROVE S[Seat(q, "live")] = live[q]
    BY <1>1, <1>2, <1>5, <1>6
  <1>8. ASSUME NEW q \in DOMAIN tf PROVE S[Seat(q, "reserved")] = tf[q]
    BY <1>1, <1>2, <1>5, <1>6
  <1> QED BY <1>4, <1>5, <1>7, <1>8

\* Newly expected players take a seat each.
LEMMA ReservedType ==
    ASSUME NEW b \in SideMaps(AllPlayers)
    PROVE  /\ DOMAIN Reserved(b) = {Seat(q, "reserved") : q \in DOMAIN b}
           /\ IsFiniteSet(DOMAIN Reserved(b))
           /\ \A q \in DOMAIN b : Reserved(b)[Seat(q, "reserved")] = b[q]
           /\ \A c : /\ {Count(DOMAIN Reserved(b), c), Count(DOMAIN b, c)} \subseteq Nat
                     /\ Count(DOMAIN Reserved(b), c) <= Count(DOMAIN b, c)
  <1> PICK x : x = Reserved(b)
    OBVIOUS
  <1>1. DOMAIN b \subseteq AllPlayers /\ IsFiniteSet(DOMAIN b)
    BY SideMapType, AllPlayersType, FS_Subset
  <1>2. DOMAIN x = {Seat(q, "reserved") : q \in DOMAIN b}
    BY DEF Reserved
  <1>3. IsFiniteSet(DOMAIN x)
    BY <1>1, <1>2, SeatsBound
  <1>4. ASSUME NEW q \in DOMAIN b PROVE x[Seat(q, "reserved")] = b[q]
    <2>1. Player(Seat(q, "reserved").id) = q
      BY <1>1, AllPlayersType DEF Seat
    <2> QED BY <2>1 DEF Reserved
  <1>5. ASSUME NEW c
        PROVE  /\ {Count(DOMAIN x, c), Count(DOMAIN b, c)} \subseteq Nat
               /\ Count(DOMAIN x, c) <= Count(DOMAIN b, c)
    <2> PICK S, T : S = {q \in DOMAIN b : q.class = c} /\ T = {s \in DOMAIN x : s.class = c}
      OBVIOUS
    <2>1. IsFiniteSet(S)
      BY <1>1, FS_Subset
    <2>2. T = {Seat(q, "reserved") : q \in S}
      BY <1>2 DEF Seat
    <2>3. Cardinality(T) \in Nat /\ Cardinality(T) <= Cardinality(S) /\ Cardinality(S) \in Nat
      BY <2>1, <2>2, SeatsBound, FS_CardinalityType
    <2> QED BY <2>3 DEF Count
  <1> QED BY <1>2, <1>3, <1>4, <1>5

\* Who is expected in addition takes the seat he is given.
LEMMA SeatsJoined ==
    ASSUME NEW live \in SideMaps(AllPlayers), NEW tf \in SideMaps(AllPlayers),
           NEW b \in SideMaps(AllPlayers)
    PROVE  Joined(SeatMap(live, Merge(tf, b)), SeatMap(live, tf), Reserved(b))
  <1> PICK t, S, T, x : /\ t = Merge(tf, b) /\ S = SeatMap(live, tf)
                        /\ T = SeatMap(live, t) /\ x = Reserved(b)
    OBVIOUS
  <1>1. /\ DOMAIN t = DOMAIN tf \cup DOMAIN b /\ t \in SideMaps(AllPlayers)
        /\ \A q \in DOMAIN t : t[q] = IF q \in DOMAIN tf THEN tf[q] ELSE b[q]
    BY MergeType DEF Merge
  <1>2. DOMAIN b \subseteq AllPlayers /\ DOMAIN tf \subseteq AllPlayers /\ DOMAIN live \subseteq AllPlayers
    BY SideMapType
  <1>3. DOMAIN T = DOMAIN S \cup DOMAIN x
    <2>1. DOMAIN x = {Seat(q, "reserved") : q \in DOMAIN b}
      BY ReservedType
    <2>2. DOMAIN T = SeatSet(live, t) /\ DOMAIN S = SeatSet(live, tf)
      BY DEF SeatMap
    <2> QED BY <1>1, <2>1, <2>2 DEF SeatSet
  <1>4. ASSUME NEW s \in DOMAIN T
        PROVE  T[s] = IF s \in DOMAIN S THEN S[s] ELSE x[s]
    <2>1. CASE \E q \in DOMAIN live : s = Seat(q, "live")
      <3> PICK q \in DOMAIN live : s = Seat(q, "live")
        BY <2>1
      <3>1. T[s] = live[q]
        BY <1>1, SeatMapType
      <3>2. s \in DOMAIN S /\ S[s] = live[q]
        BY <1>2, SeatMapType
      <3> QED BY <3>1, <3>2
    <2>2. CASE \E q \in DOMAIN t : s = Seat(q, "reserved")
      <3> PICK q \in DOMAIN t : s = Seat(q, "reserved")
        BY <2>2
      <3>1. T[s] = t[q]
        BY <1>1, SeatMapType
      <3>2. s \in DOMAIN S <=> q \in DOMAIN tf
        BY <1>1, <1>2, SeatMapType
      <3>3. q \in DOMAIN tf => S[s] = tf[q]
        BY SeatMapType
      <3>4. q \in DOMAIN b => x[s] = b[q]
        BY ReservedType
      <3> QED BY <1>1, <3>1, <3>2, <3>3, <3>4
    <2> QED BY <1>1, <2>1, <2>2, SeatMapType
  <1> QED BY <1>3, <1>4 DEF Joined

\* Players who fill a side fill it with their seats.
LEMMA ReservedFills ==
    ASSUME NEW a, IsFiniteSet(DOMAIN a), NEW b \in SideMaps(AllPlayers), Fills(b, a)
    PROVE  Fills(Reserved(b), a)
  <1> PICK x : x = Reserved(b)
    OBVIOUS
  <1>1. /\ DOMAIN x = {Seat(q, "reserved") : q \in DOMAIN b}
        /\ \A q \in DOMAIN b : x[Seat(q, "reserved")] = b[q]
    BY ReservedType
  <1>2. \A s \in DOMAIN x : s.class \in Classes /\ x[s] = Short(a, s.class)
    <2>1. \A q \in DOMAIN b : Seat(q, "reserved").class = q.class
      BY DEF Seat
    <2> QED BY <1>1, <2>1 DEF Fills
  <1>3. ASSUME NEW c \in Classes PROVE Count(DOMAIN x, c) <= Gap(a, c)
    <2>1. PICK i, j, k \in Nat : i = Count(DOMAIN x, c) /\ j = Count(DOMAIN b, c) /\ k = Gap(a, c)
      BY ReservedType, GapType
    <2>2. i <= j
      BY <2>1, ReservedType
    <2>3. j <= k
      BY <2>1 DEF Fills
    <2> QED BY <2>1, <2>2, <2>3
  <1> QED BY <1>2, <1>3 DEF Fills

\* A pair of players none of whom is expected is a pair of seats.
LEMMA ReservedPairs ==
    ASSUME NEW live \in SideMaps(AllPlayers), NEW tf \in SideMaps(AllPlayers),
           NEW b \in SideMaps(AllPlayers), DOMAIN b \cap DOMAIN tf = {},
           Pairs(b, SeatMap(live, tf))
    PROVE  Pairs(Reserved(b), SeatMap(live, tf))
  <1> PICK x, S : x = Reserved(b) /\ S = SeatMap(live, tf)
    OBVIOUS
  <1>1. DOMAIN x = {Seat(q, "reserved") : q \in DOMAIN b}
    BY ReservedType
  <1>v. \A q \in DOMAIN b : x[Seat(q, "reserved")] = b[q]
    BY ReservedType
  <1>2. PICK p, q : /\ p # q /\ p.class = q.class /\ DOMAIN b = {p, q} /\ b[p] = 1 /\ b[q] = 2
    BY DEF Pairs
  <1>3. p \in AllPlayers /\ q \in AllPlayers
    BY <1>2, SideMapType
  <1> PICK s, t : s = Seat(p, "reserved") /\ t = Seat(q, "reserved")
    OBVIOUS
  <1>4. s # t /\ s.class = t.class
    <2>1. p.id # q.id
      BY <1>2, <1>3, AllPlayersType
    <2> QED BY <1>2, <2>1 DEF Seat
  <1>5. s \notin DOMAIN S /\ t \notin DOMAIN S
    BY <1>2, <1>3, SeatMapType
  <1>6. DOMAIN x = {s, t} /\ x[s] = 1 /\ x[t] = 2
    BY <1>1, <1>v, <1>2
  <1>7. ClassImbalance(S) = 0
    BY DEF Pairs
  <1> QED BY <1>4, <1>5, <1>6, <1>7 DEF Pairs

\* The seats of those who join a running match are what the rule promised.
LEMMA PopMends ==
    ASSUME QueueInv, [Next]_vars, NEW insts \in Provided, NEW r, NEW m \in DOMAIN match,
           m \in DOMAIN match', Pops(insts, r, m), Added(m) # {}, AllNew(m),
           match'[m].state = "ready", match[m].access = "BACKFILL_ONLY"
    PROVE  \/ ClassImbalance(Seats(m)') < ClassImbalance(Seats(m))
           \/ ClassImbalance(Seats(m)') = 0
  <1>i. TypeInv /\ ApartInv
    BY DEF QueueInv
  <1>1. r.inst = m /\ r.inst # 0 /\ match'[m].tf = Merge(match[m].tf, r.tf) /\ match'[m].live = match[m].live
    <2>1. m # 0
      BY <1>i DEF TypeInv
    <2> QED BY <2>1 DEF Pops, Enters, Coalesces
  <1> PICK live, tf, b \in SideMaps(AllPlayers) :
         live = match[m].live /\ tf = match[m].tf /\ b = r.tf
    BY <1>i, MatchType, TakenType DEF Pops
  <1> PICK S, T, x : S = Seats(m) /\ T = Seats(m)' /\ x = Reserved(b)
    OBVIOUS
  <1>2. S = SeatMap(live, tf) /\ T = SeatMap(live, Merge(tf, b))
    BY <1>1, ClassStays, SeatsMap
  <1>3. Joined(T, S, x)
    BY <1>2, SeatsJoined
  <1>4. IsFiniteSet(DOMAIN S) /\ IsFiniteSet(DOMAIN x)
    BY <1>i, SeatsType, ReservedType
  <1>5. DOMAIN b \cap DOMAIN tf = {}
    <2>1. DOMAIN b = UNION {Members(p) : p \in Popped}
      BY <1>i, PoppedTaken
    <2> QED BY <2>1 DEF AllNew
  <1>6. PICK k \in DOMAIN insts :
           /\ insts[k].id = m
           /\ insts[k].access = "BACKFILL_ONLY"
                  => Fills(b, insts[k].tf) \/ Pairs(b, insts[k].tf)
    BY <1>1, <1>i, ResultMends DEF Mended, Pops
  <1>7. insts[k].access = "BACKFILL_ONLY" /\ insts[k].tf = S
    <2>1. insts[k] = Running(m)
      BY <1>6, <1>i, ProvidedType
    <2> QED BY <2>1 DEF Running
  <1>8. Fills(x, S) \/ Pairs(x, S)
    BY <1>2, <1>4, <1>5, <1>6, <1>7, ReservedFills, ReservedPairs
  <1>9. DOMAIN x \ DOMAIN S # {}
    <2>1. PICK q : q \in DOMAIN b \ DOMAIN tf
      BY <1>1 DEF Added, Merge
    <2>2. q \in AllPlayers
      BY <2>1, SideMapType
    <2>3. DOMAIN x = {Seat(p, "reserved") : p \in DOMAIN b}
      BY ReservedType
    <2>4. Seat(q, "reserved") \in DOMAIN x
      BY <2>1, <2>3
    <2>5. Seat(q, "reserved") \notin DOMAIN S
      BY <1>2, <2>1, <2>2, SeatMapType
    <2> QED BY <2>4, <2>5
  <1>10. ClassImbalance(T) < ClassImbalance(S) \/ ClassImbalance(T) = 0
    BY <1>3, <1>4, <1>8, <1>9, FillsMend, PairsMend
  <1> QED BY <1>10

\* Whoever is backfilled into a running match makes its sides, in seats taken and
\* reserved, more equal or leaves equal sides equal, unless he is expected there already:
\* a deficit plan takes no more of a class than one side lacks, and a pair takes two seats
\* that nobody has, even if one of the two has just been in the match.
THEOREM RepairsAlways == Spec => BackfillRepairs
  <1>1. QueueInv /\ [Next]_vars
        => [\A m \in DOMAIN match :
              match'[m].state = "ready" /\ match[m].access = "BACKFILL_ONLY"
                  /\ Added(m) # {} /\ AllNew(m)
                  => \/ ClassImbalance(Seats(m)') < ClassImbalance(Seats(m))
                     \/ ClassImbalance(Seats(m)') = 0]_vars
    <2> SUFFICES ASSUME QueueInv, [Next]_vars, NEW m \in DOMAIN match,
                        match'[m].state = "ready", match[m].access = "BACKFILL_ONLY",
                        Added(m) # {}, AllNew(m)
                 PROVE  \/ ClassImbalance(Seats(m)') < ClassImbalance(Seats(m))
                        \/ ClassImbalance(Seats(m)') = 0
      OBVIOUS
    <2>1. m \in DOMAIN match'
      BY LessOrPop DEF QueueInv
    <2>p. PICK insts \in Provided : \E r : Pops(insts, r, m)
      BY <2>1, AddedPopped DEF QueueInv
    <2>2. PICK r : Pops(insts, r, m)
      BY <2>p
    <2> QED BY <2>1, <2>2, PopMends
  <1> QED BY <1>1, QueueInvAlways, PTL DEF Spec, BackfillRepairs

-----------------------------------------------------------------------------
(* Equal sides.                                                           *)

\* A queue whose pops have equal sides.
StrictQueue == cfg.rule = "coop" /\ cfg.force = "pvp" /\ cfg.strict /\ cfg.side # "required"

\* Everyone has one of the four classes.
LEMMA EveryoneClass ==
    ASSUME TypeInv
    PROVE  \A q \in Everyone : q.class \in Classes /\ q.id \in Id
  <1>1. class \in [Id -> Classes]
    BY QueueAssumption DEF TypeInv
  <1>2. \A q \in AllPlayers : q.class \in Classes /\ q.id \in Id
    BY <1>1 DEF AllPlayers, Player
  <1> QED BY <1>2 DEF Everyone, AllSeats, SeatsOf, Seat

\* The new match its rule returns has equal sides.
LEMMA ResultEven ==
    ASSUME TypeInv, NEW insts \in Provided, StrictQueue
    PROVE  EvenIfNew(Result(insts))
  <1>1. CASE Result(insts) = NoResult
    BY <1>1, NoResultEven
  <1>2. CASE Result(insts) # NoResult
    <2>1. Result(insts) = Evaluate(cfg, Eligible, insts, Claims, solo)
      BY <1>2 DEF Result
    <2>2. Result(insts) = CoopRule(cfg, Eligible, insts, Claims, solo)
      BY <2>1 DEF Evaluate, StrictQueue
    <2>3. GoodConfig(cfg) /\ StrictSides(cfg)
      <3>1. cfg \in ConfigType
        BY QueueAssumption DEF TypeInv
      <3> QED BY <3>1 DEF ConfigType, GoodConfig, StrictSides, StrictQueue
    <2>4. Eligible \in Seq(PartyOf(Everyone))
      <3>1. parties \in Seq(PartyOf(Everyone))
        BY AllPartiesType DEF TypeInv
      <3> QED BY <3>1, KeepPart DEF Eligible
    <2>5. \A q \in Everyone : q.class \in Classes
      BY EveryoneClass
    <2>6. IsFiniteSet(Everyone) /\ insts \in Seq(InstOf(Everyone))
      BY EveryoneType, ProvidedType
    <2> QED BY <2>2, <2>3, <2>4, <2>5, <2>6, CoopEven
  <1> QED BY <1>1, <1>2

\* The sides of the players that match m gets.
NewSides(m) == [q \in Added(m) |-> match'[m].tf[q]]

\* A new match has the sides of its result, and so do the players that a pending one gets
\* if none of them is in it; a match that is joined is not pending.
LEMMA PopEven ==
    ASSUME QueueInv, StrictQueue, NEW insts \in Provided, NEW r, NEW m \in DOMAIN match',
           Pops(insts, r, m), AllNew(m),
           match'[m].state = "pending", match'[m].access # "PARTY_LOCKED"
    PROVE  ClassImbalance(NewSides(m)) = 0
  <1>i. TypeInv /\ GoodResult(r, ToSet(parties), Joinable)
    BY DEF QueueInv, Pops
  <1>e. EvenIfNew(r)
    BY <1>i, ResultEven DEF Pops
  <1>d. DOMAIN r.tf = UNION {Members(p) : p \in Popped}
    BY <1>i, PoppedTaken
  <1>b. ASSUME r.inst = 0, r.access # "PARTY_LOCKED", Added(m) = DOMAIN r.tf,
               \A q \in Added(m) : match'[m].tf[q] = r.tf[q]
        PROVE  ClassImbalance(NewSides(m)) = 0
    <2>1. r.tf = [q \in DOMAIN r.tf |-> r.tf[q]]
      BY <1>i DEF GoodResult
    <2>2. NewSides(m) = [q \in DOMAIN r.tf |-> r.tf[q]]
      BY <1>b DEF NewSides
    <2> QED BY <1>b, <1>e, <2>1, <2>2 DEF EvenIfNew
  <1>1. CASE m \in DOMAIN match
    <2>1. Coalesces(r, m) /\ match'[m].tf = Merge(match[m].tf, r.tf)
      BY <1>1 DEF Pops, Enters
    <2>2. DOMAIN match[m].tf \cap DOMAIN r.tf = {}
      BY <1>1, <1>d DEF AllNew
    <2>3. Added(m) = DOMAIN r.tf
      BY <1>1, <2>1, <2>2 DEF Added, Merge
    <2>4. \A q \in Added(m) : match'[m].tf[q] = r.tf[q]
      BY <2>1, <2>2, <2>3 DEF Merge
    <2>5. r.inst = 0 /\ r.access # "PARTY_LOCKED"
      BY <2>1 DEF Coalesces
    <2> QED BY <1>b, <2>3, <2>4, <2>5
  <1>2. CASE m \notin DOMAIN match
    <2>1. r.inst = 0 /\ match'[m] = Formed(r)
      BY <1>2 DEF Pops, Enters
    <2>2. match'[m].tf = r.tf /\ match'[m].access = r.access
      BY <2>1 DEF Formed
    <2>3. Added(m) = DOMAIN r.tf
      BY <1>2, <2>2 DEF Added
    <2> QED BY <1>b, <2>1, <2>2, <2>3
  <1> QED BY <1>1, <1>2

\* Whatever strict_class_balance pops is equal in every class on both sides, for every
\* queue, class, order of joining and record of exclusions: the subset is even in each
\* class when it is placed, and the greedy placement of single players, healers first,
\* whose costs also weigh heal scores and head counts, divides such a subset equally.
\* It stays so in a pending match, unless one of them is in that match already and keeps
\* the side he has there.
THEOREM EqualAlways == Spec => StrictSidesEqual
  <1>1. QueueInv /\ [Next]_vars
        => [\A m \in DOMAIN match' :
              cfg.rule = "coop" /\ cfg.force = "pvp" /\ cfg.strict /\ cfg.side # "required"
                  /\ match'[m].state = "pending" /\ match'[m].access # "PARTY_LOCKED" /\ AllNew(m)
                  => ClassImbalance([q \in Added(m) |-> match'[m].tf[q]]) = 0]_vars
    <2> SUFFICES ASSUME QueueInv, [Next]_vars, NEW m \in DOMAIN match', StrictQueue, AllNew(m),
                        match'[m].state = "pending", match'[m].access # "PARTY_LOCKED"
                 PROVE  ClassImbalance(NewSides(m)) = 0
      BY DEF NewSides, StrictQueue
    <2>1. CASE Added(m) = {}
      <3>1. DOMAIN NewSides(m) = {}
        BY <2>1 DEF NewSides
      <3> QED BY <3>1, NoneEven
    <2>2. CASE Added(m) # {}
      <3>p. PICK insts \in Provided : \E r : Pops(insts, r, m)
        BY <2>2, AddedPopped DEF QueueInv
      <3>1. PICK r : Pops(insts, r, m)
        BY <3>p
      <3> QED BY <3>1, PopEven
    <2> QED BY <2>1, <2>2
  <1> QED BY <1>1, QueueInvAlways, PTL DEF Spec, StrictSidesEqual

-----------------------------------------------------------------------------
(* Fair exclusions.                                                       *)

\* A queue that pops class-equal subsets.
ExactQueue == cfg.rule = "coop" /\ cfg.force = "pvp" /\ cfg.strict

\* Every party has a player.
LEMMA AllPartiesFilled ==
    /\ AllParties \subseteq Filled(AllPlayers)
    /\ AllParties \subseteq Filled(Everyone)
  <1>1. ASSUME NEW i \in Id PROVE Size(Solo(i)) > 0
    BY DEF Solo, Size
  <1>2. ASSUME NEW t \in Teams PROVE Size(Team(t)) > 0
    <2>1. t \in Seq(Id) /\ t # <<>>
      BY QueueAssumption
    <2> PICK n \in Nat : n = Len(t) /\ DOMAIN t = 1 .. n /\ n > 0
      BY <2>1
    <2>2. Len([k \in DOMAIN t |-> Player(t[k])]) = n
      OBVIOUS
    <2> QED BY <2>2 DEF Team, Size
  <1> QED BY <1>1, <1>2, AllPartiesType DEF AllParties, Filled

\* What the rules read of FairnessStats are counts.
LEMMA ClaimsFair ==
    ASSUME TypeInv
    PROVE  FairOf(Everyone, Claims)
  <1>1. Claims \in [Id -> RecordType]
    <2>1. fair \in [Id -> RecordType]
      BY DEF TypeInv
    <2>2. NoRecord \in RecordType
      BY DEF NoRecord, RecordType
    <2> QED BY <2>1, <2>2 DEF Claims
  <1>2. \A q \in Everyone : q.id \in Id
    BY EveryoneClass
  <1>3. \A i \in Id : Claims[i] \in RecordType
    BY <1>1
  <1> QED BY <1>2, <1>3 DEF FairOf, RecordType

\* The eligible parties that are not teams.
Waiting == {p \in ToSet(Eligible) : ~p.team}

\* The new match its rule returns passes over none of them.
LEMMA ResultFirst ==
    ASSUME TypeInv, NEW insts \in Provided, ExactQueue
    PROVE  FirstIfNew(Result(insts), Waiting, Claims)
  <1>1. CASE Result(insts) = NoResult
    BY <1>1, NoResultFirst
  <1>2. CASE Result(insts) # NoResult
    <2>1. Result(insts) = Evaluate(cfg, Eligible, insts, Claims, solo)
      BY <1>2 DEF Result
    <2>2. Result(insts) = CoopRule(cfg, Eligible, insts, Claims, solo)
      BY <2>1 DEF Evaluate, ExactQueue
    <2>3. GoodConfig(cfg) /\ cfg.force = "pvp" /\ cfg.strict
      <3>1. cfg \in ConfigType
        BY QueueAssumption DEF TypeInv
      <3> QED BY <3>1 DEF ConfigType, GoodConfig, ExactQueue
    <2>4. Eligible \in Seq(Filled(Everyone))
      <3>1. parties \in Seq(Filled(Everyone))
        BY AllPartiesFilled DEF TypeInv
      <3> QED BY <3>1, KeepPart DEF Eligible
    <2>5. IsFiniteSet(Everyone) /\ insts \in Seq(InstOf(Everyone))
      BY EveryoneType, ProvidedType
    <2> QED BY <2>2, <2>3, <2>4, <2>5, ClaimsFair, CoopFirst DEF Waiting
  <1> QED BY <1>1, <1>2

\* The taken parties are those that leave the queue, and only a new result, for its own
\* match or for a pending one, puts players into a match that is pending.
LEMMA PopFirst ==
    ASSUME TypeInv, ExactQueue, NEW insts \in Provided, NEW r, NEW m \in DOMAIN match',
           Pops(insts, r, m), match'[m].state = "pending", match'[m].access # "PARTY_LOCKED",
           NEW p \in Waiting, NEW q \in Waiting, p \notin ToSet(parties'), q \in ToSet(parties'),
           Alike(p, q)
    PROVE  Exclusions(q, Claims) <= Exclusions(p, Claims)
  <1>1. FirstIfNew(r, Waiting, Claims)
    BY ResultFirst DEF Pops
  <1>2. r.inst = 0 /\ r.access # "PARTY_LOCKED"
    BY DEF Pops, Enters, Coalesces, Formed
  <1>3. Waiting \subseteq ToSet(parties)
    <2>1. parties \in Seq(AllParties)
      BY DEF TypeInv
    <2>2. ToSet(Eligible) \subseteq ToSet(parties)
      BY <2>1, KeepSet DEF Eligible
    <2> QED BY <2>2 DEF Waiting
  <1>4. p \in ToSet(r.taken) /\ q \in Waiting \ ToSet(r.taken)
    <2>1. ToSet(parties') = ToSet(parties) \ ToSet(r.taken)
      BY PoppedTaken
    <2> QED BY <1>3, <2>1
  <1> QED BY <1>1, <1>2, <1>4 DEF FirstIfNew, Foremost

\* Of two solos of one class strict_class_balance never pops the one who was excluded
\* less often and leaves the other: not when the cap is filled in the order of their
\* claims, since a solo for whom there is no seat has no solo behind him who gets one,
\* and not when parties are dropped to make the classes even, lowest claim first.
THEOREM FairAlways == Spec => ExclusionFair
  <1>1. QueueInv /\ [Next]_vars
        => [\A m \in DOMAIN match' :
              cfg.rule = "coop" /\ cfg.force = "pvp" /\ cfg.strict
                  /\ match'[m].state = "pending" /\ match'[m].access # "PARTY_LOCKED"
                  /\ Added(m) # {}
                  => LET solos == {p \in ToSet(Eligible) : Size(p) = 1 /\ ~p.team}
                         left  == solos \cap ToSet(parties') IN
                     \A p \in solos \ left, q \in left :
                        p.members[1].class = q.members[1].class
                            => Exclusions(q, Claims) <= Exclusions(p, Claims)]_vars
    <2> SUFFICES ASSUME QueueInv, [Next]_vars, NEW m \in DOMAIN match', ExactQueue,
                        match'[m].state = "pending", match'[m].access # "PARTY_LOCKED",
                        Added(m) # {}, NEW p \in Waiting, NEW q \in Waiting,
                        Size(p) = 1, Size(q) = 1, p \notin ToSet(parties'), q \in ToSet(parties'),
                        p.members[1].class = q.members[1].class
                 PROVE  Exclusions(q, Claims) <= Exclusions(p, Claims)
      BY DEF Waiting, ExactQueue
    <2>p. PICK insts \in Provided : \E r : Pops(insts, r, m)
      BY AddedPopped DEF QueueInv
    <2>1. PICK r : Pops(insts, r, m)
      BY <2>p
    <2> QED BY <2>1, PopFirst DEF QueueInv, Alike
  <1> QED BY <1>1, QueueInvAlways, PTL DEF Spec, ExclusionFair

-----------------------------------------------------------------------------
(* Defenders.                                                             *)

\* Nobody is named twice in a party.
LEMMA AllPartiesProper == AllParties \subseteq Proper(AllPlayers)
  <1>0. AllParties \subseteq Filled(AllPlayers)
    BY AllPartiesFilled
  <1>1. ASSUME NEW i \in Id PROVE Cardinality(Members(Solo(i))) = Size(Solo(i))
    <2>1. Size(Solo(i)) = 1 /\ Solo(i) \in PartyOf(AllPlayers)
      BY AllPartiesType DEF AllParties, Solo, Size
    <2>2. Members(Solo(i)) = {Solo(i).members[1]}
      BY <2>1, SoloMember
    <2>3. Cardinality(Members(Solo(i))) = 1
      BY <2>2, OneElement
    <2> QED BY <2>1, <2>3
  <1>2. ASSUME NEW t \in Teams PROVE Cardinality(Members(Team(t))) = Size(Team(t))
    <2>1. t \in Seq(Id) /\ \A j, k \in DOMAIN t : t[j] = t[k] => j = k
      BY QueueAssumption
    <2> PICK n \in Nat : n = Len(t) /\ DOMAIN t = 1 .. n
      BY <2>1
    <2> PICK f : f = [k \in 1 .. n |-> Player(t[k])]
      OBVIOUS
    <2>2. Team(t).members = f /\ Len(f) = n
      BY DEF Team
    <2> PICK S : S = Members(Team(t))
      OBVIOUS
    <2>3. S = {f[k] : k \in 1 .. n}
      BY <2>2 DEF Members, ToSet
    <2>4. \A j, k \in 1 .. n : f[j] = f[k] => j = k
      BY <2>1 DEF Player
    <2>5. f \in Surjection(1 .. n, S) /\ f \in Injection(1 .. n, S)
      <3>1. f \in [1 .. n -> S] /\ DOMAIN f = 1 .. n
        BY <2>3
      <3>2. f \in Surjection(1 .. n, S)
        BY <2>3, <3>1 DEF Surjection
      <3>3. f \in Injection(1 .. n, S)
        BY <2>4, <3>1 DEF Injection, IsInjective
      <3> QED BY <3>2, <3>3
    <2>6. IsFiniteSet(1 .. n) /\ Cardinality(1 .. n) = n
      BY Interval
    <2>7. Cardinality(S) = n
      BY <2>5, <2>6, FS_Surjection
    <2> QED BY <2>2, <2>7 DEF Size
  <1> QED BY <1>0, <1>1, <1>2 DEF AllParties, Proper

\* What the rotation reads of FairnessStats are counts.
LEMMA ClaimsKnown ==
    ASSUME TypeInv
    PROVE  ClaimsOf(AllPlayers, Claims)
  <1>1. Claims \in [Id -> RecordType]
    <2>1. fair \in [Id -> RecordType]
      BY DEF TypeInv
    <2>2. NoRecord \in RecordType
      BY DEF NoRecord, RecordType
    <2> QED BY <2>1, <2>2 DEF Claims
  <1>2. \A q \in AllPlayers : q.id \in Id
    BY DEF AllPlayers, Player
  <1>3. \A i \in Id : Claims[i] \in RecordType
    BY <1>1
  <1> QED BY <1>2, <1>3 DEF ClaimsOf, RecordType

\* The new match of a Double Agent queue has the sides it should.
LEMMA ResultSealed ==
    ASSUME TypeInv, ApartInv, NEW insts \in Provided, cfg.rule = "agent", Result(insts) # NoResult
    PROVE  SealedResult(Result(insts), AllPlayers, Claims)
  <1>1. Result(insts) = Evaluate(cfg, Eligible, insts, Claims, solo)
    BY DEF Result
  <1>2. Result(insts) = AgentRule(Eligible, Claims)
    BY <1>1 DEF Evaluate
  <1>3. Eligible \in Seq(Proper(AllPlayers))
    <2>1. parties \in Seq(Proper(AllPlayers))
      BY AllPartiesProper DEF TypeInv
    <2> QED BY <2>1, KeepPart DEF Eligible
  <1>4. Separate(Eligible)
    BY QueueStrangers DEF Strangers, Separate
  <1> QED BY <1>2, <1>3, <1>4, ClaimsKnown, AgentDefended

\* Match m is the new one, of the parties that leave the queue.
Sealed(m) ==
    \E r : /\ SealedResult(r, AllPlayers, Claims)
           /\ match'[m].tf = r.tf /\ Popped = ToSet(r.taken)

\* A Double Agent match is a new one, it joins no other, and the taken parties are those
\* that leave the queue.
LEMMA PopSealed ==
    ASSUME QueueInv, cfg.rule = "agent", NEW insts \in Provided, NEW r, NEW m \in DOMAIN match',
           Pops(insts, r, m), match'[m].state = "pending"
    PROVE  Sealed(m)
  <1>1. r # NoResult /\ r = Result(insts)
    BY DEF Pops, Now, NoResult
  <1>2. SealedResult(r, AllPlayers, Claims)
    BY <1>1, ResultSealed DEF QueueInv
  <1>3. match'[m].tf = r.tf
    <2>1. r.inst = 0 /\ r.access = "SEALED"
      BY <1>2 DEF SealedResult
    <2>2. match'[m] = Formed(r)
      BY <2>1 DEF Pops, Enters, Coalesces
    <2> QED BY <2>2 DEF Formed
  <1>4. Popped = ToSet(r.taken)
    BY PoppedTaken DEF QueueInv
  <1> QED BY <1>2, <1>3, <1>4 DEF Sealed

\* However large the parties and in whatever order they joined, a Double Agent match has
\* the defenders its size asks for, and DefenderRotation::Assign splits one party at most:
\* none if the bit mask search finds whole parties for the seats, else the first by mean
\* rank that does not fit.
THEOREM DefendersAlways == Spec => DefendersExact
  <1>1. QueueInv /\ [Next]_vars
        => [\A m \in DOMAIN match' :
              cfg.rule = "agent" /\ match'[m].state = "pending" /\ Added(m) # {}
                  => ExactSides(match'[m].tf, Popped)]_vars
    <2> SUFFICES ASSUME QueueInv, [Next]_vars, NEW m \in DOMAIN match', cfg.rule = "agent",
                        match'[m].state = "pending", Added(m) # {}
                 PROVE  ExactSides(match'[m].tf, Popped)
      OBVIOUS
    <2>1. Sealed(m)
      BY AddedPopped, PopSealed DEF QueueInv
    <2>2. PICK r : /\ SealedResult(r, AllPlayers, Claims)
                   /\ match'[m].tf = r.tf /\ Popped = ToSet(r.taken)
      BY <2>1 DEF Sealed
    <2>3. ExactSides(r.tf, ToSet(r.taken))
      BY <2>2, AgentExact
    <2> QED BY <2>2, <2>3
  <1> QED BY <1>1, QueueInvAlways, PTL DEF Spec, DefendersExact, ExactSides, SplitOf

\* Whoever defended more recently does not defend while another solo attacks: not in the
\* best set of whole parties, where swapping the two would cost less, and not in the
\* spill, where his mean rank puts him behind.
THEOREM RotationAlways == Spec => RotationFair
  <1>1. QueueInv /\ [Next]_vars
        => [\A m \in DOMAIN match' :
              cfg.rule = "agent" /\ cfg.fair /\ match'[m].state = "pending"
                  => \A p, q \in Added(m) :
                        /\ Solo(p.id) \in Popped /\ Solo(q.id) \in Popped
                        /\ match'[m].tf[p] = 2 /\ match'[m].tf[q] = 1
                        => fair[p.id].lastDefended <= fair[q.id].lastDefended]_vars
    <2> SUFFICES ASSUME QueueInv, [Next]_vars, NEW m \in DOMAIN match', cfg.rule = "agent", cfg.fair,
                        match'[m].state = "pending", NEW p \in Added(m), NEW q \in Added(m),
                        Solo(p.id) \in Popped, Solo(q.id) \in Popped,
                        match'[m].tf[p] = 2, match'[m].tf[q] = 1
                 PROVE  fair[p.id].lastDefended <= fair[q.id].lastDefended
      OBVIOUS
    <2>0. Added(m) # {}
      OBVIOUS
    <2>1. Sealed(m)
      BY <2>0, AddedPopped, PopSealed DEF QueueInv
    <2>2. PICK r : /\ SealedResult(r, AllPlayers, Claims)
                   /\ match'[m].tf = r.tf /\ Popped = ToSet(r.taken)
      BY <2>1 DEF Sealed
    <2>3. Claims = fair
      BY DEF Claims
    <2>4. DOMAIN r.tf \subseteq AllPlayers
      <3>1. r.taken \in Seq(PartyOf(AllPlayers))
        BY <2>2, ProperType DEF SealedResult
      <3>2. DOMAIN r.tf = Players(r.taken)
        BY <2>2 DEF SealedResult, Defended
      <3> QED BY <3>1, <3>2, PlayersType
    <2>5. p \in AllPlayers /\ q \in AllPlayers
      BY <2>2, <2>4 DEF Added
    <2>6. \A z \in AllPlayers : Solo(z.id).members = <<z>>
      BY DEF AllPlayers, Player, Solo
    <2> PICK x : x = Solo(p.id)
      OBVIOUS
    <2> PICK y : y = Solo(q.id)
      OBVIOUS
    <2>7. x.members = <<p>> /\ y.members = <<q>>
      BY <2>5, <2>6
    <2>8. x \in ToSet(r.taken) /\ y \in ToSet(r.taken) /\ r.tf[p] = 2 /\ r.tf[q] = 1
      BY <2>2
    <2>9. Claims[p.id].lastDefended <= Claims[q.id].lastDefended
      BY <2>2, <2>7, <2>8, AgentRotated
    <2> QED BY <2>3, <2>9
  <1> QED BY <1>1, QueueInvAlways, PTL DEF Spec, RotationFair
=============================================================================
