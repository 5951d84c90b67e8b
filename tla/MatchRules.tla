----------------------------- MODULE MatchRules -----------------------------
(***************************************************************************)
(* The pure part of matchmaking: which queued parties make a match and on   *)
(* which side each player starts.  A rule is a function of the parties (in  *)
(* the order they joined), the instances that can still be joined, the      *)
(* queue's configuration and the fairness record of the players.            *)
(*                                                                          *)
(* Every rating is the default 1000: a side's rating is the number of its    *)
(* rated players, and the swaps of MmrSwap have nothing to gain.            *)
(* Costs are exact, in hundredths, where the code uses float.               *)
(***************************************************************************)
EXTENDS Integers, Sequences, FiniteSets, SequencesExt, FiniteSetsExt

CONSTANT AgentMax   \* kMaxTotal, the seats of a Double Agent match

ASSUME AgentAssumption == AgentMax \in 2 .. 10

\* The engine's PROFILE ids.
Medic    == 567
Robotics == 679
Assault  == 680
Recon    == 681
Classes  == {Medic, Robotics, Assault, Recon}

\* A player is a record with an id and a class, a party a record with its
\* members (a sequence of players) and whether it is a team.
Size(p)      == Len(p.members)
Members(p)   == ToSet(p.members)
Heads(ps)    == FoldLeft(LAMBDA n, p : n + Size(p), 0, ps)
Players(ps)  == UNION {Members(ps[i]) : i \in DOMAIN ps}
AllMembers(ps) == FoldLeft(LAMBDA all, p : all \o p.members, <<>>, ps)

\* The elements of s that are in S, in their order.
Keep(s, S) == FoldLeft(LAMBDA kept, p : IF p \in S THEN Append(kept, p) ELSE kept, <<>>, s)

\* The positions of s sorted by insertion: each goes behind all it is not before.
Insertion(s, before) ==
    FoldLeftDomain(LAMBDA order, k :
        InsertAt(order, 1 + Cardinality({j \in DOMAIN order : <<k, order[j]>> \notin before}), k),
        <<>>, s)

Arranged(s, order) == [k \in DOMAIN order |-> s[order[k]]]

\* std::stable_sort.
StableSort(s, Before(_, _)) ==
    Arranged(s, Insertion(s, {d \in (DOMAIN s) \X (DOMAIN s) : Before(s[d[1]], s[d[2]])}))

-----------------------------------------------------------------------------
(* Choosing parties.                                                        *)

\* Whole parties, longest waiting first, while they fit; seats < 0 is no limit.
PackParties(ordered, seats) ==
    FoldLeft(LAMBDA chosen, p : IF seats >= 0 /\ Heads(chosen) + Size(p) > seats
                                THEN chosen ELSE Append(chosen, p),
             <<>>, ordered)

\* exclusion_rate in sixtieths, exact for at most six attempts.
ExclusionRate(f) ==
    IF f.lifetime + f.played = 0 THEN 0 ELSE (60 * f.lifetime) \div (f.lifetime + f.played)

Exclusions(p, fair)      == Max({fair[q.id].excluded : q \in Members(p)})
PartyRate(p, fair)       == Max({ExclusionRate(fair[q.id]) : q \in Members(p)})

PartiesByPriority(ps, fair) ==
    StableSort(ps, LAMBDA a, b :
        \/ Exclusions(a, fair) > Exclusions(b, fair)
        \/ /\ Exclusions(a, fair) = Exclusions(b, fair)
           /\ PartyRate(a, fair) > PartyRate(b, fair))

Count(S, c) == Cardinality({q \in S : q.class = c})

OddClasses(ps) == {c \in Classes : Count(Players(ps), c) % 2 = 1}

\* Mutant: the scan for a victim starts at the front, with the highest priority.
VictimFirst(ps, c) ==
    LET solos == {i \in DOMAIN ps : Size(ps[i]) = 1 /\ Count(Members(ps[i]), c) = 1}
        any   == {i \in DOMAIN ps : Count(Members(ps[i]), c) > 0} IN
    Min(IF solos # {} THEN solos ELSE any)

\* The lowest-priority solo of the class, else the lowest-priority party with
\* a member of it.
Victim(ps, c) ==
    LET solos == {i \in DOMAIN ps : Size(ps[i]) = 1 /\ Count(Members(ps[i]), c) = 1}
        any   == {i \in DOMAIN ps : Count(Members(ps[i]), c) > 0} IN
    Max(IF solos # {} THEN solos ELSE any)

DropOdd(ps) ==
    IF OddClasses(ps) = {} THEN ps ELSE RemoveAt(ps, Victim(ps, Min(OddClasses(ps))))

\* Greedy choice under the cap, then one party after another is dropped until
\* every class is even.  Len(chosen) rounds are enough, later ones do nothing.
SelectClassEqualSubset(ps, cap, fair) ==
    LET chosen == PackParties(PartiesByPriority(ps, fair), IF cap > 0 THEN cap ELSE -1) IN
    FoldLeft(LAMBDA kept, p : DropOdd(kept), chosen, chosen)

-----------------------------------------------------------------------------
(* Sides.  An assignment is a function from players to task forces 1 and 2.  *)

Nobody       == [q \in {} |-> 1]
Put(a, S, t) == [q \in DOMAIN a \cup S |-> IF q \in S THEN t ELSE a[q]]
Side(a, t)   == {q \in DOMAIN a : a[q] = t}
Abs(n)       == IF n < 0 THEN -n ELSE n

HealValue(q, t) ==
    CASE q.class = Medic    -> 100
      [] q.class = Robotics -> IF t = 2 THEN 85 ELSE 75
      [] OTHER              -> 0

HealScore(a, t) == MapThenSumSet(LAMBDA q : HealValue(q, t), Side(a, t))

ClassImbalance(a) ==
    MapThenSumSet(LAMBDA c : Abs(Count(Side(a, 1), c) - Count(Side(a, 2), c)), Classes)

SizeGap(a) == Abs(Cardinality(Side(a, 1)) - Cardinality(Side(a, 2)))

Imbalance(a) ==
    10000000 * SizeGap(a) + 100000 * ClassImbalance(a)
        + Abs(HealScore(a, 1) - HealScore(a, 2))

\* A group goes where it costs least, at a tie to the side with the lower
\* rating or to side 1.  The ratings of the players in unrated are not known.
PlaceGroup(a, S, unrated) ==
    LET cost(t)   == Imbalance(Put(a, S, t))
        rating(t) == Cardinality(Side(a, t) \ unrated) IN
    Put(a, S, IF cost(2) < cost(1) \/ (cost(2) = cost(1) /\ rating(2) < rating(1))
              THEN 2 ELSE 1)

AssignWhole(ps, seed, unrated) ==
    FoldLeft(LAMBDA a, p : PlaceGroup(a, Members(p), unrated), seed,
             StableSort(ps, LAMBDA p, q : Size(p) > Size(q)))

\* Mutant: in the order of the queue.
AssignInOrder(ps, seed, unrated) ==
    FoldLeft(LAMBDA a, q : PlaceGroup(a, {q}, unrated), seed, AllMembers(ps))

AssignIndividual(ps, seed, unrated) ==
    FoldLeft(LAMBDA a, q : PlaceGroup(a, {q}, unrated), seed,
             StableSort(AllMembers(ps), LAMBDA p, q : HealValue(p, 2) > HealValue(q, 2)))

\* SidePlacement::Assign: the sides with ps added to the players of seed, who
\* have ratings in a BalancedPvp queue only.
Assign(cfg, ps, seed) ==
    LET unrated == IF cfg.force = "pvp" THEN {} ELSE DOMAIN seed
        whole   == AssignWhole(ps, seed, unrated)
        indiv   == AssignIndividual(ps, seed, unrated) IN
    CASE cfg.force = "pinned"                                -> Put(seed, Players(ps), 1)
      [] cfg.force # "pinned" /\ cfg.side = "ignore"         -> indiv
      [] cfg.force # "pinned" /\ cfg.side = "required"       -> whole
      [] cfg.force # "pinned" /\ cfg.side = "preferred"      ->
             IF ClassImbalance(indiv) < ClassImbalance(whole) THEN indiv ELSE whole

\* defender_ratio in sixtieths, exact for at most six matches.
DefenderRatio(f) == IF f.played = 0 THEN 0 ELSE (60 * f.defended) \div f.played

\* Mutant: most recently first.
StrongerClaimRecent(p, q, fair) == fair[p.id].lastDefended > fair[q.id].lastDefended

StrongerClaim(p, q, fair) ==
    LET f == fair[p.id]
        g == fair[q.id] IN
    \/ f.lastDefended < g.lastDefended
    \/ f.lastDefended = g.lastDefended /\ DefenderRatio(f) < DefenderRatio(g)

\* Players by the strength of their claims, the strongest first.
Ranked(ps, fair) == StableSort(AllMembers(ps), LAMBDA p, q : StrongerClaim(p, q, fair))

\* Ties between guids go by position.
Ranks(ps, fair) ==
    LET ranked == Ranked(ps, fair) IN
    [q \in Players(ps) |-> CHOOSE k \in DOMAIN ranked : ranked[k] = q]

Cost(S, rank)  == MapThenSumSet(LAMBDA q : rank[q], S)
Worst(S, rank) == Max({rank[q] : q \in S})
Within(ps, I)  == UNION {Members(ps[i]) : i \in I}

\* The sets of parties that fill the seats.
Fits(ps, seats) == {I \in SUBSET DOMAIN ps : I # {} /\ Cardinality(Within(ps, I)) = seats}

\* As bits, I is the smaller number: J has the highest one they differ in.
LowerMask(I, J) == Max((I \ J) \cup (J \ I)) \in J

Better(ps, rank, I, J) ==
    LET S == Within(ps, I)
        T == Within(ps, J) IN
    \/ Cost(S, rank) < Cost(T, rank)
    \/ Cost(S, rank) = Cost(T, rank) /\ Worst(S, rank) < Worst(T, rank)
    \/ Cost(S, rank) = Cost(T, rank) /\ Worst(S, rank) = Worst(T, rank) /\ LowerMask(I, J)

BestFit(ps, seats, rank) ==
    CHOOSE I \in Fits(ps, seats) : \A J \in Fits(ps, seats) \ {I} : Better(ps, rank, I, J)

\* The n players of S with the strongest claims.
Strongest(S, rank, n) == {q \in S : Cardinality({p \in S : rank[p] < rank[q]}) < n}

\* Ties between party ids go by position.
ByMeanRank(ps, rank) ==
    StableSort(ps, LAMBDA p, q : Cost(Members(p), rank) * Size(q)
                                    < Cost(Members(q), rank) * Size(p))

\* Whole parties in the order of their mean rank while they fit; the seats that
\* are left go to members of the first party that did not.
Spill(ps, seats, rank) ==
    LET order == ByMeanRank(ps, rank)
        whole == PackParties(order, seats)
        next  == Keep(order, ToSet(order) \ ToSet(whole))[1] IN
    Players(whole) \cup Strongest(Members(next), rank, seats - Heads(whole))

\* Mutant: the players with the strongest claims, whatever their parties.
DefendersAlone(ps, seats, fair) == ToSet(SubSeq(Ranked(ps, fair), 1, seats))

\* DefenderRotation::Assign: the players of ps who defend.  A set of whole parties
\* that fills the seats, the strongest claims first, else one party is split.
Defenders(ps, seats, fair) ==
    LET rank == Ranks(ps, fair) IN
    IF Fits(ps, seats) # {} THEN Within(ps, BestFit(ps, seats, rank)) ELSE Spill(ps, seats, rank)

-----------------------------------------------------------------------------
(* The rules.  A result names the parties it takes, the side of each player,  *)
(* the instance it joins (0 for a new one), and access and cap of a new one. *)

NoResult == [taken |-> <<>>, tf |-> Nobody, inst |-> 0, access |-> "OPEN", cap |-> 0]

\* BuildResult: whoever the sides do not name is on side 1.
Taken(ps, sides, inst, access, cap) ==
    [taken |-> ps, tf |-> [q \in Players(ps) |-> IF q \in DOMAIN sides THEN sides[q] ELSE 1],
     inst |-> inst, access |-> access, cap |-> cap]

\* Mutant: the side that has more of the class gets the new one.
DeficitLong(c, inst) ==
    IF Count(Side(inst.tf, 1), c) < Count(Side(inst.tf, 2), c) THEN 2 ELSE 1

DeficitSide(c, inst) ==
    IF Count(Side(inst.tf, 1), c) < Count(Side(inst.tf, 2), c) THEN 1 ELSE 2

FirstOf(s, n) == SubSeq(s, 1, Min({n, Len(s)}))

\* The parties new join a plan on side t.
WithSolos(plan, new, t) ==
    [taken |-> plan.taken \o new, tf |-> Put(plan.tf, Players(new), t)]

\* For each class one side has fewer of, queued solos of that class for that
\* side, as far as the free seats go.
PlanDeficitBackfill(ps, inst, fair) ==
    LET solos(c)   == Keep(PartiesByPriority(ps, fair),
                           {p \in ToSet(ps) : Size(p) = 1 /\ Count(Members(p), c) = 1})
        missing(c) == Abs(Count(Side(inst.tf, 1), c) - Count(Side(inst.tf, 2), c))
        room(plan, c) == IF inst.free < 0 THEN missing(c) ELSE inst.free - Len(plan.taken)
        add(plan, c) == WithSolos(plan, FirstOf(solos(c), Min({missing(c), room(plan, c)})),
                                  DeficitSide(c, inst)) IN
    FoldLeft(add, [taken |-> <<>>, tf |-> Nobody], <<Medic, Robotics, Assault, Recon>>)

\* With class-equal sides and two free seats, the first two solos of one class,
\* one for each side.
PairUp(solos, inst) ==
    LET class(i) == solos[i].members[1].class
        pairs == {d \in (DOMAIN solos) \X (DOMAIN solos) :
                     d[1] < d[2] /\ class(d[1]) = class(d[2])}
        first == CHOOSE d \in pairs : \A e \in pairs :
                     d[1] < e[1] \/ (d[1] = e[1] /\ d[2] <= e[2]) IN
    IF ClassImbalance(inst.tf) = 0 /\ (inst.free < 0 \/ inst.free >= 2) /\ pairs # {}
    THEN [taken |-> <<solos[first[1]], solos[first[2]]>>,
          tf    |-> Put(Put(Nobody, Members(solos[first[1]]), 1), Members(solos[first[2]]), 2)]
    ELSE [taken |-> <<>>, tf |-> Nobody]

PlanPairJoin(ps, inst, fair) ==
    PairUp(Keep(PartiesByPriority(ps, fair), {p \in ToSet(ps) : Size(p) = 1}), inst)

OrPair(cfg, ps, inst, fair, repair) ==
    IF repair.taken = <<>> /\ cfg.pair THEN PlanPairJoin(ps, inst, fair) ELSE repair

Backfill(cfg, ps, inst, fair) ==
    OrPair(cfg, ps, inst, fair, PlanDeficitBackfill(ps, inst, fair))

OwnMatch(cfg, p) ==
    Taken(<<p>>, Assign(cfg, <<p>>, Nobody), 0, "PARTY_LOCKED", cfg.cap)

\* Backfill into a closed instance, else drop into an open one, else a new one.
PlacePool(cfg, ps, insts, fair) ==
    LET pvp      == cfg.force = "pvp"
        backfill == pvp /\ cfg.backfill
        short    == {i \in DOMAIN insts : /\ insts[i].access = "BACKFILL_ONLY"
                                          /\ Backfill(cfg, ps, insts[i], fair).taken # <<>>}
        open     == {i \in DOMAIN insts : /\ insts[i].access = "OPEN"
                                          /\ PackParties(ps, insts[i].free) # <<>>}
        seats    == IF cfg.cap > 0 THEN cfg.cap ELSE -1
        chosen   == IF pvp /\ cfg.strict THEN SelectClassEqualSubset(ps, cfg.cap, fair)
                                         ELSE PackParties(ps, seats) IN
    CASE backfill /\ short # {} ->
             LET inst == insts[Min(short)]
                 plan == Backfill(cfg, ps, inst, fair) IN
             Taken(plan.taken, plan.tf, inst.id, inst.access, cfg.cap)
      [] ~(backfill /\ short # {}) /\ open # {} ->
             LET inst == insts[Min(open)]
                 fit  == PackParties(ps, inst.free) IN
             Taken(fit, Assign(cfg, fit, inst.tf), inst.id, "OPEN", cfg.cap)
      [] ~(backfill /\ short # {}) /\ open = {} ->
             IF chosen = <<>> THEN NoResult
             ELSE Taken(chosen, Assign(cfg, chosen, Nobody), 0,
                        IF backfill THEN "BACKFILL_ONLY" ELSE "OPEN",
                        IF backfill THEN Heads(chosen) ELSE cfg.cap)

\* CoopMatchRule; solo are the ids of the players in solo mode.
CoopRule(cfg, ps, insts, fair, solo) ==
    LET wants(p) == cfg.min <= 1 /\ ~p.team /\ p.members[1].id \in solo
        locked   == Keep(ps, {p \in ToSet(ps) : wants(p)})
        teams    == Keep(ps, {p \in ToSet(ps) : p.team})
        solos    == Keep(ps, {p \in ToSet(ps) : ~p.team /\ ~wants(p)})
        pool(s)  == IF s = <<>> THEN NoResult ELSE PlacePool(cfg, s, insts, fair) IN
    CASE locked # <<>>                                         -> OwnMatch(cfg, locked[1])
      [] locked = <<>> /\ cfg.team = "own" /\ teams # <<>>     -> OwnMatch(cfg, teams[1])
      [] locked = <<>> /\ cfg.team = "own" /\ teams = <<>>     -> pool(solos)
      [] locked = <<>> /\ cfg.team = "block"                   -> pool(solos)
      [] locked = <<>> /\ cfg.team = "mixed"                   ->
             pool(Keep(ps, {p \in ToSet(ps) : p.team \/ ~wants(p)}))

\* kShapeTable: how many of total attack.
Attackers == [total \in 2 .. 10 |-> <<1, 2, 2, 3, 4, 4, 5, 5, 6>>[total - 1]]

AgentRule(ps, fair) ==
    LET chosen == PackParties(ps, AgentMax)
        total  == Heads(chosen)
        def    == Defenders(chosen, total - Attackers[total], fair) IN
    IF total < 2 THEN NoResult
    ELSE Taken(chosen, [q \in def |-> 2], 0, "SEALED", total)

VersusRule(cfg, ps) ==
    IF Len(ps) < 2 THEN NoResult
    ELSE Taken(<<ps[1], ps[2]>>, Put(Put(Nobody, Members(ps[1]), 1), Members(ps[2]), 2),
               0, "PARTY_LOCKED", cfg.cap)

Evaluate(cfg, ps, insts, fair, solo) ==
    CASE cfg.rule = "coop"   -> CoopRule(cfg, ps, insts, fair, solo)
      [] cfg.rule = "agent"  -> AgentRule(ps, fair)
      [] cfg.rule = "versus" -> VersusRule(cfg, ps)
=============================================================================
