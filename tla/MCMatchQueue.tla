---------------------------- MODULE MCMatchQueue ----------------------------
(* The queues of the model: what the configurations of the database differ    *)
(* in, each with as many players as its rule needs to show what it does.      *)
EXTENDS MatchQueue

MCId == 1 .. 6

\* Two of three classes, in pairs; and three of one class.
MCLineups ==
    {<<Medic, Medic, Assault, Assault, Recon, Recon>>,
     <<Assault, Assault, Assault, Medic, Recon, Recon>>}

MCTeams == {<<1, 2>>}

MCVerified == MCId \ {3}

Queue == [rule |-> "coop", team |-> "mixed", side |-> "ignore", force |-> "balanced",
          cap |-> 3, min |-> 1, delay |-> TRUE, rearm |-> TRUE, instant |-> TRUE,
          strict |-> FALSE, backfill |-> FALSE, pair |-> FALSE, verified |-> FALSE,
          fair |-> FALSE, crowd |-> 1 .. 3, moves |-> 3, reloads |-> 0]

\* A strict queue of six players.
Strict == [Queue EXCEPT !.team = "mixed", !.side = "preferred", !.force = "pvp", !.cap = 6,
                        !.min = 6, !.strict = TRUE, !.delay = FALSE,
                        !.crowd = 1 .. 6, !.moves = 6]

\* Mercenary: strict, closed to drop-in, repaired by backfill.
Merc   == [Queue EXCEPT !.team = "block", !.force = "pvp", !.cap = 4, !.min = 2,
                        !.strict = TRUE, !.backfill = TRUE, !.pair = TRUE, !.fair = TRUE,
                        !.instant = FALSE, !.crowd = 1 .. 3, !.moves = 5]

\* Strict, open and coalescing.
Again  == [Merc EXCEPT !.backfill = FALSE, !.pair = FALSE, !.fair = FALSE, !.delay = FALSE,
                       !.crowd = 1 .. 4, !.moves = 6]

Pairs  == [Merc EXCEPT !.crowd = 1 .. 4, !.moves = 5]

Own    == [Queue EXCEPT !.team = "own", !.force = "pinned", !.cap = 2, !.rearm = FALSE,
                        !.instant = FALSE]

None   == [Queue EXCEPT !.rule = "none"]

Reloaded == {[c EXCEPT !.reloads = 2] : c \in {Queue, Own, None}}

Agent  == [Queue EXCEPT !.rule = "agent", !.min = 2, !.cap = 4, !.fair = TRUE, !.delay = FALSE,
                        !.crowd = {1, 2, 4}, !.moves = 5]

Agents == [Agent EXCEPT !.min = 4, !.crowd = {1, 2, 3, 5}, !.moves = 6]

Versus == [Queue EXCEPT !.rule = "versus", !.min = 2, !.verified = TRUE,
                        !.crowd = 1 .. 4, !.moves = 5]

\* A strict queue and an open one, for solo players only.
Tight  == [Merc EXCEPT !.cap = 2, !.delay = FALSE, !.crowd = {1, 2, 4}, !.moves = 3]
Open   == [Queue EXCEPT !.team = "block", !.delay = FALSE]

MCTight  == {Tight}
MCOpen   == {Open}
MCConfig == Reloaded \cup {Strict, Again, Merc, Pairs, Agent, Agents, Versus}
=============================================================================
