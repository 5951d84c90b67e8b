--------------------------- MODULE InstanceClaims ---------------------------
(***************************************************************************)
(* What the instance registry promises everybody who reads it, without the   *)
(* messages and processes by which ControlServer keeps the promise.          *)
(*                                                                          *)
(* An instance holds claims from its start to its stop: a UDP port, the home *)
(* map or a zone, the succession of a mission.  No claim is held twice.  A    *)
(* successor opens for players once the mission before it is over or down.   *)
(***************************************************************************)
CONSTANTS Id, Port

VARIABLES
    phase,   \* the state an instance is in
    held,    \* the claims it holds
    over     \* instances whose mission has ended

claimVars == <<phase, held, over>>

Ports == {"port"} \X Port
Claim == Ports \cup ({"map"} \X {"home", "zone"}) \cup ({"heir"} \X Id)
Up    == {i \in Id : phase[i] \in {"STARTING", "DRAFTING", "READY"}}

Init ==
    /\ phase = [i \in Id |-> "NONE"]
    /\ held = [i \in Id |-> {}]
    /\ over = {}

\* An instance starts, with a port and whatever else it asks for.
Grant(i, R) ==
    /\ phase[i] = "NONE"
    /\ R \cap Ports # {}
    /\ \A j \in Id : held[j] \cap R = {}
    /\ phase' = [phase EXCEPT ![i] = "STARTING"]
    /\ held' = [held EXCEPT ![i] = R]
    /\ UNCHANGED over

\* Its process could not be started.
Stillborn(i) ==
    /\ phase[i] = "NONE"
    /\ phase' = [phase EXCEPT ![i] = "STOPPED"]
    /\ UNCHANGED <<held, over>>

\* The mission that i is to follow is still played.
Played(i) == \E p \in Up \ over : <<"heir", p>> \in held[i]

\* An instance has loaded its map.
Load(i) ==
    /\ phase[i] = "STARTING"
    /\ phase' = [phase EXCEPT ![i] = IF Played(i) THEN "DRAFTING" ELSE "READY"]
    /\ UNCHANGED <<held, over>>

Waiting(i) == {j \in Id : phase[j] = "DRAFTING" /\ <<"heir", i>> \in held[j]}

\* The mission of i is over, and its successor opens if it waits.
End(i) ==
    /\ phase[i] # "NONE"
    /\ over' = over \cup {i}
    /\ phase' = [j \in Id |-> IF j \in Waiting(i) THEN "READY" ELSE phase[j]]
    /\ UNCHANGED held

\* i is down for good, and its successor opens if it waits.
Down(i) ==
    /\ phase[i] # "NONE"
    /\ phase' = [j \in Id |-> IF j = i THEN "STOPPED"
                              ELSE IF j \in Waiting(i) THEN "READY" ELSE phase[j]]
    /\ held' = [held EXCEPT ![i] = {}]
    /\ UNCHANGED over

\* Instances stop, and no successor hears of it yet.
Stop(S) ==
    /\ S \subseteq Up
    /\ phase' = [j \in Id |-> IF j \in S THEN "STOPPED" ELSE phase[j]]
    /\ held' = [j \in Id |-> IF j \in S THEN {} ELSE held[j]]
    /\ UNCHANGED over

Next ==
    \/ \E i \in Id : \/ \E R \in SUBSET Claim : Grant(i, R)
                     \/ Stillborn(i) \/ Load(i) \/ End(i) \/ Down(i)
    \/ \E S \in SUBSET Up : Stop(S)

Spec == Init /\ [][Next]_claimVars
=============================================================================
