------------------------ MODULE MCInstanceLifecycle ------------------------
(* Instances of InstanceLifecycle for TLC. *)
EXTENDS InstanceLifecycle, TLC

Perms == Permutations(Player)

\* The last row is inserted only while one player has queued and all are online: two
\* players who compete for seats, or a chain of three missions for one.
LastRowInChain == nextId <= MaxId \/ (joins <= 1 /\ online = Player)

MCSpec == Init /\ [][Next /\ LastRowInChain']_vars
=============================================================================
