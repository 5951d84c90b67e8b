--------------------------- MODULE MCTeamService ---------------------------
(* Instances of TeamService for TLC. *)
EXTENDS TeamService, TLC

MCMaxTeamSize == [q \in Queue |-> 3]
Perms == Permutations(Session)
=============================================================================
