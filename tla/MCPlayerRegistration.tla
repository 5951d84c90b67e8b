---------------------- MODULE MCPlayerRegistration ----------------------
(***************************************************************************)
(* PlayerRegistration for TLC.                                              *)
(***************************************************************************)
EXTENDS PlayerRegistration

=============================================================================
