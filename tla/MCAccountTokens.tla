-------------------------- MODULE MCAccountTokens --------------------------
(* Instances of AccountTokens for TLC.                                     *)
EXTENDS AccountTokens
=============================================================================
