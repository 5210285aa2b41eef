---------------------------- MODULE MCOAuthCodes ----------------------------
(* Instances of OAuthCodes for TLC.                                        *)
EXTENDS OAuthCodes
=============================================================================
