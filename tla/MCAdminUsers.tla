---------------------------- MODULE MCAdminUsers ----------------------------
(* Instances of AdminUsers for TLC.                                        *)
EXTENDS AdminUsers, TLC
=============================================================================
