------------------------- MODULE MCRefreshSessions -------------------------
(* Instances of RefreshSessions for TLC. Liveness is checked together with *)
(* the invariants, so no symmetry is declared.                             *)
EXTENDS RefreshSessions, TLC
=============================================================================
