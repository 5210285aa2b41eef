------------------------------ MODULE MCLockout ------------------------------
(* Instances of Lockout for TLC.                                           *)
EXTENDS Lockout, TLC

Symmetry == Permutations(Request)

(* No guard reads the last answer, and the number of locks and notices     *)
(* matters by its difference only.                                         *)
Unannounced == [u \in User |-> IF locks[u] < notices[u] THEN 9 ELSE locks[u] - notices[u]]
View == <<clock, tables, userLock, pc, request, Unannounced, forgiven>>
=============================================================================
