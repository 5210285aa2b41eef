---------------------------- MODULE MCDirectory ----------------------------
(* Instances of RoleGrid and ServiceKeys for TLC.  They share no row and   *)
(* no lock: a run of the one beside the other would reach no state of      *)
(* either that it does not reach alone, so each moves while the other      *)
(* rests at its beginning.                                                 *)
EXTENDS RoleGrid, ServiceKeys, TLC

RolesRest == \A r \in Request : pc[r] = "idle" /\ reply[r] = "none"

KeysRest ==
    /\ now = 0 /\ \A k \in Key : issued[k] = Null
    /\ \A c \in Client : step[c] = "idle"

DirectoryNext ==
    \/ Next /\ KeysRest /\ UNCHANGED keyVars
    \/ KeyNext /\ RolesRest /\ UNCHANGED vars

DirectoryInit == Init /\ KeyInit

DirectorySpec == DirectoryInit /\ [][DirectoryNext]_<<vars, keyVars>>

Symmetry == Permutations(Request) \cup Permutations(Client)

(* Rows, locks and requests of both components keep their types.           *)
DirectoryTypeOK == TypeOK /\ KeyTypeOK
=============================================================================
