------------------------ MODULE AdminUsers_proofs ------------------------
(***************************************************************************)
(* Proofs about AdminUsers for any number of accounts and requests.        *)
(***************************************************************************)
EXTENDS AdminUsers, FiniteSetTheorems, TLAPS

(* A lock is held by a request in its transaction, and a request that      *)
(* decides holds its target.                                               *)
LocksInUse ==
    /\ \A u \in User : userLock[u] # None => pc[userLock[u]] \in {"locking", "decide"}
    /\ \A r \in Request : pc[r] = "decide" => userLock[target[r]] = r

(* Only a request between its first lock and its decision has counted.     *)
CountedInUse ==
    \A r \in Request : counted[r] # {} => pc[r] \in {"locking", "decide"}

IInv == TypeOK /\ LocksInUse /\ CountedInUse /\ CountedStayActive /\ ExpiryOnlyOfLocked

USE AdminAssumption

(* The seeded accounts satisfy the inductive invariant.                    *)
LEMMA InitIInv == Init => IInv
  BY DEF Init, IInv, TypeOK, LocksInUse, CountedInUse, CountedStayActive,
         ExpiryOnlyOfLocked, Status, Step, Grant

(* Ending a transaction frees the locks of that request and no others.     *)
LEMMA FinishKeeps ==
    ASSUME TypeOK, LocksInUse, CountedInUse,
           NEW r \in Request, Finish(r)
    PROVE  /\ LocksInUse' /\ CountedInUse'
           /\ userLock' \in [User -> Request \cup {None}]
           /\ pc' \in [Request -> Step]
           /\ actor' \in [Request -> User \cup {None}]
           /\ target' \in [Request -> User \cup {None}]
           /\ want' \in [Request -> Wanted \cup {"keep"}]
           /\ grant' \in [Request -> Grant]
           /\ toLock' \in [Request -> SUBSET User]
           /\ counted' \in [Request -> SUBSET User]
           /\ \A q \in Request : pc'[q] # "idle" => actor'[q] # None /\ target'[q] # None
<1>1. /\ userLock' \in [User -> Request \cup {None}]
      /\ pc' \in [Request -> Step]
      /\ actor' \in [Request -> User \cup {None}]
      /\ target' \in [Request -> User \cup {None}]
      /\ want' \in [Request -> Wanted \cup {"keep"}]
      /\ grant' \in [Request -> Grant]
      /\ toLock' \in [Request -> SUBSET User]
      /\ counted' \in [Request -> SUBSET User]
  BY DEF TypeOK, Finish, Step, Grant
<1>2. \A q \in Request : pc'[q] # "idle" => actor'[q] # None /\ target'[q] # None
  BY DEF TypeOK, Finish
<1>3. LocksInUse'
  BY DEF TypeOK, LocksInUse, Finish
<1>4. CountedInUse'
  BY DEF TypeOK, CountedInUse, Finish
<1>5. QED
  BY <1>1, <1>2, <1>3, <1>4

(* Each of the other writers needs the row, so it touches no counted       *)
(* account.                                                                *)
LEMMA ChangeKeeps ==
    ASSUME IInv, NEW u \in User, NEW from \in Status, NEW to \in Status, NEW E \in SUBSET User,
           Change(u, from, to, E), E \in {expiring, expiring \cup {u}, expiring \ {u}},
           u \in E => to = "locked"
    PROVE  IInv'
<1>1. TypeOK'
  BY DEF IInv, TypeOK, Change, progress, request
<1>2. LocksInUse' /\ CountedInUse'
  BY DEF IInv, LocksInUse, CountedInUse, Change, progress, request
<1>3. CountedStayActive'
  BY DEF IInv, TypeOK, CountedStayActive, Change, progress, request
<1>4. ExpiryOnlyOfLocked'
  BY DEF IInv, TypeOK, ExpiryOnlyOfLocked, Change
<1>5. QED
  BY <1>1, <1>2, <1>3, <1>4 DEF IInv

(* Every step of a request and every other writer preserves the invariant. *)
LEMMA NextIInv == IInv /\ [Next]_vars => IInv'
<1> SUFFICES ASSUME IInv, [Next]_vars PROVE IInv'
  OBVIOUS
<1> USE DEF IInv
<1>1. CASE UNCHANGED vars
  BY <1>1 DEF vars, tables, progress, request, TypeOK, LocksInUse, CountedInUse,
              CountedStayActive, ExpiryOnlyOfLocked
<1>2. ASSUME NEW r \in Request, NEW a \in User, NEW t \in User,
             NEW s \in Wanted \cup {"keep"}, NEW g \in Grant, Authorize(r, a, t, s, g)
      PROVE  IInv'
  <2>1. TypeOK'
    BY <1>2 DEF TypeOK, Authorize, tables, Step
  <2>2. LocksInUse' /\ CountedInUse'
    BY <1>2 DEF TypeOK, LocksInUse, CountedInUse, Authorize
  <2>3. CountedStayActive' /\ ExpiryOnlyOfLocked'
    BY <1>2 DEF CountedStayActive, ExpiryOnlyOfLocked, Authorize, tables
  <2>4. QED
    BY <2>1, <2>2, <2>3
<1>3. ASSUME NEW r \in Request, FindAdmins(r) PROVE IInv'
  <2>1. TypeOK'
    BY <1>3 DEF TypeOK, FindAdmins, ActiveAdmins, tables, request, Step
  <2>2. LocksInUse' /\ CountedInUse'
    BY <1>3 DEF TypeOK, LocksInUse, CountedInUse, FindAdmins, request
  <2>3. CountedStayActive' /\ ExpiryOnlyOfLocked'
    BY <1>3 DEF CountedStayActive, ExpiryOnlyOfLocked, FindAdmins, tables
  <2>4. QED
    BY <2>1, <2>2, <2>3
<1>4. ASSUME NEW r \in Request, LockAdmin(r) PROVE IInv'
  <2>1. PICK u \in Least(toLock[r]) :
          /\ userLock[u] = None
          /\ userLock' = [userLock EXCEPT ![u] = r]
          /\ toLock' = [toLock EXCEPT ![r] = @ \ {u}]
          /\ counted' = [counted EXCEPT ![r] =
                            IF account[u] = "active" THEN @ \cup {u} ELSE @]
    BY <1>4 DEF LockAdmin
  <2>2. u \in User
    BY DEF Least, TypeOK
  <2>3. pc[r] = "locking" /\ UNCHANGED <<tables, pc, request>>
    BY <1>4 DEF LockAdmin
  <2>4. TypeOK'
    BY <2>1, <2>2, <2>3 DEF TypeOK, tables, request
  <2>5. LocksInUse' /\ CountedInUse'
    BY <2>1, <2>2, <2>3 DEF TypeOK, LocksInUse, CountedInUse, request
  <2>6. CountedStayActive'
    BY <2>1, <2>2, <2>3 DEF TypeOK, CountedStayActive, tables
  <2>7. ExpiryOnlyOfLocked'
    BY <2>3 DEF ExpiryOnlyOfLocked, tables
  <2>8. QED
    BY <2>4, <2>5, <2>6, <2>7
<1>5. ASSUME NEW r \in Request, LockTarget(r) PROVE IInv'
  <2>1. target[r] \in User
    BY <1>5 DEF TypeOK, LockTarget
  <2>2. TypeOK'
    BY <1>5, <2>1 DEF TypeOK, LockTarget, tables, request, Step
  <2>3. LocksInUse'
    BY <1>5, <2>1 DEF TypeOK, LocksInUse, LockTarget, Free, request
  <2>4. CountedInUse'
    BY <1>5 DEF TypeOK, CountedInUse, LockTarget
  <2>5. CountedStayActive'
    BY <1>5, <2>1 DEF TypeOK, CountedStayActive, LockTarget, Free, tables
  <2>6. ExpiryOnlyOfLocked'
    BY <1>5 DEF ExpiryOnlyOfLocked, LockTarget, tables
  <2>7. QED
    BY <2>2, <2>3, <2>4, <2>5, <2>6
<1>6. ASSUME NEW r \in Request, Rollback(r) PROVE IInv'
  <2>1. LocksInUse' /\ CountedInUse' /\ TypeOK'
    BY <1>6, FinishKeeps DEF Rollback, tables, TypeOK
  <2>2. CountedStayActive' /\ ExpiryOnlyOfLocked'
    BY <1>6 DEF Rollback, Finish, tables, TypeOK, CountedStayActive, ExpiryOnlyOfLocked
  <2>3. QED
    BY <2>1, <2>2
<1>7. ASSUME NEW r \in Request, Apply(r) PROVE IInv'
  <2>1. target[r] \in User /\ pc[r] = "decide" /\ userLock[target[r]] = r
    BY <1>7 DEF Apply, TypeOK, LocksInUse
  <2>2. NewStatus(r) \in Status /\ NewAdmins(r) \in SUBSET User
    BY <2>1 DEF NewStatus, NewAdmins, TypeOK, Grant
  <2>3. Finish(r)
    BY <1>7 DEF Apply
  <2>4. /\ account' = [account EXCEPT ![target[r]] = NewStatus(r)]
        /\ expiring' = IF ChangesStatus(r) THEN expiring \ {target[r]} ELSE expiring
        /\ admins' = NewAdmins(r)
    BY <1>7 DEF Apply
  <2>5. /\ account' \in [User -> Status] /\ expiring' \in SUBSET User
        /\ admins' \in SUBSET User
    BY <2>2, <2>4 DEF TypeOK
  <2>6. LocksInUse' /\ CountedInUse' /\ TypeOK'
    BY <2>3, <2>5, FinishKeeps DEF TypeOK
  <2>7. CountedStayActive'
    BY <2>1, <2>3, <2>4 DEF Finish, TypeOK, CountedStayActive
  <2>8. ExpiryOnlyOfLocked'
    BY <2>1, <2>4 DEF ExpiryOnlyOfLocked, ChangesStatus, TypeOK
  <2>9. QED
    BY <2>6, <2>7, <2>8
<1>8. ASSUME NEW u \in User,
             Lockout(u) \/ LockExpires(u) \/ ResetPassword(u) \/ AcceptInvitation(u)
      PROVE  IInv'
  <2>1. CASE Lockout(u)
    <3>1. Change(u, "active", "locked", expiring \cup {u})
      BY <2>1 DEF Lockout
    <3>2. expiring \cup {u} \in SUBSET User /\ {"active", "locked"} \subseteq Status
      BY DEF TypeOK, Status
    <3>3. QED
      BY <3>1, <3>2, ChangeKeeps
  <2>2. CASE LockExpires(u)
    <3>1. Change(u, "locked", "active", expiring \ {u})
      BY <2>2 DEF LockExpires
    <3>2. expiring \ {u} \in SUBSET User /\ {"active", "locked"} \subseteq Status
      BY DEF TypeOK, Status
    <3>3. QED
      BY <3>1, <3>2, ChangeKeeps
  <2>3. CASE ResetPassword(u)
    <3>1. Change(u, "locked", "active", expiring \ {u})
      BY <2>3 DEF ResetPassword
    <3>2. expiring \ {u} \in SUBSET User /\ {"active", "locked"} \subseteq Status
      BY DEF TypeOK, Status
    <3>3. QED
      BY <3>1, <3>2, ChangeKeeps
  <2>4. CASE AcceptInvitation(u)
    <3>1. account[u] = "pending"
      BY <2>4 DEF AcceptInvitation, Change
    <3>2. u \notin expiring
      BY <3>1 DEF ExpiryOnlyOfLocked
    <3>3. QED
      BY <2>4, <3>2, ChangeKeeps DEF AcceptInvitation, Status, TypeOK
  <2>5. QED
    BY <1>8, <2>1, <2>2, <2>3, <2>4
<1>9. ASSUME NEW r \in Request, Proceed(r) \/ LoseRequest(r) PROVE IInv'
  <2>1. CASE FindAdmins(r)
    BY <2>1, <1>3
  <2>2. CASE LockAdmin(r)
    BY <2>2, <1>4
  <2>3. CASE LockTarget(r)
    BY <2>3, <1>5
  <2>4. CASE Refuse(r)
    BY <2>4, <1>6 DEF Refuse
  <2>5. CASE Apply(r)
    BY <2>5, <1>7
  <2>6. CASE BreakDeadlock(r)
    BY <2>6, <1>6 DEF BreakDeadlock
  <2>7. CASE LoseRequest(r)
    BY <2>7, <1>6 DEF LoseRequest
  <2>8. QED
    BY <1>9, <2>1, <2>2, <2>3, <2>4, <2>5, <2>6, <2>7 DEF Proceed
<1>10. QED
  BY <1>1, <1>2, <1>8, <1>9 DEF Next

(* IInv is inductive: it holds in every reachable state.                   *)
LEMMA Invariance == Spec => []IInv
  BY InitIInv, NextIInv, PTL DEF Spec

(* Rows, locks and requests keep their types, and a request at work has an *)
(* actor and a target.                                                     *)
THEOREM TypeCorrect == Spec => []TypeOK
<1>1. IInv => TypeOK
  BY DEF IInv
<1>2. QED
  BY <1>1, Invariance, PTL

(* The count of administrators a request decides with holds only accounts  *)
(* that are still active: the re-check under lock makes it fresh.          *)
THEOREM CountIsFresh == Spec => []CountedStayActive
<1>1. IInv => CountedStayActive
  BY DEF IInv
<1>2. QED
  BY <1>1, Invariance, PTL

(* No path to another state leaves a locked_until behind (users.sql:43).   *)
THEOREM ExpiryBelongsToLock == Spec => []ExpiryOnlyOfLocked
<1>1. IInv => ExpiryOnlyOfLocked
  BY DEF IInv
<1>2. QED
  BY <1>1, Invariance, PTL
-----------------------------------------------------------------------------
(***************************************************************************)
(* Without changes of roles and automatic lockouts, the row locks protect  *)
(* the last administrator.                                                 *)
(***************************************************************************)
(* Requests replace no roles, and collect and count administrators only.   *)
KnownAdmins ==
    /\ \A r \in Request : grant[r] = "keep"
    /\ \A r \in Request : toLock[r] \subseteq admins /\ counted[r] \subseteq admins

(* The roles are those of the start, so what was counted is still true.    *)
LEMMA KnownAdminsInductive ==
    ASSUME RoleChanges = FALSE, TypeOK, KnownAdmins, [Next]_vars
    PROVE  KnownAdmins' /\ admins' = admins
<1> USE DEF KnownAdmins
<1>1. ASSUME NEW r \in Request, Finish(r), admins' = admins
      PROVE  KnownAdmins'
  BY <1>1 DEF Finish, TypeOK
<1>2. ASSUME NEW r \in Request, Proceed(r) \/ LoseRequest(r)
      PROVE  KnownAdmins' /\ admins' = admins
  <2>1. CASE FindAdmins(r)
    BY <2>1 DEF FindAdmins, ActiveAdmins, TypeOK, tables, request
  <2>2. CASE LockAdmin(r)
    BY <2>2 DEF LockAdmin, Least, TypeOK, tables, request
  <2>3. CASE LockTarget(r)
    BY <2>3 DEF LockTarget, TypeOK, tables, request
  <2>4. CASE Refuse(r)
    BY <2>4, <1>1 DEF Refuse, Rollback, tables
  <2>5. CASE Apply(r)
    <3>1. admins' = admins
      BY <2>5 DEF Apply, NewAdmins
    <3>2. QED
      BY <2>5, <3>1, <1>1 DEF Apply
  <2>6. CASE BreakDeadlock(r)
    BY <2>6, <1>1 DEF BreakDeadlock, Rollback, tables
  <2>7. CASE LoseRequest(r)
    BY <2>7, <1>1 DEF LoseRequest, Rollback, tables
  <2>8. QED
    BY <1>2, <2>1, <2>2, <2>3, <2>4, <2>5, <2>6, <2>7 DEF Proceed
<1>3. ASSUME NEW r \in Request, NEW a \in User, NEW t \in User,
             NEW s \in Wanted \cup {"keep"}, NEW g \in Grant, Authorize(r, a, t, s, g)
      PROVE  KnownAdmins' /\ admins' = admins
  BY <1>3 DEF Authorize, TypeOK, tables
<1>4. ASSUME NEW u \in User,
             Lockout(u) \/ LockExpires(u) \/ ResetPassword(u) \/ AcceptInvitation(u)
      PROVE  KnownAdmins' /\ admins' = admins
  BY <1>4 DEF Lockout, LockExpires, ResetPassword, AcceptInvitation, Change, progress, request
<1>5. CASE UNCHANGED vars
  BY <1>5 DEF vars, tables, progress, request
<1>6. QED
  BY <1>2, <1>3, <1>4, <1>5 DEF Next

(* An update that takes an active administrator away leaves another one it *)
(* counted: active, because it holds the row.                              *)
LEMMA ApplyLeavesAnother ==
    ASSUME IInv, KnownAdmins, SomeActiveAdmin, NEW r \in Request, Apply(r), admins' = admins
    PROVE  SomeActiveAdmin'
<1>1. target[r] \in User /\ account' = [account EXCEPT ![target[r]] = NewStatus(r)]
  BY DEF IInv, TypeOK, Apply
<1>2. CASE ~RemovesActiveAdmin(r)
  <2>1. PICK u \in ActiveAdmins : TRUE
    BY DEF SomeActiveAdmin
  <2>2. u \in User
    BY DEF IInv, TypeOK, ActiveAdmins
  <2>3. account'[u] = "active"
    BY <1>1, <1>2, <2>2 DEF RemovesActiveAdmin, ActiveAdmins, IInv, TypeOK
  <2>4. QED
    BY <2>3 DEF SomeActiveAdmin, ActiveAdmins
<1>3. CASE RemovesActiveAdmin(r)
  <2>1. ~(Cardinality(counted[r]) <= 1)
    BY <1>3 DEF Apply, LastActiveAdmin
  <2>2. IsFiniteSet(counted[r])
    BY FS_Subset DEF IInv, TypeOK
  <2>3. counted[r] # {} /\ counted[r] # {target[r]}
    <3>1. Cardinality({}) = 0 /\ Cardinality({target[r]}) = 1
      BY FS_EmptySet, FS_Singleton
    <3>2. QED
      BY <2>1, <3>1
  <2>4. PICK u \in counted[r] : u # target[r]
    BY <2>3
  <2>5. u \in User /\ u \in admins /\ account[u] = "active"
    BY <2>4 DEF IInv, TypeOK, KnownAdmins, CountedStayActive
  <2>6. account'[u] = "active"
    BY <1>1, <2>4, <2>5 DEF IInv, TypeOK
  <2>7. QED
    BY <2>5, <2>6 DEF SomeActiveAdmin, ActiveAdmins
<1>4. QED
  BY <1>2, <1>3

(* Every other step takes no administrator away.                           *)
LEMMA SomeActiveAdminInductive ==
    ASSUME RoleChanges = FALSE, Lockouts = FALSE,
           IInv, KnownAdmins, SomeActiveAdmin, [Next]_vars
    PROVE  SomeActiveAdmin'
<1>1. admins' = admins
  BY KnownAdminsInductive DEF IInv
<1>2. CASE \E r \in Request : Apply(r)
  BY <1>1, <1>2, ApplyLeavesAnother
<1>3. CASE UNCHANGED account
  BY <1>1, <1>3 DEF SomeActiveAdmin, ActiveAdmins
<1>4. ASSUME NEW u \in User, LockExpires(u) \/ ResetPassword(u) \/ AcceptInvitation(u)
      PROVE  SomeActiveAdmin'
  <2>1. account' = [account EXCEPT ![u] = "active"]
    BY <1>4 DEF LockExpires, ResetPassword, AcceptInvitation, Change
  <2>2. \A v \in User : account[v] = "active" => account'[v] = "active"
    BY <2>1 DEF IInv, TypeOK
  <2>3. QED
    BY <1>1, <2>2 DEF SomeActiveAdmin, ActiveAdmins, IInv, TypeOK
<1>5. ASSUME NEW u \in User PROVE ~Lockout(u)
  BY DEF Lockout
<1>6. QED
  BY <1>2, <1>3, <1>4, <1>5
     DEF Next, Proceed, Authorize, FindAdmins, LockAdmin, LockTarget, Refuse,
         BreakDeadlock, LoseRequest, Rollback, tables, vars

(* Domain invariant 6 under changes of status only: the locks taken before *)
(* the count are enough.  With changes of roles or with automatic lockouts *)
(* the model checker finds the invariant violated.                         *)
THEOREM StatusChangesKeepAdmin ==
    ASSUME RoleChanges = FALSE, Lockouts = FALSE
    PROVE  Spec => []SomeActiveAdmin
<1>1. Init => KnownAdmins /\ SomeActiveAdmin
  BY DEF Init, KnownAdmins, SomeActiveAdmin, ActiveAdmins
<1>2. IInv /\ KnownAdmins /\ SomeActiveAdmin /\ [Next]_vars => (KnownAdmins /\ SomeActiveAdmin)'
  BY KnownAdminsInductive, SomeActiveAdminInductive DEF IInv
<1>3. QED
  BY <1>1, <1>2, Invariance, PTL DEF Spec
=============================================================================
