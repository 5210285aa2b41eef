-------------------------- MODULE Directory_proofs --------------------------
(***************************************************************************)
(* Proofs about RoleGrid and ServiceKeys, for any accounts, roles, keys    *)
(* and requests.                                                           *)
(***************************************************************************)
EXTENDS MCDirectory, TLAPS

-----------------------------------------------------------------------------
(***************************************************************************)
(* Service keys.                                                           *)
(***************************************************************************)
(* A request works on a key that was issued; a use that is about to be     *)
(* recorded happened in the past.                                          *)
OnIssued ==
    \A c \in Client :
        /\ step[c] # "idle" => key[c] # Null /\ issued[key[c]] # Null
        /\ step[c] = "touch" => at[c] # Null /\ at[c] <= now

(* A revocation holds the row of its key, which is still in force.         *)
Revoking ==
    \A c \in Client :
        step[c] = "revoke" => keyLock[key[c]] = c /\ key[c] \notin revoked

KeyInv == KeyTypeOK /\ OnIssued /\ Revoking

LEMMA KeyInitInv == ServiceKeysAssumption /\ KeyInit => KeyInv
  BY DEF ServiceKeysAssumption, KeyInit, KeyInv, KeyTypeOK, OnIssued, Revoking

(* The end of a request frees its row and leaves the others as they are.   *)
LEMMA LeaveEffect ==
    ASSUME ServiceKeysAssumption, KeyTypeOK, NEW c \in Client,
           NEW a \in {"ok", "principal", "unauthenticated", "error"}, Leave(c, a)
    PROVE  /\ keyLock' \in [Key -> Client \cup {Null}]
           /\ step' \in [Client -> {"idle", "read", "touch", "lock", "revoke"}]
           /\ key' \in [Client -> Key \cup {Null}]
           /\ at' \in [Client -> 0..MaxTime \cup {Null}]
           /\ answer' \in [Client -> {"none", "ok", "principal", "unauthenticated", "error"}]
           /\ step'[c] = "idle"
           /\ \A d \in Client \ {c} : step'[d] = step[d] /\ key'[d] = key[d] /\ at'[d] = at[d]
           /\ \A k \in Key : keyLock[k] # c => keyLock'[k] = keyLock[k]
  BY DEF Leave, KeyTypeOK, ServiceKeysAssumption

LEMMA FailKeeps ==
    ASSUME ServiceKeysAssumption, KeyInv, NEW c \in Client,
           NEW a \in {"ok", "principal", "unauthenticated", "error"}, Fail(c, a)
    PROVE  KeyInv'
<1>1. KeyTypeOK /\ Leave(c, a) /\ UNCHANGED <<now, rows, revocations>>
  BY DEF KeyInv, Fail
<1>2. KeyTypeOK'
  BY <1>1, LeaveEffect DEF KeyTypeOK, rows
<1>3. OnIssued' /\ Revoking'
  BY <1>1, LeaveEffect DEF KeyInv, OnIssued, Revoking, rows, KeyTypeOK
<1>4. QED
  BY <1>2, <1>3 DEF KeyInv

LEMMA KeyNextInv == ServiceKeysAssumption /\ KeyInv /\ [KeyNext]_keyVars => KeyInv'
<1>0. SUFFICES ASSUME ServiceKeysAssumption, KeyInv, [KeyNext]_keyVars PROVE KeyInv'
  OBVIOUS
<1>1. KeyTypeOK /\ OnIssued /\ Revoking
  BY <1>0 DEF KeyInv
<1>a. Null \notin Nat /\ MaxTime \in Nat /\ now \in 0..MaxTime
  BY <1>0, <1>1 DEF ServiceKeysAssumption, KeyTypeOK
<1>2. ASSUME NEW k \in Key, CreateKey(k) PROVE KeyInv'
  <2>1. KeyTypeOK'
    BY <1>1, <1>2, <1>a DEF CreateKey, KeyTypeOK, client
  <2>2. OnIssued' /\ Revoking'
    BY <1>1, <1>2, <1>a DEF CreateKey, OnIssued, Revoking, KeyTypeOK, client
  <2>3. QED
    BY <2>1, <2>2 DEF KeyInv
<1>3. ASSUME NEW c \in Client, NEW k \in Key, Revoke(c, k) \/ Present(c, k) PROVE KeyInv'
  <2>1. PICK s \in {"lock", "read"} : Enter(c, k, s) /\ issued[k] # Null
    BY <1>3 DEF Revoke, Present
  <2>2. KeyTypeOK'
    BY <1>1, <2>1 DEF Enter, KeyTypeOK, rows
  <2>3. k # Null
    BY <1>0 DEF ServiceKeysAssumption
  <2>4. OnIssued' /\ Revoking'
    BY <1>1, <2>1, <2>3 DEF Enter, OnIssued, Revoking, KeyTypeOK, rows
  <2>5. QED
    BY <2>2, <2>4 DEF KeyInv
<1>4. ASSUME NEW c \in Client, LockKey(c) PROVE KeyInv'
  <2>1. CASE Fail(c, "ok")
    BY <1>0, <2>1, FailKeeps
  <2>2. CASE /\ key[c] \notin revoked
             /\ keyLock' = [keyLock EXCEPT ![key[c]] = c]
             /\ step' = [step EXCEPT ![c] = "revoke"]
             /\ UNCHANGED <<now, rows, key, at, answer, revocations>>
    <3>1. step[c] = "lock" /\ keyLock[key[c]] = Null /\ key[c] \in Key
      BY <1>1, <1>4 DEF LockKey, OnIssued, KeyTypeOK
    <3>2. KeyTypeOK'
      BY <1>1, <2>2, <3>1 DEF KeyTypeOK, rows
    <3>3. Null \notin Client
      BY <1>0 DEF ServiceKeysAssumption
    <3>4. OnIssued' /\ Revoking'
      BY <1>1, <2>2, <3>1, <3>3 DEF KeyTypeOK, OnIssued, Revoking, rows
    <3>5. QED
      BY <3>2, <3>4 DEF KeyInv
  <2>3. QED
    BY <1>4, <2>1, <2>2 DEF LockKey
<1>5. ASSUME NEW c \in Client, CommitRevocation(c) PROVE KeyInv'
  <2>1. /\ step[c] = "revoke" /\ key[c] \in Key /\ issued[key[c]] # Null
        /\ keyLock[key[c]] = c /\ key[c] \notin revoked
    BY <1>1, <1>5 DEF CommitRevocation, OnIssued, Revoking, KeyTypeOK
  <2>2. /\ Leave(c, "ok") /\ revoked' = revoked \cup {key[c]}
        /\ revocations' = [revocations EXCEPT ![key[c]] = @ + 1]
        /\ UNCHANGED <<now, issued, lastUsed>>
    BY <1>5 DEF CommitRevocation
  <2>3. KeyTypeOK'
    BY <1>0, <1>1, <2>1, <2>2, LeaveEffect DEF KeyTypeOK
  <2>4. OnIssued'
    BY <1>0, <1>1, <2>1, <2>2, LeaveEffect DEF OnIssued
  <2>5. Revoking'
    <3>1. SUFFICES ASSUME NEW d \in Client, step'[d] = "revoke"
                   PROVE  keyLock'[key'[d]] = d /\ key'[d] \notin revoked'
      BY DEF Revoking
    <3>2. d # c /\ step[d] = "revoke" /\ key'[d] = key[d]
      BY <1>0, <1>1, <2>2, <3>1, LeaveEffect
    <3>3. key[d] \in Key /\ keyLock[key[d]] = d /\ key[d] \notin revoked /\ key[d] # key[c]
      BY <1>1, <2>1, <3>2 DEF OnIssued, Revoking, KeyTypeOK
    <3>4. QED
      BY <1>0, <1>1, <2>2, <3>2, <3>3, LeaveEffect
  <2>6. QED
    BY <2>3, <2>4, <2>5 DEF KeyInv
<1>6. ASSUME NEW c \in Client, Check(c) PROVE KeyInv'
  <2>1. CASE Fail(c, "unauthenticated")
    BY <1>0, <2>1, FailKeeps
  <2>2. CASE /\ step' = [step EXCEPT ![c] = "touch"] /\ at' = [at EXCEPT ![c] = now]
             /\ UNCHANGED <<now, rows, keyLock, key, answer, revocations>>
    <3>1. step[c] = "read"
      BY <1>6 DEF Check
    <3>2. KeyTypeOK'
      BY <1>1, <1>a, <2>2 DEF KeyTypeOK, rows
    <3>3. OnIssued' /\ Revoking'
      BY <1>1, <1>a, <2>2, <3>1 DEF KeyTypeOK, OnIssued, Revoking, rows
    <3>4. QED
      BY <3>2, <3>3 DEF KeyInv
  <2>3. QED
    BY <1>6, <2>1, <2>2 DEF Check
<1>7. ASSUME NEW c \in Client, Touch(c) PROVE KeyInv'
  <2>1. /\ key[c] \in Key /\ issued[key[c]] # Null /\ at[c] \in 0..MaxTime /\ at[c] <= now
        /\ Leave(c, "principal") /\ UNCHANGED <<now, issued, revoked, revocations>>
        /\ lastUsed' = lastUsed \/ lastUsed' = [lastUsed EXCEPT ![key[c]] = at[c]]
    BY <1>1, <1>7 DEF Touch, OnIssued, KeyTypeOK
  <2>2. KeyTypeOK'
    <3>1. /\ lastUsed' \in [Key -> 0..MaxTime \cup {Null}]
          /\ \A k \in Key : lastUsed'[k] # Null => issued'[k] # Null /\ lastUsed'[k] <= now'
      BY <1>1, <2>1 DEF KeyTypeOK
    <3>2. QED
      BY <1>0, <1>1, <2>1, <3>1, LeaveEffect DEF KeyTypeOK
  <2>3. OnIssued' /\ Revoking'
    BY <1>0, <1>1, <2>1, LeaveEffect DEF OnIssued, Revoking, KeyTypeOK
  <2>4. QED
    BY <2>2, <2>3 DEF KeyInv
<1>8. ASSUME NEW c \in Client, TouchFails(c) \/ Drop(c) PROVE KeyInv'
  BY <1>0, <1>8, FailKeeps DEF TouchFails, Drop
<1>9. CASE Tick
  <2>1. now' = now + 1 /\ now' \in 0..MaxTime /\ UNCHANGED <<rows, keyLock, client, revocations>>
    BY <1>9, <1>a DEF Tick
  <2>2. KeyTypeOK'
    BY <1>1, <1>a, <2>1 DEF KeyTypeOK, rows, client
  <2>3. OnIssued' /\ Revoking'
    BY <1>1, <1>a, <2>1 DEF OnIssued, Revoking, rows, client, KeyTypeOK
  <2>4. QED
    BY <2>2, <2>3 DEF KeyInv
<1>10. CASE UNCHANGED keyVars
  BY <1>1, <1>10 DEF KeyInv, KeyTypeOK, OnIssued, Revoking, keyVars, rows, client
<1>11. QED
  BY <1>0, <1>2, <1>3, <1>4, <1>5, <1>6, <1>7, <1>8, <1>9, <1>10 DEF KeyNext

LEMMA KeyInductive == KeySpec => []KeyInv
  BY KeyInitInv, KeyNextInv, ServiceKeysAssumption, PTL DEF KeySpec

(* servicekey: the rows of a key keep their types; a use is never in the   *)
(* future.                                                                 *)
THEOREM KeyTypeCorrect == KeySpec => []KeyTypeOK
<1>1. KeyInv => KeyTypeOK
  BY DEF KeyInv
<1>2. QED
  BY KeyInductive, <1>1, PTL

(* store/service_keys.go: for any number of concurrent revocations and     *)
(* uses, a key is revoked once and its last use only moves forward.        *)
THEOREM KeyRowsAdvance == KeySpec => RowsAdvance
<1>1. ASSUME KeyInv, KeyNext, NEW k \in Key
      PROVE  /\ revocations'[k] # revocations[k] => k \notin revoked /\ k \in revoked'
             /\ lastUsed[k] # Null /\ lastUsed'[k] # lastUsed[k] =>
                   lastUsed'[k] > lastUsed[k] + Throttle
  <2>0. KeyTypeOK /\ OnIssued /\ Revoking
    BY <1>1 DEF KeyInv
  <2>1. ASSUME NEW c \in Client, CommitRevocation(c)
        PROVE  /\ revocations'[k] # revocations[k] => k \notin revoked /\ k \in revoked'
               /\ UNCHANGED lastUsed
    BY <2>0, <2>1 DEF CommitRevocation, Revoking, KeyTypeOK
  <2>2. ASSUME NEW c \in Client, Touch(c)
        PROVE  /\ UNCHANGED revocations
               /\ lastUsed[k] # Null /\ lastUsed'[k] # lastUsed[k] =>
                     lastUsed'[k] > lastUsed[k] + Throttle
    <3>1. SUFFICES ASSUME lastUsed[k] # Null, lastUsed'[k] # lastUsed[k]
                   PROVE  lastUsed'[k] > lastUsed[k] + Throttle
      BY <2>2 DEF Touch
    <3>2. Due(c) /\ key[c] = k /\ lastUsed'[k] = at[c]
      BY <2>0, <2>2, <3>1 DEF Touch, KeyTypeOK
    <3>3. lastUsed[k] \in Nat /\ at[c] \in Nat /\ Throttle \in Nat
      BY <2>0, <2>2, <3>1, ServiceKeysAssumption
         DEF Touch, KeyTypeOK, OnIssued, ServiceKeysAssumption
    <3>4. QED
      BY <3>1, <3>2, <3>3 DEF Due
  <2>3. ASSUME NEW c \in Client,
               \/ \E j \in Key : Revoke(c, j) \/ Present(c, j)
               \/ LockKey(c) \/ Check(c) \/ TouchFails(c) \/ Drop(c)
        PROVE  UNCHANGED <<lastUsed, revocations>>
    BY <2>3 DEF Revoke, Present, Enter, LockKey, Check, TouchFails, Drop, Fail, rows
  <2>4. ASSUME Tick \/ \E j \in Key : CreateKey(j)
        PROVE  UNCHANGED <<lastUsed, revocations>>
    BY <2>4 DEF Tick, CreateKey, rows
  <2>5. QED
    BY <1>1, <2>1, <2>2, <2>3, <2>4 DEF KeyNext
<1>2. KeyInv /\ [KeyNext]_keyVars =>
        [\A k \in Key :
            /\ revocations'[k] # revocations[k] => k \notin revoked /\ k \in revoked'
            /\ lastUsed[k] # Null /\ lastUsed'[k] # lastUsed[k] =>
                  lastUsed'[k] > lastUsed[k] + Throttle]_keyVars
  BY <1>1
<1>3. QED
  BY <1>2, KeyInductive, PTL DEF KeySpec, RowsAdvance
-----------------------------------------------------------------------------
(***************************************************************************)
(* Roles.                                                                  *)
(***************************************************************************)
Editing(r) == pc[r] \in {"decide", "audit"}

(* What the arguments of a request in flight are.                          *)
Arguments ==
    \A r \in Request :
        /\ pc[r] \in {"insert", "lock", "decide", "audit"} =>
              /\ arg[r] \in Role /\ op[r] \in {"create", "update", "delete"}
              /\ op[r] = "create" => keys[r] # None
              /\ op[r] = "delete" => keys[r] = None
              /\ pc[r] = "insert" => op[r] = "create"
              /\ pc[r] = "lock" => op[r] # "create"
        /\ pc[r] \in {"users", "grant"} => arg[r] \in User

(* An edit holds its role, which is as it found it.                        *)
EditsHold ==
    \A r \in Request : Editing(r) =>
        /\ roleLock[arg[r]] = r
        /\ life[arg[r]] = IF op[r] = "create" THEN "absent" ELSE "there"
        /\ pc[r] = "audit" =>
              seen[r] = IF keys[r] = None THEN perms[arg[r]] ELSE keys[r]
        /\ pc[r] = "decide" => op[r] # "create" /\ seen[r] = perms[arg[r]]

(* A role that is being granted is there, and nobody edits it.             *)
GrantsShare ==
    \A r \in Request : \A x \in sharing[r] :
        /\ pc[r] = "grant" /\ arg[r] \notin Foreign
        /\ life[x] = "there" /\ roleLock[x] = None

(* What the controls found is still so.                                    *)
Controlled ==
    \A r \in Request : pc[r] = "audit" =>
        /\ keys[r] # None => ~Held(r)
        /\ op[r] = "delete" => ~Assigned(r)

RoleInv ==
    /\ TypeOK /\ Arguments /\ EditsHold /\ GrantsShare /\ Controlled
    /\ AuditTellsPermissions

LEMMA RoleInitInv == RoleGridAssumption /\ Init => RoleInv
  BY DEF RoleGridAssumption, Init, RoleInv, TypeOK, Arguments, EditsHold, Editing,
         GrantsShare, Controlled, AuditTellsPermissions, Step, Op, Reply

(* The end of a request frees its locks and leaves the others as they are. *)
LEMMA FinishEffect ==
    ASSUME RoleGridAssumption, TypeOK, NEW r \in Request, NEW a \in Reply, Finish(r, a)
    PROVE  /\ roleLock' \in [Role -> Request \cup {None}]
           /\ sharing' \in [Request -> SUBSET Role]
           /\ usersLock' \in Request \cup {None}
           /\ pc' \in [Request -> Step] /\ op' \in [Request -> Op]
           /\ actor' \in [Request -> Admin \cup {None}]
           /\ arg' \in [Request -> Role \cup User \cup {None}]
           /\ keys' \in [Request -> (SUBSET Permission) \cup {None}]
           /\ todo' \in [Request -> SUBSET Role] /\ seen' \in [Request -> SUBSET Declared]
           /\ reply' \in [Request -> Reply]
           /\ pc'[r] = "idle" /\ sharing'[r] = {}
           /\ \A q \in Request \ {r} :
                 /\ pc'[q] = pc[q] /\ op'[q] = op[q] /\ actor'[q] = actor[q]
                 /\ arg'[q] = arg[q] /\ keys'[q] = keys[q] /\ seen'[q] = seen[q]
                 /\ sharing'[q] = sharing[q]
           /\ \A x \in Role : roleLock'[x] = IF roleLock[x] = r THEN None ELSE roleLock[x]
<1>1. /\ roleLock' \in [Role -> Request \cup {None}]
      /\ sharing' \in [Request -> SUBSET Role]
      /\ usersLock' \in Request \cup {None}
      /\ pc' \in [Request -> Step] /\ op' \in [Request -> Op]
      /\ actor' \in [Request -> Admin \cup {None}]
      /\ arg' \in [Request -> Role \cup User \cup {None}]
  BY DEF Finish, TypeOK, Step, Op
<1>2. /\ keys' \in [Request -> (SUBSET Permission) \cup {None}]
      /\ todo' \in [Request -> SUBSET Role] /\ seen' \in [Request -> SUBSET Declared]
      /\ reply' \in [Request -> Reply]
  BY DEF Finish, TypeOK
<1>3. /\ pc'[r] = "idle" /\ sharing'[r] = {}
      /\ \A q \in Request \ {r} :
            /\ pc'[q] = pc[q] /\ op'[q] = op[q] /\ actor'[q] = actor[q]
            /\ arg'[q] = arg[q] /\ keys'[q] = keys[q] /\ seen'[q] = seen[q]
            /\ sharing'[q] = sharing[q]
      /\ \A x \in Role : roleLock'[x] = IF roleLock[x] = r THEN None ELSE roleLock[x]
  BY DEF Finish, TypeOK
<1>4. QED
  BY <1>1, <1>2, <1>3

LEMMA RollbackKeeps ==
    ASSUME RoleGridAssumption, RoleInv, NEW r \in Request, NEW a \in Reply, Rollback(r, a)
    PROVE  RoleInv'
<1>1. /\ TypeOK /\ Finish(r, a) /\ UNCHANGED tables
      /\ Arguments /\ EditsHold /\ GrantsShare /\ Controlled /\ AuditTellsPermissions
  BY DEF RoleInv, Rollback
<1>2. TypeOK'
  BY <1>1, FinishEffect DEF TypeOK, tables
<1>3. Arguments' /\ AuditTellsPermissions'
  BY <1>1, FinishEffect DEF Arguments, AuditTellsPermissions, tables
<1>4. EditsHold'
  BY <1>1, FinishEffect DEF EditsHold, Editing, Arguments, tables
<1>5. GrantsShare'
  BY <1>1, FinishEffect DEF GrantsShare, tables, TypeOK
<1>6. Controlled'
  BY <1>1, FinishEffect DEF Controlled, Held, Assigned, tables
<1>7. QED
  BY <1>2, <1>3, <1>4, <1>5, <1>6 DEF RoleInv

(* A request that begins has no lock yet.                                  *)
LEMMA BeginKeeps ==
    ASSUME RoleGridAssumption, RoleInv, NEW r \in Request,
           \/ \E a \in Admin, x \in Role, K \in SUBSET Permission : Create(r, a, x, K)
           \/ \E a \in Admin, x \in Role, K \in (SUBSET Permission) \cup {None} : Update(r, a, x, K)
           \/ \E a \in Admin, x \in Role : Delete(r, a, x)
           \/ \E a \in Admin, u \in User, R \in SUBSET Role : Assign(r, a, u, R)
    PROVE  RoleInv'
<1>1. /\ TypeOK /\ Arguments /\ EditsHold /\ GrantsShare /\ Controlled
      /\ AuditTellsPermissions
  BY DEF RoleInv
<1>2. PICK o \in Op \ {"none"}, a \in Admin, x \in Role \cup User,
           K \in (SUBSET Permission) \cup {None}, R \in SUBSET Role,
           st \in {"insert", "lock", "users"} :
        /\ Begin(r, o, a, x, K, R, st)
        /\ st \in {"insert", "lock"} => x \in Role /\ o \in {"create", "update", "delete"}
        /\ o = "create" => K # None
        /\ st = "insert" => o = "create"
        /\ st = "lock" => o # "create"
        /\ o = "delete" => K = None
        /\ st = "users" => x \in User
  BY DEF Create, Update, Delete, Assign, Op, RoleGridAssumption
<1>3. TypeOK'
  BY <1>1, <1>2 DEF Begin, TypeOK, tables, locks, Step, Op, Reply
<1>4. Arguments' /\ AuditTellsPermissions'
  BY <1>1, <1>2 DEF Begin, Arguments, AuditTellsPermissions, TypeOK, tables
<1>5. EditsHold' /\ GrantsShare' /\ Controlled'
  <2>1. /\ pc[r] = "idle" /\ pc'[r] = st
        /\ \A q \in Request \ {r} :
              /\ pc'[q] = pc[q] /\ op'[q] = op[q] /\ actor'[q] = actor[q]
              /\ arg'[q] = arg[q] /\ keys'[q] = keys[q]
        /\ UNCHANGED <<tables, locks, seen>>
    BY <1>1, <1>2 DEF Begin, TypeOK
  <2>2. EditsHold'
    BY <1>1, <2>1 DEF EditsHold, Editing, tables, locks
  <2>3. sharing[r] = {}
    BY <1>1, <2>1 DEF GrantsShare, TypeOK
  <2>4. GrantsShare'
    BY <1>1, <2>1, <2>3 DEF GrantsShare, tables, locks
  <2>5. Controlled'
    BY <1>1, <2>1 DEF Controlled, Held, Assigned, tables
  <2>6. QED
    BY <2>2, <2>4, <2>5
<1>6. QED
  BY <1>1, <1>3, <1>4, <1>5 DEF RoleInv

(* An edit takes its role when nobody is granting it.                      *)
LEMMA EditKeeps ==
    ASSUME RoleGridAssumption, RoleInv, NEW r \in Request,
           InsertRole(r) \/ LockRole(r) \/ Decide(r)
    PROVE  RoleInv'
<1>1. /\ TypeOK /\ Arguments /\ EditsHold /\ GrantsShare /\ Controlled
      /\ AuditTellsPermissions /\ None \notin Request
  BY DEF RoleInv, RoleGridAssumption
<1>2. CASE \E a \in Reply : Rollback(r, a)
  BY <1>2, RollbackKeeps
<1>3. ASSUME NEW S \in SUBSET Declared, NEW st \in {"decide", "audit"},
             arg[r] \in Role, ~Editing(r), pc[r] \in {"insert", "lock"},
             roleLock[arg[r]] = None, Sharers(arg[r]) = {},
             life[arg[r]] = IF op[r] = "create" THEN "absent" ELSE "there",
             st = "audit" => op[r] = "create" /\ S = keys[r],
             st = "decide" => op[r] # "create" /\ S = perms[arg[r]],
             roleLock' = [roleLock EXCEPT ![arg[r]] = r],
             seen' = [seen EXCEPT ![r] = S], Continue(r, st),
             UNCHANGED <<sharing, usersLock>>
      PROVE  RoleInv'
  <2>1. /\ roleLock' \in [Role -> Request \cup {None}]
        /\ roleLock'[arg[r]] = r
        /\ \A x \in Role \ {arg[r]} : roleLock'[x] = roleLock[x]
        /\ seen' \in [Request -> SUBSET Declared] /\ seen'[r] = S
        /\ pc' \in [Request -> Step] /\ pc'[r] = st
        /\ \A q \in Request \ {r} : pc'[q] = pc[q] /\ seen'[q] = seen[q]
        /\ UNCHANGED <<tables, op, actor, arg, keys, todo, reply, sharing, usersLock>>
    BY <1>1, <1>3 DEF Continue, TypeOK, Step
  <2>2. TypeOK'
    BY <1>1, <2>1 DEF TypeOK, tables
  <2>3. Arguments' /\ AuditTellsPermissions'
    BY <1>1, <1>3, <2>1 DEF Arguments, AuditTellsPermissions, tables
  <2>4. EditsHold'
    <3>1. SUFFICES ASSUME NEW q \in Request, Editing(q)'
                   PROVE  /\ roleLock'[arg'[q]] = q
                          /\ life'[arg'[q]] = IF op'[q] = "create" THEN "absent" ELSE "there"
                          /\ pc'[q] = "audit" =>
                                seen'[q] = IF keys'[q] = None THEN perms'[arg'[q]] ELSE keys'[q]
                          /\ pc'[q] = "decide" =>
                                op'[q] # "create" /\ seen'[q] = perms'[arg'[q]]
      BY DEF EditsHold
    <3>2. CASE q = r
      BY <1>1, <1>3, <2>1, <3>2 DEF Arguments, tables
    <3>3. CASE q # r
      <4>1. Editing(q) /\ arg[q] \in Role
        BY <1>1, <2>1, <3>1, <3>3 DEF Editing, Arguments
      <4>2. roleLock[arg[q]] = q /\ arg[q] # arg[r]
        BY <1>1, <1>3, <4>1 DEF EditsHold
      <4>3. QED
        BY <1>1, <2>1, <3>3, <4>1, <4>2 DEF EditsHold, tables
    <3>4. QED
      BY <3>2, <3>3
  <2>5. GrantsShare'
    <3>1. sharing[r] = {}
      BY <1>1, <1>3 DEF GrantsShare, TypeOK
    <3>2. \A q \in Request : arg[r] \notin sharing[q]
      BY <1>3 DEF Sharers
    <3>3. \A q \in Request : sharing[q] \subseteq Role
      BY <1>1 DEF TypeOK
    <3>4. QED
      BY <1>1, <2>1, <3>1, <3>2, <3>3 DEF GrantsShare, tables
  <2>6. Controlled'
    <3>1. op[r] = "create" => life[arg[r]] = "absent"
      BY <1>3
    <3>2. life[arg[r]] = "absent" => ~Held(r)
      BY <1>1 DEF TypeOK, Held
    <3>3. QED
      BY <1>1, <1>3, <2>1, <3>1, <3>2 DEF Controlled, Held, Assigned, tables
  <2>7. QED
    BY <2>2, <2>3, <2>4, <2>5, <2>6 DEF RoleInv
<1>4. CASE InsertRole(r)
  <2>1. CASE Rollback(r, "invalid") \/ Rollback(r, "duplicate")
    BY <2>1, <1>2 DEF Reply
  <2>2. CASE /\ keys[r] \subseteq Declared /\ roleLock[arg[r]] = None
             /\ life[arg[r]] = "absent"
             /\ roleLock' = [roleLock EXCEPT ![arg[r]] = r]
             /\ seen' = [seen EXCEPT ![r] = keys[r]]
             /\ Continue(r, "audit") /\ UNCHANGED <<sharing, usersLock>>
    <3>1. pc[r] = "insert" /\ arg[r] \in Role /\ ~Editing(r) /\ op[r] = "create"
      BY <1>1, <1>4 DEF InsertRole, Arguments, Editing
    <3>2. Sharers(arg[r]) = {}
      BY <1>1, <2>2 DEF Sharers, GrantsShare
    <3>3. QED
      BY <1>3, <2>2, <3>1, <3>2
  <2>3. QED
    BY <1>4, <2>1, <2>2 DEF InsertRole
<1>5. CASE LockRole(r)
  <2>1. CASE Rollback(r, "notFound")
    BY <2>1, <1>2 DEF Reply
  <2>2. CASE /\ life[arg[r]] = "there"
             /\ roleLock' = [roleLock EXCEPT ![arg[r]] = r]
             /\ seen' = [seen EXCEPT ![r] = perms[arg[r]]]
             /\ Continue(r, "decide") /\ UNCHANGED <<sharing, usersLock>>
    <3>1. /\ pc[r] = "lock" /\ arg[r] \in Role /\ ~Editing(r) /\ op[r] # "create"
          /\ roleLock[arg[r]] = None /\ Sharers(arg[r]) = {}
      BY <1>1, <1>5 DEF LockRole, Arguments, Editing
    <3>2. perms[arg[r]] \in SUBSET Declared
      BY <1>1, <3>1 DEF TypeOK
    <3>3. QED
      BY <1>3, <2>2, <3>1, <3>2
  <2>3. QED
    BY <1>5, <2>1, <2>2 DEF LockRole
<1>6. CASE Decide(r)
  <2>1. CASE Refusal(r) # "none" /\ Rollback(r, Refusal(r))
    BY <2>1, <1>2 DEF Reply, Refusal
  <2>2. CASE /\ Refusal(r) = "none"
             /\ seen' = [seen EXCEPT ![r] = IF keys[r] = None THEN @ ELSE keys[r]]
             /\ Continue(r, "audit") /\ UNCHANGED locks
    <3>0. pc[r] = "decide" /\ arg[r] \in Role /\ op[r] \in {"update", "delete"}
          /\ (op[r] = "delete" => keys[r] = None)
      BY <1>1, <1>6 DEF Decide, Arguments, EditsHold, Editing
    <3>1. /\ keys[r] # None => ~Held(r) /\ keys[r] \in SUBSET Declared
          /\ op[r] = "delete" => ~Assigned(r)
      BY <1>1, <2>2, <3>0 DEF Refusal, TypeOK
    <3>2. /\ pc' \in [Request -> Step] /\ pc'[r] = "audit"
          /\ seen' \in [Request -> SUBSET Declared]
          /\ seen'[r] = IF keys[r] = None THEN seen[r] ELSE keys[r]
          /\ \A q \in Request \ {r} : pc'[q] = pc[q] /\ seen'[q] = seen[q]
          /\ UNCHANGED <<tables, op, actor, arg, keys, todo, reply, locks>>
      BY <1>1, <2>2, <3>1 DEF Continue, TypeOK, Step
    <3>3. TypeOK'
      BY <1>1, <3>2 DEF TypeOK, tables, locks
    <3>4. Arguments' /\ AuditTellsPermissions'
      BY <1>1, <3>0, <3>2 DEF Arguments, AuditTellsPermissions, tables
    <3>5. EditsHold'
      BY <1>1, <3>0, <3>2 DEF EditsHold, Editing, tables, locks
    <3>6. GrantsShare' /\ Controlled'
      BY <1>1, <3>0, <3>1, <3>2 DEF GrantsShare, Controlled, Held, Assigned, tables, locks
    <3>7. QED
      BY <3>3, <3>4, <3>5, <3>6 DEF RoleInv
  <2>3. QED
    BY <1>6, <2>1, <2>2 DEF Decide
<1>7. QED
  BY <1>4, <1>5, <1>6

(* An edit commits what it holds: the role of no other request.            *)
LEMMA AuditKeeps ==
    ASSUME RoleGridAssumption, RoleInv, NEW r \in Request, AuditAndCommit(r)
    PROVE  RoleInv'
<1>1. /\ TypeOK /\ Arguments /\ EditsHold /\ GrantsShare /\ Controlled
      /\ AuditTellsPermissions /\ None \notin Request
  BY DEF RoleInv, RoleGridAssumption
<1>2. /\ pc[r] = "audit" /\ arg[r] \in Role /\ roleLock[arg[r]] = r
      /\ op[r] \in {"create", "update", "delete"}
      /\ life[arg[r]] = IF op[r] = "create" THEN "absent" ELSE "there"
      /\ seen[r] = IF keys[r] = None THEN perms[arg[r]] ELSE keys[r]
      /\ seen[r] \in SUBSET Declared
      /\ op[r] = "delete" => ~Assigned(r)
  BY <1>1 DEF AuditAndCommit, Arguments, EditsHold, Editing, Controlled, TypeOK
<1>3. /\ life' = [life EXCEPT ![arg[r]] = IF op[r] = "delete" THEN "deleted" ELSE "there"]
      /\ perms' = [perms EXCEPT ![arg[r]] = seen[r]]
      /\ audited' = [audited EXCEPT ![arg[r]] = seen[r]]
      /\ Finish(r, "ok") /\ UNCHANGED holds /\ "ok" \in Reply
  BY <1>2 DEF AuditAndCommit, Reply
<1>4. /\ \A x \in Role \ {arg[r]} : life'[x] = life[x] /\ perms'[x] = perms[x]
      /\ perms' \in [Role -> SUBSET Declared] /\ audited' \in [Role -> SUBSET Declared]
      /\ life' \in [Role -> {"absent", "there", "deleted"}]
      /\ op[r] # "delete" => life'[arg[r]] = "there"
  BY <1>1, <1>2, <1>3 DEF TypeOK
<1>5. TypeOK'
  <2>1. holds' \in SUBSET (User \X {x \in Role : life'[x] = "there"})
    BY <1>1, <1>2, <1>3, <1>4 DEF TypeOK, Assigned
  <2>2. QED
    BY <1>1, <1>3, <1>4, <2>1, FinishEffect DEF TypeOK
<1>6. Arguments' /\ AuditTellsPermissions'
  BY <1>1, <1>2, <1>3, <1>4, FinishEffect DEF Arguments, AuditTellsPermissions, TypeOK
<1>7. ASSUME NEW q \in Request, Editing(q)'
      PROVE  q # r /\ Editing(q) /\ arg[q] \in Role /\ arg[q] # arg[r]
  BY <1>1, <1>2, <1>3, <1>7, FinishEffect DEF Editing, EditsHold, Arguments
<1>8. EditsHold'
  BY <1>1, <1>3, <1>4, <1>7, FinishEffect DEF EditsHold, Editing
<1>9. GrantsShare'
  BY <1>1, <1>2, <1>3, <1>4, FinishEffect DEF GrantsShare, TypeOK
<1>10. Controlled'
  BY <1>1, <1>3, <1>7, FinishEffect DEF Controlled, Editing, Held, Assigned
<1>11. QED
  BY <1>5, <1>6, <1>8, <1>9, <1>10 DEF RoleInv

(* An assignment grants roles nobody edits, so no control is disturbed.    *)
LEMMA AssignKeeps ==
    ASSUME RoleGridAssumption, RoleInv, NEW r \in Request,
           LockUsers(r) \/ GrantRole(r) \/ CommitRoles(r)
    PROVE  RoleInv'
<1>1. /\ TypeOK /\ Arguments /\ EditsHold /\ GrantsShare /\ Controlled
      /\ AuditTellsPermissions /\ None \notin Request
  BY DEF RoleInv, RoleGridAssumption
<1>2. CASE \E a \in Reply : Rollback(r, a)
  BY <1>2, RollbackKeeps
<1>3. CASE LockUsers(r)
  <2>1. CASE Rollback(r, "ok")
    BY <2>1, <1>2 DEF Reply
  <2>2. CASE usersLock' = r /\ Continue(r, "grant") /\ UNCHANGED <<roleLock, sharing, seen>>
    <3>1. /\ pc[r] = "users" /\ pc' \in [Request -> Step] /\ pc'[r] = "grant"
          /\ \A q \in Request \ {r} : pc'[q] = pc[q]
          /\ UNCHANGED <<tables, op, actor, arg, keys, todo, reply, roleLock, sharing, seen>>
      BY <1>1, <1>3, <2>2 DEF LockUsers, Continue, TypeOK, Step
    <3>2. TypeOK'
      BY <1>1, <2>2, <3>1 DEF TypeOK, tables
    <3>3. Arguments' /\ AuditTellsPermissions' /\ EditsHold'
      BY <1>1, <3>1 DEF Arguments, AuditTellsPermissions, EditsHold, Editing, tables
    <3>4. GrantsShare' /\ Controlled'
      BY <1>1, <3>1 DEF GrantsShare, Controlled, Held, Assigned, tables
    <3>5. QED
      BY <3>2, <3>3, <3>4 DEF RoleInv
  <2>3. QED
    BY <1>3, <2>1, <2>2 DEF LockUsers
<1>4. CASE GrantRole(r)
  <2>1. CASE Rollback(r, "mismatch") \/ Rollback(r, "error")
    BY <2>1, <1>2 DEF Reply
  <2>2. ASSUME NEW x \in todo[r], arg[r] \notin Foreign, life[x] = "there",
               roleLock[x] = None,
               sharing' = [sharing EXCEPT ![r] = @ \cup {x}],
               todo' = [todo EXCEPT ![r] = @ \ {x}],
               UNCHANGED <<tables, roleLock, usersLock, pc, op, actor, arg, keys, seen, reply>>
        PROVE  RoleInv'
    <3>1. pc[r] = "grant" /\ x \in Role
      BY <1>1, <1>4 DEF GrantRole, TypeOK
    <3>2. TypeOK'
      BY <1>1, <2>2, <3>1 DEF TypeOK, tables
    <3>3. Arguments' /\ AuditTellsPermissions' /\ EditsHold' /\ Controlled'
      BY <1>1, <2>2 DEF Arguments, AuditTellsPermissions, EditsHold, Editing, Controlled,
                        Held, Assigned, tables
    <3>4. GrantsShare'
      BY <1>1, <2>2, <3>1 DEF GrantsShare, TypeOK, tables
    <3>5. QED
      BY <3>2, <3>3, <3>4 DEF RoleInv
  <2>3. QED
    BY <1>4, <2>1, <2>2 DEF GrantRole
<1>5. CASE CommitRoles(r)
  <2>1. /\ pc[r] = "grant" /\ arg[r] \in User
        /\ holds' = {h \in holds : h[1] # arg[r]} \cup ({arg[r]} \X sharing[r])
        /\ Finish(r, "ok") /\ "ok" \in Reply /\ UNCHANGED <<life, perms, audited>>
    BY <1>1, <1>5 DEF CommitRoles, Arguments, Reply
  <2>2. \A x \in sharing[r] : x \in Role /\ life[x] = "there" /\ roleLock[x] = None
    BY <1>1 DEF GrantsShare, TypeOK
  <2>3. TypeOK'
    <3>1. holds' \in SUBSET (User \X {x \in Role : life'[x] = "there"})
      BY <1>1, <2>1, <2>2 DEF TypeOK
    <3>2. QED
      BY <1>1, <2>1, <3>1, FinishEffect DEF TypeOK
  <2>4. Arguments' /\ AuditTellsPermissions'
    BY <1>1, <2>1, FinishEffect DEF Arguments, AuditTellsPermissions
  <2>5. EditsHold'
    BY <1>1, <2>1, FinishEffect DEF EditsHold, Editing, Arguments
  <2>6. GrantsShare'
    BY <1>1, <2>1, FinishEffect DEF GrantsShare, TypeOK
  <2>7. Controlled'
    <3>1. SUFFICES ASSUME NEW q \in Request, pc'[q] = "audit"
                   PROVE  /\ keys'[q] # None => ~Held(q)'
                          /\ op'[q] = "delete" => ~Assigned(q)'
      BY DEF Controlled
    <3>2. /\ q # r /\ pc[q] = "audit" /\ arg'[q] = arg[q] /\ actor'[q] = actor[q]
          /\ keys'[q] = keys[q] /\ op'[q] = op[q]
      BY <1>1, <2>1, <3>1, FinishEffect
    <3>3. arg[q] \notin sharing[r]
      BY <1>1, <2>2, <3>2 DEF EditsHold, Editing
    <3>4. \A u : <<u, arg[q]>> \in holds' => <<u, arg[q]>> \in holds
      BY <2>1, <3>3
    <3>5. QED
      BY <1>1, <3>2, <3>4 DEF Controlled, Held, Assigned
  <2>8. QED
    BY <2>3, <2>4, <2>5, <2>6, <2>7 DEF RoleInv
<1>6. QED
  BY <1>3, <1>4, <1>5

LEMMA RoleNextInv == RoleGridAssumption /\ RoleInv /\ [Next]_vars => RoleInv'
<1>0. SUFFICES ASSUME RoleGridAssumption, RoleInv, [Next]_vars PROVE RoleInv'
  OBVIOUS
<1>1. CASE UNCHANGED vars
  <2>1. UNCHANGED <<life, perms, holds, audited, roleLock, sharing, usersLock,
                    pc, op, actor, arg, keys, todo, seen, reply>>
    BY <1>1 DEF vars, tables, locks, request
  <2>2. TypeOK'
    BY <1>0, <2>1 DEF RoleInv, TypeOK
  <2>3. Arguments' /\ EditsHold' /\ AuditTellsPermissions'
    BY <1>0, <2>1 DEF RoleInv, Arguments, EditsHold, Editing, AuditTellsPermissions
  <2>4. GrantsShare' /\ Controlled'
    BY <1>0, <2>1 DEF RoleInv, GrantsShare, Controlled, Held, Assigned
  <2>5. QED
    BY <2>2, <2>3, <2>4 DEF RoleInv
<1>2. ASSUME NEW r \in Request, BreakDeadlock(r) \/ LoseRequest(r) PROVE RoleInv'
  BY <1>0, <1>2, RollbackKeeps DEF BreakDeadlock, LoseRequest, Reply
<1>3. QED
  BY <1>0, <1>1, <1>2, BeginKeeps, EditKeeps, AuditKeeps, AssignKeeps DEF Next, Proceed

LEMMA RoleInductive == Spec => []RoleInv
  BY RoleInitInv, RoleNextInv, RoleGridAssumption, PTL DEF Spec

(* rolegrid: rows, locks and requests keep their types; nobody holds a     *)
(* role that is not there.                                                 *)
THEOREM RoleTypeCorrect == Spec => []TypeOK
<1>1. RoleInv => TypeOK
  BY DEF RoleInv
<1>2. QED
  BY RoleInductive, <1>1, PTL

(* ADR 0013, control 5, for any number of edits and assignments.           *)
THEOREM AuditIsTrue == Spec => []AuditTellsPermissions
<1>1. RoleInv => AuditTellsPermissions
  BY DEF RoleInv
<1>2. QED
  BY RoleInductive, <1>1, PTL

(* ADR 0013, controls 2 and 4, for any number of edits and assignments.    *)
THEOREM ControlsHold == Spec => ControlsStand
<1>1. RoleInv /\ [Next]_vars =>
        [\A r \in Request :
            pc[r] = "audit" /\ reply'[r] = "ok" =>
                /\ keys[r] # None => ~Held(r)
                /\ op[r] = "delete" => ~Assigned(r)]_vars
  BY DEF RoleInv, Controlled
<1>2. QED
  BY <1>1, RoleInductive, PTL DEF Spec, ControlsStand

-----------------------------------------------------------------------------
(***************************************************************************)
(* Roles and service keys beside each other.                               *)
(***************************************************************************)
(* A step of the directory is a step of one part: the other rests.         *)
LEMMA EachRests ==
    ASSUME [DirectoryNext]_<<vars, keyVars>>
    PROVE  [Next]_vars /\ [KeyNext]_keyVars
  BY DEF DirectoryNext

(* rolegrid and servicekey share no row: what is proved of the one alone   *)
(* holds beside the other.                                                 *)
THEOREM PartsStand == DirectorySpec => Spec /\ KeySpec
<1>1. DirectoryInit => Init /\ KeyInit
  BY DEF DirectoryInit
<1>2. [DirectoryNext]_<<vars, keyVars>> => [Next]_vars /\ [KeyNext]_keyVars
  BY EachRests
<1>3. QED
  BY <1>1, <1>2, PTL DEF DirectorySpec, Spec, KeySpec

(* rolegrid and servicekey: the rows, locks and requests of both keep      *)
(* their types; nobody holds a role that is not there, no key is used      *)
(* before it was issued.                                                   *)
THEOREM DirectoryTypeCorrect == DirectorySpec => []DirectoryTypeOK
<1>1. TypeOK /\ KeyTypeOK => DirectoryTypeOK
  BY DEF DirectoryTypeOK
<1>2. QED
  BY <1>1, PartsStand, RoleTypeCorrect, KeyTypeCorrect, PTL
=============================================================================
