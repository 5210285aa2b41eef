------------------------------ MODULE RoleGrid ------------------------------
(***************************************************************************)
(* The roles of the applications: an administrator creates, edits and      *)
(* deletes them while others assign them to users (ReplaceRoles of PATCH   *)
(* /admin/users/{id}) within one company.  Row locks are those of          *)
(* AdminUsers.                                                             *)
(*                                                                         *)
(* What matters here: what an edit reads (who holds the role, what it      *)
(* permits) must stand until it commits; and an edit holds a role when it  *)
(* needs the row of its actor, an assignment the rows of the               *)
(* administrators when it needs the role.                                  *)
(***************************************************************************)
EXTENDS Naturals, FiniteSets

CONSTANTS
    User, Admin,       \* accounts; those with the directory role admin
    Role, Seeded,      \* roles of one application; those of its migration
    Permission,        \* permission keys
    Declared,          \*   those the application declares
    Foreign,           \* users of another company than the application's
    Request, None,
    Faults             \* may a request lose its connection or its context?

ASSUME RoleGridAssumption ==
    /\ Admin \subseteq User /\ Seeded \subseteq Role
    /\ Declared \subseteq Permission /\ Foreign \subseteq User
    /\ None \notin Request \cup Role \cup User
    /\ \A K \in SUBSET Permission : K # None
    /\ Faults \in BOOLEAN

VARIABLES
    life,                   \* roles: "absent", "there" or "deleted"
    perms,                  \* role_permissions
    holds,                  \* user_roles: pairs of a user and a role
    audited,                \* history: permissions in a role's last audit event
    roleLock,               \* FOR UPDATE on a role, or its insertion: the holder
    sharing,                \* per request: roles it locks by a foreign key
    usersLock,              \* the rows of the administrators: the holder
    pc, op, actor,          \* per request: step, operation, administrator
    arg, keys,              \* per request: role, or user, and permissions asked
    todo,                   \* per request: roles to grant
    seen,                   \* per request: permissions to audit
    reply                   \* per request: the last answer

tables  == <<life, perms, holds, audited>>
locks   == <<roleLock, sharing, usersLock>>
request == <<op, actor, arg, keys, todo, seen>>
vars    == <<tables, locks, pc, request, reply>>

Step  == {"idle", "insert", "lock", "decide", "users", "grant", "audit"}
Op    == {"none", "create", "update", "delete", "assign"}
Reply == {"none", "ok", "duplicate", "notFound", "self", "assigned", "invalid",
          "mismatch", "error"}

TypeOK ==
    /\ life \in [Role -> {"absent", "there", "deleted"}]
    /\ perms \in [Role -> SUBSET Declared]
    /\ holds \in SUBSET (User \X {x \in Role : life[x] = "there"})
    /\ audited \in [Role -> SUBSET Declared]
    /\ roleLock \in [Role -> Request \cup {None}]
    /\ sharing \in [Request -> SUBSET Role]
    /\ usersLock \in Request \cup {None}
    /\ pc \in [Request -> Step] /\ op \in [Request -> Op]
    /\ actor \in [Request -> Admin \cup {None}]
    /\ arg \in [Request -> Role \cup User \cup {None}]
    /\ keys \in [Request -> (SUBSET Permission) \cup {None}]
    /\ todo \in [Request -> SUBSET Role] /\ seen \in [Request -> SUBSET Declared]
    /\ reply \in [Request -> Reply]

Init ==
    /\ life = [x \in Role |-> IF x \in Seeded THEN "there" ELSE "absent"]
    /\ perms = [x \in Role |-> IF x \in Seeded THEN Declared ELSE {}]
    /\ audited = perms
    /\ holds \in SUBSET ((User \ Foreign) \X Seeded)
    /\ roleLock = [x \in Role |-> None]
    /\ sharing = [r \in Request |-> {}]
    /\ usersLock = None
    /\ pc = [r \in Request |-> "idle"] /\ op = [r \in Request |-> "none"]
    /\ actor = [r \in Request |-> None] /\ arg = [r \in Request |-> None]
    /\ keys = [r \in Request |-> None]
    /\ todo = [r \in Request |-> {}] /\ seen = [r \in Request |-> {}]
    /\ reply = [r \in Request |-> "none"]

Begin(r, o, a, x, K, R, step) ==
    /\ pc[r] = "idle"
    /\ pc' = [pc EXCEPT ![r] = step]
    /\ op' = [op EXCEPT ![r] = o]
    /\ actor' = [actor EXCEPT ![r] = a]
    /\ arg' = [arg EXCEPT ![r] = x]
    /\ keys' = [keys EXCEPT ![r] = K]
    /\ todo' = [todo EXCEPT ![r] = R]
    /\ reply' = [reply EXCEPT ![r] = "none"]
    /\ UNCHANGED <<tables, locks, seen>>

Finish(r, answer) ==
    /\ roleLock' = [x \in Role |-> IF roleLock[x] = r THEN None ELSE roleLock[x]]
    /\ sharing' = [sharing EXCEPT ![r] = {}]
    /\ usersLock' = IF usersLock = r THEN None ELSE usersLock
    /\ pc' = [pc EXCEPT ![r] = "idle"]
    /\ op' = [op EXCEPT ![r] = "none"]
    /\ actor' = [actor EXCEPT ![r] = None]
    /\ arg' = [arg EXCEPT ![r] = None]
    /\ keys' = [keys EXCEPT ![r] = None]
    /\ todo' = [todo EXCEPT ![r] = {}]
    /\ seen' = [seen EXCEPT ![r] = {}]
    /\ reply' = [reply EXCEPT ![r] = answer]

Rollback(r, answer) == Finish(r, answer) /\ UNCHANGED tables

Continue(r, step) ==
    /\ pc' = [pc EXCEPT ![r] = step]
    /\ UNCHANGED <<tables, op, actor, arg, keys, todo, reply>>
-----------------------------------------------------------------------------
(***************************************************************************)
(* Creation.                                                               *)
(***************************************************************************)
(* Bound: a name is created again by no one once its role was deleted.     *)
Create(r, a, x, K) == life[x] = "absent" /\ Begin(r, "create", a, x, K, {}, "insert")

(* Control 3: keys of the application only.  A second insertion of a name  *)
(* waits for the first and fails if it commits.                            *)
InsertRole(r) ==
    /\ pc[r] = "insert"
    /\ \/ /\ ~(keys[r] \subseteq Declared)
          /\ Rollback(r, "invalid")
       \/ /\ keys[r] \subseteq Declared
          /\ roleLock[arg[r]] = None
          /\ life[arg[r]] # "absent"
          /\ Rollback(r, "duplicate")
       \/ /\ keys[r] \subseteq Declared
          /\ roleLock[arg[r]] = None
          /\ life[arg[r]] = "absent"
          /\ roleLock' = [roleLock EXCEPT ![arg[r]] = r]
          /\ seen' = [seen EXCEPT ![r] = keys[r]]
          /\ Continue(r, "audit")
          /\ UNCHANGED <<sharing, usersLock>>
-----------------------------------------------------------------------------
(***************************************************************************)
(* Edition, of the description (K = None) or the permissions, and deletion.*)
(***************************************************************************)
Update(r, a, x, K) == life[x] # "absent" /\ Begin(r, "update", a, x, K, {}, "lock")
Delete(r, a, x)    == life[x] # "absent" /\ Begin(r, "delete", a, x, None, {}, "lock")

Sharers(x) == {q \in Request : x \in sharing[q]}

LockRoleUnlocked(r) ==   \* faulty: read without FOR UPDATE
    /\ pc[r] = "lock"
    /\ life[arg[r]] = "there"
    /\ seen' = [seen EXCEPT ![r] = perms[arg[r]]]
    /\ Continue(r, "decide")
    /\ UNCHANGED locks

(* The lock comes first, the reading after it.                             *)
LockRole(r) ==
    /\ pc[r] = "lock"
    /\ roleLock[arg[r]] = None /\ Sharers(arg[r]) = {}
    /\ \/ life[arg[r]] = "deleted" /\ Rollback(r, "notFound")
       \/ /\ life[arg[r]] = "there"
          /\ roleLock' = [roleLock EXCEPT ![arg[r]] = r]
          /\ seen' = [seen EXCEPT ![r] = perms[arg[r]]]
          /\ Continue(r, "decide")
          /\ UNCHANGED <<sharing, usersLock>>

Held(r) == <<actor[r], arg[r]>> \in holds

Assigned(r) == \E u \in User : <<u, arg[r]>> \in holds

RefusalAnyKey(r) ==   \* faulty: keys of any application
    IF op[r] = "update" /\ keys[r] = None THEN "none"
    ELSE IF Held(r) THEN "self"
    ELSE IF op[r] = "delete" /\ Assigned(r) THEN "assigned"
    ELSE "none"

(* Control 2 guards what a role permits and its existence; control 4, that *)
(* only a role nobody holds is deleted.                                    *)
Refusal(r) ==
    IF op[r] = "update" /\ keys[r] = None THEN "none"
    ELSE IF Held(r) THEN "self"
    ELSE IF op[r] = "update" /\ ~(keys[r] \subseteq Declared) THEN "invalid"
    ELSE IF op[r] = "delete" /\ Assigned(r) THEN "assigned"
    ELSE "none"

Decide(r) ==
    /\ pc[r] = "decide"
    /\ \/ Refusal(r) # "none" /\ Rollback(r, Refusal(r))
       \/ /\ Refusal(r) = "none"
          /\ seen' = [seen EXCEPT ![r] = IF keys[r] = None THEN @ ELSE keys[r]]
          /\ Continue(r, "audit")
          /\ UNCHANGED locks

(* The audit event refers to the actor; then the transaction commits.      *)
AuditAndCommit(r) ==
    /\ pc[r] = "audit" /\ usersLock = None
    /\ life' = [life EXCEPT ![arg[r]] = IF op[r] = "delete" THEN "deleted" ELSE "there"]
    /\ perms' = [perms EXCEPT ![arg[r]] = IF keys[r] = None THEN @ ELSE keys[r]]
    /\ audited' = [audited EXCEPT ![arg[r]] = seen[r]]
    /\ Finish(r, "ok")
    /\ UNCHANGED holds
-----------------------------------------------------------------------------
(***************************************************************************)
(* Assignment: every role of a user is replaced.                           *)
(***************************************************************************)
Roles(u) == {x \in Role : <<u, x>> \in holds}

(* ValidateRoleNames and rejectSelfRoleAssignment precede the locks.       *)
Assign(r, a, u, R) ==
    /\ a # u /\ \A x \in R : life[x] = "there"
    /\ Begin(r, "assign", a, u, None, R, "users")

LockUsers(r) ==
    /\ pc[r] = "users" /\ usersLock = None
    /\ \/ Roles(arg[r]) = todo[r] /\ Rollback(r, "ok")
       \/ /\ Roles(arg[r]) # todo[r]
          /\ usersLock' = r
          /\ Continue(r, "grant")
          /\ UNCHANGED <<roleLock, sharing, seen>>

GrantUnlocked(r) ==   \* faulty: user_roles without its foreign key
    /\ pc[r] = "grant" /\ todo[r] # {}
    /\ sharing' = [sharing EXCEPT ![r] = todo[r]]
    /\ todo' = [todo EXCEPT ![r] = {}]
    /\ UNCHANGED <<tables, roleLock, usersLock, pc, op, actor, arg, keys, seen, reply>>

(* AddUserRole: the trigger refuses a role of another company, the foreign *)
(* key waits for whoever edits the role and refuses a deleted one.         *)
GrantRole(r) ==
    /\ pc[r] = "grant"
    /\ \E x \in todo[r] :
          \/ /\ arg[r] \in Foreign /\ life[x] = "there"
             /\ Rollback(r, "mismatch")
          \/ life[x] # "there" /\ Rollback(r, "error")
          \/ /\ arg[r] \notin Foreign /\ life[x] = "there" /\ roleLock[x] = None
             /\ sharing' = [sharing EXCEPT ![r] = @ \cup {x}]
             /\ todo' = [todo EXCEPT ![r] = @ \ {x}]
             /\ UNCHANGED <<tables, roleLock, usersLock, pc, op, actor, arg, keys, seen, reply>>

CommitRoles(r) ==
    /\ pc[r] = "grant" /\ todo[r] = {}
    /\ holds' = {h \in holds : h[1] # arg[r]} \cup ({arg[r]} \X sharing[r])
    /\ Finish(r, "ok")
    /\ UNCHANGED <<life, perms, audited>>
-----------------------------------------------------------------------------
(* Whom r waits for.                                                       *)
WaitsFor(r) ==
    CASE pc[r] = "insert" -> {roleLock[arg[r]]} \ {None}
      [] pc[r] = "lock" -> ({roleLock[arg[r]]} \ {None}) \cup Sharers(arg[r])
      [] pc[r] \in {"users", "audit"} -> {usersLock} \ {None}
      [] pc[r] = "grant" /\ arg[r] \notin Foreign /\ \A x \in todo[r] : life[x] = "there" ->
             IF None \in {roleLock[x] : x \in todo[r]} THEN {} ELSE {roleLock[x] : x \in todo[r]}
      [] OTHER -> {}

Deadlocked(r) ==
    \E S \in SUBSET Request :
        r \in S /\ \A q \in S : WaitsFor(q) \cap S # {}

BreakDeadlock(r) == Deadlocked(r) /\ Rollback(r, "error")

LoseRequest(r) == Faults /\ pc[r] # "idle" /\ Rollback(r, "error")
-----------------------------------------------------------------------------
Proceed(r) ==
    \/ InsertRole(r) \/ LockRole(r) \/ Decide(r) \/ AuditAndCommit(r)
    \/ LockUsers(r) \/ GrantRole(r) \/ CommitRoles(r) \/ BreakDeadlock(r)

Next ==
    \/ \E r \in Request, a \in Admin, x \in Role, K \in SUBSET Permission : Create(r, a, x, K)
    \/ \E r \in Request, a \in Admin, x \in Role, K \in (SUBSET Permission) \cup {None} :
          Update(r, a, x, K)
    \/ \E r \in Request, a \in Admin, x \in Role : Delete(r, a, x)
    \/ \E r \in Request, a \in Admin, u \in User, R \in SUBSET Role : Assign(r, a, u, R)
    \/ \E r \in Request : Proceed(r) \/ LoseRequest(r)

Spec == Init /\ [][Next]_vars
-----------------------------------------------------------------------------
(***************************************************************************)
(* Properties.                                                             *)
(***************************************************************************)
(* ADR 0013, controls 2 and 4, at the commit and not only when they were   *)
(* checked: nobody changes what a role they hold permits, and no role that *)
(* somebody holds is deleted, however assignments run beside.              *)
ControlsStand ==
    [][\A r \in Request :
          pc[r] = "audit" /\ reply'[r] = "ok" =>
              /\ keys[r] # None => ~Held(r)
              /\ op[r] = "delete" => ~Assigned(r)]_vars

(* ADR 0013, control 5: the last audit event of a role tells the           *)
(* permissions it has, whether they or its description were edited.        *)
AuditTellsPermissions ==
    \A x \in Role : life[x] = "there" => audited[x] = perms[x]
=============================================================================
