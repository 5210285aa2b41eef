---------------------------- MODULE AdminUsers ----------------------------
(***************************************************************************)
(* Administration of accounts (PATCH /admin/users/{id}) beside the other   *)
(* writers of users.status: automatic lockout and its expiry, password     *)
(* resets and accepted invitations.  Transactions and row locks are those  *)
(* of RefreshSessions.                                                     *)
(*                                                                         *)
(* What matters here: a row that was only locked while a statement waited  *)
(* for it is not re-checked, one that was updated is; and a change of      *)
(* roles updates user_roles, never the users row that is locked.           *)
(***************************************************************************)
EXTENDS Naturals, FiniteSets

CONSTANTS
    User,         \* accounts, numbered by the order of their ids
    FirstAdmins,  \* the active administrators at the start
    Request,      \* concurrent requests
    None,
    Wanted,       \* bound: the statuses requests ask for
    RoleChanges,  \* do requests replace roles?
    Lockouts,     \* do failed logins lock accounts?
    Faults        \* may a request lose its connection or its context?

Status == {"pending", "active", "locked", "disabled"}

ASSUME AdminAssumption ==
    /\ User \subseteq Nat /\ IsFiniteSet(User)
    /\ FirstAdmins \subseteq User /\ FirstAdmins # {}
    /\ None \notin User \cup Request
    /\ Wanted \subseteq Status
    /\ {RoleChanges, Lockouts, Faults} \subseteq BOOLEAN

VARIABLES
    account,              \* users.status
    expiring,             \* accounts whose locked_until is set
    admins,               \* accounts with the admin role in user_roles
    userLock,             \* row locks: the holder, or None
    pc, actor, target,    \* per request: step, administrator, account changed
    want, grant,          \* per request: status and roles asked for
    toLock, counted       \* per request: LockActiveAdminUsers, rows to lock
                          \*   and rows returned

tables   == <<account, expiring, admins>>
request  == <<actor, target, want, grant>>
progress == <<pc, request, toLock, counted>>
vars     == <<tables, userLock, progress>>

Step  == {"idle", "authorized", "locking", "decide"}
Grant == {"keep", "give", "take"}

TypeOK ==
    /\ account \in [User -> Status]
    /\ expiring \in SUBSET User
    /\ admins \in SUBSET User
    /\ userLock \in [User -> Request \cup {None}]
    /\ pc \in [Request -> Step]
    /\ actor \in [Request -> User \cup {None}]
    /\ target \in [Request -> User \cup {None}]
    /\ want \in [Request -> Wanted \cup {"keep"}]
    /\ grant \in [Request -> Grant]
    /\ toLock \in [Request -> SUBSET User]
    /\ counted \in [Request -> SUBSET User]
    /\ \A r \in Request : pc[r] # "idle" => actor[r] # None /\ target[r] # None

Init ==
    /\ account = [u \in User |-> IF u \in FirstAdmins THEN "active" ELSE "pending"]
    /\ expiring = {}
    /\ admins = FirstAdmins
    /\ userLock = [u \in User |-> None]
    /\ pc = [r \in Request |-> "idle"]
    /\ actor = [r \in Request |-> None]
    /\ target = [r \in Request |-> None]
    /\ want = [r \in Request |-> "keep"]
    /\ grant = [r \in Request |-> "keep"]
    /\ toLock = [r \in Request |-> {}]
    /\ counted = [r \in Request |-> {}]

ActiveAdmins == {u \in admins : account[u] = "active"}

Free(r, u) == userLock[u] \in {None, r}

Finish(r) ==
    /\ userLock' = [u \in User |-> IF userLock[u] = r THEN None ELSE userLock[u]]
    /\ pc' = [pc EXCEPT ![r] = "idle"]
    /\ actor' = [actor EXCEPT ![r] = None]
    /\ target' = [target EXCEPT ![r] = None]
    /\ want' = [want EXCEPT ![r] = "keep"]
    /\ grant' = [grant EXCEPT ![r] = "keep"]
    /\ toLock' = [toLock EXCEPT ![r] = {}]
    /\ counted' = [counted EXCEPT ![r] = {}]

Rollback(r) == Finish(r) /\ UNCHANGED tables
-----------------------------------------------------------------------------
(***************************************************************************)
(* One update.                                                             *)
(***************************************************************************)
(* Nobody changes their own roles or disables themselves (invariant 11).   *)
SelfInflicted(a, t, s, g) == a = t /\ (g # "keep" \/ s = "disabled")

AuthorizeAnonymous(r, a, t, s, g) ==   \* faulty: UpdateInput without its actor
    /\ pc[r] = "idle"
    /\ a \in ActiveAdmins
    /\ <<s, g>> # <<"keep", "keep">>
    /\ g = "keep" \/ RoleChanges
    /\ ~SelfInflicted(a, t, s, g)
    /\ pc' = [pc EXCEPT ![r] = "authorized"]
    /\ target' = [target EXCEPT ![r] = t]
    /\ want' = [want EXCEPT ![r] = s]
    /\ grant' = [grant EXCEPT ![r] = g]
    /\ UNCHANGED <<tables, userLock, actor, toLock, counted>>

(* RequireRole reads the database once, before the transaction begins.     *)
Authorize(r, a, t, s, g) ==
    /\ pc[r] = "idle"
    /\ a \in ActiveAdmins
    /\ <<s, g>> # <<"keep", "keep">>
    /\ g = "keep" \/ RoleChanges
    /\ ~SelfInflicted(a, t, s, g)
    /\ pc' = [pc EXCEPT ![r] = "authorized"]
    /\ actor' = [actor EXCEPT ![r] = a]
    /\ target' = [target EXCEPT ![r] = t]
    /\ want' = [want EXCEPT ![r] = s]
    /\ grant' = [grant EXCEPT ![r] = g]
    /\ UNCHANGED <<tables, userLock, toLock, counted>>

(* The snapshot of LockActiveAdminUsers.                                   *)
FindAdmins(r) ==
    /\ pc[r] = "authorized"
    /\ pc' = [pc EXCEPT ![r] = "locking"]
    /\ toLock' = [toLock EXCEPT ![r] = ActiveAdmins]
    /\ UNCHANGED <<tables, userLock, request, counted>>

Least(S) == {u \in S : \A v \in S : u <= v}

(* ORDER BY u.id FOR UPDATE OF u: a row that stopped being active meanwhile *)
(* is locked and left out; the role it was joined with is not read again.  *)
LockAdmin(r) ==
    /\ pc[r] = "locking"
    /\ \E u \in Least(toLock[r]) :
          /\ userLock[u] = None
          /\ userLock' = [userLock EXCEPT ![u] = r]
          /\ toLock' = [toLock EXCEPT ![r] = @ \ {u}]
          /\ counted' = [counted EXCEPT ![r] =
                             IF account[u] = "active" THEN @ \cup {u} ELSE @]
    /\ UNCHANGED <<tables, pc, request>>

LockTarget(r) ==
    /\ pc[r] = "locking" /\ toLock[r] = {}
    /\ Free(r, target[r])
    /\ userLock' = [userLock EXCEPT ![target[r]] = r]
    /\ pc' = [pc EXCEPT ![r] = "decide"]
    /\ UNCHANGED <<tables, request, toLock, counted>>

NewStatus(r) == IF want[r] = "keep" THEN account[target[r]] ELSE want[r]
NewAdmins(r) == CASE grant[r] = "give" -> admins \cup {target[r]}
                  [] grant[r] = "take" -> admins \ {target[r]}
                  [] OTHER -> admins

RemovesActiveAdmin(r) ==
    /\ target[r] \in ActiveAdmins
    /\ NewStatus(r) # "active" \/ target[r] \notin NewAdmins(r)

LastActiveAdmin(r) ==
    RemovesActiveAdmin(r) /\ Cardinality(counted[r]) <= 1

RefuseStatusOnly(r) ==   \* faulty: only a change of status is answered
    /\ pc[r] = "decide"
    /\ LastActiveAdmin(r)
    /\ want[r] # "keep"
    /\ Rollback(r)

Refuse(r) ==
    /\ pc[r] = "decide"
    /\ LastActiveAdmin(r)
    /\ Rollback(r)

ChangesStatus(r) == NewStatus(r) # account[target[r]]

(* Disabling and changing roles write rows that reference the actor.       *)
References(r) == (ChangesStatus(r) /\ want[r] = "disabled") \/ NewAdmins(r) # admins

ApplyKeepingExpiry(r) ==   \* faulty: SET status = $2 only
    /\ pc[r] = "decide"
    /\ ~LastActiveAdmin(r)
    /\ References(r) => Free(r, actor[r])
    /\ account' = [account EXCEPT ![target[r]] = NewStatus(r)]
    /\ admins' = NewAdmins(r)
    /\ Finish(r)
    /\ UNCHANGED expiring

Apply(r) ==
    /\ pc[r] = "decide"
    /\ ~LastActiveAdmin(r)
    /\ References(r) => Free(r, actor[r])
    /\ account' = [account EXCEPT ![target[r]] = NewStatus(r)]
    /\ expiring' = IF ChangesStatus(r) THEN expiring \ {target[r]} ELSE expiring
    /\ admins' = NewAdmins(r)
    /\ Finish(r)
-----------------------------------------------------------------------------
(***************************************************************************)
(* The other writers of users.status, each committed in one step while it  *)
(* holds the row.                                                          *)
(***************************************************************************)
Change(u, from, to, E) ==
    /\ userLock[u] = None
    /\ account[u] = from
    /\ account' = [account EXCEPT ![u] = to]
    /\ expiring' = E
    /\ UNCHANGED <<admins, userLock, progress>>

Lockout(u) == Lockouts /\ Change(u, "active", "locked", expiring \cup {u})

(* A login after locked_until; a lock without expiry stays.                *)
LockExpires(u) == u \in expiring /\ Change(u, "locked", "active", expiring \ {u})

ResetPassword(u) == Change(u, "locked", "active", expiring \ {u})

AcceptInvitation(u) == Change(u, "pending", "active", expiring)

(* Whom r waits for, as a set of at most one request.                      *)
WaitsFor(r) ==
    LET holders(S) == {userLock[u] : u \in S} \ {None, r}
    IN  CASE pc[r] = "locking" /\ toLock[r] # {} -> holders(Least(toLock[r]))
          [] pc[r] = "locking" /\ toLock[r] = {} -> holders({target[r]})
          [] pc[r] = "decide" /\ References(r) /\ ~LastActiveAdmin(r) -> holders({actor[r]})
          [] OTHER -> {}

Deadlocked(r) ==
    \E S \in SUBSET Request :
        /\ r \in S
        /\ \A q \in S : WaitsFor(q) \cap S # {} /\ \E p \in S : q \in WaitsFor(p)

BreakDeadlock(r) == Deadlocked(r) /\ Rollback(r)

LoseRequest(r) == Faults /\ pc[r] # "idle" /\ Rollback(r)
-----------------------------------------------------------------------------
Proceed(r) ==
    \/ FindAdmins(r) \/ LockAdmin(r) \/ LockTarget(r)
    \/ Refuse(r) \/ Apply(r) \/ BreakDeadlock(r)

Next ==
    \/ \E r \in Request, a, t \in User, s \in Wanted \cup {"keep"}, g \in Grant :
          Authorize(r, a, t, s, g)
    \/ \E r \in Request : Proceed(r) \/ LoseRequest(r)
    \/ \E u \in User :
          Lockout(u) \/ LockExpires(u) \/ ResetPassword(u) \/ AcceptInvitation(u)

Spec == Init /\ [][Next]_vars

(* PostgreSQL grants a row to its waiters in the order they came.          *)
FairSpec == Spec /\ \A r \in Request : SF_vars(Proceed(r))
-----------------------------------------------------------------------------
(***************************************************************************)
(* Properties.                                                             *)
(***************************************************************************)
(* Domain invariant 6: there is always an active administrator, whichever  *)
(* updates run at once.                                                    *)
SomeActiveAdmin == ActiveAdmins # {}

(* The accounts a request counts stay active until it decides: re-checked  *)
(* when their rows are locked, and frozen from then on.                    *)
CountedStayActive ==
    \A r \in Request, u \in User :
        u \in counted[r] => account[u] = "active" /\ userLock[u] = r

(* users.sql:43 - locked_until belongs to the lock that set it: no account *)
(* in another state carries one that a later manual lock would inherit.    *)
ExpiryOnlyOfLocked == \A u \in expiring : account[u] = "locked"

(* Every administrator's request is answered, although administrators,     *)
(* target and actor are locked in different orders.                        *)
EveryUpdateAnswered == \A r \in Request : pc[r] # "idle" ~> pc[r] = "idle"
=============================================================================
