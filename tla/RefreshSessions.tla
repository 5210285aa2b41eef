-------------------------- MODULE RefreshSessions --------------------------
(***************************************************************************)
(* Refresh-token families of the Identity Hub as PostgreSQL executes them. *)
(*                                                                         *)
(* A request is one transaction at READ COMMITTED.  A statement reads the  *)
(* rows committed when it starts (its snapshot), then locks the rows it    *)
(* writes or selects FOR UPDATE one by one, waiting while another          *)
(* transaction holds them, and re-checks its WHERE clause on the newest    *)
(* version of each row it waited for; a row inserted after the snapshot    *)
(* is never seen.  A transaction's writes become visible, and its locks    *)
(* are released, in the step that ends it.                                 *)
(*                                                                         *)
(* The lock order is the code's: rotation locks the token, then the        *)
(* account (users is the second table of the join); logout and session     *)
(* revocation lock the token, then need the account for the foreign key    *)
(* of their audit record; a password reset, and the second statement of a  *)
(* detected reuse, hold the account and lock tokens.  Cycles are broken by *)
(* PostgreSQL's deadlock detector.                                         *)
(*                                                                         *)
(* Operators marked "faulty" are deviations of the definition after them;  *)
(* each one makes a property below fail.                                   *)
(***************************************************************************)
EXTENDS Naturals, FiniteSets

CONSTANTS
    User, Family, Token,
    Request,    \* concurrent API requests
    None,
    MaxResets,  \* bound: password resets per account
    Faults      \* may a request lose its connection or its context?

ASSUME ConstantsAssumption ==
    /\ None \notin User \cup Family \cup Token \cup Request
    /\ MaxResets \in Nat
    /\ Faults \in BOOLEAN

VARIABLES
    status, family, expired,    \* refresh_tokens, by token
    owner, hub,                 \* the account and the SSO session of a family
    account, resets,            \* users.status and password changes so far
    tokenLock, userLock,        \* row locks: the holder, or None
    pc, arg, usr, next,         \* per request: step, token, account, new token
    rows, hubs, late,           \* per request: rows and SSO sessions found,
                                \*   and was arg expired when it began (now())
    reply                       \* per request: the last answer

tables   == <<status, family, expired, owner, hub, account, resets>>
locks    == <<tokenLock, userLock>>
progress == <<pc, arg, usr, next, rows, hubs, late, reply>>
vars     == <<tables, locks, progress>>

TokenStatus == {"absent", "active", "rotated", "revoked"}
Account     == {"active", "locked", "disabled"}
Step        == {"idle", "rotateToken", "rotateUser", "reuse", "logout",
                "logoutAudit", "revoke", "reset", "resetRows"}
Reply       == {"none", "ok", "invalid", "reused", "notFound", "error"}

TypeOK ==
    /\ status \in [Token -> TokenStatus]
    /\ family \in [Token -> Family \cup {None}]
    /\ \A t \in Token : status[t] = "absent" <=> family[t] = None
    /\ expired \in SUBSET Token
    /\ owner \in [Family -> User \cup {None}]
    /\ hub \in [Family -> {"none", "live", "revoked"}]
    /\ account \in [User -> Account]
    /\ resets \in [User -> Nat]
    /\ tokenLock \in [Token -> Request \cup {None}]
    /\ userLock \in [User -> Request \cup {None}]
    /\ pc \in [Request -> Step]
    /\ arg \in [Request -> Token \cup {None}]
    /\ usr \in [Request -> User \cup {None}]
    /\ next \in [Request -> Token \cup {None}]
    /\ rows \in [Request -> SUBSET Token]
    /\ hubs \in [Request -> SUBSET Family]
    /\ late \in [Request -> BOOLEAN]
    /\ reply \in [Request -> Reply]

Init ==
    /\ status = [t \in Token |-> "absent"]
    /\ family = [t \in Token |-> None]
    /\ expired = {}
    /\ owner = [f \in Family |-> None]
    /\ hub = [f \in Family |-> "none"]
    /\ account = [u \in User |-> "active"]
    /\ resets = [u \in User |-> 0]
    /\ tokenLock = [t \in Token |-> None]
    /\ userLock = [u \in User |-> None]
    /\ pc = [r \in Request |-> "idle"]
    /\ arg = [r \in Request |-> None]
    /\ usr = [r \in Request |-> None]
    /\ next = [r \in Request |-> None]
    /\ rows = [r \in Request |-> {}]
    /\ hubs = [r \in Request |-> {}]
    /\ late = [r \in Request |-> FALSE]
    /\ reply = [r \in Request |-> "none"]

Owner(t) == owner[family[t]]

Members(f) == {t \in Token : family[t] = f}

(* 32 random bytes never issued and not drawn by a request in flight.      *)
Unused(t) == status[t] = "absent" /\ \A r \in Request : next[r] # t

(* Rows a statement finds: still revocable, in family f or of account u.   *)
Revocable(S) == {t \in S : status[t] \in {"active", "rotated"}}
FamilyRows(f) == Revocable(Members(f))
AccountRows(u) == Revocable({t \in Token : family[t] # None /\ Owner(t) = u})
LiveHubs(u) == {f \in Family : owner[f] = u /\ hub[f] = "live"}

RevokeTokens(T) == status' = [t \in Token |-> IF t \in T THEN "revoked" ELSE status[t]]
RevokeHubs(F) == hub' = [f \in Family |-> IF f \in F THEN "revoked" ELSE hub[f]]
-----------------------------------------------------------------------------
(***************************************************************************)
(* Begin and end of a transaction.                                         *)
(***************************************************************************)
Begin(r, step, t, u, R, H) ==
    /\ pc[r] = "idle"
    /\ pc' = [pc EXCEPT ![r] = step]
    /\ arg' = [arg EXCEPT ![r] = t]
    /\ usr' = [usr EXCEPT ![r] = u]
    /\ rows' = [rows EXCEPT ![r] = R]
    /\ hubs' = [hubs EXCEPT ![r] = H]
    /\ reply' = [reply EXCEPT ![r] = "none"]
    /\ UNCHANGED <<tables, locks>>

(* Commit or rollback: every row lock of r goes, and the answer is sent.   *)
Finish(r, answer) ==
    /\ tokenLock' = [t \in Token |-> IF tokenLock[t] = r THEN None ELSE tokenLock[t]]
    /\ userLock' = [u \in User |-> IF userLock[u] = r THEN None ELSE userLock[u]]
    /\ pc' = [pc EXCEPT ![r] = "idle"]
    /\ arg' = [arg EXCEPT ![r] = None]
    /\ usr' = [usr EXCEPT ![r] = None]
    /\ next' = [next EXCEPT ![r] = None]
    /\ rows' = [rows EXCEPT ![r] = {}]
    /\ hubs' = [hubs EXCEPT ![r] = {}]
    /\ late' = [late EXCEPT ![r] = FALSE]
    /\ reply' = [reply EXCEPT ![r] = answer]

Rollback(r, answer) == Finish(r, answer) /\ UNCHANGED tables

HasRows(r) == \A t \in rows[r] : tokenLock[t] = r

(* An UPDATE locks the rows of its snapshot one at a time.                 *)
LockRow(r) ==
    /\ pc[r] \in {"reuse", "logout", "revoke", "resetRows"}
    /\ \E t \in rows[r] :
          /\ tokenLock[t] = None
          /\ tokenLock' = [tokenLock EXCEPT ![t] = r]
    /\ UNCHANGED <<tables, userLock, progress>>
-----------------------------------------------------------------------------
(***************************************************************************)
(* Login: the accepted MFA code opens a family with its first token and    *)
(* its SSO session while the account row is locked.                        *)
(***************************************************************************)
OpenSession(u, f, t) ==
    /\ userLock[u] = None
    /\ account[u] = "active"
    /\ owner[f] = None
    /\ Unused(t)
    /\ status' = [status EXCEPT ![t] = "active"]
    /\ family' = [family EXCEPT ![t] = f]
    /\ owner' = [owner EXCEPT ![f] = u]
    /\ hub' = [hub EXCEPT ![f] = "live"]
    /\ UNCHANGED <<expired, account, resets, locks, progress>>
-----------------------------------------------------------------------------
(***************************************************************************)
(* POST /auth/refresh.                                                     *)
(***************************************************************************)
BeginRotate(r, t, n) ==
    /\ status[t] # "absent"
    /\ account[Owner(t)] = "active"
    /\ Unused(n)
    /\ Begin(r, "rotateToken", t, Owner(t), {}, {})
    /\ next' = [next EXCEPT ![r] = n]
    /\ late' = [late EXCEPT ![r] = t \in expired]

RotateLockToken(r) ==
    /\ pc[r] = "rotateToken"
    /\ tokenLock[arg[r]] = None
    /\ tokenLock' = [tokenLock EXCEPT ![arg[r]] = r]
    /\ pc' = [pc EXCEPT ![r] = "rotateUser"]
    /\ UNCHANGED <<tables, userLock, arg, usr, next, rows, hubs, late, reply>>

(* The candidate row is locked and re-checked: both tables' newest version *)
CandidateUnchecked(r) ==   \* faulty: joins users but does not lock it
    /\ pc[r] = "rotateUser"
    /\ userLock[usr[r]] = None

Candidate(r) ==
    /\ pc[r] = "rotateUser"
    /\ userLock[usr[r]] = None
    /\ account[usr[r]] = "active"

RotatableAnyStatus(r) == ~late[r]                               \* faulty
RotatableUnlessRotated(r) == status[arg[r]] # "rotated" /\ ~late[r]  \* faulty

Rotatable(r) == status[arg[r]] = "active" /\ ~late[r]

RotateIssueNoFamily(r) ==   \* faulty: the new row has no family_id
    /\ Candidate(r)
    /\ Rotatable(r)
    /\ status' = [status EXCEPT ![arg[r]] = "rotated", ![next[r]] = "active"]
    /\ Finish(r, "ok")
    /\ UNCHANGED <<family, expired, owner, hub, account, resets>>

RotateIssue(r) ==
    /\ Candidate(r)
    /\ Rotatable(r)
    /\ status' = [status EXCEPT ![arg[r]] = "rotated", ![next[r]] = "active"]
    /\ family' = [family EXCEPT ![next[r]] = family[arg[r]]]
    /\ Finish(r, "ok")
    /\ UNCHANGED <<expired, owner, hub, account, resets>>

(* RevokeRefreshFamily is a second statement, so it has its own snapshot.  *)
DetectReuse(r) ==
    /\ Candidate(r)
    /\ status[arg[r]] = "rotated"
    /\ userLock' = [userLock EXCEPT ![usr[r]] = r]
    /\ rows' = [rows EXCEPT ![r] = FamilyRows(family[arg[r]])]
    /\ pc' = [pc EXCEPT ![r] = "reuse"]
    /\ UNCHANGED <<tables, tokenLock, arg, usr, next, hubs, late, reply>>

RotateRejectStatusOnly(r) ==   \* faulty: no answer when the account is inactive
    /\ Candidate(r)
    /\ status[arg[r]] # "rotated" /\ ~Rotatable(r)
    /\ Rollback(r, "invalid")

RotateReject(r) ==
    /\ pc[r] = "rotateUser"
    /\ userLock[usr[r]] = None
    /\ \/ account[usr[r]] # "active"
       \/ status[arg[r]] # "rotated" /\ ~Rotatable(r)
    /\ Rollback(r, "invalid")

RevokePresented(r) ==   \* faulty: revokes the presented token only
    /\ pc[r] = "reuse"
    /\ HasRows(r)
    /\ RevokeTokens({arg[r]})
    /\ RevokeHubs({f \in Family : f = family[arg[r]] /\ hub[f] = "live"})
    /\ Finish(r, "reused")
    /\ UNCHANGED <<family, expired, owner, account, resets>>

RevokeFamily(r) ==
    /\ pc[r] = "reuse"
    /\ HasRows(r)
    /\ RevokeTokens(rows[r])
    /\ RevokeHubs({f \in Family : f = family[arg[r]] /\ hub[f] = "live"})
    /\ Finish(r, "reused")
    /\ UNCHANGED <<family, expired, owner, account, resets>>
-----------------------------------------------------------------------------
(***************************************************************************)
(* POST /auth/logout: one token, then the SSO sessions of the account.     *)
(***************************************************************************)
BeginLogout(r, t) ==
    /\ status[t] = "active"
    /\ t \notin expired
    /\ Begin(r, "logout", t, Owner(t), {t}, {})
    /\ UNCHANGED <<next, late>>

LogoutToken(r) ==
    /\ pc[r] = "logout"
    /\ HasRows(r)
    /\ status[arg[r]] = "active"
    /\ hubs' = [hubs EXCEPT ![r] = LiveHubs(usr[r])]
    /\ pc' = [pc EXCEPT ![r] = "logoutAudit"]
    /\ UNCHANGED <<tables, locks, arg, usr, next, rows, late, reply>>

LogoutReject(r) ==
    /\ pc[r] = "logout"
    /\ HasRows(r)
    /\ status[arg[r]] # "active"
    /\ Rollback(r, "notFound")

(* audit_log.actor_user_id references users: the insert waits for anyone   *)
(* who selected the account FOR UPDATE.                                    *)
LogoutCommit(r) ==
    /\ pc[r] = "logoutAudit"
    /\ userLock[usr[r]] = None
    /\ RevokeTokens(rows[r])
    /\ RevokeHubs(hubs[r])
    /\ Finish(r, "ok")
    /\ UNCHANGED <<family, expired, owner, account, resets>>
-----------------------------------------------------------------------------
(***************************************************************************)
(* DELETE /me/sessions/{family}: the active token of the family.           *)
(***************************************************************************)
BeginRevoke(r, t) ==
    /\ status[t] = "active"
    /\ t \notin expired
    /\ Begin(r, "revoke", t, Owner(t), {t}, {})
    /\ UNCHANGED <<next, late>>

RevokeKeepingHub(r) ==   \* faulty: forgets the SSO session of the family
    /\ pc[r] = "revoke"
    /\ HasRows(r)
    /\ status[arg[r]] = "active"
    /\ userLock[usr[r]] = None
    /\ RevokeTokens(rows[r])
    /\ Finish(r, "ok")
    /\ UNCHANGED <<family, expired, owner, hub, account, resets>>

RevokeCommit(r) ==
    /\ pc[r] = "revoke"
    /\ HasRows(r)
    /\ status[arg[r]] = "active"
    /\ userLock[usr[r]] = None
    /\ RevokeTokens(rows[r])
    /\ RevokeHubs({f \in Family : f = family[arg[r]] /\ hub[f] = "live"})
    /\ Finish(r, "ok")
    /\ UNCHANGED <<family, expired, owner, account, resets>>

RevokeNotFound(r) ==
    /\ pc[r] = "revoke"
    /\ HasRows(r)
    /\ status[arg[r]] # "active"
    /\ Rollback(r, "notFound")
-----------------------------------------------------------------------------
(***************************************************************************)
(* POST /auth/password-reset/confirm: a single statement, one snapshot.    *)
(* One reset per account is in flight; concurrent resets contend on their  *)
(* verification tokens first.                                              *)
(***************************************************************************)
BeginReset(r, u) ==
    /\ resets[u] < MaxResets
    /\ \A q \in Request : pc[q] \in {"reset", "resetRows"} => usr[q] # u
    /\ Begin(r, "reset", None, u, AccountRows(u), LiveHubs(u))
    /\ UNCHANGED <<next, late>>

ResetLockUser(r) ==
    /\ pc[r] = "reset"
    /\ userLock[usr[r]] = None
    /\ userLock' = [userLock EXCEPT ![usr[r]] = r]
    /\ pc' = [pc EXCEPT ![r] = "resetRows"]
    /\ UNCHANGED <<tables, tokenLock, arg, usr, next, rows, hubs, late, reply>>

ResetCommit(r) ==
    /\ pc[r] = "resetRows"
    /\ HasRows(r)
    /\ resets' = [resets EXCEPT ![usr[r]] = @ + 1]
    /\ account' = [account EXCEPT ![usr[r]] = IF @ = "locked" THEN "active" ELSE @]
    /\ RevokeTokens(rows[r])
    /\ RevokeHubs(hubs[r])
    /\ Finish(r, "ok")
    /\ UNCHANGED <<family, expired, owner>>
-----------------------------------------------------------------------------
(***************************************************************************)
(* Everything around the requests.                                         *)
(***************************************************************************)
(* Lockout, unlock and the administrator write users.status; none of them  *)
(* touches refresh_tokens.                                                 *)
SetAccount(u, s) ==
    /\ userLock[u] = None
    /\ account[u] # s
    /\ account' = [account EXCEPT ![u] = s]
    /\ UNCHANGED <<status, family, expired, owner, hub, resets, locks, progress>>

Expire(t) ==
    /\ status[t] = "active"
    /\ t \notin expired
    /\ expired' = expired \cup {t}
    /\ UNCHANGED <<status, family, owner, hub, account, resets, locks, progress>>

(* The transactions r waits for.                                           *)
WaitsFor(r) ==
    LET held(S) == {tokenLock[t] : t \in S} \ {None, r}
        user    == {userLock[usr[r]]} \ {None, r}
    IN  CASE pc[r] = "rotateToken" -> held({arg[r]})
          [] pc[r] \in {"rotateUser", "logoutAudit", "reset"} -> user
          [] pc[r] = "revoke" /\ HasRows(r) -> IF status[arg[r]] = "active" THEN user ELSE {}
          [] pc[r] \in {"reuse", "logout", "resetRows", "revoke"} -> held(rows[r])
          [] OTHER -> {}

(* r is on a cycle of waiting transactions.                                *)
Deadlocked(r) ==
    \E S \in SUBSET Request :
        /\ r \in S
        /\ \A q \in S : WaitsFor(q) \cap S # {}
        /\ \A q \in S : \E p \in S : q \in WaitsFor(p)

BreakDeadlock(r) == Deadlocked(r) /\ Rollback(r, "error")

LoseRequest(r) == Faults /\ pc[r] # "idle" /\ Rollback(r, "error")
-----------------------------------------------------------------------------
Proceed(r) ==
    \/ LockRow(r)
    \/ RotateLockToken(r) \/ RotateIssue(r) \/ DetectReuse(r) \/ RotateReject(r)
    \/ RevokeFamily(r)
    \/ LogoutToken(r) \/ LogoutReject(r) \/ LogoutCommit(r)
    \/ RevokeCommit(r) \/ RevokeNotFound(r)
    \/ ResetLockUser(r) \/ ResetCommit(r)
    \/ BreakDeadlock(r)

Next ==
    \/ \E u \in User, f \in Family, t \in Token : OpenSession(u, f, t)
    \/ \E r \in Request, t \in Token :
          \/ \E n \in Token : BeginRotate(r, t, n)
          \/ BeginLogout(r, t)
          \/ BeginRevoke(r, t)
    \/ \E r \in Request, u \in User : BeginReset(r, u)
    \/ \E r \in Request : Proceed(r) \/ LoseRequest(r)
    \/ \E u \in User, s \in Account : SetAccount(u, s)
    \/ \E t \in Token : Expire(t)

Spec == Init /\ [][Next]_vars

(* Row locks are granted in arrival order, so a request that can be served *)
(* again and again is eventually served.                                   *)
FairSpec == Spec /\ \A r \in Request : SF_vars(Proceed(r))
-----------------------------------------------------------------------------
(***************************************************************************)
(* Properties.                                                             *)
(***************************************************************************)
Active(f) == {t \in Members(f) : status[t] = "active"}

(* Domain invariant 3: a family never has two active tokens, whatever the  *)
(* interleaving of rotations, logouts, revocations and resets.             *)
OneActivePerFamily ==
    \A t1, t2 \in Token :
        /\ status[t1] = "active" /\ status[t2] = "active"
        /\ family[t1] = family[t2]
        => t1 = t2

(* A live SSO session belongs to a family that can still be renewed: every *)
(* way of ending a family also ends the SSO session opened with it.        *)
LiveHubHasActiveToken ==
    \A f \in Family : hub[f] = "live" => Active(f) # {}

(* RF-006: the request that answers "reuse" leaves nothing of the family   *)
(* usable, including tokens issued while it was collecting row locks.      *)
ReuseEndsFamily ==
    [][\A r \in Request, f \in Family :
          pc[r] = "reuse" /\ reply'[r] = "reused" /\ f = family[arg[r]] =>
              Active(f)' = {} /\ hub'[f] # "live"]_vars

(* Domain invariant 4: a token becomes active only while the account is    *)
(* active, even when the account was locked or disabled between the        *)
(* request's snapshot and its turn on the row lock.                        *)
OnlyActiveAccountsGetTokens ==
    [][\A t \in Token :
          status[t] # "active" /\ status'[t] = "active" =>
              account[owner'[family'[t]]] = "active"]_vars

(* While a reuse is being punished the family cannot grow behind its back: *)
(* whatever can still be revoked is among the rows the request collected.  *)
ReuseCoversFamily ==
    \A r \in Request : pc[r] = "reuse" => FamilyRows(family[arg[r]]) \subseteq rows[r]

(* Opposite lock orders cannot stop the API: every request is answered.    *)
EveryRequestAnswered ==
    \A r \in Request : pc[r] # "idle" ~> pc[r] = "idle"

PhaseOf(f) == IF owner[f] = None THEN "unborn"
              ELSE IF Active(f) = {} THEN "closed" ELSE "open"
CurrentOf(f) == IF Active(f) = {} THEN None ELSE CHOOSE t \in Token : t \in Active(f)

Phase == [f \in Family |-> PhaseOf(f)]
Current == [f \in Family |-> CurrentOf(f)]
Issued == {t \in Token : status[t] # "absent"}

Promise == INSTANCE SessionFamilies
               WITH phase <- Phase, current <- Current, issued <- Issued

(* The rows, locks and snapshots implement SessionFamilies: a family has   *)
(* one current token, never goes back to an earlier one, and stays closed. *)
ImplementsSessionFamilies == Promise!Spec

(* db/queries/users.sql:382 - "no transaction can expose the new password  *)
(* with an old active refresh token": a family the reset revoked tokens of *)
(* is over once the reset commits.                                         *)
ResetEndsSessions ==
    [][\A r \in Request, f \in Family :
          pc[r] = "resetRows" /\ reply'[r] = "ok" /\ Members(f) \cap rows[r] # {} =>
              Active(f)' = {}]_vars
=============================================================================
