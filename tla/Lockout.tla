------------------------------- MODULE Lockout -------------------------------
(***************************************************************************)
(* Lockout by failed attempts: passwords and MFA codes of an account share *)
(* one count in audit_log, passwords also a limit per IP.  Each attempt is *)
(* a transaction that holds the account's row.                             *)
(*                                                                         *)
(* What matters here: three clocks.  A failure carries the time its        *)
(* transaction began; a password attempt compares it with the time read    *)
(* before it waits for the row, a code attempt with the time read after;   *)
(* a reset moves the start of the count to the time it began itself.       *)
(***************************************************************************)
EXTENDS Naturals, FiniteSets, Sequences

CONSTANTS
    User, IP,                 \* accounts and addresses
    Request,                  \* concurrent requests
    None,
    AccountMaxFailures, IPMaxFailures, FailureWindow, LockoutDuration,
    MaxTime,                  \* bound of the clock
    MaxFailures,              \* bound of the failures recorded
    Faults                    \* may a request lose its connection?

ASSUME LockoutAssumption ==
    /\ {AccountMaxFailures, IPMaxFailures, FailureWindow, LockoutDuration} \subseteq Nat \ {0}
    /\ MaxTime \in Nat /\ MaxFailures \in Nat
    /\ None \notin User \cup IP \cup Request \cup Nat
    /\ IsFiniteSet(Request)
    /\ Faults \in BOOLEAN

Time == 0..MaxTime

VARIABLES
    clock,
    status, lockedUntil,      \* users
    failures,                 \* audit_log: login_failed and mfa_code_rejected
    resetAt,                  \* audit_log: latest password_reset_completed
    userLock,                 \* row locks: the holder, or None
    pc, kind, user, ip,       \* per request: step, operation, account (None:
    right,                    \*   unknown email), address, right credential
    begun, now,               \* per request: transaction_timestamp and s.now()
    counted,                  \* per request: failures of the account, its own
                              \*   among them
    reply,                    \* per request: the last answer
    locks, notices,           \* history: lockouts committed, notices published
    forgiven                  \* history: per account, the failures recorded when
                              \*   an administrator last activated it or a reset
                              \*   was completed

tables   == <<status, lockedUntil, failures, resetAt>>
request  == <<kind, user, ip, right, begun, now, counted>>
history  == <<locks, notices, forgiven>>
vars     == <<clock, tables, userLock, pc, request, reply, history>>

Status == {"active", "locked", "disabled"}
Kind   == {"password", "code", "reset"}
Step   == {"idle", "count", "lock", "held", "counted", "notify"}
Reply  == {"none", "ok", "invalid", "locked", "limited", "error"}
Failure == [kind : Kind, user : User \cup {None}, ip : IP \cup {None}, at : Time]

TypeOK ==
    /\ clock \in Time
    /\ status \in [User -> Status]
    /\ lockedUntil \in [User -> Nat \cup {None}]
    /\ failures \in Seq(Failure)
    /\ resetAt \in [User -> Time \cup {None}]
    /\ userLock \in [User -> Request \cup {None}]
    /\ pc \in [Request -> Step]
    /\ kind \in [Request -> Kind]
    /\ user \in [Request -> User \cup {None}]
    /\ ip \in [Request -> IP \cup {None}]
    /\ right \in [Request -> BOOLEAN]
    /\ begun \in [Request -> Time] /\ now \in [Request -> Time]
    /\ counted \in [Request -> Nat]
    /\ reply \in [Request -> Reply]
    /\ locks \in [User -> Nat] /\ notices \in [User -> Nat]
    /\ forgiven \in [User -> Nat]
    /\ \A u \in User : lockedUntil[u] # None => status[u] = "locked"
    /\ \A r \in Request : pc[r] \in {"held", "counted", "notify"} => user[r] # None

Init ==
    /\ clock = 0
    /\ status = [u \in User |-> "active"]
    /\ lockedUntil = [u \in User |-> None]
    /\ failures = <<>>
    /\ resetAt = [u \in User |-> None]
    /\ userLock = [u \in User |-> None]
    /\ pc = [r \in Request |-> "idle"]
    /\ kind = [r \in Request |-> "password"]
    /\ user = [r \in Request |-> None]
    /\ ip = [r \in Request |-> None]
    /\ right = [r \in Request |-> FALSE]
    /\ begun = [r \in Request |-> 0]
    /\ now = [r \in Request |-> 0]
    /\ counted = [r \in Request |-> 0]
    /\ reply = [r \in Request |-> "none"]
    /\ locks = [u \in User |-> 0] /\ notices = [u \in User |-> 0]
    /\ forgiven = [u \in User |-> 0]

Goto(r, step) == pc' = [pc EXCEPT ![r] = step]

Release(r) ==
    userLock' = [u \in User |-> IF userLock[u] = r THEN None ELSE userLock[u]]

Finish(r, answer) ==
    /\ Release(r)
    /\ Goto(r, "idle")
    /\ kind' = [kind EXCEPT ![r] = "password"]
    /\ user' = [user EXCEPT ![r] = None]
    /\ ip' = [ip EXCEPT ![r] = None]
    /\ right' = [right EXCEPT ![r] = FALSE]
    /\ begun' = [begun EXCEPT ![r] = 0]
    /\ now' = [now EXCEPT ![r] = 0]
    /\ counted' = [counted EXCEPT ![r] = 0]
    /\ reply' = [reply EXCEPT ![r] = answer]

Rollback(r, answer) == Finish(r, answer) /\ UNCHANGED <<clock, tables, history>>
-----------------------------------------------------------------------------
(***************************************************************************)
(* The counts of audit_log.                                                *)
(***************************************************************************)
InWindow(t, end) == t + FailureWindow >= end

AccountFailures(log, u, end) ==
    Cardinality({k \in DOMAIN log :
        /\ log[k].user = u
        /\ InWindow(log[k].at, end)
        /\ resetAt[u] # None => log[k].at > resetAt[u]})

IPFailures(log, i, end) ==
    Cardinality({k \in DOMAIN log : log[k].ip = i /\ InWindow(log[k].at, end)})

RecordedFailures(r) ==
    Append(failures, [kind |-> kind[r], user |-> user[r], ip |-> ip[r], at |-> begun[r]])
-----------------------------------------------------------------------------
(***************************************************************************)
(* One attempt, or one password reset.                                     *)
(***************************************************************************)
(* Bound: every request in flight may still record its failure.            *)
RoomToFail == Len(failures) + Cardinality({r \in Request : pc[r] # "idle"}) < MaxFailures

Begin(r, k, u, i, ok) ==
    /\ pc[r] = "idle"
    /\ RoomToFail
    /\ k # "password" => u # None
    /\ k = "reset" => i = None /\ ok
    /\ u = None => ~ok
    /\ Goto(r, IF k = "password" THEN "count" ELSE "lock")
    /\ kind' = [kind EXCEPT ![r] = k]
    /\ user' = [user EXCEPT ![r] = u]
    /\ ip' = [ip EXCEPT ![r] = i]
    /\ right' = [right EXCEPT ![r] = ok]
    /\ begun' = [begun EXCEPT ![r] = clock]
    /\ reply' = [reply EXCEPT ![r] = "none"]
    /\ UNCHANGED <<clock, tables, userLock, now, counted, history>>

LimitedOfAccount(r) ==   \* faulty: only the failures of known accounts count
    /\ ip[r] # None
    /\ Cardinality({k \in DOMAIN failures :
           /\ failures[k].ip = ip[r] /\ failures[k].user # None
           /\ InWindow(failures[k].at, clock)}) >= IPMaxFailures

Limited(r) == ip[r] # None /\ IPFailures(failures, ip[r], clock) >= IPMaxFailures

(* The clock is read, then the limit per IP: nothing is locked yet.        *)
CountIP(r) ==
    /\ pc[r] = "count"
    /\ \/ Limited(r) /\ Rollback(r, "limited")
       \/ /\ ~Limited(r)
          /\ now' = [now EXCEPT ![r] = clock]
          /\ Goto(r, "lock")
          /\ UNCHANGED <<clock, tables, userLock, kind, user, ip, right, begun, counted, reply, history>>

RejectUnknownUser(r) ==
    /\ pc[r] = "lock" /\ user[r] = None
    /\ failures' = RecordedFailures(r)
    /\ Finish(r, "invalid")
    /\ UNCHANGED <<clock, status, lockedUntil, resetAt, history>>

LockUserUnlocked(r) ==   \* faulty: no FOR UPDATE
    /\ pc[r] = "lock" /\ user[r] # None
    /\ now' = [now EXCEPT ![r] = IF kind[r] = "code" THEN clock ELSE @]
    /\ Goto(r, "held")
    /\ UNCHANGED <<clock, tables, userLock, kind, user, ip, right, begun, counted, reply, history>>

LockUser(r) ==
    /\ pc[r] = "lock" /\ user[r] # None
    /\ userLock[user[r]] = None
    /\ userLock' = [userLock EXCEPT ![user[r]] = r]
    /\ now' = [now EXCEPT ![r] = IF kind[r] = "code" THEN clock ELSE @]
    /\ Goto(r, "held")
    /\ UNCHANGED <<clock, tables, kind, user, ip, right, begun, counted, reply, history>>

LiftedWithoutEnd(r) ==   \* faulty: no end reads as an end long past
    /\ kind[r] = "password" /\ status[user[r]] = "locked"
    /\ lockedUntil[user[r]] # None => now[r] >= lockedUntil[user[r]]

(* resolveLock: a lock without an end stays; one whose end has passed is   *)
(* lifted by the attempt itself.                                           *)
Lifted(r) ==
    /\ kind[r] = "password" /\ status[user[r]] = "locked"
    /\ lockedUntil[user[r]] # None /\ now[r] >= lockedUntil[user[r]]

StillLocked(r) == status[user[r]] = "locked" /\ ~Lifted(r)

Active(r) == status[user[r]] = "active" \/ Lifted(r)

(* Neither outcome writes anything: a locked account counts no failures,   *)
(* and a challenge of an inactive one is just invalid.                     *)
RefuseLocked(r) ==
    /\ pc[r] = "held"
    /\ \/ kind[r] = "password" /\ StillLocked(r) /\ Rollback(r, "locked")
       \/ kind[r] = "code" /\ ~Active(r) /\ Rollback(r, "invalid")

Accept(r) ==
    /\ pc[r] = "held" /\ kind[r] # "reset"
    /\ right[r] /\ Active(r)
    /\ status' = [status EXCEPT ![user[r]] = "active"]
    /\ lockedUntil' = [lockedUntil EXCEPT ![user[r]] = None]
    /\ Finish(r, "ok")
    /\ UNCHANGED <<clock, failures, resetAt, history>>

(* A failure is recorded and, on an active account, the failures counted:  *)
(* by a statement that sees what is committed, and its own.                *)
Evaluate(r) ==
    /\ pc[r] = "held"
    /\ \/ kind[r] = "password" /\ ~StillLocked(r) /\ ~(right[r] /\ Active(r))
       \/ kind[r] = "code" /\ Active(r) /\ ~right[r]
    /\ counted' = [counted EXCEPT ![r] =
           IF Active(r) THEN AccountFailures(RecordedFailures(r), user[r], now[r]) ELSE 0]
    /\ Goto(r, "counted")
    /\ UNCHANGED <<clock, tables, userLock, kind, user, ip, right, begun, now, reply, history>>

Fail(r) ==
    /\ pc[r] = "counted" /\ counted[r] < AccountMaxFailures
    /\ failures' = RecordedFailures(r)
    /\ status' = [status EXCEPT ![user[r]] = IF Lifted(r) THEN "active" ELSE @]
    /\ lockedUntil' = [lockedUntil EXCEPT ![user[r]] = IF Lifted(r) THEN None ELSE @]
    /\ Finish(r, "invalid")
    /\ UNCHANGED <<clock, resetAt, history>>

FailAndLockEarly(r) ==   \* faulty: the notice leaves inside the transaction
    /\ pc[r] = "counted" /\ counted[r] >= AccountMaxFailures
    /\ notices' = [notices EXCEPT ![user[r]] = @ + 1]
    /\ Finish(r, "error")
    /\ UNCHANGED <<clock, tables, locks, forgiven>>

(* The lock is committed; its notice comes after.                          *)
FailAndLock(r) ==
    /\ pc[r] = "counted" /\ counted[r] >= AccountMaxFailures
    /\ failures' = RecordedFailures(r)
    /\ status' = [status EXCEPT ![user[r]] = "locked"]
    /\ lockedUntil' = [lockedUntil EXCEPT ![user[r]] = now[r] + LockoutDuration]
    /\ locks' = [locks EXCEPT ![user[r]] = @ + 1]
    /\ Release(r)
    /\ Goto(r, "notify")
    /\ UNCHANGED <<clock, resetAt, request, reply, notices, forgiven>>

PublishLockEvent(r) ==
    /\ pc[r] = "notify"
    /\ notices' = [notices EXCEPT ![user[r]] = @ + 1]
    /\ Finish(r, "invalid")
    /\ UNCHANGED <<clock, tables, locks, forgiven>>

(* A reset activates a locked account, and of any account moves the start  *)
(* of the count to the time its own transaction began.  A disabled account *)
(* stays disabled.                                                         *)
CompleteReset(r) ==
    /\ pc[r] = "held" /\ kind[r] = "reset"
    /\ status' = [status EXCEPT ![user[r]] = IF @ = "locked" THEN "active" ELSE @]
    /\ lockedUntil' = [lockedUntil EXCEPT ![user[r]] =
           IF status[user[r]] = "locked" THEN None ELSE @]
    /\ resetAt' = [resetAt EXCEPT ![user[r]] =
                      IF @ = None \/ begun[r] > @ THEN begun[r] ELSE @]
    /\ forgiven' = [forgiven EXCEPT ![user[r]] = Len(failures)]
    /\ Finish(r, "ok")
    /\ UNCHANGED <<clock, failures, locks, notices>>

LoseRequest(r) == Faults /\ pc[r] # "idle" /\ Rollback(r, "error")
-----------------------------------------------------------------------------
SetStatusKeepingEnd(u, s) ==   \* faulty: SET status = $2 only
    /\ userLock[u] = None /\ status[u] # s
    /\ status' = [status EXCEPT ![u] = s]
    /\ forgiven' = [forgiven EXCEPT ![u] = IF s = "active" THEN Len(failures) ELSE @]
    /\ UNCHANGED <<clock, lockedUntil, failures, resetAt, userLock, pc, request, reply, locks, notices>>

(* PATCH /admin/users/{id}: locked_until never outlives a change of status. *)
SetStatus(u, s) ==
    /\ userLock[u] = None /\ status[u] # s
    /\ status' = [status EXCEPT ![u] = s]
    /\ lockedUntil' = [lockedUntil EXCEPT ![u] = None]
    /\ forgiven' = [forgiven EXCEPT ![u] = IF s = "active" THEN Len(failures) ELSE @]
    /\ UNCHANGED <<clock, failures, resetAt, userLock, pc, request, reply, locks, notices>>

Tick ==
    /\ clock < MaxTime
    /\ clock' = clock + 1
    /\ UNCHANGED <<tables, userLock, pc, request, reply, history>>
-----------------------------------------------------------------------------
Proceed(r) ==
    \/ CountIP(r) \/ RejectUnknownUser(r) \/ LockUser(r)
    \/ RefuseLocked(r) \/ Accept(r) \/ Evaluate(r) \/ Fail(r) \/ FailAndLock(r)
    \/ PublishLockEvent(r) \/ CompleteReset(r)

Next ==
    \/ \E r \in Request, k \in Kind, u \in User \cup {None}, i \in IP \cup {None}, ok \in BOOLEAN :
          Begin(r, k, u, i, ok)
    \/ \E r \in Request : Proceed(r) \/ LoseRequest(r)
    \/ \E u \in User, s \in Status : SetStatus(u, s)
    \/ Tick

Spec == Init /\ [][Next]_vars

(* PostgreSQL grants a row to its waiters in the order they came.          *)
FairSpec == Spec /\ \A r \in Request : SF_vars(Proceed(r))
-----------------------------------------------------------------------------
(***************************************************************************)
(* Properties.                                                             *)
(***************************************************************************)
(* The failures of an account that are still in the window, and were not   *)
(* forgiven.                                                               *)
Recent(u) ==
    {k \in DOMAIN failures :
        /\ k > forgiven[u]
        /\ failures[k].user = u
        /\ failures[k].at + FailureWindow > clock
        /\ resetAt[u] # None => failures[k].at > resetAt[u]}

(* RF-017: AccountMaxFailures failures in a window lock the account.       *)
(* However attempts interleave, and after locks that ended by themselves,  *)
(* an active account has fewer failures behind it since an administrator   *)
(* last activated it or a reset was completed.                             *)
ActiveBelowLimit ==
    \A u \in User : status[u] = "active" => Cardinality(Recent(u)) < AccountMaxFailures

(* The failures a limit per IP is about that it can hold back.             *)
RejectedPasswords(i) ==
    {k \in DOMAIN failures :
        /\ failures[k].kind = "password" /\ failures[k].ip = i
        /\ InWindow(failures[k].at, clock)}

(* The limit per IP is read before anything is locked: passwords already   *)
(* past it still fail, but no more than the requests in flight.  Codes     *)
(* count toward the limit and are not held back by it.                     *)
IPFailuresBounded ==
    \A i \in IP : Cardinality(RejectedPasswords(i)) < IPMaxFailures + Cardinality(Request)

(* A lock in force is never moved: attempts that waited for the row, codes *)
(* and passwords alike, find it locked.                                    *)
InForce(u) == status[u] = "locked" /\ (lockedUntil[u] = None \/ clock < lockedUntil[u])

LockNotExtended ==
    [][\A u \in User :
          InForce(u) /\ status'[u] = "locked" => lockedUntil'[u] = lockedUntil[u]]_vars

(* security.account_locked announces a lock that is committed: there are   *)
(* never more notices than locks.                                          *)
NoticeOfLock == \A u \in User : notices[u] <= locks[u]
=============================================================================
