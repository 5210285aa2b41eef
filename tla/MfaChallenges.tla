--------------------------- MODULE MfaChallenges ---------------------------
(***************************************************************************)
(* The second factor of a login: challenges of mfa_challenges, each with a *)
(* code that is mailed, entered by the user, resent and superseded.        *)
(*                                                                         *)
(* Issue, Verify and Resend are transactions of concurrent requests.  The  *)
(* code is handed to the broker only after the commit; a publish that      *)
(* fails, or whose confirmation does not come in time, is compensated in a *)
(* second transaction: the new challenge is deleted, or the previous code  *)
(* of a resent one restored.                                               *)
(*                                                                         *)
(* Codes of a challenge are numbered in the order they are drawn; 0 stands *)
(* for any wrong code a user may enter.  Operators marked "faulty" are     *)
(* deviations of the definition after them; each makes a property fail.    *)
(***************************************************************************)
EXTENDS Integers, FiniteSets

CONSTANTS
    User, Challenge,
    Request,                \* concurrent API requests
    None,
    MaxAttempts,            \* wrong codes a challenge admits (5)
    MaxIssuancesPerWindow,  \* challenges per account and window (5)
    IssuanceWindow,         \* 15 minutes
    ChallengeTTL,           \* 5 minutes
    ResendInterval,         \* 60 seconds
    Granted,                \* what the database role may do to mfa_challenges
    Faults,                 \* may a process die or lose its connection?
    MaxTime,                \* bound: of the clock
    MaxCodes                \* bound: codes drawn for one challenge

ASSUME ConstantsAssumption ==
    /\ IsFiniteSet(Challenge)
    /\ None \notin User \cup Challenge \cup Request
    /\ {MaxAttempts, MaxIssuancesPerWindow} \subseteq Nat \ {0}
    /\ {IssuanceWindow, ChallengeTTL, ResendInterval} \subseteq Nat
    /\ {"SELECT", "INSERT", "UPDATE"} \subseteq Granted
    /\ Faults \in BOOLEAN
    /\ {MaxTime, MaxCodes} \subseteq Nat

VARIABLES
    state, owner, code, attempts, created, sent,    \* mfa_challenges
    active,                     \* accounts with status 'active'
    clock,
    issuing, rowLock, userLock, \* advisory lock and row locks: holder or None
    pc, op, arg, usr,           \* per request: step, operation, row, account
    digits, at,                 \* the code entered or drawn; its clock reading
    rows,                       \* open challenges still to be locked
    got,                        \* the challenge as read under lock
    known,                      \* challenges whose token the client was given
    drawn, confirmed,           \* newest code of a challenge: drawn, answered
    sessions,                   \* sessions a challenge has opened
    undelivered                 \* challenges whose failed publish was handled

challenges == <<state, owner, code, attempts, created, sent, drawn>>
locks      == <<issuing, rowLock, userLock>>
progress   == <<pc, op, arg, usr, digits, at, rows, got>>
outside    == <<known, confirmed, undelivered>>
vars       == <<challenges, active, clock, locks, progress, outside, sessions>>

Row == [used : BOOLEAN, code : Nat, attempts : Nat, sent : Nat, active : BOOLEAN]
NoRow == [used |-> TRUE, code |-> 0, attempts |-> 0, sent |-> 0, active |-> FALSE]

Step == {"idle", "lock", "count", "supersede", "row", "account", "decide",
         "publish", "compensate"}

TypeOK ==
    /\ state \in [Challenge -> {"absent", "open", "used", "deleted"}]
    /\ owner \in [Challenge -> User \cup {None}]
    /\ code \in [Challenge -> Nat]
    /\ attempts \in [Challenge -> 0..MaxAttempts]
    /\ created \in [Challenge -> Nat]
    /\ sent \in [Challenge -> Nat]
    /\ drawn \in [Challenge -> Nat]
    /\ active \in SUBSET User
    /\ clock \in Nat
    /\ issuing \in [User -> Request \cup {None}]
    /\ rowLock \in [Challenge -> Request \cup {None}]
    /\ userLock \in [User -> Request \cup {None}]
    /\ pc \in [Request -> Step]
    /\ op \in [Request -> {"none", "issue", "verify", "resend"}]
    /\ arg \in [Request -> Challenge \cup {None}]
    /\ usr \in [Request -> User \cup {None}]
    /\ digits \in [Request -> Nat]
    /\ at \in [Request -> Nat]
    /\ rows \in [Request -> SUBSET Challenge]
    /\ got \in [Request -> Row]
    /\ known \in SUBSET Challenge
    /\ confirmed \in [Challenge -> Nat]
    /\ sessions \in [Challenge -> Nat]
    /\ undelivered \in SUBSET Challenge

Init ==
    /\ state = [c \in Challenge |-> "absent"]
    /\ owner = [c \in Challenge |-> None]
    /\ code = [c \in Challenge |-> 0]
    /\ attempts = [c \in Challenge |-> 0]
    /\ created = [c \in Challenge |-> 0]
    /\ sent = [c \in Challenge |-> 0]
    /\ drawn = [c \in Challenge |-> 0]
    /\ active = User
    /\ clock = 0
    /\ issuing = [u \in User |-> None]
    /\ rowLock = [c \in Challenge |-> None]
    /\ userLock = [u \in User |-> None]
    /\ pc = [r \in Request |-> "idle"]
    /\ op = [r \in Request |-> "none"]
    /\ arg = [r \in Request |-> None]
    /\ usr = [r \in Request |-> None]
    /\ digits = [r \in Request |-> 0]
    /\ at = [r \in Request |-> 0]
    /\ rows = [r \in Request |-> {}]
    /\ got = [r \in Request |-> NoRow]
    /\ known = {}
    /\ confirmed = [c \in Challenge |-> 0]
    /\ sessions = [c \in Challenge |-> 0]
    /\ undelivered = {}

Stored(c) == state[c] \in {"open", "used"}
Open(u) == {c \in Challenge : owner[c] = u /\ state[c] = "open"}
IssuedSince(u, t) ==
    {c \in Challenge : owner[c] = u /\ Stored(c) /\ created[c] >= t}

Held(r) == {c \in Challenge : rowLock[c] = r}
-----------------------------------------------------------------------------
(***************************************************************************)
(* Begin and end of a request, and of its transactions.                    *)
(***************************************************************************)
Begin(r, step, operation, c, u, d) ==
    /\ pc[r] = "idle"
    /\ pc' = [pc EXCEPT ![r] = step]
    /\ op' = [op EXCEPT ![r] = operation]
    /\ arg' = [arg EXCEPT ![r] = c]
    /\ usr' = [usr EXCEPT ![r] = u]
    /\ digits' = [digits EXCEPT ![r] = d]
    /\ at' = [at EXCEPT ![r] = IF operation = "issue" THEN clock ELSE 0]
    /\ UNCHANGED <<challenges, active, clock, locks, rows, got, outside, sessions>>

(* Commit or rollback gives back the advisory lock and the row locks.      *)
ReleaseRows(r) ==   \* faulty: the advisory lock of the session, not of the transaction
    /\ issuing' = issuing
    /\ rowLock' = [c \in Challenge |-> IF rowLock[c] = r THEN None ELSE rowLock[c]]
    /\ userLock' = [u \in User |-> IF userLock[u] = r THEN None ELSE userLock[u]]

Release(r) ==
    /\ issuing' = [u \in User |-> IF issuing[u] = r THEN None ELSE issuing[u]]
    /\ rowLock' = [c \in Challenge |-> IF rowLock[c] = r THEN None ELSE rowLock[c]]
    /\ userLock' = [u \in User |-> IF userLock[u] = r THEN None ELSE userLock[u]]

Finish(r) ==
    /\ Release(r)
    /\ pc' = [pc EXCEPT ![r] = "idle"]
    /\ op' = [op EXCEPT ![r] = "none"]
    /\ arg' = [arg EXCEPT ![r] = None]
    /\ usr' = [usr EXCEPT ![r] = None]
    /\ digits' = [digits EXCEPT ![r] = 0]
    /\ at' = [at EXCEPT ![r] = 0]
    /\ rows' = [rows EXCEPT ![r] = {}]
    /\ got' = [got EXCEPT ![r] = NoRow]

Rollback(r) ==
    Finish(r) /\ UNCHANGED <<challenges, active, clock, outside, sessions>>
-----------------------------------------------------------------------------
(***************************************************************************)
(* Issue, called by a login once the password transaction committed: the   *)
(* account may have been locked or disabled since.                         *)
(***************************************************************************)
BeginIssue(r, u) ==
    /\ Cardinality({c \in Challenge : state[c] = "absent"}) >
           Cardinality({q \in Request : pc[q] \in {"lock", "count", "supersede"}})
    /\ Begin(r, "lock", "issue", None, u, 1)

LockIssuanceUnlocked(r) ==   \* faulty: no advisory lock
    /\ pc[r] = "lock"
    /\ pc' = [pc EXCEPT ![r] = "count"]
    /\ UNCHANGED <<challenges, active, clock, locks, op, arg, usr, digits, at, rows, got, outside, sessions>>

LockIssuance(r) ==
    /\ pc[r] = "lock"
    /\ issuing[usr[r]] = None
    /\ issuing' = [issuing EXCEPT ![usr[r]] = r]
    /\ pc' = [pc EXCEPT ![r] = "count"]
    /\ UNCHANGED <<challenges, active, clock, rowLock, userLock, op, arg, usr, digits, at, rows, got, outside, sessions>>

LimitedAboveMax(r) ==   \* faulty: > for >=
    Cardinality(IssuedSince(usr[r], at[r] - IssuanceWindow)) > MaxIssuancesPerWindow

Limited(r) ==
    Cardinality(IssuedSince(usr[r], at[r] - IssuanceWindow)) >= MaxIssuancesPerWindow

IssuanceLimited(r) == pc[r] = "count" /\ Limited(r) /\ Rollback(r)

(* The open challenges are the snapshot of the UPDATE that follows.        *)
CountIssued(r) ==
    /\ pc[r] = "count"
    /\ ~Limited(r)
    /\ pc' = [pc EXCEPT ![r] = "supersede"]
    /\ rows' = [rows EXCEPT ![r] = Open(usr[r])]
    /\ UNCHANGED <<challenges, active, clock, locks, op, arg, usr, digits, at, got, outside, sessions>>

(* A row waited for is superseded only if it is still open.                *)
LockOpen(r) ==
    /\ pc[r] = "supersede"
    /\ \E c \in rows[r] :
          /\ rowLock[c] = None
          /\ rows' = [rows EXCEPT ![r] = @ \ {c}]
          /\ rowLock' = IF state[c] = "open" THEN [rowLock EXCEPT ![c] = r] ELSE rowLock
    /\ UNCHANGED <<challenges, active, clock, issuing, userLock, pc, op, arg, usr, digits, at, got, outside, sessions>>

Superseded(r) == [c \in Challenge |-> IF c \in Held(r) THEN "used" ELSE state[c]]

(* The foreign keys of the row and of its audit record need the account.   *)
StoreChallenge(r) ==
    /\ pc[r] = "supersede"
    /\ rows[r] = {}
    /\ userLock[usr[r]] = None
    /\ \E c \in Challenge :
          /\ state[c] = "absent"
          /\ state' = [Superseded(r) EXCEPT ![c] = "open"]
          /\ owner' = [owner EXCEPT ![c] = usr[r]]
          /\ code' = [code EXCEPT ![c] = digits[r]]
          /\ drawn' = [drawn EXCEPT ![c] = digits[r]]
          /\ attempts' = [attempts EXCEPT ![c] = MaxAttempts]
          /\ created' = [created EXCEPT ![c] = at[r]]
          /\ sent' = [sent EXCEPT ![c] = at[r]]
          /\ arg' = [arg EXCEPT ![r] = c]
    /\ Release(r)
    /\ pc' = [pc EXCEPT ![r] = "publish"]
    /\ UNCHANGED <<active, clock, op, usr, digits, at, rows, got, outside, sessions>>
-----------------------------------------------------------------------------
(***************************************************************************)
(* Publication of the code and its compensation, after the commit.         *)
(***************************************************************************)
(* The client learns the token of a new challenge only now.                *)
PublishConfirmed(r) ==
    /\ pc[r] = "publish"
    /\ Finish(r)
    /\ confirmed' = [confirmed EXCEPT ![arg[r]] = IF digits[r] > @ THEN digits[r] ELSE @]
    /\ known' = known \cup {arg[r]}
    /\ UNCHANGED <<challenges, active, clock, undelivered, sessions>>

(* Refused by the broker, or not confirmed within 5 s: then the mail may   *)
(* go out all the same, and its reader may enter the code.                 *)
PublishFailed(r) ==
    /\ pc[r] = "publish"
    /\ pc' = [pc EXCEPT ![r] = "compensate"]
    /\ UNCHANGED <<challenges, active, clock, locks, op, arg, usr, digits, at, rows, got, outside, sessions>>

CancelledLater(c) == [state EXCEPT ![c] = "used"]   \* faulty: closed, not deleted

(* DELETE FROM mfa_challenges, refused without the privilege.              *)
CancelledState(c) ==
    IF "DELETE" \in Granted THEN [state EXCEPT ![c] = "deleted"] ELSE state

CancelUndelivered(r) ==
    /\ pc[r] = "compensate"
    /\ op[r] = "issue"
    /\ rowLock[arg[r]] = None
    /\ state' = CancelledState(arg[r])
    /\ undelivered' = undelivered \cup {arg[r]}
    /\ Finish(r)
    /\ UNCHANGED <<owner, code, attempts, created, sent, drawn, active, clock, known, confirmed, sessions>>

RestorableAlways(r) == state[arg[r]] = "open"    \* faulty: by id only

Restorable(r) ==
    state[arg[r]] = "open" /\ code[arg[r]] = digits[r] /\ sent[arg[r]] = at[r]

RestoreResend(r) ==
    /\ pc[r] = "compensate"
    /\ op[r] = "resend"
    /\ rowLock[arg[r]] = None
    /\ code' = IF Restorable(r) THEN [code EXCEPT ![arg[r]] = got[r].code] ELSE code
    /\ sent' = IF Restorable(r) THEN [sent EXCEPT ![arg[r]] = got[r].sent] ELSE sent
    /\ Finish(r)
    /\ UNCHANGED <<state, owner, attempts, created, drawn, active, clock, outside, sessions>>
-----------------------------------------------------------------------------
(***************************************************************************)
(* GetMfaChallengeForUpdate: the challenge, then its account.              *)
(***************************************************************************)
BeginVerify(r, c, d) ==
    /\ c \in known
    /\ d \in 0..drawn[c]
    /\ Begin(r, "row", "verify", c, owner[c], d)

BeginResend(r, c) ==
    /\ c \in known
    /\ drawn[c] + Cardinality({q \in Request : op[q] = "resend" /\ arg[q] = c}) < MaxCodes
    /\ Begin(r, "row", "resend", c, owner[c], 0)

LockChallenge(r) ==
    /\ pc[r] = "row"
    /\ rowLock[arg[r]] = None
    /\ rowLock' = [rowLock EXCEPT ![arg[r]] = r]
    /\ pc' = [pc EXCEPT ![r] = "account"]
    /\ UNCHANGED <<challenges, active, clock, issuing, userLock, op, arg, usr, digits, at, rows, got, outside, sessions>>

ReadRow(r) ==
    [used |-> state[arg[r]] # "open", code |-> code[arg[r]],
     attempts |-> attempts[arg[r]], sent |-> sent[arg[r]],
     active |-> usr[r] \in active]

LockChallengeOnly(r) ==   \* faulty: FOR UPDATE OF c, the account only read
    /\ pc[r] = "account"
    /\ pc' = [pc EXCEPT ![r] = "decide"]
    /\ got' = [got EXCEPT ![r] = ReadRow(r)]
    /\ UNCHANGED <<challenges, active, clock, issuing, rowLock, userLock, op, arg, usr, digits, at, rows, outside, sessions>>

LockAccount(r) ==
    /\ pc[r] = "account"
    /\ userLock[usr[r]] = None
    /\ userLock' = [userLock EXCEPT ![usr[r]] = r]
    /\ pc' = [pc EXCEPT ![r] = "decide"]
    /\ got' = [got EXCEPT ![r] = ReadRow(r)]
    /\ UNCHANGED <<challenges, active, clock, issuing, rowLock, op, arg, usr, digits, at, rows, outside, sessions>>

Expired(c) == clock >= created[c] + ChallengeTTL

Usable(r) == ~got[r].used /\ ~Expired(arg[r]) /\ got[r].active

Refuse(r) ==
    /\ pc[r] = "decide"
    /\ \/ ~Usable(r)
       \/ op[r] = "verify" /\ got[r].attempts = 0
       \/ op[r] = "resend" /\ clock < got[r].sent + ResendInterval
    /\ Rollback(r)
-----------------------------------------------------------------------------
(***************************************************************************)
(* Verify and Resend.                                                      *)
(***************************************************************************)
VerifiableWhenActive(r) ==   \* faulty: neither used_at nor attempts checked
    pc[r] = "decide" /\ op[r] = "verify" /\ got[r].active

Verifiable(r) ==
    pc[r] = "decide" /\ op[r] = "verify" /\ Usable(r) /\ got[r].attempts > 0

AfterRejection(c) == IF attempts[c] = 1 THEN "used" ELSE state[c]

(* A wrong code spends an attempt and counts as a failure of the account,  *)
(* which may lock it; all of it is committed before the error is returned. *)
RejectCode(r) ==
    LET c == arg[r]
    IN  /\ Verifiable(r)
        /\ digits[r] # got[r].code
        /\ attempts' = [attempts EXCEPT ![c] = @ - 1]
        /\ state' = [state EXCEPT ![c] = AfterRejection(c)]
        /\ active' \in {active, active \ {usr[r]}}
        /\ Finish(r)
        /\ UNCHANGED <<owner, code, created, sent, drawn, clock, outside, sessions>>

(* ConsumeMfaChallenge does not tell whether the row was still open.       *)
AcceptCode(r) ==
    LET c == arg[r]
    IN  /\ Verifiable(r)
        /\ digits[r] = got[r].code
        /\ state' = [state EXCEPT ![c] = "used"]
        /\ sessions' = [sessions EXCEPT ![c] = @ + 1]
        /\ Finish(r)
        /\ UNCHANGED <<owner, code, attempts, created, sent, drawn, active, clock, outside>>

ResendChallenge(r) ==
    LET c == arg[r]
    IN  /\ pc[r] = "decide"
        /\ op[r] = "resend"
        /\ Usable(r)
        /\ clock >= got[r].sent + ResendInterval
        /\ drawn' = [drawn EXCEPT ![c] = @ + 1]
        /\ code' = [code EXCEPT ![c] = drawn[c] + 1]
        /\ sent' = [sent EXCEPT ![c] = clock]
        /\ digits' = [digits EXCEPT ![r] = drawn[c] + 1]
        /\ at' = [at EXCEPT ![r] = clock]
        /\ pc' = [pc EXCEPT ![r] = "publish"]
        /\ Release(r)
        /\ UNCHANGED <<state, owner, attempts, created, active, clock, op, arg, usr, rows, got, outside, sessions>>
-----------------------------------------------------------------------------
(***************************************************************************)
(* Outside the requests: time, accounts, faults.                           *)
(***************************************************************************)
Tick ==
    /\ clock < MaxTime
    /\ clock' = clock + 1
    /\ UNCHANGED <<challenges, active, locks, progress, outside, sessions>>

(* Lockout, an administrator or a password reset, holding the account.     *)
ChangeAccount(u) ==
    /\ userLock[u] = None
    /\ active' = IF u \in active THEN active \ {u} ELSE active \cup {u}
    /\ UNCHANGED <<challenges, clock, locks, progress, outside, sessions>>

(* A process dies, or a transaction fails, at any step: what was committed *)
(* stays, nothing else is done.                                            *)
LoseRequest(r) == Faults /\ pc[r] # "idle" /\ Rollback(r)

Proceed(r) ==
    \/ LockIssuance(r) \/ IssuanceLimited(r) \/ CountIssued(r) \/ LockOpen(r) \/ StoreChallenge(r)
    \/ PublishConfirmed(r) \/ PublishFailed(r) \/ CancelUndelivered(r) \/ RestoreResend(r)
    \/ LockChallenge(r) \/ LockAccount(r)
    \/ Refuse(r) \/ RejectCode(r) \/ AcceptCode(r) \/ ResendChallenge(r)

Next ==
    \/ \E r \in Request :
          \/ \E u \in User : BeginIssue(r, u)
          \/ \E c \in Challenge : BeginResend(r, c) \/ \E d \in 0..MaxCodes : BeginVerify(r, c, d)
          \/ Proceed(r)
          \/ LoseRequest(r)
    \/ \E u \in User : ChangeAccount(u)
    \/ Tick

Spec == Init /\ [][Next]_vars

(* PostgreSQL serves waiting requests in order, and no wait is endless.    *)
FairSpec == Spec /\ \A r \in Request : SF_vars(Proceed(r))
-----------------------------------------------------------------------------
(***************************************************************************)
(* Properties.                                                             *)
(***************************************************************************)
(* "Cada desafío nuevo anula los desafíos abiertos de la cuenta": however  *)
(* logins, verifications, resends and compensations interleave, an account *)
(* never has two challenges a code could complete.                         *)
OneOpenChallenge ==
    \A c, d \in Challenge :
        state[c] = "open" /\ state[d] = "open" /\ owner[c] = owner[d] => c = d

(* No window of IssuanceWindow holds more than MaxIssuancesPerWindow       *)
(* challenges of an account, although a login reads its clock before it    *)
(* waits for the advisory lock and may store its challenge out of order.   *)
IssuanceCap ==
    \A c \in Challenge :
        Stored(c) => Cardinality({d \in IssuedSince(owner[c], created[c]) :
                        created[d] <= created[c] + IssuanceWindow})
                     <= MaxIssuancesPerWindow

(* A challenge completes at most one login, although the statement that    *)
(* consumes it does not report whether it was still unused.                *)
OneSessionPerChallenge == \A c \in Challenge : sessions[c] <= 1

(* The session is opened while the account is active and the challenge     *)
(* open and in time: nothing read before the locks is still relied on.     *)
SessionOnlyWhileValid ==
    [][\A c \in Challenge : sessions'[c] # sessions[c] =>
          /\ state[c] = "open"
          /\ ~Expired(c)
          /\ owner[c] \in active]_vars

(* "La restauración es condicional para no pisar un reenvío posterior que  *)
(* sí haya tenido éxito": once the resend of a code was answered with      *)
(* success, no older code of an open challenge is ever valid again.        *)
ConfirmedCodeStands ==
    \A c \in Challenge : state[c] = "open" => code[c] >= confirmed[c]

(* "An initial MFA code that could not be published must not consume the   *)
(* issuance window": its challenge is gone once the failure was handled.   *)
UndeliveredIsCancelled == \A c \in undelivered : ~Stored(c)

(* Advisory lock, challenges and accounts are locked in an order that lets *)
(* every request end: no group of requests waits for itself.               *)
EveryRequestAnswered == \A r \in Request : pc[r] # "idle" ~> pc[r] = "idle"
=============================================================================
