----------------------------- MODULE OAuthCodes -----------------------------
(***************************************************************************)
(* Authorization codes of one application: GET /oauth/authorize issues     *)
(* them, POST /oauth/token exchanges them.  An authorization is a chain of *)
(* statements that commit one by one; an exchange is one transaction that  *)
(* holds the row of its code.                                              *)
(*                                                                         *)
(* What matters here: between any two statements roles are taken and       *)
(* sessions end, two exchanges wait for the same row, and an exchange may  *)
(* fail at any point, its commit included.                                 *)
(***************************************************************************)
EXTENDS Naturals, FiniteSets

CONSTANTS
    User,       \* accounts
    Insider,    \* those of the application's company
    Role,       \* roles of the application
    Code,       \* codes that may be drawn
    Request,    \* concurrent requests
    None,
    Faults      \* may a request fail half way?

ASSUME OAuthAssumption ==
    /\ Insider \subseteq User
    /\ None \notin User \cup Request \cup Code
    /\ Faults \in BOOLEAN

VARIABLES
    signedIn,                \* accounts that are active and have a Hub session
    holds,                   \* user_roles joined with the application's roles
    owner,                   \* authorization_codes: the user of a stored code
    used, expired,           \* codes with used_at, codes past expires_at
    codeLock,                \* row locks: the holder, or None
    issues,                  \* audit_log: codes with authorization_code_issued
    pc, subject, code,       \* per request: step, account, code
    fresh, matches,          \* per exchange: unexpired when the clock was
                             \*   read; client, redirect URI and verifier fit
    spent,                   \* history: the code was used before it began
    reply,                   \* per request: the last answer
    tokens                   \* history: per code, the access tokens it gave

tables   == <<signedIn, holds, owner, used, expired, issues>>
request  == <<subject, code, fresh, matches, spent>>
vars     == <<tables, codeLock, pc, request, reply, tokens>>

Step  == {"idle", "access", "create", "created", "find", "lock", "owner", "marked"}
Reply == {"none", "code", "denied", "ok", "reused", "invalid", "error"}

TypeOK ==
    /\ signedIn \in SUBSET User
    /\ holds \in [User -> SUBSET Role]
    /\ owner \in [Code -> User \cup {None}]
    /\ used \in SUBSET Code /\ expired \in SUBSET Code /\ issues \in SUBSET Code
    /\ codeLock \in [Code -> Request \cup {None}]
    /\ pc \in [Request -> Step]
    /\ subject \in [Request -> User \cup {None}]
    /\ code \in [Request -> Code \cup {None}]
    /\ fresh \in [Request -> BOOLEAN]
    /\ matches \in [Request -> BOOLEAN]
    /\ spent \in [Request -> BOOLEAN]
    /\ reply \in [Request -> Reply]
    /\ tokens \in [Code -> Nat]
    /\ \A c \in used \cup expired \cup issues : owner[c] # None
    /\ \A r \in Request : pc[r] \in {"access", "create", "created"} => subject[r] # None
    /\ \A r \in Request :
          pc[r] \in {"created", "find", "lock", "owner", "marked"} =>
              code[r] # None

Init ==
    /\ signedIn = User
    /\ holds = [u \in User |-> IF u \in Insider THEN Role ELSE {}]
    /\ owner = [c \in Code |-> None]
    /\ used = {} /\ expired = {} /\ issues = {}
    /\ codeLock = [c \in Code |-> None]
    /\ pc = [r \in Request |-> "idle"]
    /\ subject = [r \in Request |-> None]
    /\ code = [r \in Request |-> None]
    /\ fresh = [r \in Request |-> FALSE]
    /\ matches = [r \in Request |-> FALSE]
    /\ spent = [r \in Request |-> FALSE]
    /\ reply = [r \in Request |-> "none"]
    /\ tokens = [c \in Code |-> 0]

Stored == {c \in Code : owner[c] # None}

Goto(r, step) == pc' = [pc EXCEPT ![r] = step]

Finish(r, answer) ==
    /\ codeLock' = [c \in Code |-> IF codeLock[c] = r THEN None ELSE codeLock[c]]
    /\ Goto(r, "idle")
    /\ subject' = [subject EXCEPT ![r] = None]
    /\ code' = [code EXCEPT ![r] = None]
    /\ fresh' = [fresh EXCEPT ![r] = FALSE]
    /\ matches' = [matches EXCEPT ![r] = FALSE]
    /\ spent' = [spent EXCEPT ![r] = FALSE]
    /\ reply' = [reply EXCEPT ![r] = answer]

Rollback(r, answer) == Finish(r, answer) /\ UNCHANGED <<tables, tokens>>
-----------------------------------------------------------------------------
(***************************************************************************)
(* GET /oauth/authorize: every statement commits by itself.                *)
(***************************************************************************)
(* Bound: a request that may need a code finds one.                        *)
CodesLeft == Cardinality({r \in Request : pc[r] \in {"access", "create"}})
                 < Cardinality(Code \ Stored)

ReadSession(r, u) ==
    /\ pc[r] = "idle" /\ CodesLeft
    /\ u \in signedIn
    /\ Goto(r, "access")
    /\ subject' = [subject EXCEPT ![r] = u]
    /\ reply' = [reply EXCEPT ![r] = "none"]
    /\ UNCHANGED <<tables, codeLock, code, fresh, matches, spent, tokens>>

Entitled(u) == u \in Insider /\ holds[u] # {}

CheckAccess(r) ==
    /\ pc[r] = "access"
    /\ \/ /\ Entitled(subject[r])
          /\ Goto(r, "create")
          /\ UNCHANGED <<tables, codeLock, request, reply, tokens>>
       \/ /\ ~Entitled(subject[r])
          /\ Rollback(r, "denied")

CreateCodeUnchecked(r) ==   \* faulty: the rows inserted are not counted
    /\ pc[r] = "create"
    /\ \E c \in Code \ Stored : code' = [code EXCEPT ![r] = c]
    /\ Goto(r, "created")
    /\ UNCHANGED <<tables, codeLock, subject, fresh, matches, spent, reply, tokens>>

CreateCode(r) ==
    /\ pc[r] = "create"
    /\ \E c \in Code \ Stored :
          /\ owner' = [owner EXCEPT ![c] = subject[r]]
          /\ code' = [code EXCEPT ![r] = c]
    /\ Goto(r, "created")
    /\ UNCHANGED <<signedIn, holds, used, expired, issues, codeLock,
                   subject, fresh, matches, spent, reply, tokens>>

(* Only then does the answer carry the code: one whose audit event failed  *)
(* is stored and never known.                                              *)
AuditIssue(r) ==
    /\ pc[r] = "created"
    /\ issues' = issues \cup {code[r]}
    /\ Finish(r, "code")
    /\ UNCHANGED <<signedIn, holds, owner, used, expired, tokens>>
-----------------------------------------------------------------------------
(***************************************************************************)
(* POST /oauth/token: one transaction, whose clock is read before it.      *)
(***************************************************************************)
Present(r, c, fits) ==
    /\ pc[r] = "idle"
    /\ c \in issues
    /\ Goto(r, "find")
    /\ code' = [code EXCEPT ![r] = c]
    /\ fresh' = [fresh EXCEPT ![r] = c \notin expired]
    /\ matches' = [matches EXCEPT ![r] = fits]
    /\ spent' = [spent EXCEPT ![r] = c \in used]
    /\ reply' = [reply EXCEPT ![r] = "none"]
    /\ UNCHANGED <<tables, codeLock, subject, tokens>>

(* The snapshot of GetAuthorizationCodeForUpdate.                          *)
FindCode(r) ==
    /\ pc[r] = "find"
    /\ Goto(r, IF code[r] \notin used /\ fresh[r] THEN "lock" ELSE "owner")
    /\ UNCHANGED <<tables, codeLock, request, reply, tokens>>

LockCodeOrRefuse(r) ==   \* faulty: no row after the wait is plainly invalid
    /\ pc[r] = "lock"
    /\ codeLock[code[r]] = None
    /\ IF code[r] \notin used /\ matches[r]
       THEN /\ codeLock' = [codeLock EXCEPT ![code[r]] = r]
            /\ Goto(r, "marked")
            /\ UNCHANGED <<tables, request, reply, tokens>>
       ELSE Rollback(r, "invalid")

(* Once the row is free its condition is checked again: a row used in the  *)
(* meantime is no row.  One that does not fit is refused and stays as it   *)
(* was.  MarkAuthorizationCodeUsed follows under the lock: it finds the    *)
(* row unused.                                                             *)
LockCode(r) ==
    /\ pc[r] = "lock"
    /\ codeLock[code[r]] = None
    /\ \/ /\ code[r] \in used
          /\ Goto(r, "owner")
          /\ UNCHANGED <<tables, codeLock, request, reply, tokens>>
       \/ /\ code[r] \notin used /\ ~matches[r]
          /\ Rollback(r, "invalid")
       \/ /\ code[r] \notin used /\ matches[r]
          /\ codeLock' = [codeLock EXCEPT ![code[r]] = r]
          /\ Goto(r, "marked")
          /\ UNCHANGED <<tables, request, reply, tokens>>

LookUpOwnerOfUsed(r) ==   \* faulty: no owner is no answer
    /\ pc[r] = "owner" /\ code[r] \in used
    /\ Rollback(r, "reused")

(* GetUsedAuthorizationCodeOwner has a snapshot of its own.                *)
LookUpOwner(r) ==
    /\ pc[r] = "owner"
    /\ Rollback(r, IF code[r] \in used THEN "reused" ELSE "invalid")

CommitUnmarked(r) ==   \* faulty: used_at is not written
    /\ pc[r] = "marked"
    /\ tokens' = [tokens EXCEPT ![code[r]] = @ + 1]
    /\ Finish(r, "ok")
    /\ UNCHANGED tables

(* The roles and their permissions are read; neither is a condition of the *)
(* exchange, so a token may carry none.                                    *)
Commit(r) ==
    /\ pc[r] = "marked"
    /\ used' = used \cup {code[r]}
    /\ tokens' = [tokens EXCEPT ![code[r]] = @ + 1]
    /\ Finish(r, "ok")
    /\ UNCHANGED <<signedIn, holds, owner, expired, issues>>

(* The commit or the token that follows it fails: the code is gone.        *)
CommitUnanswered(r) ==
    /\ Faults /\ pc[r] = "marked"
    /\ used' = used \cup {code[r]}
    /\ Finish(r, "error")
    /\ UNCHANGED <<signedIn, holds, owner, expired, issues, tokens>>

LoseRequest(r) == Faults /\ pc[r] # "idle" /\ Rollback(r, "error")
-----------------------------------------------------------------------------
(***************************************************************************)
(* Time and the other requests.                                            *)
(***************************************************************************)
Expire(c) ==
    /\ c \in Stored \ expired
    /\ expired' = expired \cup {c}
    /\ UNCHANGED <<signedIn, holds, owner, used, issues, codeLock, pc, request, reply, tokens>>

(* The Hub session ends or the account stops being active.                 *)
SignOut(u) ==
    /\ u \in signedIn
    /\ signedIn' = signedIn \ {u}
    /\ UNCHANGED <<holds, owner, used, expired, issues, codeLock, pc, request, reply, tokens>>

(* An administrator replaces the roles; the database keeps a role of the   *)
(* application among the accounts of its company.                          *)
ReplaceRoles(u, S) ==
    /\ u \in Insider /\ holds[u] # S
    /\ holds' = [holds EXCEPT ![u] = S]
    /\ UNCHANGED <<signedIn, owner, used, expired, issues, codeLock, pc, request, reply, tokens>>
-----------------------------------------------------------------------------
Proceed(r) ==
    \/ CheckAccess(r) \/ CreateCode(r) \/ AuditIssue(r)
    \/ FindCode(r) \/ LockCode(r) \/ LookUpOwner(r) \/ Commit(r)

Next ==
    \/ \E r \in Request, u \in User : ReadSession(r, u)
    \/ \E r \in Request, c \in Code, fits \in BOOLEAN : Present(r, c, fits)
    \/ \E r \in Request : Proceed(r) \/ CommitUnanswered(r) \/ LoseRequest(r)
    \/ \E c \in Code : Expire(c)
    \/ \E u \in User : SignOut(u) \/ \E S \in SUBSET Role : ReplaceRoles(u, S)

Spec == Init /\ [][Next]_vars

(* PostgreSQL grants a row to its waiters in the order they came.          *)
FairSpec == Spec /\ \A r \in Request : SF_vars(Proceed(r))
-----------------------------------------------------------------------------
(***************************************************************************)
(* Properties.                                                             *)
(***************************************************************************)
(* Domain invariant 10: whichever exchanges run at once, and whichever of  *)
(* them fail, one code gives at most one access token.                     *)
ExchangedOnce == \A c \in Code : tokens[c] <= 1

(* adr/0009 - presenting a code twice fails and is audited.  A request     *)
(* that comes after the code was used, and one that fits and loses the row *)
(* to another while it waits, is never refused without the audit event.    *)
SecondUseIsAudited ==
    [][\A r \in Request :
          pc[r] # "idle" /\ (spent[r] \/ (fresh[r] /\ matches[r])) =>
              reply'[r] # "invalid"]_vars

(* Every request is answered: exchanges of one code wait for each other    *)
(* and never for good.                                                     *)
EveryRequestAnswered == \A r \in Request : pc[r] # "idle" ~> pc[r] = "idle"
=============================================================================
