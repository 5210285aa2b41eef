---------------------------- MODULE AccountTokens ----------------------------
(***************************************************************************)
(* verification_tokens: invitations and password resets.  An invitation is *)
(* issued with an employee's account, by a resend, or by the start of the  *)
(* API that finds no administrator; it is accepted once.  A reset is       *)
(* requested and confirmed.  Beside them, failed logins lock accounts and  *)
(* administrators set the status of accounts as they like.                 *)
(*                                                                         *)
(* What matters here: acceptance and confirmation lock the token and then  *)
(* the account, a resend the account and then its tokens; most operations  *)
(* publish the mail inside their transaction, the start of the API after   *)
(* it.                                                                     *)
(***************************************************************************)
EXTENDS Naturals, FiniteSets

CONSTANTS
    User,        \* accounts, those that do not exist yet included
    Founder,     \* those whose email is configured as BOOTSTRAP_ADMIN_EMAIL,
                 \*   one after another: the administrators
    Reopened,    \* accounts that administrators may set back to
                 \*   pending_verification
    Request,     \* concurrent requests and starts of the API
    None,
    MaxTokens,   \* bound of the tokens drawn, numbered in that order
    Faults       \* may a request fail half way?

Token == 1..MaxTokens

ASSUME TokensAssumption ==
    /\ Founder \subseteq User /\ Reopened \subseteq User
    /\ MaxTokens \in Nat
    /\ None \notin User \cup Request \cup Nat
    /\ Faults \in BOOLEAN

VARIABLES
    status,                    \* users.status
    owner, purpose,            \* verification_tokens: a stored token
    used, expired,             \*   with used_at; past expires_at
    userLock, tokenLock,       \* row locks: the holder, or None
    advisory,                  \* pg_advisory_xact_lock: the holder, or None
    drawn,                     \* how many tokens were drawn
    mailed,                    \* tokens the broker took
    pc, op, user, token,       \* per request: step, operation, account, token
    others,                    \* per request: tokens it has still to invalidate
    reply,                     \* per request: the last answer
    uses, latest               \* history: per token, how often it was accepted;
                               \*   per account, its newest invitation

tables   == <<status, owner, purpose, used, expired>>
locks    == <<userLock, tokenLock, advisory>>
request  == <<op, user, token, others>>
history  == <<uses, latest>>
vars     == <<tables, locks, drawn, mailed, pc, request, reply, history>>

Status == {"absent", "pending", "active", "locked", "disabled"}
Op     == {"none", "accept", "confirm", "resend", "employee", "forgot", "ensure"}
Step   == {"idle", "hash", "token", "user", "find", "others", "decide", "insert",
           "draw", "publish", "commit", "announce", "withdraw"}
Reply  == {"none", "ok", "invalid", "conflict", "nothing", "undelivered", "error"}

TypeOK ==
    /\ status \in [User -> Status]
    /\ owner \in [Token -> User \cup {None}]
    /\ purpose \in [Token -> {"invitation", "reset"}]
    /\ used \in SUBSET Token /\ expired \in SUBSET Token /\ mailed \in SUBSET Token
    /\ userLock \in [User -> Request \cup {None}]
    /\ tokenLock \in [Token -> Request \cup {None}]
    /\ advisory \in Request \cup {None}
    /\ drawn \in 0..MaxTokens
    /\ pc \in [Request -> Step] /\ op \in [Request -> Op]
    /\ user \in [Request -> User \cup {None}]
    /\ token \in [Request -> Token \cup {None}]
    /\ others \in [Request -> SUBSET Token]
    /\ reply \in [Request -> Reply]
    /\ uses \in [Token -> Nat] /\ latest \in [User -> Token \cup {None}]
    /\ \A t \in Token : owner[t] # None => status[owner[t]] # "absent" /\ t <= drawn
    /\ \A r \in Request : pc[r] # "idle" => op[r] # "none" /\ user[r] # None

(* A fresh installation, or one whose accounts came before: tokens issued  *)
(* then have expired.                                                      *)
Init ==
    /\ status \in [User -> Status]
    /\ (\A f \in Founder : status[f] = "absent") => \A u \in User : status[u] = "absent"
    /\ owner = [t \in Token |-> None]
    /\ purpose = [t \in Token |-> "invitation"]
    /\ used = {} /\ expired = {} /\ mailed = {}
    /\ userLock = [u \in User |-> None]
    /\ tokenLock = [t \in Token |-> None]
    /\ advisory = None
    /\ drawn = 0
    /\ pc = [r \in Request |-> "idle"] /\ op = [r \in Request |-> "none"]
    /\ user = [r \in Request |-> None] /\ token = [r \in Request |-> None]
    /\ others = [r \in Request |-> {}]
    /\ reply = [r \in Request |-> "none"]
    /\ uses = [t \in Token |-> 0] /\ latest = [u \in User |-> None]

Goto(r, step) == pc' = [pc EXCEPT ![r] = step]

Release(r) ==
    /\ userLock' = [u \in User |-> IF userLock[u] = r THEN None ELSE userLock[u]]
    /\ tokenLock' = [t \in Token |-> IF tokenLock[t] = r THEN None ELSE tokenLock[t]]
    /\ advisory' = IF advisory = r THEN None ELSE advisory

Finish(r, answer) ==
    /\ Release(r)
    /\ Goto(r, "idle")
    /\ op' = [op EXCEPT ![r] = "none"]
    /\ user' = [user EXCEPT ![r] = None]
    /\ token' = [token EXCEPT ![r] = None]
    /\ others' = [others EXCEPT ![r] = {}]
    /\ reply' = [reply EXCEPT ![r] = answer]

Rollback(r, answer) == Finish(r, answer) /\ UNCHANGED <<tables, drawn, mailed, history>>

(* A statement that changes no table.                                      *)
Continue(r, step) ==
    /\ Goto(r, step)
    /\ UNCHANGED <<tables, drawn, mailed, reply, history>>

Unused(u, p) == {t \in Token \ used : owner[t] = u /\ purpose[t] = p}

Live(u, p) == Unused(u, p) \ expired

NonPendingAdmins == {f \in Founder : status[f] \notin {"absent", "pending"}}
-----------------------------------------------------------------------------
(***************************************************************************)
(* The beginnings.                                                         *)
(***************************************************************************)
Begin(r, o, u, t, step) ==
    /\ pc[r] = "idle"
    /\ Goto(r, step)
    /\ op' = [op EXCEPT ![r] = o]
    /\ user' = [user EXCEPT ![r] = u]
    /\ token' = [token EXCEPT ![r] = t]
    /\ reply' = [reply EXCEPT ![r] = "none"]
    /\ UNCHANGED <<tables, locks, drawn, mailed, others, history>>

(* Bound: every request that may draw a token finds one.                   *)
TokensLeft ==
    drawn + Cardinality({r \in Request :
        pc[r] # "idle" /\ op[r] \notin {"accept", "confirm"} /\ token[r] = None}) < MaxTokens

(* The precheck that precedes hashing the password.                        *)
Present(r, o, t) ==
    /\ t \in mailed /\ owner[t] # None /\ t \notin used \cup expired
    /\ purpose[t] = IF o = "accept" THEN "invitation" ELSE "reset"
    /\ Begin(r, o, owner[t], t, "hash")

(* RequireRole: some administrator is there to ask for it.                 *)
Resend(r, u) ==
    TokensLeft /\ NonPendingAdmins # {} /\ Begin(r, "resend", u, None, "user")

CreateEmployee(r, u) ==
    /\ u \notin Founder
    /\ TokensLeft /\ NonPendingAdmins # {}
    /\ Begin(r, "employee", u, None, "insert")

RequestReset(r, u) ==
    TokensLeft /\ status[u] # "absent" /\ Begin(r, "forgot", u, None, "draw")

Ensure(r, f) == TokensLeft /\ Begin(r, "ensure", f, None, "decide")
-----------------------------------------------------------------------------
(***************************************************************************)
(* Consuming a token: ConsumeInvitationToken and, for resets,              *)
(* ConsumePasswordResetTokenAndRevokeSessions.  The transaction begins,    *)
(* with its now() and the snapshot of the statement, after the hash; an    *)
(* acceptance updates an account that is pending in that snapshot, and     *)
(* still when its row is locked.                                           *)
(***************************************************************************)
InSnapshot(r) ==
    /\ token[r] \notin used \cup expired
    /\ op[r] = "accept" => status[user[r]] = "pending"

BeginConsume(r) ==
    /\ pc[r] = "hash"
    /\ \/ ~InSnapshot(r) /\ Rollback(r, "invalid")
       \/ /\ InSnapshot(r)
          /\ others' = [others EXCEPT ![r] =
                 IF op[r] = "confirm" THEN Unused(user[r], "reset") \ {token[r]} ELSE {}]
          /\ Continue(r, "token")
          /\ UNCHANGED <<locks, op, user, token>>

LockTokenUnchecked(r) ==   \* faulty: UPDATE ... WHERE id only
    /\ pc[r] = "token" /\ tokenLock[token[r]] = None
    /\ tokenLock' = [tokenLock EXCEPT ![token[r]] = r]
    /\ Continue(r, "user")
    /\ UNCHANGED <<userLock, advisory, request>>

(* A token used while the statement waited is no token.                    *)
LockToken(r) ==
    /\ pc[r] = "token" /\ tokenLock[token[r]] = None
    /\ \/ token[r] \in used /\ Rollback(r, "invalid")
       \/ /\ token[r] \notin used
          /\ tokenLock' = [tokenLock EXCEPT ![token[r]] = r]
          /\ Continue(r, "user")
          /\ UNCHANGED <<userLock, advisory, request>>

(* Inserting a token keeps a share lock on its account, which keeps out    *)
(* FOR UPDATE and not the UPDATE of an acceptance.                         *)
Inserting(u) == {q \in Request : user[q] = u /\ pc[q] \in {"publish", "commit"}
                                 /\ op[q] \in {"forgot", "ensure"}}

ForUpdate(u) == {q \in Request : userLock[u] = q /\ op[q] \in {"resend", "confirm"}}

(* A reset asks for no status.                                             *)
Wanted(r) == IF op[r] = "confirm" THEN Status \ {"absent"} ELSE {"pending"}

AfterUser == [accept |-> "publish", confirm |-> "others", resend |-> "find"]

LockPendingUser(r) ==   \* faulty: no account is no answer
    /\ pc[r] = "user" /\ userLock[user[r]] = None
    /\ op[r] = "accept" \/ Inserting(user[r]) = {}
    /\ status[user[r]] \in Wanted(r)
    /\ userLock' = [userLock EXCEPT ![user[r]] = r]
    /\ Continue(r, AfterUser[op[r]])
    /\ UNCHANGED <<tokenLock, advisory, request>>

(* The account must still be pending for an acceptance and for a resend:   *)
(* if it is not, the token stays as it was.                                *)
LockUser(r) ==
    /\ pc[r] = "user" /\ userLock[user[r]] = None
    /\ op[r] = "accept" \/ Inserting(user[r]) = {}
    /\ \/ status[user[r]] \notin Wanted(r) /\ Rollback(r, "invalid")
       \/ /\ status[user[r]] \in Wanted(r)
          /\ userLock' = [userLock EXCEPT ![user[r]] = r]
          /\ Continue(r, AfterUser[op[r]])
          /\ UNCHANGED <<tokenLock, advisory, request>>

FindNone(r) ==   \* faulty: the old invitations are not invalidated
    /\ pc[r] = "find"
    /\ Continue(r, "others")
    /\ UNCHANGED <<locks, request>>

(* InvalidateInvitationTokens: its snapshot, then row by row.              *)
FindInvitations(r) ==
    /\ pc[r] = "find"
    /\ others' = [others EXCEPT ![r] = Unused(user[r], "invitation")]
    /\ Continue(r, "others")
    /\ UNCHANGED <<locks, op, user, token>>

LockOther(r) ==
    /\ pc[r] = "others"
    /\ \E t \in others[r] :
          /\ tokenLock[t] = None
          /\ tokenLock' = IF t \in used THEN tokenLock ELSE [tokenLock EXCEPT ![t] = r]
          /\ others' = [others EXCEPT ![r] = @ \ {t}]
    /\ UNCHANGED <<tables, userLock, advisory, drawn, mailed, pc, op, user, token, reply, history>>

OthersDone(r) ==
    /\ pc[r] = "others" /\ others[r] = {}
    /\ Continue(r, IF op[r] = "confirm" THEN "commit" ELSE "draw")
    /\ UNCHANGED <<locks, request>>
-----------------------------------------------------------------------------
(***************************************************************************)
(* Issuing a token.                                                        *)
(***************************************************************************)
(* CreateUser: the unique email makes a second insertion wait and fail.    *)
InsertUser(r) ==
    /\ pc[r] = "insert" /\ userLock[user[r]] = None
    /\ \/ status[user[r]] # "absent" /\ Rollback(r, "conflict")
       \/ /\ status[user[r]] = "absent"
          /\ userLock' = [userLock EXCEPT ![user[r]] = r]
          /\ Continue(r, "draw")
          /\ UNCHANGED <<tokenLock, advisory, request>>

(* The start of the API publishes after its commit, the others before.     *)
DrawToken(r) ==
    /\ pc[r] = "draw"
    /\ ForUpdate(user[r]) \subseteq {r}
    /\ drawn' = drawn + 1
    /\ token' = [token EXCEPT ![r] = drawn + 1]
    /\ Goto(r, IF op[r] = "ensure" THEN "commit" ELSE "publish")
    /\ UNCHANGED <<tables, locks, mailed, op, user, others, reply, history>>

Publish(r) ==
    /\ pc[r] = "publish"
    /\ mailed' = mailed \cup {token[r]}
    /\ Goto(r, "commit")
    /\ UNCHANGED <<tables, locks, drawn, request, reply, history>>

PublishDropped(r) ==   \* faulty: the error of the publish is dropped
    /\ Faults /\ pc[r] = "publish"
    /\ Continue(r, "commit")
    /\ UNCHANGED <<locks, request>>

(* The confirm is negative or late: late, the broker took the message.     *)
PublishFails(r) ==
    /\ Faults /\ pc[r] = "publish"
    /\ \E late \in SUBSET {token[r]} : mailed' = mailed \cup late
    /\ Finish(r, "error")
    /\ UNCHANGED <<tables, drawn, history>>
-----------------------------------------------------------------------------
(***************************************************************************)
(* The commits.                                                            *)
(***************************************************************************)
CommitConsumption(r) ==
    /\ pc[r] = "commit" /\ op[r] \in {"accept", "confirm"}
    /\ used' = used \cup {t \in Token : tokenLock[t] = r}
    /\ status' = [status EXCEPT ![user[r]] =
           IF op[r] = "accept" \/ @ = "locked" THEN "active" ELSE @]
    /\ uses' = [uses EXCEPT ![token[r]] = @ + 1]
    /\ Finish(r, "ok")
    /\ UNCHANGED <<owner, purpose, expired, drawn, mailed, latest>>

StoreToken(r) ==   \* faulty: the account is not among what is committed
    /\ owner' = [owner EXCEPT ![token[r]] = user[r]]
    /\ purpose' = [purpose EXCEPT ![token[r]] = IF op[r] = "forgot" THEN "reset" ELSE @]
    /\ used' = used \cup {t \in Token : tokenLock[t] = r}
    /\ latest' = [latest EXCEPT ![user[r]] = IF op[r] = "forgot" THEN @ ELSE token[r]]
    /\ UNCHANGED <<status, expired, drawn, mailed, uses>>

Store(r) ==
    /\ status' = [status EXCEPT ![user[r]] = IF @ = "absent" THEN "pending" ELSE @]
    /\ owner' = [owner EXCEPT ![token[r]] = user[r]]
    /\ purpose' = [purpose EXCEPT ![token[r]] = IF op[r] = "forgot" THEN "reset" ELSE @]
    /\ used' = used \cup {t \in Token : tokenLock[t] = r}
    /\ latest' = [latest EXCEPT ![user[r]] = IF op[r] = "forgot" THEN @ ELSE token[r]]
    /\ UNCHANGED <<expired, drawn, mailed, uses>>

CommitIssue(r) ==
    /\ pc[r] = "commit" /\ op[r] \in {"resend", "employee", "forgot"}
    /\ Store(r)
    /\ Finish(r, "ok")

CommitEnsure(r) ==
    /\ pc[r] = "commit" /\ op[r] = "ensure"
    /\ Store(r)
    /\ Release(r)
    /\ Goto(r, "announce")
    /\ UNCHANGED <<request, reply>>
-----------------------------------------------------------------------------
(***************************************************************************)
(* bootstrap.Ensure: the decision, under the advisory lock, and what comes *)
(* after the commit.                                                       *)
(***************************************************************************)
DecideUnlocked(r) ==   \* faulty: no advisory lock
    /\ pc[r] = "decide"
    /\ \/ /\ NonPendingAdmins # {} \/ Live(user[r], "invitation") # {}
          /\ Rollback(r, "nothing")
       \/ /\ NonPendingAdmins = {} /\ Live(user[r], "invitation") = {}
          /\ Continue(r, IF status[user[r]] = "absent" THEN "insert" ELSE "find")
          /\ UNCHANGED <<locks, request>>

Decide(r) ==
    /\ pc[r] = "decide" /\ advisory = None
    /\ \/ /\ NonPendingAdmins # {} \/ Live(user[r], "invitation") # {}
          /\ Rollback(r, "nothing")
       \/ /\ NonPendingAdmins = {} /\ Live(user[r], "invitation") = {}
          /\ advisory' = r
          /\ Continue(r, IF status[user[r]] = "absent" THEN "insert" ELSE "find")
          /\ UNCHANGED <<userLock, tokenLock, request>>

Announce(r) ==
    /\ pc[r] = "announce"
    /\ mailed' = mailed \cup {token[r]}
    /\ Finish(r, "ok")
    /\ UNCHANGED <<tables, drawn, history>>

AnnounceFails(r) ==
    /\ Faults /\ pc[r] = "announce"
    /\ \E late \in SUBSET {token[r]} : mailed' = mailed \cup late
    /\ Goto(r, "withdraw")
    /\ UNCHANGED <<tables, locks, drawn, request, reply, history>>

(* One short transaction: the next start issues a new invitation at once.  *)
Withdraw(r) ==
    /\ pc[r] = "withdraw" /\ advisory = None
    /\ \A t \in Unused(user[r], "invitation") : tokenLock[t] = None
    /\ used' = used \cup Unused(user[r], "invitation")
    /\ Finish(r, "undelivered")
    /\ UNCHANGED <<status, owner, purpose, expired, drawn, mailed, history>>
-----------------------------------------------------------------------------
Expire(t) ==
    /\ owner[t] # None /\ t \notin used \cup expired
    /\ expired' = expired \cup {t}
    /\ UNCHANGED <<status, owner, purpose, used, locks, drawn, mailed, pc, request, reply, history>>

(* What else sets a status takes the row of the account FOR UPDATE, and    *)
(* keeps it for no step of the requests above.                             *)
RowFree(u) == userLock[u] = None /\ Inserting(u) = {}

Restate(u, s) ==
    /\ RowFree(u)
    /\ status' = [status EXCEPT ![u] = s]
    /\ UNCHANGED <<owner, purpose, used, expired, locks, drawn, mailed, pc, request, reply, history>>

(* Failed logins, and a login once the lock has run out.                   *)
LockAccount(u) == status[u] = "active" /\ Restate(u, "locked")

UnlockAccount(u) == status[u] = "locked" /\ Restate(u, "active")

ActiveAdmins == {f \in Founder : status[f] = "active"}

(* PATCH /admin/users/{id}: any status for any account, invited or not,    *)
(* and only the last active administrator is refused.  It locks the rows   *)
(* of the active administrators too.                                       *)
SetStatus(u, s) ==
    /\ NonPendingAdmins # {}
    /\ status[u] \notin {"absent", s}
    /\ s = "pending" => u \in Reopened
    /\ ActiveAdmins # {u}
    /\ \A f \in ActiveAdmins : RowFree(f)
    /\ Restate(u, s)

(* Whom r waits for.                                                       *)
WaitsFor(r) ==
    CASE pc[r] = "token" -> {tokenLock[token[r]]} \ {None}
      [] pc[r] = "user" ->
             ({userLock[user[r]]} \ {None})
                 \cup IF op[r] = "accept" THEN {} ELSE Inserting(user[r])
      [] pc[r] = "insert" -> {userLock[user[r]]} \ {None}
      [] pc[r] = "draw" -> ForUpdate(user[r]) \ {r}
      [] pc[r] = "others" -> IF \E t \in others[r] : tokenLock[t] = None THEN {}
                             ELSE {tokenLock[t] : t \in others[r]}
      [] OTHER -> {}

Deadlocked(r) ==
    \E S \in SUBSET Request :
        r \in S /\ \A q \in S : WaitsFor(q) \cap S # {}

BreakDeadlock(r) == Deadlocked(r) /\ Rollback(r, "error")

LoseRequest(r) == Faults /\ pc[r] # "idle" /\ Rollback(r, "error")
-----------------------------------------------------------------------------
Proceed(r) ==
    \/ BeginConsume(r) \/ LockToken(r) \/ LockUser(r) \/ FindInvitations(r)
    \/ LockOther(r) \/ OthersDone(r) \/ InsertUser(r) \/ DrawToken(r) \/ Publish(r)
    \/ CommitConsumption(r) \/ CommitIssue(r) \/ CommitEnsure(r)
    \/ Decide(r) \/ Announce(r) \/ Withdraw(r) \/ BreakDeadlock(r)

Next ==
    \/ \E r \in Request, t \in Token, o \in {"accept", "confirm"} : Present(r, o, t)
    \/ \E r \in Request, u \in User :
          Resend(r, u) \/ CreateEmployee(r, u) \/ RequestReset(r, u)
    \/ \E r \in Request, f \in Founder : Ensure(r, f)
    \/ \E r \in Request :
          Proceed(r) \/ PublishFails(r) \/ AnnounceFails(r) \/ LoseRequest(r)
    \/ \E t \in Token : Expire(t)
    \/ \E u \in User :
          LockAccount(u) \/ UnlockAccount(u) \/ \E s \in Status \ {"absent"} : SetStatus(u, s)

Spec == Init /\ [][Next]_vars

(* PostgreSQL grants a row to its waiters in the order they came.          *)
FairSpec == Spec /\ \A r \in Request : SF_vars(Proceed(r))
-----------------------------------------------------------------------------
(***************************************************************************)
(* Properties.                                                             *)
(***************************************************************************)
(* Domain invariant 7: a token is good for one acceptance or confirmation, *)
(* however many carry it past the precheck and hash a password meanwhile.  *)
SingleUse == \A t \in Token : uses[t] <= 1

(* RF-001: after a resend only the new invitation is accepted.             *)
NewestInvitationOnly ==
    [][\A t \in Token :
          uses'[t] > uses[t] /\ purpose[t] = "invitation" => t = latest[owner[t]]]_vars

(* When a start of the API commits an invitation, it invalidates no link   *)
(* of the account that was mailed, is unused and has not expired: starts   *)
(* at one time do not take each other's link.                              *)
StartsSpareLive ==
    [][\A r \in Request :
          op[r] = "ensure" /\ pc[r] = "commit" /\ pc'[r] = "announce" =>
              Live(user[r], "invitation") \cap mailed \cap used' = {}]_vars

(* BOOTSTRAP_ADMIN_EMAIL was never changed.                                *)
OneFounder == \A f \in Founder, g \in Founder : f = g

(* Accounts for which no resend runs beside a start of the API.            *)
Settled(u) == u \notin Founder \/ (OneFounder /\ u \notin Reopened)

(* What Invitations sees of the settled accounts: the newest invitation    *)
(* while it is unused, the invitations stored and how often each was       *)
(* accepted, the accounts that are in.                                     *)
Invitee == {u \in User : Settled(u)}

OpenOf(u) == IF Unused(u, "invitation") = {} THEN None ELSE latest[u]

Open     == [u \in Invitee |-> OpenOf(u)]
Issued   == {t \in Token : owner[t] \in Invitee /\ purpose[t] = "invitation"}
Accepted == [t \in Token |-> IF t \in Issued THEN uses[t] ELSE 0]
Member   == {u \in Invitee : status[u] \notin {"absent", "pending"}}

Promise == INSTANCE Invitations
    WITH User <- Invitee, open <- Open, issued <- Issued, accepted <- Accepted, member <- Member

(* Rows, locks and snapshots implement Invitations: whatever resends,      *)
(* acceptances, confirmations, starts and administrators overlap, only the *)
(* newest invitation of an account is accepted, once, and by an account    *)
(* that is not in.                                                         *)
ImplementsInvitations == Promise!Spec

(* What a request committed is on its way: only a start of the API leaves  *)
(* behind an invitation that nobody was mailed.                            *)
StoredWasMailed ==
    \A t \in Token :
        owner[t] # None /\ owner[t] \notin Founder => t \in mailed

(* Acceptance, resend, confirmation and starts lock accounts and tokens in *)
(* different orders; each of them ends.                                    *)
EveryRequestAnswered == \A r \in Request : pc[r] # "idle" ~> pc[r] = "idle"
=============================================================================
