# Identity Hub: verification in TLA+

This directory specifies the concurrent core of the Identity Hub in TLA+, checks
small instances of it with TLC and proves its main invariants, for instances of
any size, with TLAPS. The reference is the code: the Go services under
`src/backend`, and above all the SQL statements under `src/db/queries`, because
in this system the interesting atomicity is PostgreSQL's.

## 1. The system

The Identity Hub is an identity provider. An API process (`backend/cmd/api`)
serves a browser frontend and OAuth clients, keeps all its state in PostgreSQL,
and publishes events to RabbitMQ; a worker (`backend/cmd/worker`) consumes them
and sends mails. Any number of API processes may run. Requests share nothing but
the database, so every race is a race between transactions at READ COMMITTED.

| Component | State it keeps | Operations | Talks to |
| --- | --- | --- | --- |
| Refresh sessions (`auth/refresh`, `auth/logout`, `auth/session`, `store/refresh.go`, `store/logout.go`, `store/sessions.go`) | `refresh_tokens` (status, family, expiry), `hub_sessions` (SSO cookie, family) | rotate, detect a reuse, log out, revoke one session, list | opened by MFA; ended by password reset; reads `users.status` |
| Login, lockout and MFA (`auth/login`, `auth/lockout`, `auth/mfa`, `store/login.go`, `store/mfa.go`) | `users.status`, `locked_until`, failures counted in `audit_log`, `mfa_challenges` | authenticate, issue, resend, verify, cancel, lock and unlock automatically | opens sessions; mails codes through the broker |
| Administration of accounts (`auth/admin`, `store/admin_users.go`) | `users.status`, `user_roles` | change status, replace roles | the accounts every other component reads |
| Account tokens (`auth/passwordreset`, `auth/invitation`, `auth/invitationresend`, `auth/employee`, `auth/bootstrap`) | `verification_tokens`, pending accounts | create an employee, bootstrap the first administrator, resend, accept, request and confirm a reset | mails tokens through the broker; a reset ends sessions |
| OAuth authorization codes (`auth/oauth`, `store/oauth.go`) | `oauth_authorization_codes` | authorize with the SSO cookie, exchange with PKCE | reads `hub_sessions`, roles, account status |
| Event broker (`events`) and worker (`cmd/worker`, `notify`) | RabbitMQ queue and dead-letter queue; the worker's memory of delivered ids | publish with confirms, deliver, retry, dead-letter | fed by all of the above |
| Application roles (`auth/rolegrid`, `auth/roles`, `store/rolegrid.go`) | `roles`, `role_permissions` | create, edit, delete a role | assigned by administration |
| Organizations (`store/organizations.go`) | `organizations`, the company of each account and application | create, assign | a trigger relates roles and companies |
| Service keys (`auth/servicekey`, `store/service_keys.go`) | `service_keys` | issue, authenticate, revoke | machine clients of the API |
| Audit log (`audit`, `auth/auditlog`) | `audit_log`, append-only | insert in the caller's transaction, list, export | lockout counts its rows |
| Frontend refresher (`frontend/src/api`) | access token in memory, shared by a BroadcastChannel and a Web Lock | renew once per browser | the refresh endpoint |

Not state machines, and not modelled (section 12): HTTP parsing and RBAC (`internal/api`),
cryptography (`auth/token`, `auth/password`), configuration and observability,
the pages of the frontend, the demonstration applications (`contabilidad`,
`inventario`), the deployment files, the test support.

### What is hard, and what makes each component correct

* **Refresh sessions.** Concurrent renewals of one cookie; statements that act
  on the rows of an old snapshot; opposite lock orders (token then account,
  account then token). Correct when a family has at most one active token
  (domain invariant 3), a reuse ends the whole family (RF-006), only active
  accounts get tokens (invariant 4), and a session ends completely: with its
  last refresh token goes its SSO session.
* **Login and MFA.** Failures that arrive together, through two paths (password
  and code), against one counter; a code in a mail that cannot be recalled while
  its row can be rolled back; a resend compensated late. Correct when there is
  at most one open challenge per account, at most five in the window, one
  session per challenge (invariant 8), and no session on a locked account.
* **Administration.** Two administrators act on each other at once. Correct when
  an active administrator always remains (invariant 6).
* **Account tokens.** Publishing inside a transaction; retries after an unknown
  outcome; a resend racing an acceptance. Correct when a token is used once, for
  its purpose, and the last mail sent carries a token that works.
* **OAuth codes.** Two exchanges of one code. Correct when a code is exchanged
  once (invariant 10).
* **Broker and worker.** Redelivery after a crash between sending a mail and
  acknowledging. Correct when every published event is mailed or dead-lettered.
* **Roles, organizations.** A role edited while it is assigned; a role and an
  account in different companies (invariants 12 and 13).
* **Service keys.** A key revoked while a request authenticates with it.
* **Frontend.** Several tabs share one cookie that can be used once.

`PROJECT.json` lists the hazards one by one, each at its line, with the
properties that cover it, or says why none does.

## 2. Modules and plan

Every module has an `MC` module and its configurations; `*_proofs` hold theorems.

| Module | Component | Abstract specification or composition |
| --- | --- | --- |
| `RefreshSessions`, `RefreshSessions_proofs` | refresh sessions | implements `SessionFamilies` |
| `AdminUsers`, `AdminUsers_proofs` | administration of accounts | the other writers of `users.status` are its environment |
| `MfaChallenges`, `MfaChallenges_proofs` | MFA challenges | publishes codes, compensates |
| `Lockout`, `Lockout_proofs` | password step, failures, automatic locks | counts what `MfaChallenges` rejects |
| `AccountTokens`, `AccountTokens_proofs` | invitations, resets, employees, bootstrap | implements `Invitations`; a confirmed reset is `BeginReset` of `RefreshSessions` |
| `OAuthCodes`, `OAuthCodes_proofs` | authorization codes | sign-outs and role changes are its environment |
| `Notifications`, `Notifications_proofs` | queue, dead letters, worker | consumes what the others publish |
| `RoleGrid` | roles, permissions, assignment, the company trigger | shares its locks with `AdminUsers` |
| `ServiceKeys` | service keys | runs with `RoleGrid` in `MCDirectory`; `Directory_proofs` is about both |

The suite is kept to a dozen runs, so that it can be repeated on every change: a
module brings one run for its safety and liveness together. Questions that are
narrower, and whose answer is known, are described here as known behaviour.

Every safety property that a passing run checks is also a theorem, for every value
of the constants. Liveness is not: `EveryRequestAnswered`, `EveryUpdateAnswered` and
`EveryEventSettled` rest on fairness and on what is enabled, which this prover does
not reach, and stay with TLC.

What is left, in order of worth:

1. `Notifications` under the publishers of `MfaChallenges` and `AccountTokens`, in
   one module, instead of the outcomes of a publish each of them has now.
2. An abstract specification of what `MfaChallenges` promises (an account has at most
   one open challenge, and a session comes from it alone), implemented by it, as
   `SessionFamilies` is by `RefreshSessions` and `Invitations` by `AccountTokens`.

All modules describe a transaction the same way, introduced below.

## 3. How a transaction is modelled

A request is a transaction at READ COMMITTED. Each SQL statement:

1. takes a snapshot when it starts (the sets a `Begin...` action records);
2. locks the rows it updates or selects `FOR UPDATE`, one at a time and in any
   order unless the statement has an `ORDER BY`, waiting while another
   transaction holds them;
3. re-evaluates its `WHERE` on the newest version of a row that somebody
   *updated* while it waited; rows inserted after the snapshot are not seen.

Writes become visible and locks are released in the single step that commits
(`Finish`). A write before the commit is invisible to every other transaction,
so postponing it to the commit loses nothing. A request may at any time lose its
connection or its context (`LoseRequest`, `store.With...Transaction` defers
`Rollback`), and be the victim of PostgreSQL's deadlock detector
(`BreakDeadlock`), which sees exactly the cycles of transactions that wait for
one another. Foreign keys matter once: the audit record of a logout or of a
revocation references the account, so its insert waits for whoever selected that
account `FOR UPDATE`.

## 4. Refresh sessions

`SessionFamilies` is what the component promises, without SQL: a session is a
family of tokens; it is opened once, has exactly one current token while it is
open, replaces it by one never issued before, and once closed stays closed.

`RefreshSessions` is the code.

| TLA+ | Code |
| --- | --- |
| `status`, `family`, `expired` | `refresh_tokens.status`, `.family_id`, `.expires_at <= now()` |
| `owner`, `hub` | the account and the `hub_sessions` row of a family |
| `account`, `resets` | `users.status`; number of password changes, to bound them |
| `tokenLock`, `userLock` | PostgreSQL row locks |
| `pc`, `arg`, `usr`, `next`, `rows`, `hubs`, `late`, `reply` | a request: where it is, its parameters, its snapshot, its answer |
| `OpenSession` | the commit of `mfa.Verify`: `issueSession` with its refresh token and SSO session |
| `BeginRotate`, `RotateLockToken`, `RotateIssue`, `RotateReject`, `DetectReuse`, `RevokeFamily` | `refresh.Refresh`: `RotateRefreshToken` (one statement), then `RevokeRefreshFamily` in the same transaction |
| `BeginLogout`, `LogoutToken`, `LogoutReject`, `LogoutCommit` | `logout.Logout`: token, SSO sessions of the account, audit |
| `BeginRevoke`, `RevokeCommit`, `RevokeNotFound` | `session.Revoke` |
| `BeginReset`, `ResetLockUser`, `ResetCommit` | `passwordreset.Confirm`: `ConsumePasswordResetTokenAndRevokeSessions` |
| `SetAccount` | lockout, unlock, administrator: any committed write of `users.status` |
| `Expire` | time passes |

Details that decide the results: `RotateRefreshToken` selects its candidate
`FOR UPDATE` from a join, so it locks the token and then the account and
re-checks both; what it found on the token decides between rotation, reuse and
rejection; a detected reuse therefore *holds the account* while the next
statement collects the family. `expires_at > now()` compares with the start of
the transaction (`late`). The broker notice of a reuse is sent after the commit
and changes nothing here.

### Runs

| Run | Question | Result |
| --- | --- | --- |
| `refresh_safety` | do the invariants and the refinement below hold with two concurrent requests, lost requests and deadlocks, and is every request answered? | yes |
| `refresh_reset_race` | does a password reset end every session, as `users.sql:382` says? | no |

Properties of the passing run: `OneActivePerFamily` (domain invariant 3),
`LiveHubHasActiveToken` (a live SSO session belongs to a renewable family),
`ReuseEndsFamily` (RF-006), `OnlyActiveAccountsGetTokens` (invariant 4),
`ImplementsSessionFamilies` (the refinement), `EveryRequestAnswered` (liveness).
`ReuseCoversFamily` (nothing escapes the snapshot of a revocation in progress) is
a theorem, `ReuseCovers`, and no property of a run.

`refresh_reset_race` finds `ResetEndsSessions` violated. The reset is one
statement; its `UPDATE refresh_tokens` sees the rows of its own start. If a
rotation commits after that and before the reset reaches the token row, the new
token is not in the snapshot and is still active after the password changed. (The
SSO session of the family is revoked all the same.)

Two more behaviours of the code that its comments exclude, and the model has:

* *Not found, while the session lives* (`users.sql:316`, `users.sql:343`). A
  logout or a revocation that waited for a rotation of the same token re-checks
  it, finds it rotated and answers that there is no such session, while the
  session lives on with the new token.
* *A reuse that is recognised and revokes nothing* (`refresh.go:195`). A recognised
  reuse holds the account and waits for tokens; a rotation, logout or revocation
  of the same family holds a token and waits for the account. When the detector
  aborts the reuse, its revocation is rolled back, the client gets an error and
  nobody tries again.

### Bounds

`RefreshSafety.cfg`: one account, one family, three tokens, two requests, one
reset, faults on; fairness, so neither symmetry nor view. Two requests are enough
for every conflict in the code, since each conflict is between two statements;
three tokens allow a family to rotate twice, so that a token can be presented
after its rotation and the reuse meets the rotation of its successor. A second
family would let a reset close two sessions at once and an SSO session outlive
the wrong family; the theorems, which need none of these bounds, cover it.
`RefreshResetRace.cfg` is the same instance without faults.

### Fairness

`FairSpec` is strong fairness of each request's `Proceed`. A request that waits
for a row lock is enabled and disabled as others take it; PostgreSQL queues
waiters of a row in arrival order, so one that can be served again and again is
served. Nothing is assumed of clients, expiry or faults.

### Theorems

`RefreshSessions_proofs` proves, for any sets of accounts, families, tokens and
requests and with faults: `TypeCorrect`, `OneActive`, `HubEndsWithFamily`,
`ReuseCovers`, `ReuseEnds`, `OnlyActiveAccounts` and `Refinement` (that
`RefreshSessions` implements `SessionFamilies`). The one assumption is
`ConstantsAssumption`: `None` is none of the other values.

None of the invariants is inductive alone. The inductive one, `IInv`, adds

* `Located`, `Owned`: which token and account a request in flight works on, and
  that it does hold the locks its step implies. One-active-token rests on this:
  a rotation still finds its token as the lock protects it;
* `Reserved`: the new tokens drawn by different requests differ and are absent;
* `Collected`: what a snapshot may contain, so that revoking it never revokes
  a row that does not exist;
* `HubOwned`: only an opened family has an SSO session.

`ReuseCoversFamily` is preserved because a rotation can only add a token to the
family with the account unlocked, and the reuse holds the account.

The refinement maps a family's phase and current token from the set of its
active tokens; `OneActivePerFamily` makes the current token well defined. One
lemma treats renewal, one the four ways of closing, and all other steps stutter.

### Only model-checked, and limits

`EveryRequestAnswered` is only model-checked: it needs fairness. The row locks of `hub_sessions`
are not modelled: every transaction takes them last, after the token or account
lock it shares with its rivals. One reset per account is in flight at a time:
two of them meet on their `verification_tokens` rows first, which belong to
`AccountTokens`. A login is one step, since it works under the account lock and
adds rows nobody else knows yet; the races of a login are about challenges and
belong to `MfaChallenges`. An administrator's or lockout's transaction is one
step for the same reason (`AdminUsers`). A lock of the account taken by a
foreign key is not recorded: it only conflicts with `FOR UPDATE`, and lasts from
the audit record to the commit that immediately follows it.

## 5. Administration of accounts

`AdminUsers` is `PATCH /admin/users/{id}` beside everything else that writes
`users.status`.

| TLA+ | Code |
| --- | --- |
| `account`, `expiring`, `admins` | `users.status`, `locked_until` is set, `user_roles` has `admin` |
| `want`, `grant` | `UpdateInput.Status`, and what `UpdateInput.Roles` does to `admin` |
| `Authorize` | `RequireRole`, then the checks of `UpdateUser` that need no transaction |
| `FindAdmins`, `LockAdmin` | `LockActiveAdminUsers`: snapshot, then rows in the order of their ids |
| `LockTarget` | `GetUserByIDForUpdate`; roles are read by a later statement, so fresh |
| `Refuse`, `Apply` | `applyUserUpdate` from the guard to the commit |
| `Lockout`, `LockExpires`, `ResetPassword`, `AcceptInvitation` | the other writers, in one step each, because they hold the row |

Two facts of PostgreSQL decide the results. A row that a waiting statement finds
*updated* is re-checked against the `WHERE` clause; a row that was only locked is
not, and a change of roles never updates `users`. And the rows the audit record
and `granted_by` reference must not be held by others, so the actor is a third
account an update can wait for.

| Run | Question | Result |
| --- | --- | --- |
| `admin_safety` | does no lock expiry outlive its lock (`ExpiryOnlyOfLocked`), is every update answered (`EveryUpdateAnswered`)? | yes |
| `admin_role_race` | is there always an active administrator (`SomeActiveAdmin`, invariant 6)? | no |

`admin_role_race`: administrators 1 and 2 take the role from each other. The
second update waits for the row of the other administrator, which the first one
locked but did not update, and counts two.

Known behaviour: a manual lock of an account that is already locked keeps the
expiry of the automatic lock. `applyStatusChange` (`admin.go:299`) writes nothing
when the status does not change, so the account unlocks itself later, although the
domain model (`specs/02-domain-model.md:191`) and `users.sql:43` say that a lock
without an automatic end is what an administrator sets.

Bounds of `admin_safety`: two accounts, of which one is an administrator and the
other an invitation until it is accepted; changes of roles, automatic lockouts
and lost requests are on, so the second becomes an administrator, is locked, and
acts on the first. `Wanted` leaves out `"disabled"`: two administrators that
disable each other while lockouts are on end in a state in which nobody can act,
which is the limit stated below and not a fault of the locks. Two updates are a
whole conflict: the guard of each can only be spoiled by the other. Fairness is
that of section 4.

Not stated: which administrators stay *enabled* when automatic lockouts are on.
Two administrators locked by failed logins after they were authorized are no
active administrators, so `removesActiveAdmin` protects neither and they can
disable each other; `SomeActiveAdmin` is therefore asked with `Lockouts` off.

`AdminUsers_proofs` proves `TypeCorrect`, `CountIsFresh`, `ExpiryBelongsToLock`
for any number of accounts and requests, from `AdminAssumption`; and
`StatusChangesKeepAdmin`, that `SomeActiveAdmin` is invariant if `RoleChanges`
and `Lockouts` are off. The inductive invariant relates locks and steps
(`LocksInUse`), so a counted account cannot be written by another transaction;
for the last theorem `KnownAdmins` says that roles stay those of the start. An
update that removes an active administrator has counted at least two, and the
other one is locked by it.

Of the roles only `admin` is kept; a role of another company aborts an update
and belongs to `RoleGrid`.

## 6. MFA challenges

`MfaChallenges` follows a challenge from the login that issues it to the session
it opens, with any number of requests at once.

| TLA+ | Code |
| --- | --- |
| `state`, `owner`, `code`, `attempts`, `created`, `sent` | `mfa_challenges`: row and `used_at`, `user_id`, `code_hash`, `attempts_left`, `created_at`, `last_sent_at` |
| `active` | accounts with status `active` |
| `issuing`, `rowLock`, `userLock` | the advisory lock of the account, the locks of both rows |
| `digits`, `at`, `got` | code and clock reading of a request, the challenge it read |
| `known` | challenges whose token the client was given |
| `drawn`, `confirmed`, `undelivered` | codes drawn, newest one answered with success, handled failures |
| `BeginIssue` ... `StoreChallenge` | `Issue`: clock, transaction, `storeChallenge` statement by statement |
| `PublishConfirmed`, `PublishFailed` | `publishCode`: confirmed, or refused or not confirmed in time (then the mail may go out all the same) |
| `CancelUndelivered`, `RestoreResend` | `cancelUndelivered`, `restoreUndeliveredResend` |
| `LockChallenge`, `LockAccount` | `GetMfaChallengeForUpdate` |
| `Refuse`, `RejectCode`, `AcceptCode`, `ResendChallenge` | `verifyChallenge`, `rejectCode`, `issueSession`, `resendChallenge`, to the commit |
| `ChangeAccount` | lockout, unlock, administrator, reset: any committed change of the account |

Details that decide the results. `Issue` reads the clock *before* it waits for the
advisory lock, so `created_at` does not follow the order of storing.
`SupersedeOpenMfaChallenges` locks the rows of its snapshot one at a time and
re-checks `used_at`; the insert needs the account row for its foreign key.
`Verify` and `Resend` read their clock after both locks. Codes are published
after the commit and compensated in a second transaction, before which anything
may happen. `Granted` is what migration 000006 lets the API's role do.

Abstractions: the codes of a challenge are numbered as they are drawn and 0 is
any wrong code, so two draws never coincide; tokens are the rows they name. A
rejected code may or may not lock the account (the count belongs to `Lockout`).
The notice of an automatic lock, audit records beyond the locks they take, IP and
user agent are left out. `ConsumeMfaChallenge` and `RejectMfaChallenge` act on the
row the request holds, so their own guards are not repeated.

| Run | Question | Result |
| --- | --- | --- |
| `mfa_safety` | one open challenge per account (`OneOpenChallenge`), the limit in every window (`IssuanceCap`), no session on a closed challenge or an inactive account (`SessionOnlyWhileValid`); does a late compensation never undo a delivered code (`ConfirmedCodeStands`) and, given the privilege, remove an undelivered challenge (`UndeliveredIsCancelled`)? | yes |
| `mfa_liveness` | is every request answered? | yes |
| `mfa_undelivered` | is an undelivered challenge gone with the privileges the migrations grant? | no |

`mfa_undelivered`: `identity_app` has no `DELETE` on `mfa_challenges`, so the
compensation of a failed publish is refused; the row nobody can complete stays
open and takes one of the five places of the window, which ADR 0006 (D16)
excludes. The integration tests connect as the owner of the table, where the
statement succeeds. A publish that was taken by the broker and not confirmed in
time is compensated too, so a mail may carry a code that opens nothing; no
property excludes it.

Bounds. One account: challenges of different accounts share nothing. `mfa_safety`:
two challenges with a limit of one, so that the limit is met and the second one
supersedes the first once the window passed; two requests, since each rule can be
broken by one request between two steps of another (the theorems cover more);
three codes, so that a failed resend can be compensated after a later one; four
clock values with window and interval of one tick and a lifetime of three, so
every boundary lies inside; faults on. `mfa_liveness` shortens the times.
`MaxTime` and `MaxCodes` only bound the exploration.

Fairness is that of section 4, for the advisory lock as well as for rows: both
are queues of PostgreSQL's lock manager.

Theorems, from `ConstantsAssumption` alone (any accounts, requests, limits and
privileges, finitely many challenges): `TypeCorrect`, `AtMostOneOpen`,
`IssuancesAreCapped`, `AtMostOneSession`, `SessionsOnValidChallenges`. The
invariant has a part for control, `Control` (`Shape`: what a request works on
exists; `Holding`: which locks it has at which step; `ReadCurrent`: what it read
under the locks still is what the rows say), from which the two theorems on
sessions follow (that a challenge opens one session at most is only a theorem,
`AtMostOneSession`). `Superseding` says that an issuance about to store has every open
challenge of its account in hand or ahead of it: with the advisory lock, this is
why nothing else is open afterwards. `Room` says that the count of an issuance
is still below the limit when it stores. For `IssuanceCap` a new challenge can
fall into the window of an older one or of a *newer* one; both windows lie within
what was counted. Only three actions can open a challenge, add a row or touch a
superseding request; `StepEffects` says so once for all others.

Delivery has an invariant of its own, since the compensation of a resend runs in a
second transaction and may come after any number of later resends. `ConfirmedCodesStand`
(a code answered with success is never replaced by an older one) is preserved because

* `Drafted`: a challenge never falls behind a code that is still on its way;
* `Ordered`: what a resend would restore is no older than a code on its way drawn
  before its own, so compensations in any order never step over one another;
* `Undoable`: nor is it older than a confirmed code, unless a newer one than its own
  was confirmed, and then `restoreUndeliveredResend` finds another code and does nothing.

`UndeliveredAreGone` (a handled failure of a first publish leaves no row) has the
hypothesis `"DELETE" \in Granted`. It is the run's, and not what the migrations
grant: with those the statement is false, as `mfa_undelivered` shows. That every
request is answered is only model-checked.

## 7. Lockout

`Lockout` is the counting of failures: passwords and MFA codes of an account share
one count in `audit_log`, passwords also a limit per address.

| TLA+ | Code |
| --- | --- |
| `status`, `lockedUntil` | `users.status`, `.locked_until` |
| `failures`, `resetAt` | `audit_log`: `login_failed` and `mfa_code_rejected`, the latest `password_reset_completed` |
| `begun`, `now` | the start of a request's transaction, and what `s.now()` returned |
| `CountIP`, `Limited` | `CountLoginFailuresByIP`, before anything is locked |
| `LockUser` | `GetLoginUserByEmail`, `GetMfaChallengeForUpdate`, the reset's update |
| `Lifted`, `StillLocked`, `RefuseLocked`, `Accept` | `login.authenticate`, `resolveLock`, the guards of `verifyChallenge` |
| `Evaluate`, `Fail`, `FailAndLock` | `lockout.EvaluateAccount` with the failure recorded before, and the commit |
| `PublishLockEvent` | the notice, after the commit |
| `CompleteReset` | a confirmed reset: `consumeReset`, `ConsumePasswordResetTokenAndRevokeSessions` |
| `SetStatus` | an administrator |

A reset completes whatever the status of its account: it moves the start of the count
for a disabled account too and leaves that one disabled; only a lock is lifted.

Three clocks decide the results. A failure carries the time its transaction began.
A password attempt counts from a time read *before* it waits for the row, a code
attempt from one read after. A reset moves the start of the count to the time it
began itself, so the boundary is between two transaction starts (D13), not
between two commits.

| Run | Question | Result |
| --- | --- | --- |
| `lockout` | is nobody active past the limit (`ActiveBelowLimit`), is the limit per address overshot by the requests in flight at most (`IPFailuresBounded`), is a lock in force never moved (`LockNotExtended`), does no notice precede its lock (`NoticeOfLock`)? | yes |

Bounds: one account and one address, two requests, an account limit of two and an
address limit of one, a window and a lockout of one tick, two ticks and three
failures: the limit is reached by two attempts together, a lock ends and a
password lifts it, a failure leaves the window. The view leaves out the last
answer and keeps of locks and notices their difference; requests are symmetric.
The run is safety only: the rows a request waits for are one, so there is no cycle
to break.

Limits. Codes count toward the limit per address and are not held back by it, as
in the code. `forgiven` remembers, per account, how many failures were recorded when
an administrator or a reset last activated it: those are not held against the account
by `ActiveBelowLimit`, though the code may still count them, and then the next failure
locks again.
The publication of a notice may fail after the lock is committed; nothing retries
it, so the property has one direction only.

Known behaviour, which shapes the property and its hypothesis:

* *A lock shorter than it should be.* A password attempt reads its clock, waits for the
  row, and in the meantime codes lock the account and an administrator activates it.
  The attempt then counts the old failures and locks again, with an end computed from
  its old clock, which may already be over: the next password lifts it
  (`login.authenticate`, `resolveLock`). The account is active with a full count, and
  nobody has failed since. `ActiveBelowLimit` allows it: the failures counted were
  recorded before the activation, so they are `forgiven`.
* *A lockout shorter than the window.* The configuration accepts any positive
  `LOGIN_LOCKOUT_DURATION` and `LOGIN_FAILURE_WINDOW`. If the first is smaller, a lock
  ends while the failures that led to it are still in the window and the password that
  lifts it leaves the account active above its limit. The defaults are equal.

`Lockout_proofs` proves, from `LockoutAssumption` alone, for any accounts, addresses,
limits and requests: `TypeCorrect`, `IPLimitHolds`, `NoticesFollowLocks`, `LocksStay`;
and `AccountBelowLimit` under the hypothesis `LockOutlastsWindow` (the lockout lasts at
least the window). The argument:

* `Clocks` and `HoldsRow` say which of the three clocks is behind which at each step,
  and that from its lock to its commit an attempt holds the row of its account.
* `CountHolds`: what an attempt counted is at least what it would count now. Nobody
  else can add a failure of the account while it holds the row, so the committed
  failures in its window, with its own, are still bounded by `counted` when it decides.
* `LockCovers`: when a lock ends by itself, fewer failures than the limit are left in the
  window. It is for this that a lock must outlast the window, and it is what allows a
  password to lift the lock. With the count it gives `ActiveBelowLimit`.
* `Admission` counts, with the rejected passwords of an address, the attempts past its
  limit that may still fail; `Announced` counts, with the notices, the locks whose
  notice is still to be published. Both are then inductive by arithmetic of finite sets.

## 8. Account tokens

`AccountTokens` is `verification_tokens`: invitations and password resets.

| TLA+ | Code |
| --- | --- |
| `status`, `owner`, `purpose`, `used`, `expired` | `users.status`; a token's account, purpose, `used_at`, `expires_at <= now()` |
| `advisory` | `pg_advisory_xact_lock` of the bootstrap |
| `mailed` | what the broker took: the only links anybody can present |
| `Present`, `BeginConsume`, `LockToken`, `LockUser` | precheck, hash, then `ConsumeInvitationToken` or `ConsumePasswordResetTokenAndRevokeSessions`: token, then account |
| `FindInvitations`, `LockOther` | `InvalidateInvitationTokens`, and the other resets a confirmation consumes |
| `InsertUser`, `DrawToken`, `Publish`, `PublishFails`, `CommitIssue` | `employee.CreateEmployee`, `invitationresend.Resend`, `passwordreset.Request` |
| `Decide`, `CommitEnsure`, `Announce`, `AnnounceFails`, `Withdraw` | `bootstrap.Ensure` |
| `LockAccount`, `UnlockAccount` | a lockout by failed logins, a login after it |
| `SetStatus` | `PATCH /admin/users/{id}` with a status: `applyUserUpdate` |
| `Expire` | time |

Administrators are the first ones, `Founder`: employees that are given the role are
left to `AdminUsers`. `RequireRole` asks for an active one before the transaction; as
that one may be locked when the transaction runs, `Resend`, `CreateEmployee` and
`SetStatus` ask only for one that is in. `SetStatus` is the update of a status, from its
locks to its commit, in one step: it needs the rows of the target and of the active
administrators free, and refuses to take the last active one away. It may come between
any two steps of the requests; the races between two such updates are in `AdminUsers`.
`applyStatusChange` (`admin.go:298`) accepts all four statuses for any account, invited
or not, and touches no token: a pending account may become active, locked or disabled
with its invitation open, and an account that is in may be set back to pending and
accept again. `Reopened` are the accounts for which an instance allows the latter.
An acceptance updates the account only if it is pending in the snapshot of its
statement and still when its row is locked (`InSnapshot`, `LockUser`).

Most operations publish inside their transaction: a mail may then leave for a
token whose commit fails. Such a link matches no row and the next request issues
another; nothing is stated of it. The start of the API publishes after its commit
and withdraws the invitation if the publish fails; a crash between the two leaves
an invitation nobody has, until it expires.

| Run | Question | Result |
| --- | --- | --- |
| `account_tokens` | does a token serve once (`SingleUse`), do tables and row locks implement `Invitations` (`ImplementsInvitations`), was what a request stored mailed (`StoredWasMailed`), do starts spare live links (`StartsSpareLive`), is every request answered (`EveryRequestAnswered`)? | yes |

`Invitations` is what the component promises of invitations, without SQL, requests or
mails: an account has at most one invitation that can be accepted (`open`); a new one
replaces it and is never one issued before (`issued`); only the open one is accepted,
once (`accepted`), and only by an account that is not in (`member`). It does not
promise that accepting is the only way in: an administrator lets accounts in and out
(`Override`), and an invitation left open by that stays open and can be accepted once
the account is out again.

The refinement mapping takes for `open` the newest invitation of an account while one of
its invitations is unused, for `issued` the stored invitations, for `accepted` the
acceptances counted by `uses`, for `member` the accounts that are neither absent nor
pending. A commit of a resend, an employee or a start is `Invite`; of an acceptance
`Accept`; the compensation of a start `Withdraw`, or nothing if there was nothing left
to withdraw; a change of status that crosses pending is `Override`; everything else,
confirmations, resets and lockouts included, leaves the view as it was. `Accept`
consumes what was open and admits an account that was not in: if an older
invitation were still good, or two acceptances of one could both commit, no step would
match.

The view is of the *settled* accounts (`Settled`): all but those of a changed bootstrap
email and a first administrator in `Reopened`. What may happen to these is described
below, and no document excludes it.

Bounds: two accounts, one of which is the configured administrator, two requests
or starts, two tokens, failing publishes and lost requests; administrators set any
status, and the employee's account may be set back to pending. That gives 500,186 states.
The initial states include installations that are already in use, so an expired invitation need not
be drawn first. Two tokens are what a resend needs to meet the acceptance of the
older one. Fairness is that of section 4; a resend and an acceptance lock account
and token in opposite orders, so `BreakDeadlock` is needed for the last property.

`AccountTokens_proofs` proves `TypeCorrect`, `TokenServesOnce` and
`StoredTokensWereMailed` from `TokensAssumption`, for any accounts, requests and number
of tokens. A token carries no memory of who reads it, so `SingleUse` alone is not
inductive: `Consuming` adds that from its first lock to its commit a consumption
holds the row of its token and that this token is unused, and `Accounted` that an
unused token was never accepted. `Shapes` says at which steps an operation may be
and that an issue which is about to commit was mailed, unless it is a start of the
API for one of the `Founder` accounts. `Drawing` shows that the bound of the model
is harmless: the requests that may still draw are counted, and there is a token for
each.

A second invariant, `Single`, is about invitations: `OneInvitationUnused` (of the
invitations of an account at most the newest is unused), `EmployeesAcceptNewest`,
`NewestIsAccepted` and `StartsSpareLiveLinks` follow from it. Its parts:

* `Holding`: a resend and an employee's creation hold the row of the account from the
  search for old invitations to the commit, a start of the API holds the advisory lock;
* `Fresh`: a drawn token is nobody's, and no two requests carry the same one;
* `Found`: who issues an invitation holds every unused one of the account, or has it
  still ahead in its snapshot. No other issuer can add one meanwhile, because it would
  need the same lock; this is why a snapshot taken before waiting for rows is enough;
* `OneUnused`: hence what is stored at the commit is the only one left.

A third invariant, `Matching`, is what the refinement needs beyond these:

* `Fitting`: a request holds, or has ahead in its snapshot, only tokens of its own
  account and of the purpose of its operation; and an acceptance that is about to commit
  holds the row of an account that is still pending;
* `Blank`: a token that was not stored is unused and nobody's, so what a commit stores
  is new and good.

`InvitationsKept` is then proved step by step: `StoreInvites`, `AcceptRefines` and
`WithdrawRefines` for the three steps above, `StoredResetView`, `ConfirmView` and
`TablesView` for those the abstract specification does not see.
Run `account_tokens` checks the same on its small instance, and
`NewestIsAccepted` says of the tables which invitation an acceptance consumed; no run is
kept for it.

An account may be served by both kinds of issuer only if it is a configured first
administrator. A resend holds its row and a start the advisory lock, so the two do not
exclude each other. With one bootstrap email they never meet, as long as nobody sets
that administrator back to pending: before the acceptance there is no other who could
ask for a resend (part of `Holding`). Hence `Settled`, which is `OneFounder` and not
`Reopened` for a first administrator and nothing for anybody else. `InvitationsKept`
needs no hypothesis, since the view is of the settled accounts; `NewestIsAccepted` and
`StartsSpareLiveLinks` speak of all accounts and have the hypothesis that every
`Founder` is settled; `EmployeesAcceptNewest` and the first theorems need neither.
`EveryRequestAnswered` is model-checked only.

Known behaviour: a start that found only an expired invitation may decide to issue one
while an acceptance of the expired one, begun in time, is about to commit. The start
then stores and mails an invitation for an administrator who is already in. It opens
nothing, since an acceptance requires a pending account; `Invitations` therefore lets
`Invite` happen to a member.

Known behaviour, the first administrator set back to pending. An administrator whom
failed logins have locked is no active one, so `removesActiveAdmin` (`admin.go:291`) lets
an update that was authorized earlier set that account back to `pending_verification`.
A resend authorized earlier may then run beside a start of the API, which finds no
administrator: neither takes the other's lock, and two invitations are live, or a second
is issued beside an acceptance. TLC finds it with two tokens when `Reopened` holds the
configured administrator and the view includes that account.

Known behaviour with a changed bootstrap email: changing the bootstrap email while an earlier
pending administrator has a live invitation leaves both live (`bootstrap.go:126`). And
while a start for the new address is between its decision and its commit, the earlier
administrator may accept, sign in and resend the invitation of the new account.
`reissueIfPending` never locks that account, so the start either misses the resend's
invitation, and two can be accepted, or invalidates it although its mail has just left.
TLC finds both within three tokens when `Founder` has two accounts; no document says
what a changed email must do, so there is no run for it.

## 9. OAuth authorization codes

`OAuthCodes` is the life of the codes of one application.

| TLA+ | Code |
| --- | --- |
| `owner`, `used`, `expired`, `codeLock` | `oauth_authorization_codes` and its row locks |
| `signedIn`, `holds`, `Insider` | live SSO sessions of active accounts; roles of the application; accounts of its company |
| `ReadSession`, `CheckAccess`, `CreateCode`, `AuditIssue` | `oauth.Authorize`: four statements that commit one by one |
| `Present`, `FindCode`, `LockCode`, `LookUpOwner`, `Commit` | `oauth.Exchange`: `GetAuthorizationCodeForUpdate`, `MarkAuthorizationCodeUsed`, `GetUsedAuthorizationCodeOwner` |
| `CommitUnanswered` | the commit or the signature after it fails: the code is gone, no token left |
| `SignOut`, `ReplaceRoles`, `Expire` | the other components |

`GetAuthorizationCodeForUpdate` asks for an unused, unexpired code. An exchange that
waited for a rival therefore finds *no row*; only the look-up that follows tells
a code used twice from one that never was.

| Run | Question | Result |
| --- | --- | --- |
| `oauth_codes` | does a code give one access token at most (`ExchangedOnce`), is its second use audited (`SecondUseIsAudited`), is every request answered (`EveryRequestAnswered`)? | yes |

Bounds: two accounts, one of another company, one role, two codes, two requests,
faults on. The comparison with client, redirect URI and PKCE verifier is one
Boolean chosen when the code is presented. Fairness is that of section 4; an
exchange waits for one row, so no cycle exists.

`OAuthCodes_proofs` proves `TypeCorrect`, `OneTokenPerCode` and
`SecondUseAudited` from `OAuthAssumption`, for any accounts, roles, codes and
requests. The invariant says that an exchange past its update holds the row of its code
and that this code is unused, and that a code which gave a token is used; so no
second exchange can pass its own update. For the audit it says that a request
which came after the use never looks for an unused row.

Known behaviour: the exchange reads roles and permissions after the code is
marked and makes none of them a condition (`oauth.go:258`), so an account whose
roles were taken between authorization and exchange gets a token without any
role; the domain model's invariant 14 speaks of the authorization. The purges of
old codes and sessions have no caller under `cmd/`.

## 10. Event broker and worker

`Notifications` is the queue `notifications`, its dead letters, and the worker.

| TLA+ | Code |
| --- | --- |
| `ready`, `unacked`, `dead`, `returned` | the quorum queue, deliveries in flight, `notifications.dlq`, `x-delivery-count` (external, from the topology) |
| `seen` | the worker's memory of delivered identifiers, purged after an hour |
| `Deliver`, `Reject`, `DropDuplicate`, `Take`, `SkipNobody`, `Send`, `SendFails`, `MarkDelivered`, `Acknowledge` | `handle` in `cmd/worker/main.go` and `notify` |
| `Crash`, `Start` | the process ends and is restarted by the deployment |
| `Forget`, `Move` | an identifier expires from the memory; the operator empties the dead letters |

| Run | Question | Result |
| --- | --- | --- |
| `notifications` | is no event lost (`NothingLost`), has a second mail always an excuse (`SecondMailExcused`), is every event settled (`EveryEventSettled`)? | yes |

A mail leaves before its identifier is remembered and before the delivery is
acknowledged, and neither can be undone. A crash in between, or a lost answer to
SMTP `DATA`, sends the mail again: `SecondMailExcused` counts exactly these. The
comment `events.go:38` and the topology document say that a retry of the
broker sends no second mail; they are true of a worker that keeps running, which
is what the property says. Within one life of the worker `seen` only matters for
copies duplicated by an interrupted move.

Bounds: two events of any kind, two deliveries in flight, two attempts instead of
three, two crashes, two moves. Two events are what a crash needs to take back one
in hand and one waiting. Fairness: weak, of the worker's loop and of its restart;
the broker delivers while the worker consumes. Crashes are bounded by the
delivery limit in the broker and by `MaxCrashes` in the model.

`Notifications_proofs` proves `TypeCorrect`, `NoEventIsLost` and `MailsAreExcused` from
`NotificationsAssumption`, for any events, limits, crashes and moves. An event is *known*
while the worker remembers it or holds it sent; `UnknownIsExcused` says that an event
the worker does not know has only excused mails, which is what allows it to send one
more, and `KnownIsSettled` that what it drops as a duplicate was mailed or is nobody's.
`InHand` relates the worker's step to its memory. `EveryEventSettled` is model-checked
only.

Outside: the publisher's confirm and its timeout are in the modules that publish.

## 11. Roles and service keys

`RoleGrid` is the administration of an application's roles beside their
assignment; `ServiceKeys` the keys of machine clients.

| TLA+ | Code |
| --- | --- |
| `life`, `perms`, `holds` | `roles`, `role_permissions`, `user_roles` |
| `roleLock`, `sharing` | `FOR UPDATE` of a role, and the share lock of a foreign key on it |
| `usersLock` | the rows of the administrators, as `AdminUsers` takes them |
| `Create`, `InsertRole`; `Update`, `Delete`, `LockRole`, `Decide`, `AuditAndCommit` | `rolegrid.Service`, in one transaction each |
| `Assign`, `LockUsers`, `GrantRole`, `CommitRoles` | `ReplaceRoles` of `PATCH /admin/users/{id}`, with the company trigger |
| `issued`, `revoked`, `lastUsed`, `keyLock` | `service_keys` |
| `CreateKey`, `Revoke`, `LockKey`, `CommitRevocation` | `servicekey.Create`, `Revoke` |
| `Present`, `Check`, `Touch`, `TouchFails` | `Authenticate` and `TouchServiceKeyLastUsed` |

| Run | Question | Result |
| --- | --- | --- |
| `directory` | do the controls of ADR 0013 hold when an edit commits (`ControlsStand`), does the last audit event tell a role's permissions (`AuditTellsPermissions`), do the rows of a key only move forward (`RowsAdvance`)? | yes |

The two modules share no row and no lock: in `MCDirectory` each moves while the
other rests at its beginning, so one run asks both questions without the product
of their states. Deadlock is checked. An edit locks the role and then, through
the audit's foreign key, the row of its actor; an assignment locks the rows of the
administrators and then the role. This is a real cycle, which the detector breaks;
the victim answers 500.

Bounds: two administrators and a user of another company, a seeded role and one
to be created, two permissions of which one is declared, two requests; one key,
two clients, a lifetime of three ticks. Names are not created again after a
deletion. The creation of an employee grants roles as `Assign` does, without the
locks of the administrators.

`Directory_proofs` proves, from the assumptions of the two modules and for any roles,
accounts, keys and requests, `RoleTypeCorrect`, `AuditIsTrue`, `ControlsHold`,
`KeyTypeCorrect` and `KeyRowsAdvance`; and, since each step of the composition is a
step of one part and leaves the other alone, `PartsStand` (the composition implements
both specifications, so all these hold of it) and `DirectoryTypeCorrect`. The controls are read before the audit and the
commit; `EditsHold` says that the role stays locked from one to the other and is as the
edit found it, `GrantsShare` that whoever is granting a role shares its lock, so that
no editor can have it, and `Controlled`, which follows step by step from the two, that
what was found is still so. For keys, `Revoking` says that a revocation holds a key
that is in force and `OnIssued` that a use about to be recorded is not in the future.

Abstractions: the company of an account never changes in the code, so it is the
constant `Foreign`. A request that authenticated with a key just before its
revocation commits is served: the key is read once, and no document promises more.

## 12. Not modelled

* *Audit log listing and export*: read only. The insertions are in the modules
  whose transaction they belong to, where a lock or a count depends on them.
* *Frontend refresher*: within a tab one shared promise renews;
  tabs take turns through a Web Lock and hand each other the new token through a
  BroadcastChannel (`api/client.ts:114-128`). The server does not rely on it: in
  `RefreshSessions` any two requests may present the same token.
* *API process and handlers*: parsing, cookies, CORS and routing hold no state; the
  handlers' beginnings and answers are the first and last steps of the requests
  modelled. The start of the process is `AccountTokens!Ensure`.
* *Access tokens, password hashing*: cryptography; a token or a hash is a model
  value that fits or does not.
* *Configuration, observability, pages, demonstration applications, deployment,
  test support*: no state the other components depend on.
* *Organizations*: what the trigger and the authorization make of a company is in
  `RoleGrid` and `OAuthCodes`; the rest is read only.
