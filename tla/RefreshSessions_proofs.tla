----------------------- MODULE RefreshSessions_proofs -----------------------
(***************************************************************************)
(* Proofs about RefreshSessions for any number of accounts, sessions,      *)
(* tokens and concurrent requests, with or without faults.                 *)
(***************************************************************************)
EXTENDS RefreshSessions, TLAPS

(* A drawn token is still unissued and belongs to one request.             *)
Reserved ==
    \A r \in Request : next[r] # None =>
        /\ status[next[r]] = "absent"
        /\ \A q \in Request : next[q] = next[r] => q = r

OnToken == {"rotateToken", "rotateUser", "reuse", "logout", "logoutAudit", "revoke"}

(* What a request in flight knows about its token and its account; a       *)
(* request that detected a reuse still holds the account row.              *)
Located ==
    \A r \in Request :
        /\ pc[r] # "idle" => reply[r] = "none"
        /\ pc[r] \in {"rotateToken", "rotateUser", "reuse"} => next[r] # None
        /\ pc[r] \in OnToken =>
              /\ arg[r] \in Token /\ status[arg[r]] # "absent"
              /\ usr[r] \in User /\ usr[r] = Owner(arg[r])
        /\ pc[r] \in {"reset", "resetRows"} => usr[r] \in User
        /\ pc[r] = "reuse" => userLock[usr[r]] = r

(* The rows and SSO sessions a statement collected: a live SSO session of  *)
(* a collected token was collected with it.                                *)
Collected ==
    \A r \in Request :
        /\ \A t \in rows[r] : status[t] # "absent"
        /\ \A f \in hubs[r] : owner[f] # None
        /\ pc[r] \in {"logout", "logoutAudit", "revoke"} => rows[r] = {arg[r]}
        /\ pc[r] = "reuse" => rows[r] \subseteq Members(family[arg[r]])
        /\ pc[r] \in {"logoutAudit", "reset", "resetRows"} =>
              \A t \in rows[r] : hub[family[t]] = "live" => family[t] \in hubs[r]

(* Tokens and SSO sessions belong to families that have been opened.       *)
Owned == \A t \in Token : status[t] # "absent" => Owner(t) # None

HubOwned == \A f \in Family : hub[f] # "none" => owner[f] # None

IInv ==
    /\ TypeOK
    /\ Reserved
    /\ Located
    /\ Collected
    /\ Owned
    /\ HubOwned
    /\ OneActivePerFamily
    /\ LiveHubHasActiveToken
    /\ ReuseCoversFamily

USE ConstantsAssumption

(* The empty database satisfies the inductive invariant.                   *)
LEMMA InitIInv == Init => IInv
  BY DEF Init, IInv, TypeOK, TokenStatus, Account, Step, Reply, Reserved, Located,
         Collected, Owned, HubOwned, Owner, OneActivePerFamily, LiveHubHasActiveToken,
         ReuseCoversFamily, FamilyRows, Members, Revocable, Active, OnToken

(* Every statement, commit, rollback, deadlock victim and external change  *)
(* of an account preserves the inductive invariant.                        *)
LEMMA NextIInv == IInv /\ [Next]_vars => IInv'
<1> SUFFICES ASSUME IInv, [Next]_vars PROVE IInv'
  OBVIOUS
<1> USE DEF IInv, TypeOK, TokenStatus, Account, Step, Reply, Reserved, Located, OnToken,
       Collected, Owned, HubOwned, Owner, OneActivePerFamily, LiveHubHasActiveToken,
       Active, ReuseCoversFamily, FamilyRows, Members, Revocable, tables, locks,
       progress
<1>1. ASSUME NEW u \in User, NEW f \in Family, NEW t \in Token, OpenSession(u, f, t) PROVE IInv'
  <2>1. TypeOK'
    BY <1>1 DEF OpenSession, Unused
  <2>2. Reserved'
    BY <1>1 DEF OpenSession, Unused
  <2>3. Located'
    BY <1>1 DEF OpenSession, Unused
  <2>4. Collected'
    BY <1>1 DEF OpenSession, Unused
  <2>5. Owned'
    BY <1>1 DEF OpenSession, Unused
  <2>6. HubOwned'
    BY <1>1 DEF OpenSession, Unused
  <2>7. OneActivePerFamily'
    BY <1>1 DEF OpenSession, Unused
  <2>8. LiveHubHasActiveToken'
    BY <1>1 DEF OpenSession, Unused
  <2>9. ReuseCoversFamily'
    BY <1>1 DEF OpenSession, Unused
  <2>. QED
    BY <2>1, <2>2, <2>3, <2>4, <2>5, <2>6, <2>7, <2>8, <2>9 DEF IInv
<1>2. ASSUME NEW r \in Request, NEW t \in Token, NEW n \in Token, BeginRotate(r, t, n) PROVE IInv'
  BY <1>2 DEF BeginRotate, Begin, Unused
<1>3. ASSUME NEW r \in Request, NEW t \in Token, BeginLogout(r, t) PROVE IInv'
  BY <1>3 DEF BeginLogout, Begin
<1>4. ASSUME NEW r \in Request, NEW t \in Token, BeginRevoke(r, t) PROVE IInv'
  BY <1>4 DEF BeginRevoke, Begin
<1>5. ASSUME NEW r \in Request, NEW u \in User, BeginReset(r, u) PROVE IInv'
  BY <1>5 DEF BeginReset, Begin, AccountRows, LiveHubs
<1>6. ASSUME NEW r \in Request, LockRow(r) PROVE IInv'
  BY <1>6 DEF LockRow
<1>7. ASSUME NEW r \in Request, RotateLockToken(r) PROVE IInv'
  BY <1>7 DEF RotateLockToken
<1>8. ASSUME NEW r \in Request, RotateIssue(r) PROVE IInv'
  <2> DEFINE a == arg[r]
             n == next[r]
  <2>0. /\ a \in Token /\ n \in Token /\ a # n
        /\ family[a] \in Family /\ status[n] = "absent"
    BY <1>8 DEF RotateIssue, Candidate, Rotatable
  <2>1. TypeOK'
    <3>1. status' = [status EXCEPT ![a] = "rotated", ![n] = "active"]
      BY <1>8 DEF RotateIssue
    <3>2. family' = [family EXCEPT ![n] = family[a]]
      BY <1>8 DEF RotateIssue
    <3>3. /\ status' \in [Token -> TokenStatus]
          /\ family' \in [Token -> Family \cup {None}]
      BY <2>0, <3>1, <3>2
    <3>4. \A t \in Token : status'[t] = "absent" <=> family'[t] = None
      BY <2>0, <3>1, <3>2
    <3>5. /\ tokenLock' \in [Token -> Request \cup {None}]
          /\ userLock' \in [User -> Request \cup {None}]
      BY <1>8 DEF RotateIssue, Finish
    <3>6. /\ pc' \in [Request -> Step] /\ arg' \in [Request -> Token \cup {None}]
          /\ usr' \in [Request -> User \cup {None}]
          /\ next' \in [Request -> Token \cup {None}]
          /\ rows' \in [Request -> SUBSET Token]
          /\ hubs' \in [Request -> SUBSET Family]
          /\ late' \in [Request -> BOOLEAN] /\ reply' \in [Request -> Reply]
      BY <1>8 DEF RotateIssue, Finish
    <3>. QED
      BY <3>3, <3>4, <3>5, <3>6, <1>8 DEF RotateIssue
  <2>2. Reserved'
    BY <1>8 DEF RotateIssue, Candidate, Rotatable, Finish
  <2>3. Located'
    BY <1>8 DEF RotateIssue, Candidate, Rotatable, Finish
  <2>4. Collected'
    BY <1>8 DEF RotateIssue, Candidate, Rotatable, Finish
  <2>5. Owned'
    BY <1>8 DEF RotateIssue, Candidate, Rotatable, Finish
  <2>6. HubOwned'
    BY <1>8 DEF RotateIssue, Candidate, Rotatable, Finish
  <2>7. OneActivePerFamily'
    BY <1>8, SMTT(30) DEF RotateIssue, Candidate, Rotatable, Finish
  <2>8. LiveHubHasActiveToken'
    BY <1>8, SMTT(30) DEF RotateIssue, Candidate, Rotatable, Finish
  <2>9. ReuseCoversFamily'
    BY <1>8 DEF RotateIssue, Candidate, Rotatable, Finish
  <2>. QED
    BY <2>1, <2>2, <2>3, <2>4, <2>5, <2>6, <2>7, <2>8, <2>9 DEF IInv
<1>9. ASSUME NEW r \in Request, DetectReuse(r) PROVE IInv'
  <2>1. TypeOK'
    BY <1>9 DEF DetectReuse, Candidate
  <2>2. Reserved'
    BY <1>9 DEF DetectReuse, Candidate
  <2>3. Located'
    BY <1>9 DEF DetectReuse, Candidate
  <2>4. Collected'
    BY <1>9 DEF DetectReuse, Candidate
  <2>5. Owned'
    BY <1>9 DEF DetectReuse, Candidate
  <2>6. HubOwned'
    BY <1>9 DEF DetectReuse, Candidate
  <2>7. OneActivePerFamily'
    BY <1>9 DEF DetectReuse, Candidate
  <2>8. LiveHubHasActiveToken'
    BY <1>9 DEF DetectReuse, Candidate
  <2>9. ReuseCoversFamily'
    BY <1>9 DEF DetectReuse, Candidate
  <2>. QED
    BY <2>1, <2>2, <2>3, <2>4, <2>5, <2>6, <2>7, <2>8, <2>9 DEF IInv
<1>10. ASSUME NEW r \in Request, RotateReject(r) PROVE IInv'
  BY <1>10 DEF RotateReject, Rollback, Finish
<1>11. ASSUME NEW r \in Request, RevokeFamily(r) PROVE IInv'
  <2>1. TypeOK'
    BY <1>11 DEF RevokeFamily, RevokeTokens, RevokeHubs, Finish
  <2>2. Reserved'
    BY <1>11 DEF RevokeFamily, RevokeTokens, RevokeHubs, Finish
  <2>3. Located'
    BY <1>11 DEF RevokeFamily, RevokeTokens, RevokeHubs, Finish
  <2>4. Collected'
    BY <1>11 DEF RevokeFamily, RevokeTokens, RevokeHubs, Finish
  <2>5. Owned'
    BY <1>11 DEF RevokeFamily, RevokeTokens, RevokeHubs, Finish
  <2>6. HubOwned'
    BY <1>11 DEF RevokeFamily, RevokeTokens, RevokeHubs, Finish
  <2>7. OneActivePerFamily'
    BY <1>11 DEF RevokeFamily, RevokeTokens, RevokeHubs, Finish
  <2>8. LiveHubHasActiveToken'
    BY <1>11 DEF RevokeFamily, RevokeTokens, RevokeHubs, Finish
  <2>9. ReuseCoversFamily'
    BY <1>11 DEF RevokeFamily, RevokeTokens, RevokeHubs, Finish
  <2>. QED
    BY <2>1, <2>2, <2>3, <2>4, <2>5, <2>6, <2>7, <2>8, <2>9 DEF IInv
<1>12. ASSUME NEW r \in Request, LogoutToken(r) PROVE IInv'
  BY <1>12 DEF LogoutToken, LiveHubs
<1>13. ASSUME NEW r \in Request, LogoutReject(r) PROVE IInv'
  BY <1>13 DEF LogoutReject, Rollback, Finish
<1>14. ASSUME NEW r \in Request, LogoutCommit(r) PROVE IInv'
  <2>1. TypeOK'
    BY <1>14 DEF LogoutCommit, RevokeTokens, RevokeHubs, Finish
  <2>2. Reserved'
    BY <1>14 DEF LogoutCommit, RevokeTokens, RevokeHubs, Finish
  <2>3. Located'
    BY <1>14 DEF LogoutCommit, RevokeTokens, RevokeHubs, Finish
  <2>4. Collected'
    BY <1>14 DEF LogoutCommit, RevokeTokens, RevokeHubs, Finish
  <2>5. Owned'
    BY <1>14 DEF LogoutCommit, RevokeTokens, RevokeHubs, Finish
  <2>6. HubOwned'
    BY <1>14 DEF LogoutCommit, RevokeTokens, RevokeHubs, Finish
  <2>7. OneActivePerFamily'
    BY <1>14 DEF LogoutCommit, RevokeTokens, RevokeHubs, Finish
  <2>8. LiveHubHasActiveToken'
    BY <1>14 DEF LogoutCommit, RevokeTokens, RevokeHubs, Finish
  <2>9. ReuseCoversFamily'
    BY <1>14 DEF LogoutCommit, RevokeTokens, RevokeHubs, Finish
  <2>. QED
    BY <2>1, <2>2, <2>3, <2>4, <2>5, <2>6, <2>7, <2>8, <2>9 DEF IInv
<1>15. ASSUME NEW r \in Request, RevokeCommit(r) PROVE IInv'
  BY <1>15 DEF RevokeCommit, RevokeTokens, RevokeHubs, Finish
<1>16. ASSUME NEW r \in Request, RevokeNotFound(r) PROVE IInv'
  BY <1>16 DEF RevokeNotFound, Rollback, Finish
<1>17. ASSUME NEW r \in Request, ResetLockUser(r) PROVE IInv'
  BY <1>17 DEF ResetLockUser
<1>18. ASSUME NEW r \in Request, ResetCommit(r) PROVE IInv'
  <2>1. TypeOK'
    BY <1>18 DEF ResetCommit, RevokeTokens, RevokeHubs, Finish
  <2>2. Reserved'
    BY <1>18 DEF ResetCommit, RevokeTokens, RevokeHubs, Finish
  <2>3. Located'
    BY <1>18 DEF ResetCommit, RevokeTokens, RevokeHubs, Finish
  <2>4. Collected'
    BY <1>18 DEF ResetCommit, RevokeTokens, RevokeHubs, Finish
  <2>5. Owned'
    BY <1>18 DEF ResetCommit, RevokeTokens, RevokeHubs, Finish
  <2>6. HubOwned'
    BY <1>18 DEF ResetCommit, RevokeTokens, RevokeHubs, Finish
  <2>7. OneActivePerFamily'
    BY <1>18 DEF ResetCommit, RevokeTokens, RevokeHubs, Finish
  <2>8. LiveHubHasActiveToken'
    BY <1>18 DEF ResetCommit, RevokeTokens, RevokeHubs, Finish
  <2>9. ReuseCoversFamily'
    BY <1>18 DEF ResetCommit, RevokeTokens, RevokeHubs, Finish
  <2>. QED
    BY <2>1, <2>2, <2>3, <2>4, <2>5, <2>6, <2>7, <2>8, <2>9 DEF IInv
<1>19. ASSUME NEW r \in Request, BreakDeadlock(r) PROVE IInv'
  BY <1>19 DEF BreakDeadlock, Rollback, Finish
<1>20. ASSUME NEW r \in Request, LoseRequest(r) PROVE IInv'
  BY <1>20 DEF LoseRequest, Rollback, Finish
<1>21. ASSUME NEW u \in User, NEW s \in Account, SetAccount(u, s) PROVE IInv'
  BY <1>21 DEF SetAccount
<1>22. ASSUME NEW t \in Token, Expire(t) PROVE IInv'
  BY <1>22 DEF Expire
<1>23. CASE UNCHANGED vars
  BY <1>23 DEF vars
<1> HIDE DEF IInv, TypeOK, TokenStatus, Account, Step, Reply, Reserved, Located,
       OnToken, Collected, Owned, HubOwned, Owner, OneActivePerFamily,
       LiveHubHasActiveToken, Active, ReuseCoversFamily, FamilyRows, Members, Revocable,
       tables, locks, progress
<1>. QED
  BY <1>1, <1>2, <1>3, <1>4, <1>5, <1>6, <1>7, <1>8, <1>9, <1>10, <1>11, <1>12, <1>13,
         <1>14, <1>15, <1>16, <1>17, <1>18, <1>19, <1>20, <1>21, <1>22, <1>23 DEF Next,
         Proceed

(* IInv is inductive: it holds in every reachable state. *)
LEMMA Invariance == Spec => []IInv
<1>1. Init => IInv
  BY InitIInv
<1>2. IInv /\ [Next]_vars => IInv'
  BY NextIInv
<1>. QED
  BY <1>1, <1>2, PTL DEF Spec

-----------------------------------------------------------------------------
(* Every row keeps its type, and a row exists exactly when it has a family *)
(* (the NOT NULL columns of refresh_tokens).                               *)
THEOREM TypeCorrect == Spec => []TypeOK
<1>1. IInv => TypeOK
  BY DEF IInv
<1>. QED
  BY <1>1, Invariance, PTL

(* Domain invariant 3: no interleaving of rotations, logouts, revocations  *)
(* and resets gives a family two active tokens, so the unique index on     *)
(* refresh_tokens is never what stops a rotation.                          *)
THEOREM OneActive == Spec => []OneActivePerFamily
<1>1. IInv => OneActivePerFamily
  BY DEF IInv
<1>. QED
  BY <1>1, Invariance, PTL

(* Ending a family by any of the four ways ends its SSO session.           *)
THEOREM HubEndsWithFamily == Spec => []LiveHubHasActiveToken
<1>1. IInv => LiveHubHasActiveToken
  BY DEF IInv
<1>. QED
  BY <1>1, Invariance, PTL

(* The snapshot of RevokeRefreshFamily misses no token of the family,      *)
(* because rotation needs the account row the reuse still holds.           *)
THEOREM ReuseCovers == Spec => []ReuseCoversFamily
<1>1. IInv => ReuseCoversFamily
  BY DEF IInv
<1>. QED
  BY <1>1, Invariance, PTL

(* RF-006: after the answer "reuse" nothing of the family can be renewed.  *)
THEOREM ReuseEnds == Spec => ReuseEndsFamily
<1> DEFINE Ends == \A r \in Request, f \in Family :
                pc[r] = "reuse" /\ reply'[r] = "reused" /\ f = family[arg[r]] =>
                    Active(f)' = {} /\ hub'[f] # "live"
<1>1. IInv /\ [Next]_vars => [Ends]_vars
  <2> SUFFICES ASSUME IInv, Next, NEW r \in Request, NEW f \in Family,
                      pc[r] = "reuse", reply'[r] = "reused", f = family[arg[r]]
               PROVE  Active(f)' = {} /\ hub'[f] # "live"
    OBVIOUS
  <2>1. reply[r] = "none"
    BY DEF IInv, Located
  <2>2. PICK q \in Request : Proceed(q) \/ LoseRequest(q)
    BY <2>1 DEF Next, OpenSession, BeginRotate, BeginLogout, BeginRevoke, BeginReset,
       Begin, SetAccount, Expire, progress, IInv, TypeOK
  <2> USE DEF Proceed, LockRow, RotateLockToken, RotateIssue, DetectReuse,
       RotateReject, RevokeFamily, LogoutToken, LogoutReject, LogoutCommit,
       RevokeCommit, RevokeNotFound, ResetLockUser, ResetCommit, BreakDeadlock,
       LoseRequest, Finish, Rollback, Candidate, progress
  <2>3. reply' = reply \/ \E answer \in Reply : reply' = [reply EXCEPT ![q] = answer]
    BY <2>2 DEF Reply
  <2>a. q = r
    BY <2>1, <2>3 DEF IInv, TypeOK
  <2>b. RevokeFamily(r)
    BY <2>1, <2>2, <2>a DEF IInv, TypeOK
  <2>4. FamilyRows(f) \subseteq rows[r]
    BY DEF IInv, ReuseCoversFamily
  <2>5. /\ status' = [t \in Token |-> IF t \in rows[r] THEN "revoked" ELSE status[t]]
        /\ family' = family
        /\ hub'[f] # "live"
    BY <2>b DEF RevokeFamily, RevokeTokens, RevokeHubs, IInv, TypeOK
  <2>6. Active(f)' = {}
    BY <2>4, <2>5 DEF Active, FamilyRows, Revocable, Members, IInv, TypeOK, TokenStatus
  <2>. QED
    BY <2>5, <2>6
<1>2. Spec => [][Ends]_vars
  BY <1>1, Invariance, PTL DEF Spec
<1>. QED
  BY <1>2 DEF ReuseEndsFamily

(* Domain invariant 4: tokens are only issued to active accounts.          *)
THEOREM OnlyActiveAccounts == Spec => OnlyActiveAccountsGetTokens
<1> DEFINE Entitled == \A t \in Token :
                status[t] # "active" /\ status'[t] = "active" =>
                    account[owner'[family'[t]]] = "active"
<1>1. IInv /\ [Next]_vars => [Entitled]_vars
  <2> SUFFICES ASSUME IInv, Next, NEW t \in Token,
                      status[t] # "active", status'[t] = "active"
               PROVE  account[owner'[family'[t]]] = "active"
    OBVIOUS
  <2>1. \/ \E u \in User, f \in Family, n \in Token : OpenSession(u, f, n)
        \/ \E r \in Request : RotateIssue(r)
    BY ZenonT(30) DEF Next, Proceed, BeginRotate, BeginLogout, BeginRevoke,
       BeginReset, Begin, LockRow, RotateLockToken, DetectReuse,
       RotateReject, RevokeFamily, LogoutToken, LogoutReject, LogoutCommit,
       RevokeCommit, RevokeNotFound, ResetLockUser, ResetCommit, BreakDeadlock,
       LoseRequest, SetAccount, Expire, Rollback, RevokeTokens, tables
  <2>2. CASE \E u \in User, f \in Family, n \in Token : OpenSession(u, f, n)
    BY <2>2 DEF OpenSession, IInv, TypeOK
  <2>3. CASE \E r \in Request : RotateIssue(r)
    BY <2>3 DEF RotateIssue, Candidate, IInv, TypeOK, Located, OnToken, Owner, Reserved
  <2>. QED
    BY <2>1, <2>2, <2>3
<1>2. Spec => [][Entitled]_vars
  BY <1>1, Invariance, PTL DEF Spec
<1>. QED
  BY <1>2 DEF OnlyActiveAccountsGetTokens

-----------------------------------------------------------------------------
(***************************************************************************)
(* RefreshSessions implements SessionFamilies.                             *)
(***************************************************************************)
(* In a family with one active token at most, the mapped current token is  *)
(* that token.                                                             *)
LEMMA SingleActive ==
    ASSUME IInv, NEW f \in Family, NEW t \in Active(f)
    PROVE  Active(f) = {t}
  BY DEF IInv, OneActivePerFamily, Active, Members

(* How the active tokens of a family follow from the rows a step writes.   *)
LEMMA ActiveNext ==
    ASSUME NEW f \in Family
    PROVE  Active(f)' = {t \in Token : family'[t] = f /\ status'[t] = "active"}
  BY DEF Active, Members

(* The mapped state of a family depends on its active tokens and owner.    *)
LEMMA SameFamily ==
    ASSUME NEW f \in Family, Active(f)' = Active(f), owner'[f] = owner[f]
    PROVE  PhaseOf(f)' = PhaseOf(f) /\ CurrentOf(f)' = CurrentOf(f)
  BY DEF PhaseOf, CurrentOf

(* A family with an owner and an active token is mapped to an open one.    *)
LEMMA OpenFamily ==
    ASSUME NEW f \in Family, NEW t \in Token, Active(f)' = {t}, owner'[f] # None
    PROVE  PhaseOf(f)' = "open" /\ CurrentOf(f)' = t
  BY DEF PhaseOf, CurrentOf

(* Steps that write neither tokens nor families (locks, accounts, expiry,  *)
(* rollbacks) are stutters of SessionFamilies.                             *)
LEMMA Stutter ==
    ASSUME UNCHANGED <<status, family, owner>>
    PROVE  UNCHANGED <<Phase, Current, Issued>>
  BY DEF Phase, Current, PhaseOf, CurrentOf, Issued, Active, Members

(* A login (OpenSession) is the abstract opening of the family.            *)
LEMMA OpenRefines ==
    ASSUME IInv, NEW u \in User, NEW f \in Family, NEW t \in Token, OpenSession(u, f, t)
    PROVE  Promise!Open(f, t)
<1>1. /\ status' = [status EXCEPT ![t] = "active"]
      /\ family' = [family EXCEPT ![t] = f]
      /\ owner' = [owner EXCEPT ![f] = u]
      /\ owner[f] = None /\ status[t] = "absent" /\ u # None
  BY ConstantsAssumption DEF OpenSession, Unused
<1>2. Active(f)' = {t}
  BY <1>1 DEF Active, Members, IInv, TypeOK, Owned, Owner, TokenStatus
<1>3. \A g \in Family \ {f} : Active(g)' = Active(g) /\ owner'[g] = owner[g]
  BY <1>1 DEF Active, Members, IInv, TypeOK, TokenStatus
<1>4. owner'[f] # None
  BY <1>1 DEF IInv, TypeOK
<1>5. PhaseOf(f)' = "open" /\ CurrentOf(f)' = t
  BY <1>2, <1>4, OpenFamily
<1>6. \A g \in Family \ {f} : PhaseOf(g)' = PhaseOf(g) /\ CurrentOf(g)' = CurrentOf(g)
  BY <1>3, SameFamily
<1>7. Phase[f] = "unborn" /\ Phase' = [Phase EXCEPT ![f] = "open"]
  BY <1>1, <1>5, <1>6 DEF Phase, PhaseOf
<1>8. Current' = [Current EXCEPT ![f] = t]
  BY <1>5, <1>6 DEF Current
<1>9. t \notin Issued /\ Issued' = Issued \cup {t}
  BY <1>1 DEF Issued, IInv, TypeOK
<1>. QED
  BY <1>7, <1>8, <1>9 DEF Promise!Open

(* Replacing the active token of a family by an unused one is a renewal.   *)
LEMMA RenewFamily ==
    ASSUME IInv, NEW f \in Family, NEW a \in Token, NEW n \in Token,
           family[a] = f, status[a] = "active", status[n] = "absent",
           status' = [status EXCEPT ![a] = "rotated", ![n] = "active"],
           family' = [family EXCEPT ![n] = f],
           owner' = owner
    PROVE  Promise!Renew(f, n)
<1>1. a \in Active(f)
  BY DEF Active, Members
<1>2. Active(f) = {a}
  BY <1>1, SingleActive
<1>3. Active(f)' = {n}
  BY <1>2, ActiveNext DEF Active, Members, IInv, TypeOK, TokenStatus
<1>4. \A g \in Family \ {f} : Active(g)' = Active(g)
  BY DEF Active, Members, IInv, TypeOK, TokenStatus
<1>5. owner[f] # None
  BY DEF IInv, Owned, Owner
<1>6. PhaseOf(f) = "open"
  BY <1>1, <1>5 DEF PhaseOf
<1>7. PhaseOf(f)' = "open" /\ CurrentOf(f)' = n
  BY <1>3, <1>5, OpenFamily
<1>8. \A g \in Family \ {f} : PhaseOf(g)' = PhaseOf(g) /\ CurrentOf(g)' = CurrentOf(g)
  BY <1>4, SameFamily
<1>9. Phase[f] = "open" /\ Phase' = Phase
  BY <1>6, <1>7, <1>8 DEF Phase
<1>10. Current' = [Current EXCEPT ![f] = n]
  BY <1>7, <1>8 DEF Current
<1>11. n \notin Issued /\ Issued' = Issued \cup {n}
  BY DEF Issued, IInv, TypeOK
<1>. QED
  BY <1>9, <1>10, <1>11 DEF Promise!Renew

(* RotateRefreshToken is a renewal of the family of the presented token.   *)
LEMMA RotateRefines ==
    ASSUME IInv, NEW r \in Request, RotateIssue(r)
    PROVE  Promise!Renew(family[arg[r]], next[r])
<1>1. /\ arg[r] \in Token /\ next[r] \in Token /\ family[arg[r]] \in Family
      /\ status[arg[r]] = "active" /\ status[next[r]] = "absent"
  BY DEF RotateIssue, Candidate, Rotatable, IInv, TypeOK, Located, OnToken, Reserved
<1>2. /\ status' = [status EXCEPT ![arg[r]] = "rotated", ![next[r]] = "active"]
      /\ family' = [family EXCEPT ![next[r]] = family[arg[r]]]
      /\ owner' = owner
  BY DEF RotateIssue
<1>. QED
  BY <1>1, <1>2, RenewFamily

(* Every way of ending sessions revokes rows that exist and nothing else.  *)
LEMMA RevokeRefines ==
    ASSUME IInv, NEW T \in SUBSET Token, RevokeTokens(T),
           \A t \in T : status[t] # "absent", UNCHANGED <<family, owner>>
    PROVE  (\E F \in SUBSET Family : Promise!Close(F)) \/ UNCHANGED <<Phase, Current, Issued>>
<1> DEFINE F == {f \in Family : Active(f) # {} /\ Active(f)' = {}}
<1>1. \A f \in Family : Active(f)' \subseteq Active(f)
  BY DEF Active, Members, RevokeTokens
<1>2. \A f \in Family \ F : Active(f)' = Active(f)
  BY <1>1, SingleActive DEF Active
<1>3. \A f \in F : owner[f] # None
  BY DEF IInv, Owned, Owner, Active, Members
<1>4. \A f \in F : PhaseOf(f) = "open" /\ PhaseOf(f)' = "closed" /\ CurrentOf(f)' = None
  BY <1>3 DEF PhaseOf, CurrentOf
<1>5. \A f \in Family \ F : PhaseOf(f)' = PhaseOf(f) /\ CurrentOf(f)' = CurrentOf(f)
  BY <1>2, SameFamily
<1>6. Issued' = Issued
  BY DEF Issued, RevokeTokens
<1>7. F \in SUBSET Family
  OBVIOUS
<1> HIDE DEF F
<1>8. CASE F = {}
  BY <1>5, <1>6, <1>8 DEF Phase, Current
<1>9. CASE F # {}
  <2>1. Phase' = [f \in Family |-> IF f \in F THEN "closed" ELSE Phase[f]]
    BY <1>4, <1>5 DEF Phase
  <2>2. Current' = [f \in Family |-> IF f \in F THEN None ELSE Current[f]]
    BY <1>4, <1>5 DEF Current
  <2>3. \A f \in F : Phase[f] = "open"
    BY <1>4, <1>7 DEF Phase
  <2>4. Promise!Close(F)
    BY <1>6, <1>9, <2>1, <2>2, <2>3 DEF Promise!Close
  <2>. QED
    BY <1>7, <2>4
<1>. QED
  BY <1>8, <1>9

(* Every step of the row-level protocol is a step of SessionFamilies or a  *)
(* stutter.                                                                *)
LEMMA NextRefines == IInv /\ [Next]_vars => [Promise!Next]_<<Phase, Current, Issued>>
<1> SUFFICES ASSUME IInv, [Next]_vars
             PROVE  [Promise!Next]_<<Phase, Current, Issued>>
  OBVIOUS
<1>1. CASE \E u \in User, f \in Family, t \in Token : OpenSession(u, f, t)
  BY <1>1, OpenRefines DEF Promise!Next
<1>2. CASE \E r \in Request : RotateIssue(r)
  <2>1. PICK r \in Request : RotateIssue(r)
    BY <1>2
  <2>2. family[arg[r]] \in Family /\ next[r] \in Token
    BY <2>1 DEF RotateIssue, Candidate, IInv, TypeOK, Located, OnToken
  <2>. QED
    BY <2>1, <2>2, RotateRefines DEF Promise!Next
<1>3. CASE \E r \in Request : RevokeFamily(r) \/ LogoutCommit(r) \/ RevokeCommit(r) \/ ResetCommit(r)
  <2>1. PICK r \in Request : /\ RevokeTokens(rows[r])
                             /\ UNCHANGED <<family, owner>>
    BY <1>3 DEF RevokeFamily, LogoutCommit, RevokeCommit, ResetCommit
  <2>2. rows[r] \in SUBSET Token /\ \A t \in rows[r] : status[t] # "absent"
    BY DEF IInv, TypeOK, Collected
  <2>. QED
    BY <2>1, <2>2, RevokeRefines DEF Promise!Next
<1>4. CASE UNCHANGED <<status, family, owner>>
  BY <1>4, Stutter
<1>. QED
  BY <1>1, <1>2, <1>3, <1>4 DEF Next, Proceed, BeginRotate, BeginLogout, BeginRevoke,
     BeginReset, Begin, LockRow, RotateLockToken, DetectReuse, RotateReject, LogoutToken,
     LogoutReject, RevokeNotFound, ResetLockUser, BreakDeadlock, LoseRequest, SetAccount,
     Expire, Rollback, vars, tables

(* However requests, locks, faults and deadlocks interleave, a session is  *)
(* opened once, has one current token that is always a new one, and stays  *)
(* closed (ADR 0005, domain invariant 3).                                  *)
THEOREM Refinement == Spec => ImplementsSessionFamilies
<1>1. Init => Promise!Init
  BY ConstantsAssumption DEF Init, Promise!Init, Phase, PhaseOf, CurrentOf, Current,
         Issued, Active, Members
<1>2. IInv /\ [Next]_vars => [Promise!Next]_(Promise!avars)
  BY NextRefines DEF Promise!avars
<1>. QED
  BY <1>1, <1>2, Invariance, PTL DEF Spec, ImplementsSessionFamilies, Promise!Spec
=============================================================================
