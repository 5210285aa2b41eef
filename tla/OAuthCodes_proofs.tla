------------------------ MODULE OAuthCodes_proofs ------------------------
(***************************************************************************)
(* Proofs about OAuthCodes for any accounts, roles, codes and requests.    *)
(***************************************************************************)
EXTENDS OAuthCodes, TLAPS

Exchanging == {"find", "lock", "owner", "marked"}

(* Requests work on codes that are stored; rows are never deleted.         *)
OnStored ==
    \A r \in Request : pc[r] \in Exchanging \cup {"created"} => owner[code[r]] # None

(* Past its update an exchange holds the row, and the committed row is     *)
(* still unused: no second exchange is past its own.                       *)
Marking ==
    \A r \in Request :
        pc[r] = "marked" => code[r] \notin used /\ codeLock[code[r]] = r

(* A token is accounted for by the mark that was committed with it.        *)
Accounted == \A c \in Code : tokens[c] <= 1 /\ (tokens[c] = 1 => c \in used)

(* What an exchange knows of its code stays true: one used before it began *)
(* is used, and so is a fresh one whose owner it looks up.  Nobody is      *)
(* answered before the end.                                                *)
Remembered ==
    \A r \in Request :
        /\ spent[r] => pc[r] \in Exchanging /\ code[r] \in used
        /\ pc[r] = "owner" /\ fresh[r] => code[r] \in used
        /\ pc[r] # "idle" => reply[r] = "none"

IInv == TypeOK /\ OnStored /\ Marking /\ Accounted /\ Remembered

USE OAuthAssumption

(* Nothing is stored at the beginning.                                     *)
LEMMA InitIInv == Init => IInv
  BY DEF Init, IInv, TypeOK, OnStored, Marking, Accounted, Remembered,
         Exchanging, Step, Reply

(* The end of a request clears what it knew and frees its row; the others  *)
(* keep theirs.                                                            *)
LEMMA FinishEffect ==
    ASSUME TypeOK, NEW r \in Request, NEW a \in Reply, Finish(r, a)
    PROVE  /\ codeLock' \in [Code -> Request \cup {None}]
           /\ pc' \in [Request -> Step]
           /\ subject' \in [Request -> User \cup {None}]
           /\ code' \in [Request -> Code \cup {None}]
           /\ fresh' \in [Request -> BOOLEAN] /\ matches' \in [Request -> BOOLEAN]
           /\ spent' \in [Request -> BOOLEAN] /\ reply' \in [Request -> Reply]
           /\ pc'[r] = "idle" /\ ~spent'[r]
           /\ \A q \in Request \ {r} :
                 /\ pc'[q] = pc[q] /\ subject'[q] = subject[q] /\ code'[q] = code[q]
                 /\ fresh'[q] = fresh[q] /\ matches'[q] = matches[q]
                 /\ spent'[q] = spent[q] /\ reply'[q] = reply[q]
           /\ \A c \in Code : codeLock[c] # r => codeLock'[c] = codeLock[c]
<1>1. pc' \in [Request -> Step] /\ codeLock' \in [Code -> Request \cup {None}]
  BY DEF Finish, Goto, TypeOK, Step
<1>2. /\ subject' \in [Request -> User \cup {None}]
      /\ code' \in [Request -> Code \cup {None}]
      /\ fresh' \in [Request -> BOOLEAN] /\ matches' \in [Request -> BOOLEAN]
      /\ spent' \in [Request -> BOOLEAN] /\ reply' \in [Request -> Reply]
  BY DEF Finish, TypeOK
<1>3. pc'[r] = "idle" /\ ~spent'[r]
  BY DEF Finish, Goto, TypeOK
<1>4. \A q \in Request \ {r} :
         /\ pc'[q] = pc[q] /\ subject'[q] = subject[q] /\ code'[q] = code[q]
         /\ fresh'[q] = fresh[q] /\ matches'[q] = matches[q]
         /\ spent'[q] = spent[q] /\ reply'[q] = reply[q]
  BY DEF Finish, Goto, TypeOK
<1>5. \A c \in Code : codeLock[c] # r => codeLock'[c] = codeLock[c]
  BY DEF Finish, TypeOK
<1>6. QED
  BY <1>1, <1>2, <1>3, <1>4, <1>5

(* An answer without a write disturbs nothing.                             *)
LEMMA RollbackKeeps ==
    ASSUME IInv, NEW r \in Request, NEW a \in Reply, Rollback(r, a)
    PROVE  IInv'
<1>1. Finish(r, a) /\ UNCHANGED <<tables, tokens>>
  BY DEF Rollback
<1>2. TypeOK /\ OnStored /\ Marking /\ Accounted /\ Remembered
  BY DEF IInv
<1>3. TypeOK'
  BY <1>1, <1>2, FinishEffect DEF TypeOK, tables
<1>4. OnStored' /\ Accounted'
  BY <1>1, <1>2, FinishEffect DEF OnStored, Accounted, tables, Exchanging, TypeOK
<1>5. Marking'
  BY <1>1, <1>2, FinishEffect DEF Marking, tables, TypeOK
<1>6. Remembered'
  BY <1>1, <1>2, FinishEffect DEF Remembered, tables, TypeOK, Exchanging
<1>7. QED
  BY <1>3, <1>4, <1>5, <1>6 DEF IInv
-----------------------------------------------------------------------------
(* An authorization adds a code nobody has used and no exchange knows.     *)
LEMMA AuthorizeKeeps ==
    ASSUME IInv, NEW r \in Request,
           \/ \E u \in User : ReadSession(r, u)
           \/ CheckAccess(r) \/ CreateCode(r) \/ AuditIssue(r)
    PROVE  IInv'
<1>0. TypeOK /\ OnStored /\ Marking /\ Accounted /\ Remembered
  BY DEF IInv
<1>1. ASSUME NEW u \in User, ReadSession(r, u) PROVE IInv'
  <2>1. TypeOK'
    BY <1>0, <1>1 DEF ReadSession, Goto, TypeOK, tables, Step, Reply
  <2>2. OnStored' /\ Marking' /\ Accounted' /\ Remembered'
    BY <1>0, <1>1 DEF ReadSession, Goto, TypeOK, OnStored, Marking, Accounted,
                      Remembered, Exchanging, tables
  <2>3. QED
    BY <2>1, <2>2 DEF IInv
<1>2. CASE CheckAccess(r)
  <2>1. CASE Rollback(r, "denied")
    BY <2>1, RollbackKeeps DEF Reply
  <2>2. CASE /\ pc[r] = "access" /\ Goto(r, "create")
             /\ UNCHANGED <<tables, codeLock, request, reply, tokens>>
    <3>1. TypeOK'
      BY <1>0, <2>2 DEF Goto, TypeOK, tables, request, Step
    <3>2. OnStored' /\ Marking' /\ Accounted' /\ Remembered'
      BY <1>0, <2>2 DEF Goto, TypeOK, OnStored, Marking, Accounted, Remembered,
                        Exchanging, tables, request
    <3>3. QED
      BY <3>1, <3>2 DEF IInv
  <2>3. QED
    BY <1>2, <2>1, <2>2 DEF CheckAccess
<1>3. CASE CreateCode(r)
  <2>1. PICK c \in Code \ Stored : /\ owner' = [owner EXCEPT ![c] = subject[r]]
                                  /\ code' = [code EXCEPT ![r] = c]
    BY <1>3 DEF CreateCode
  <2>2. subject[r] \in User /\ subject[r] # None
    BY <1>0, <1>3 DEF CreateCode, TypeOK
  <2>3. TypeOK'
    BY <1>0, <1>3, <2>1, <2>2 DEF CreateCode, Goto, TypeOK, Step
  <2>4. OnStored' /\ Marking'
    BY <1>0, <1>3, <2>1, <2>2 DEF CreateCode, Goto, TypeOK, OnStored, Marking, Exchanging
  <2>5. Accounted' /\ Remembered'
    BY <1>0, <1>3, <2>1 DEF CreateCode, Goto, TypeOK, Accounted, Remembered, Exchanging
  <2>6. QED
    BY <2>3, <2>4, <2>5 DEF IInv
<1>4. CASE AuditIssue(r)
  <2>1. Finish(r, "code") /\ "code" \in Reply
    BY <1>4 DEF AuditIssue, Reply
  <2>2. code[r] \in Code /\ owner[code[r]] # None
    BY <1>0, <1>4 DEF AuditIssue, TypeOK, OnStored
  <2>7. /\ codeLock' \in [Code -> Request \cup {None}]
        /\ pc' \in [Request -> Step]
        /\ subject' \in [Request -> User \cup {None}]
        /\ code' \in [Request -> Code \cup {None}]
        /\ fresh' \in [Request -> BOOLEAN] /\ matches' \in [Request -> BOOLEAN]
        /\ spent' \in [Request -> BOOLEAN] /\ reply' \in [Request -> Reply]
        /\ pc'[r] = "idle"
        /\ \A q \in Request \ {r} :
              pc'[q] = pc[q] /\ subject'[q] = subject[q] /\ code'[q] = code[q]
        /\ \A c \in Code : codeLock[c] # r => codeLock'[c] = codeLock[c]
    BY <1>0, <2>1, FinishEffect
  <2>8. /\ issues' = issues \cup {code[r]}
        /\ UNCHANGED <<signedIn, holds, owner, used, expired, tokens>>
    BY <1>4 DEF AuditIssue
  <2>3. TypeOK'
    BY <1>0, <2>2, <2>7, <2>8 DEF TypeOK
  <2>4. OnStored' /\ Marking'
    <3>1. OnStored'
      BY <1>0, <2>7, <2>8 DEF OnStored, Exchanging
    <3>2. \A q \in Request \ {r} : pc[q] = "marked" => code[q] \in Code /\ codeLock[code[q]] # r
      BY <1>0 DEF TypeOK, OnStored, Marking, Exchanging
    <3>3. Marking'
      BY <1>0, <2>7, <2>8, <3>2 DEF Marking
    <3>4. QED
      BY <3>1, <3>3
  <2>5. Accounted' /\ Remembered'
    BY <1>0, <1>4, <2>1, FinishEffect DEF AuditIssue, TypeOK, Accounted, Remembered, Exchanging
  <2>6. QED
    BY <2>3, <2>4, <2>5 DEF IInv
<1>5. QED
  BY <1>1, <1>2, <1>3, <1>4

(* An exchange marks the row it holds, and only that one.                  *)
LEMMA ExchangeKeeps ==
    ASSUME IInv, NEW r \in Request,
           \/ \E c \in Code, fits \in BOOLEAN : Present(r, c, fits)
           \/ FindCode(r) \/ LockCode(r) \/ LookUpOwner(r)
           \/ Commit(r) \/ CommitUnanswered(r)
    PROVE  IInv'
<1>0. TypeOK /\ OnStored /\ Marking /\ Accounted /\ Remembered
  BY DEF IInv
<1>1. ASSUME NEW c \in Code, NEW fits \in BOOLEAN, Present(r, c, fits) PROVE IInv'
  <2>1. TypeOK'
    BY <1>0, <1>1 DEF Present, Goto, TypeOK, tables, Step, Reply
  <2>2. OnStored' /\ Marking' /\ Accounted'
    BY <1>0, <1>1 DEF Present, Goto, TypeOK, OnStored, Marking, Accounted, Exchanging, tables
  <2>3. Remembered'
    BY <1>0, <1>1 DEF Present, Goto, TypeOK, Remembered, Exchanging, tables
  <2>4. QED
    BY <2>1, <2>2, <2>3 DEF IInv
<1>2. CASE FindCode(r)
  <2>1. TypeOK'
    BY <1>0, <1>2 DEF FindCode, Goto, TypeOK, tables, request, Step
  <2>2. OnStored' /\ Marking' /\ Accounted' /\ Remembered'
    BY <1>0, <1>2 DEF FindCode, Goto, TypeOK, OnStored, Marking, Accounted, Remembered,
                      Exchanging, tables, request
  <2>3. QED
    BY <2>1, <2>2 DEF IInv
<1>3. CASE LockCode(r)
  <2>1. CASE Rollback(r, "invalid")
    BY <2>1, RollbackKeeps DEF Reply
  <2>2. CASE /\ code[r] \in used /\ Goto(r, "owner")
             /\ UNCHANGED <<tables, codeLock, request, reply, tokens>>
    <3>1. TypeOK'
      BY <1>0, <1>3, <2>2 DEF LockCode, Goto, TypeOK, tables, request, Step
    <3>2. OnStored' /\ Marking' /\ Accounted' /\ Remembered'
      BY <1>0, <1>3, <2>2 DEF LockCode, Goto, TypeOK, OnStored, Marking, Accounted,
                              Remembered, Exchanging, tables, request
    <3>3. QED
      BY <3>1, <3>2 DEF IInv
  <2>3. CASE /\ code[r] \notin used
             /\ codeLock' = [codeLock EXCEPT ![code[r]] = r]
             /\ Goto(r, "marked")
             /\ UNCHANGED <<tables, request, reply, tokens>>
    <3>0. pc[r] = "lock" /\ codeLock[code[r]] = None /\ code[r] \in Code
      BY <1>0, <1>3 DEF LockCode, TypeOK
    <3>1. TypeOK'
      BY <1>0, <3>0, <2>3 DEF Goto, TypeOK, tables, request, Step
    <3>2. OnStored' /\ Accounted' /\ Remembered'
      BY <1>0, <3>0, <2>3 DEF Goto, TypeOK, OnStored, Accounted, Remembered,
                              Exchanging, tables, request
    <3>3. Marking'
      BY <1>0, <3>0, <2>3 DEF Goto, TypeOK, Marking, tables, request
    <3>4. QED
      BY <3>1, <3>2, <3>3 DEF IInv
  <2>4. QED
    BY <1>3, <2>1, <2>2, <2>3 DEF LockCode
<1>4. CASE LookUpOwner(r)
  BY <1>4, RollbackKeeps DEF LookUpOwner, Reply
<1>5. CASE Commit(r) \/ CommitUnanswered(r)
  <2>1. PICK a \in {"ok", "error"} : Finish(r, a)
    BY <1>5 DEF Commit, CommitUnanswered
  <2>2. /\ pc[r] = "marked" /\ code[r] \in Code /\ code[r] \notin used
        /\ owner[code[r]] # None /\ codeLock[code[r]] = r
    BY <1>0, <1>5 DEF Commit, CommitUnanswered, TypeOK, Marking, OnStored, Exchanging
  <2>3. /\ used' = used \cup {code[r]}
        /\ tokens' = tokens \/ tokens' = [tokens EXCEPT ![code[r]] = @ + 1]
        /\ UNCHANGED <<signedIn, holds, owner, expired, issues>>
    BY <1>5 DEF Commit, CommitUnanswered
  <2>4. TypeOK'
    <3>1. tokens' \in [Code -> Nat]
      BY <1>0, <2>2, <2>3 DEF TypeOK
    <3>2. used' \in SUBSET Code /\ \A c \in used' \cup expired' \cup issues' : owner'[c] # None
      BY <1>0, <2>2, <2>3 DEF TypeOK
    <3>3. /\ \A q \in Request : pc'[q] \in {"access", "create", "created"} => subject'[q] # None
          /\ \A q \in Request :
                pc'[q] \in {"created", "find", "lock", "owner", "marked"} => code'[q] # None
      BY <1>0, <2>1, FinishEffect DEF TypeOK, Reply
    <3>4. QED
      BY <1>0, <2>1, <2>3, <3>1, <3>2, <3>3, FinishEffect DEF TypeOK, Reply
  <2>5. OnStored' /\ Remembered'
    BY <1>0, <2>1, <2>2, <2>3, FinishEffect DEF TypeOK, OnStored, Remembered, Exchanging, Reply
  <2>6. Accounted'
    BY <1>0, <2>2, <2>3 DEF TypeOK, Accounted
  <2>7. Marking'
    <3>1. SUFFICES ASSUME NEW q \in Request, pc'[q] = "marked"
                   PROVE  code'[q] \notin used' /\ codeLock'[code'[q]] = q
      BY DEF Marking
    <3>2. q # r /\ pc[q] = "marked" /\ code'[q] = code[q]
      BY <1>0, <2>1, <3>1, FinishEffect DEF Reply
    <3>3. code[q] \in Code /\ code[q] \notin used /\ codeLock[code[q]] = q
      BY <1>0, <3>2 DEF TypeOK, Marking
    <3>4. code[q] # code[r]
      BY <2>2, <3>2, <3>3
    <3>5. QED
      BY <1>0, <2>1, <2>3, <3>2, <3>3, <3>4, FinishEffect DEF Reply
  <2>8. QED
    BY <2>4, <2>5, <2>6, <2>7 DEF IInv
<1>6. QED
  BY <1>1, <1>2, <1>3, <1>4, <1>5

(* Expiries, sign-outs and changes of roles touch nothing an exchange      *)
(* relies on.                                                              *)
LEMMA EnvironmentKeeps ==
    ASSUME IInv,
           \/ \E c \in Code : Expire(c)
           \/ \E u \in User : SignOut(u) \/ \E S \in SUBSET Role : ReplaceRoles(u, S)
    PROVE  IInv'
<1>1. /\ TypeOK /\ OnStored /\ Marking /\ Accounted /\ Remembered
      /\ UNCHANGED <<owner, used, issues, codeLock, pc, request, reply, tokens>>
  BY DEF IInv, Expire, SignOut, ReplaceRoles
<1>2. TypeOK'
  <2>1. ASSUME NEW c \in Code, Expire(c) PROVE TypeOK'
    BY <1>1, <2>1 DEF Expire, TypeOK, request, Stored
  <2>2. ASSUME NEW u \in User, SignOut(u) PROVE TypeOK'
    BY <1>1, <2>2 DEF SignOut, TypeOK, request
  <2>3. ASSUME NEW u \in User, NEW S \in SUBSET Role, ReplaceRoles(u, S) PROVE TypeOK'
    BY <1>1, <2>3 DEF ReplaceRoles, TypeOK, request
  <2>4. QED
    BY <2>1, <2>2, <2>3
<1>3. OnStored' /\ Marking' /\ Accounted' /\ Remembered'
  BY <1>1 DEF OnStored, Marking, Accounted, Remembered, request
<1>4. QED
  BY <1>2, <1>3 DEF IInv

(* IInv is inductive.                                                      *)
LEMMA NextIInv == IInv /\ [Next]_vars => IInv'
<1>1. SUFFICES ASSUME IInv, [Next]_vars PROVE IInv'
  OBVIOUS
<1>2. CASE UNCHANGED vars
  BY <1>1, <1>2 DEF IInv, TypeOK, OnStored, Marking, Accounted, Remembered,
                    vars, tables, request
<1>3. ASSUME NEW r \in Request, LoseRequest(r) PROVE IInv'
  BY <1>1, <1>3, RollbackKeeps DEF LoseRequest, Reply
<1>4. QED
  BY <1>1, <1>2, <1>3, AuthorizeKeeps, ExchangeKeeps, EnvironmentKeeps DEF Next, Proceed

LEMMA Inductive == Spec => []IInv
  BY InitIInv, NextIInv, PTL DEF Spec
-----------------------------------------------------------------------------
(* Every variable keeps its type, for any accounts, codes and requests.    *)
THEOREM TypeCorrect == Spec => []TypeOK
<1>1. IInv => TypeOK
  BY DEF IInv
<1>2. QED
  BY Inductive, <1>1, PTL

(* oauth.Exchange: a code gives at most one access token, for any number   *)
(* of exchanges at once and whichever of them fail.                        *)
THEOREM OneTokenPerCode == Spec => []ExchangedOnce
<1>1. IInv => ExchangedOnce
  BY DEF IInv, Accounted, ExchangedOnce
<1>2. QED
  BY Inductive, <1>1, PTL

(* "invalid" is the answer of a refused comparison and of a look-up that   *)
(* found no used row; neither happens to the second use of a code.         *)
LEMMA InvalidIsNoSecondUse ==
    ASSUME IInv, [Next]_vars, NEW r \in Request, pc[r] # "idle",
           spent[r] \/ (fresh[r] /\ matches[r])
    PROVE  reply'[r] # "invalid"
<1>0. TypeOK /\ Remembered /\ reply[r] = "none"
  BY DEF IInv, Remembered
<1>1. ASSUME NEW q \in Request, NEW a \in Reply, Finish(q, a), a # "invalid"
      PROVE  reply'[r] # "invalid"
  BY <1>0, <1>1 DEF Finish, TypeOK
<1>2. ASSUME NEW q \in Request, LockCode(q) PROVE reply'[r] # "invalid"
  <2>1. CASE q # r
    BY <1>0, <1>2, <2>1 DEF LockCode, Rollback, Finish, TypeOK
  <2>2. CASE q = r
    <3>1. ~(code[r] \notin used /\ ~matches[r])
      BY <1>0, <1>2, <2>2 DEF Remembered
    <3>2. QED
      BY <1>0, <1>2, <2>2, <3>1 DEF LockCode
  <2>3. QED
    BY <2>1, <2>2
<1>3. ASSUME NEW q \in Request, LookUpOwner(q) PROVE reply'[r] # "invalid"
  <2>1. CASE q # r
    BY <1>0, <1>3, <2>1 DEF LookUpOwner, Rollback, Finish, TypeOK
  <2>2. CASE q = r
    <3>1. code[r] \in used
      BY <1>0, <1>3, <2>2 DEF LookUpOwner, Remembered
    <3>2. QED
      BY <1>0, <1>3, <2>2, <3>1 DEF LookUpOwner, Rollback, Finish, TypeOK
  <2>3. QED
    BY <2>1, <2>2
<1>4. ASSUME NEW q \in Request,
             \/ \E u \in User : ReadSession(q, u)
             \/ \E c \in Code, fits \in BOOLEAN : Present(q, c, fits)
      PROVE  reply'[r] # "invalid"
  BY <1>0, <1>4 DEF ReadSession, Present, TypeOK
<1>5. ASSUME NEW q \in Request,
             \/ AuditIssue(q) \/ Commit(q) \/ CommitUnanswered(q) \/ LoseRequest(q)
             \/ CheckAccess(q) \/ CreateCode(q) \/ FindCode(q)
      PROVE  reply'[r] # "invalid"
  BY <1>0, <1>1, <1>5 DEF AuditIssue, Commit, CommitUnanswered, LoseRequest, CheckAccess,
                          CreateCode, FindCode, Rollback, Reply
<1>6. CASE \/ UNCHANGED vars
           \/ \E c \in Code : Expire(c)
           \/ \E u \in User : SignOut(u) \/ \E S \in SUBSET Role : ReplaceRoles(u, S)
  BY <1>0, <1>6 DEF vars, Expire, SignOut, ReplaceRoles
<1>7. QED
  BY <1>2, <1>3, <1>4, <1>5, <1>6 DEF Next, Proceed

(* adr/0009: the second use of a code is answered as such, which writes    *)
(* the audit event, for any number of exchanges that wait for its row.     *)
THEOREM SecondUseAudited == Spec => SecondUseIsAudited
<1>1. IInv /\ [Next]_vars =>
        [\A r \in Request :
            pc[r] # "idle" /\ (spent[r] \/ (fresh[r] /\ matches[r])) =>
                reply'[r] # "invalid"]_vars
  BY InvalidIsNoSecondUse
<1>2. QED
  BY <1>1, Inductive, PTL DEF Spec, SecondUseIsAudited
=============================================================================
