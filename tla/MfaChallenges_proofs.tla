------------------------ MODULE MfaChallenges_proofs ------------------------
(***************************************************************************)
(* Proofs about MfaChallenges for any number of accounts, challenges and   *)
(* requests, any limits and any privileges.                                *)
(***************************************************************************)
EXTENDS MfaChallenges, FiniteSetTheorems, TLAPS

(* What a request works on exists, and only stored challenges are known.   *)
Shape ==
    /\ \A r \in Request : pc[r] \in {"lock", "count", "supersede"} => usr[r] \in User
    /\ \A r \in Request : pc[r] \in {"row", "account", "decide"} =>
          arg[r] \in Challenge /\ usr[r] \in User /\ usr[r] = owner[arg[r]]
    /\ \A r \in Request : pc[r] \in {"row", "account", "decide", "publish", "compensate"} =>
          arg[r] \in Challenge /\ state[arg[r]] # "absent"
    /\ \A c \in Challenge : state[c] = "absent" => c \notin known
    /\ \A c \in Challenge : state[c] # "absent" => owner[c] \in User
    /\ \A c \in Challenge : rowLock[c] # None => state[c] # "absent"

(* Which locks a request holds at which step.                              *)
Holding ==
    /\ \A c \in Challenge : rowLock[c] # None =>
          pc[rowLock[c]] \in {"supersede", "account", "decide"}
    /\ \A r \in Request : pc[r] \in {"count", "supersede"} => issuing[usr[r]] = r
    /\ \A r \in Request : pc[r] \in {"account", "decide"} => rowLock[arg[r]] = r
    /\ \A r \in Request : pc[r] = "decide" => userLock[usr[r]] = r

(* What was read under the locks is still what the row says.               *)
ReadCurrent == \A r \in Request : pc[r] = "decide" => got[r] = ReadRow(r)

(* An issuance that supersedes has every open challenge of its account in  *)
(* hand or ahead of it.                                                    *)
Superseding ==
    \A r \in Request : pc[r] = "supersede" =>
        \A c \in Challenge :
            /\ rowLock[c] = r => state[c] = "open"
            /\ owner[c] = usr[r] /\ state[c] = "open" => c \in rows[r] \/ rowLock[c] = r

(* It has counted, and nobody else stores a challenge of the account.      *)
Room ==
    \A r \in Request : pc[r] = "supersede" =>
        Cardinality(IssuedSince(usr[r], at[r] - IssuanceWindow)) < MaxIssuancesPerWindow

(* A challenge that opened a session cannot be verified again.             *)
SessionsClose ==
    \A c \in Challenge : sessions[c] = 0 \/ (sessions[c] = 1 /\ state[c] \in {"used", "deleted"})

Control == TypeOK /\ Shape /\ Holding /\ ReadCurrent

USE ConstantsAssumption

(* An empty table satisfies the invariants.                                *)
LEMMA InitControl == Init => Control /\ Superseding /\ OneOpenChallenge /\ SessionsClose
  BY DEF Init, Control, TypeOK, Shape, Holding, ReadCurrent, Superseding, OneOpenChallenge,
         SessionsClose, Step, Row, NoRow

(* The end of a transaction touches the locks and the record of its own    *)
(* request only.                                                           *)
LEMMA FinishKeeps ==
    ASSUME Control, NEW r \in Request, Finish(r)
    PROVE  /\ Holding'
           /\ issuing' \in [User -> Request \cup {None}]
           /\ rowLock' \in [Challenge -> Request \cup {None}]
           /\ userLock' \in [User -> Request \cup {None}]
           /\ pc' \in [Request -> Step]
           /\ op' \in [Request -> {"none", "issue", "verify", "resend"}]
           /\ arg' \in [Request -> Challenge \cup {None}]
           /\ usr' \in [Request -> User \cup {None}]
           /\ digits' \in [Request -> Nat]
           /\ at' \in [Request -> Nat]
           /\ rows' \in [Request -> SUBSET Challenge]
           /\ got' \in [Request -> Row]
           /\ pc'[r] = "idle"
           /\ \A q \in Request \ {r} :
                /\ pc'[q] = pc[q] /\ arg'[q] = arg[q] /\ usr'[q] = usr[q]
                /\ at'[q] = at[q] /\ rows'[q] = rows[q] /\ got'[q] = got[q]
                /\ \A c \in Challenge : rowLock'[c] = q <=> rowLock[c] = q
                /\ \A u \in User : userLock'[u] = q <=> userLock[u] = q
<1>1. /\ issuing' \in [User -> Request \cup {None}]
      /\ rowLock' \in [Challenge -> Request \cup {None}]
      /\ userLock' \in [User -> Request \cup {None}]
  BY DEF Control, TypeOK, Finish, Release
<1>2. /\ pc' \in [Request -> Step]
      /\ op' \in [Request -> {"none", "issue", "verify", "resend"}]
      /\ arg' \in [Request -> Challenge \cup {None}]
      /\ usr' \in [Request -> User \cup {None}]
      /\ digits' \in [Request -> Nat]
      /\ at' \in [Request -> Nat]
      /\ rows' \in [Request -> SUBSET Challenge]
      /\ got' \in [Request -> Row]
  BY DEF Control, TypeOK, Finish, Step, Row, NoRow
<1>3. /\ pc'[r] = "idle"
      /\ \A q \in Request \ {r} :
            /\ pc'[q] = pc[q] /\ arg'[q] = arg[q] /\ usr'[q] = usr[q]
            /\ at'[q] = at[q] /\ rows'[q] = rows[q] /\ got'[q] = got[q]
  BY DEF Control, TypeOK, Finish
<1>4. \A q \in Request \ {r} :
            /\ \A c \in Challenge : rowLock'[c] = q <=> rowLock[c] = q
            /\ \A u \in User : userLock'[u] = q <=> userLock[u] = q
  BY DEF Control, TypeOK, Finish, Release
<1>5. Holding'
  <2>1. \A c \in Challenge : rowLock'[c] # None =>
            rowLock'[c] = rowLock[c] /\ rowLock[c] \in Request \ {r}
    BY DEF Control, TypeOK, Finish, Release
  <2>2. \A q \in Request \ {r} : \A u \in User : issuing[u] = q => issuing'[u] = q
    BY DEF Control, TypeOK, Finish, Release
  <2>3. QED
    BY <2>1, <2>2, <1>3, <1>4 DEF Control, Holding, Shape
<1>6. QED
  BY <1>1, <1>2, <1>3, <1>4, <1>5

(* The tables may change meanwhile, as long as no row appears or vanishes. *)
LEMMA ShapeKept ==
    ASSUME Control, NEW r \in Request, Finish(r), UNCHANGED owner,
           \A c \in Challenge : state'[c] = "absent" <=> state[c] = "absent",
           \A c \in known' : c \in known \/ (c \in Challenge /\ state[c] # "absent")
    PROVE  Shape'
<1>1. pc'[r] = "idle"
  BY FinishKeeps
<1>2. \A q \in Request \ {r} : pc'[q] = pc[q] /\ arg'[q] = arg[q] /\ usr'[q] = usr[q]
  BY FinishKeeps
<1>3. \A c \in Challenge : rowLock'[c] # None => rowLock[c] # None
  BY DEF Finish, Release, Control, TypeOK
<1>4. QED
  BY <1>1, <1>2, <1>3 DEF Control, Shape

(* What a request has read stays current while the fields it read do.      *)
LEMMA ReadKept ==
    ASSUME ReadCurrent, NEW q \in Request, pc[q] = "decide",
           arg'[q] = arg[q], usr'[q] = usr[q], got'[q] = got[q],
           state'[arg[q]] = state[arg[q]], code'[arg[q]] = code[arg[q]],
           attempts'[arg[q]] = attempts[arg[q]], sent'[arg[q]] = sent[arg[q]],
           (usr[q] \in active') <=> (usr[q] \in active)
    PROVE  got'[q] = ReadRow(q)'
<1>1. got[q] = ReadRow(q)
  BY DEF ReadCurrent
<1>2. (state'[arg'[q]] # "open") = (state[arg[q]] # "open")
  OBVIOUS
<1>3. (usr'[q] \in active') = (usr[q] \in active)
  OBVIOUS
<1>4. QED
  BY <1>1, <1>2, <1>3 DEF ReadRow

(* Requests that decide hold different challenges, of different accounts.  *)
LEMMA DecideAlone ==
    ASSUME Control, NEW q \in Request, NEW r \in Request, q # r,
           pc[q] = "decide", pc[r] = "decide"
    PROVE  /\ arg[q] \in Challenge /\ arg[r] \in Challenge
           /\ arg[q] # arg[r] /\ usr[q] # usr[r]
  BY DEF Control, Shape, Holding

(* So a rollback preserves everything said about the requests.             *)
LEMMA RollbackControl ==
    ASSUME Control, NEW r \in Request, Rollback(r)
    PROVE  Control'
<1>1. Finish(r) /\ UNCHANGED <<challenges, active, clock, outside, sessions>>
  BY DEF Rollback
<1>2. TypeOK'
  BY <1>1, FinishKeeps DEF Control, TypeOK, challenges, outside
<1>3. Shape'
  BY <1>1, ShapeKept DEF challenges, outside
<1>4. ReadCurrent'
  BY <1>1, FinishKeeps, ReadKept DEF Control, ReadCurrent, challenges
<1>5. QED
  BY <1>1, <1>2, <1>3, <1>4, FinishKeeps DEF Control

(* Every step preserves the types, the shape of the requests, the locks    *)
(* they hold and the currency of what they read.                           *)
LEMMA NextControl == Control /\ [Next]_vars => Control'
<1> SUFFICES ASSUME Control, [Next]_vars PROVE Control'
  OBVIOUS
<1>1. CASE UNCHANGED vars
  BY <1>1 DEF vars, challenges, locks, progress, outside, Control, TypeOK, Shape, Holding,
              ReadCurrent, ReadRow
<1>2. ASSUME NEW r \in Request, NEW step \in {"lock", "row"},
             NEW operation \in {"issue", "verify", "resend"}, NEW c \in Challenge \cup {None},
             NEW u \in User \cup {None}, NEW d \in Nat, Begin(r, step, operation, c, u, d),
             step = "lock" => u \in User,
             step = "row" => c \in Challenge /\ u = owner[c] /\ state[c] # "absent"
      PROVE  Control'
  <2>1. TypeOK'
    BY <1>2 DEF Control, TypeOK, Begin, Step, challenges, locks, outside
  <2>2. Shape'
    BY <1>2 DEF Control, TypeOK, Shape, Begin, challenges, locks, outside
  <2>3. Holding'
    BY <1>2 DEF Control, TypeOK, Holding, Begin, locks
  <2>4. ReadCurrent'
    BY <1>2, ReadKept DEF Control, TypeOK, ReadCurrent, Begin, challenges
  <2>5. QED
    BY <2>1, <2>2, <2>3, <2>4 DEF Control
<1>3. ASSUME NEW r \in Request, LockIssuance(r) PROVE Control'
  <2>1. TypeOK'
    BY <1>3 DEF Control, TypeOK, LockIssuance, Step, challenges, locks, progress, outside
  <2>2. Shape'
    BY <1>3 DEF Control, TypeOK, Shape, LockIssuance, challenges, locks, outside, progress
  <2>3. Holding'
    BY <1>3 DEF Control, TypeOK, Shape, Holding, LockIssuance, locks, progress
  <2>4. ReadCurrent'
    BY <1>3, ReadKept DEF Control, TypeOK, ReadCurrent, LockIssuance, challenges, progress
  <2>5. QED
    BY <2>1, <2>2, <2>3, <2>4 DEF Control
<1>4. ASSUME NEW r \in Request, CountIssued(r) PROVE Control'
  <2>1. TypeOK'
    BY <1>4 DEF Control, TypeOK, CountIssued, Step, challenges, locks, progress, outside, Open
  <2>2. Shape'
    BY <1>4 DEF Control, TypeOK, Shape, CountIssued, challenges, locks, outside, progress
  <2>3. Holding'
    BY <1>4 DEF Control, TypeOK, Holding, CountIssued, locks, progress
  <2>4. ReadCurrent'
    BY <1>4, ReadKept DEF Control, TypeOK, ReadCurrent, CountIssued, challenges, progress
  <2>5. QED
    BY <2>1, <2>2, <2>3, <2>4 DEF Control
<1>5. ASSUME NEW r \in Request, LockOpen(r) PROVE Control'
  <2>1. TypeOK'
    BY <1>5 DEF Control, TypeOK, LockOpen, Step, challenges, locks, progress, outside
  <2>2. Shape'
    BY <1>5 DEF Control, TypeOK, Shape, LockOpen, challenges, locks, outside, progress
  <2>3. Holding'
    BY <1>5 DEF Control, TypeOK, Holding, LockOpen, locks, progress
  <2>4. ReadCurrent'
    BY <1>5, ReadKept DEF Control, TypeOK, ReadCurrent, LockOpen, challenges, progress
  <2>5. QED
    BY <2>1, <2>2, <2>3, <2>4 DEF Control
<1>6. ASSUME NEW r \in Request, StoreChallenge(r) PROVE Control'
  <2>1. PICK c \in Challenge :
          /\ state[c] = "absent"
          /\ state' = [Superseded(r) EXCEPT ![c] = "open"]
          /\ owner' = [owner EXCEPT ![c] = usr[r]]
          /\ code' = [code EXCEPT ![c] = digits[r]]
          /\ drawn' = [drawn EXCEPT ![c] = digits[r]]
          /\ attempts' = [attempts EXCEPT ![c] = MaxAttempts]
          /\ created' = [created EXCEPT ![c] = at[r]]
          /\ sent' = [sent EXCEPT ![c] = at[r]]
          /\ arg' = [arg EXCEPT ![r] = c]
    BY <1>6 DEF StoreChallenge
  <2>2. /\ pc[r] = "supersede" /\ pc' = [pc EXCEPT ![r] = "publish"]
        /\ Release(r) /\ usr[r] \in User
        /\ UNCHANGED <<active, clock, op, usr, digits, at, rows, got, outside, sessions>>
    BY <1>6 DEF StoreChallenge, Control, Shape
  <2>3. TypeOK'
    BY <2>1, <2>2 DEF Control, TypeOK, Step, outside, Release, Superseded
  <2>4. state'[c] = "open" /\ \A d \in Challenge : state[d] # "absent" => state'[d] # "absent"
    BY <2>1 DEF Superseded
  <2>5. Shape'
    <3>1. /\ pc'[r] = "publish" /\ arg'[r] = c /\ state[c] = "absent"
          /\ \A q \in Request \ {r} : pc'[q] = pc[q] /\ arg'[q] = arg[q] /\ usr'[q] = usr[q]
      BY <2>1, <2>2 DEF Control, TypeOK
    <3>2. \A d \in Challenge : d # c =>
            owner'[d] = owner[d] /\ (state'[d] = "absent" <=> state[d] = "absent")
      BY <2>1, <2>4 DEF Control, TypeOK, Shape, Superseded, Held
    <3>3. owner'[c] = usr[r] /\ known' = known
      BY <2>1, <2>2 DEF Control, TypeOK, outside
    <3>4. \A q \in Request \ {r} :
            pc[q] \in {"row", "account", "decide", "publish", "compensate"} =>
                arg[q] # c /\ owner'[arg[q]] = owner[arg[q]]
      BY <3>1, <3>2 DEF Control, Shape
    <3>5. c \in Challenge
      BY <2>1
    <3>6. \A d \in Challenge : state'[d] = "absent" => d \notin known'
      BY <2>4, <3>2, <3>3 DEF Control, Shape
    <3>7. \A d \in Challenge : state'[d] # "absent" => owner'[d] \in User
      BY <2>2, <3>2, <3>3 DEF Control, Shape
    <3>8. \A q \in Request : pc'[q] \in {"lock", "count", "supersede"} => usr'[q] \in User
      BY <3>1 DEF Control, Shape
    <3>9. \A q \in Request : pc'[q] \in {"row", "account", "decide"} =>
             arg'[q] \in Challenge /\ usr'[q] \in User /\ usr'[q] = owner'[arg'[q]]
      <4> SUFFICES ASSUME NEW q \in Request \ {r}, pc[q] \in {"row", "account", "decide"}
                   PROVE  arg[q] \in Challenge /\ usr[q] \in User /\ usr[q] = owner'[arg[q]]
        BY <3>1
      <4>1. QED
        BY <3>4 DEF Control, Shape
    <3>10. \A q \in Request :
              pc'[q] \in {"row", "account", "decide", "publish", "compensate"} =>
                  arg'[q] \in Challenge /\ state'[arg'[q]] # "absent"
      BY <2>4, <3>1, <3>5 DEF Control, Shape
    <3>11. \A d \in Challenge : rowLock'[d] # None => state'[d] # "absent"
      BY <2>2, <2>4 DEF Release, Control, TypeOK, Shape
    <3>12. QED
      BY <3>6, <3>7, <3>8, <3>9, <3>10, <3>11 DEF Shape
  <2>6. Holding'
    <3>1. \A d \in Challenge : rowLock'[d] # None => rowLock'[d] = rowLock[d] /\ rowLock[d] # r
      BY <2>2 DEF Release, Control, TypeOK
    <3>2. \A q \in Request \ {r} :
            /\ pc'[q] = pc[q] /\ arg'[q] = arg[q] /\ usr'[q] = usr[q]
            /\ \A d \in Challenge : rowLock[d] = q => rowLock'[d] = q
            /\ \A u \in User : issuing[u] = q => issuing'[u] = q
            /\ \A u \in User : userLock[u] = q => userLock'[u] = q
      BY <2>1, <2>2 DEF Release, Control, TypeOK
    <3>3. pc'[r] = "publish"
      BY <2>2 DEF Control, TypeOK
    <3>4. QED
      BY <3>1, <3>2, <3>3, SMTT(30) DEF Control, TypeOK, Shape, Holding
  <2>7. ReadCurrent'
    <3> SUFFICES ASSUME NEW q \in Request, pc'[q] = "decide" PROVE got'[q] = ReadRow(q)'
      BY DEF ReadCurrent
    <3>1. q # r /\ pc[q] = "decide" /\ arg'[q] = arg[q]
      BY <2>1, <2>2 DEF Control, TypeOK
    <3>2. arg[q] \in Challenge /\ state[arg[q]] # "absent" /\ rowLock[arg[q]] = q
      BY <3>1 DEF Control, Shape, Holding
    <3>3. state'[arg[q]] = state[arg[q]]
      BY <2>1, <3>1, <3>2 DEF Superseded, Held
    <3>4. /\ code'[arg[q]] = code[arg[q]] /\ attempts'[arg[q]] = attempts[arg[q]]
          /\ sent'[arg[q]] = sent[arg[q]]
      BY <2>1, <3>2 DEF Control, TypeOK
    <3>5. QED
      BY <2>2, <3>1, <3>3, <3>4, ReadKept DEF Control
  <2>8. QED
    BY <2>3, <2>5, <2>6, <2>7 DEF Control
<1>7. ASSUME NEW r \in Request, PublishFailed(r) PROVE Control'
  <2>1. TypeOK'
    BY <1>7 DEF Control, TypeOK, Shape, PublishFailed, Step, challenges, locks, progress, outside
  <2>2. Shape'
    BY <1>7 DEF Control, TypeOK, Shape, PublishFailed, challenges, locks, outside, progress
  <2>3. Holding'
    BY <1>7 DEF Control, TypeOK, Holding, PublishFailed, locks, progress
  <2>4. ReadCurrent'
    BY <1>7, ReadKept DEF Control, TypeOK, ReadCurrent, PublishFailed, challenges, progress
  <2>5. QED
    BY <2>1, <2>2, <2>3, <2>4 DEF Control
<1>8. ASSUME NEW r \in Request, LockChallenge(r) PROVE Control'
  <2>1. TypeOK'
    BY <1>8 DEF Control, TypeOK, LockChallenge, Step, challenges, locks, progress, outside
  <2>2. Shape'
    BY <1>8 DEF Control, TypeOK, Shape, LockChallenge, challenges, locks, outside, progress
  <2>3. Holding'
    BY <1>8 DEF Control, TypeOK, Holding, LockChallenge, locks, progress, Shape
  <2>4. ReadCurrent'
    BY <1>8, ReadKept DEF Control, TypeOK, ReadCurrent, LockChallenge, challenges, progress
  <2>5. QED
    BY <2>1, <2>2, <2>3, <2>4 DEF Control
<1>9. ASSUME NEW r \in Request, LockAccount(r) PROVE Control'
  <2>1. TypeOK'
    BY <1>9 DEF Control, TypeOK, LockAccount, Step, challenges, locks, progress, outside, Row, ReadRow, Shape
  <2>2. Shape'
    BY <1>9 DEF Control, TypeOK, Shape, LockAccount, challenges, locks, outside, progress
  <2>3. Holding'
    BY <1>9 DEF Control, TypeOK, Holding, LockAccount, locks, progress, Shape
  <2>4. ReadCurrent'
    <3> SUFFICES ASSUME NEW q \in Request, pc'[q] = "decide" PROVE got'[q] = ReadRow(q)'
      BY DEF ReadCurrent
    <3>1. /\ ReadRow(q)' = ReadRow(q)
          /\ got' = [got EXCEPT ![r] = ReadRow(r)]
          /\ pc' = [pc EXCEPT ![r] = "decide"]
      BY <1>9 DEF LockAccount, ReadRow, challenges
    <3>2. QED
      BY <3>1 DEF Control, TypeOK, ReadCurrent
  <2>5. QED
    BY <2>1, <2>2, <2>3, <2>4 DEF Control
<1>10. ASSUME NEW r \in Request, ResendChallenge(r) PROVE Control'
  <2>1. TypeOK'
    BY <1>10 DEF Control, TypeOK, ResendChallenge, Step, challenges, locks, progress, outside, Release, Shape
  <2>2. Shape'
    BY <1>10 DEF Control, TypeOK, Shape, ResendChallenge, Release, outside
  <2>3. Holding'
    BY <1>10 DEF Control, TypeOK, Holding, ResendChallenge, locks, progress, Release, Shape
  <2>4. ReadCurrent'
    <3> SUFFICES ASSUME NEW q \in Request, pc'[q] = "decide" PROVE got'[q] = ReadRow(q)'
      BY DEF ReadCurrent
    <3>1. /\ q # r /\ pc[q] = "decide" /\ arg'[q] = arg[q] /\ usr'[q] = usr[q]
          /\ got'[q] = got[q] /\ pc[r] = "decide"
      BY <1>10 DEF ResendChallenge, Control, TypeOK
    <3>2. arg[q] # arg[r] /\ arg[q] \in Challenge /\ arg[r] \in Challenge
      BY <3>1, DecideAlone
    <3>3. /\ state'[arg[q]] = state[arg[q]] /\ attempts'[arg[q]] = attempts[arg[q]]
          /\ code'[arg[q]] = code[arg[q]] /\ sent'[arg[q]] = sent[arg[q]]
      BY <1>10, <3>2 DEF ResendChallenge, Control, TypeOK
    <3>4. usr[q] \in active' <=> usr[q] \in active
      BY <1>10 DEF ResendChallenge
    <3>5. QED
      BY <3>1, <3>3, <3>4, ReadKept DEF Control
  <2>5. QED
    BY <2>1, <2>2, <2>3, <2>4 DEF Control
<1>11. ASSUME NEW r \in Request, PublishConfirmed(r) PROVE Control'
  <2>1. Finish(r)
    BY <1>11 DEF PublishConfirmed
  <2>2. TypeOK'
    BY <1>11, <2>1, FinishKeeps DEF Control, TypeOK, PublishConfirmed, Shape, challenges, outside
  <2>3. Shape'
    BY <1>11, <2>1, ShapeKept DEF Control, TypeOK, Shape, PublishConfirmed, challenges, outside
  <2>4. ReadCurrent'
    BY <1>11, <2>1, FinishKeeps, ReadKept DEF Control, TypeOK, ReadCurrent, Shape, Holding, PublishConfirmed, challenges
  <2>5. QED
    BY <2>1, <2>2, <2>3, <2>4, FinishKeeps DEF Control
<1>12. ASSUME NEW r \in Request, CancelUndelivered(r) PROVE Control'
  <2>1. Finish(r)
    BY <1>12 DEF CancelUndelivered
  <2>2. TypeOK'
    BY <1>12, <2>1, FinishKeeps DEF Control, TypeOK, CancelUndelivered, Shape, challenges, outside, CancelledState
  <2>3. Shape'
    <3>1. arg[r] \in Challenge /\ state[arg[r]] # "absent"
      BY <1>12 DEF CancelUndelivered, Control, Shape
    <3>2. \A c \in Challenge : state'[c] = "absent" <=> state[c] = "absent"
      BY <1>12, <3>1 DEF CancelUndelivered, CancelledState, Control, TypeOK
    <3>3. UNCHANGED owner /\ \A c \in known' : c \in known
      BY <1>12 DEF CancelUndelivered
    <3>4. QED
      BY <2>1, <3>2, <3>3, ShapeKept
  <2>4. ReadCurrent'
    <3> SUFFICES ASSUME NEW q \in Request, pc'[q] = "decide" PROVE got'[q] = ReadRow(q)'
      BY DEF ReadCurrent
    <3>1. /\ pc[q] = "decide" /\ arg'[q] = arg[q] /\ usr'[q] = usr[q] /\ got'[q] = got[q]
      BY <2>1, FinishKeeps
    <3>2. arg[q] \in Challenge /\ rowLock[arg[q]] = q /\ rowLock[arg[r]] = None
      BY <1>12, <3>1 DEF CancelUndelivered, Control, Shape, Holding
    <3>3. state'[arg[q]] = state[arg[q]]
      BY <1>12, <3>2 DEF CancelUndelivered, CancelledState, Control, TypeOK
    <3>4. QED
      BY <1>12, <3>1, <3>3, ReadKept DEF CancelUndelivered, Control
  <2>5. QED
    BY <2>1, <2>2, <2>3, <2>4, FinishKeeps DEF Control
<1>13. ASSUME NEW r \in Request, RestoreResend(r) PROVE Control'
  <2>1. Finish(r)
    BY <1>13 DEF RestoreResend
  <2>2. TypeOK'
    BY <1>13, <2>1, FinishKeeps DEF Control, TypeOK, RestoreResend, Shape, challenges, outside, Row
  <2>3. Shape'
    BY <1>13, <2>1, ShapeKept, SMTT(30) DEF RestoreResend, outside
  <2>4. ReadCurrent'
    BY <1>13, <2>1, FinishKeeps, ReadKept DEF Control, TypeOK, ReadCurrent, Shape, Holding, RestoreResend, challenges
  <2>5. QED
    BY <2>1, <2>2, <2>3, <2>4, FinishKeeps DEF Control
<1>14. ASSUME NEW r \in Request, RejectCode(r) PROVE Control'
  <2>1. Finish(r)
    BY <1>14 DEF RejectCode
  <2>2. TypeOK'
    BY <1>14, <2>1, FinishKeeps DEF Control, TypeOK, RejectCode, Shape, challenges, outside, AfterRejection, Verifiable, ReadCurrent, ReadRow
  <2>3. Shape'
    BY <1>14, <2>1, ShapeKept DEF Control, TypeOK, Shape, RejectCode, challenges, outside, AfterRejection, Verifiable, ReadCurrent, ReadRow
  <2>4. ReadCurrent'
    <3> SUFFICES ASSUME NEW q \in Request, pc'[q] = "decide" PROVE got'[q] = ReadRow(q)'
      BY DEF ReadCurrent
    <3>1. /\ q # r /\ pc[q] = "decide" /\ arg'[q] = arg[q] /\ usr'[q] = usr[q]
          /\ got'[q] = got[q] /\ pc[r] = "decide"
      BY <1>14, <2>1, FinishKeeps DEF RejectCode, Verifiable
    <3>2. arg[q] # arg[r] /\ usr[q] # usr[r] /\ arg[q] \in Challenge /\ arg[r] \in Challenge
      BY <3>1, DecideAlone
    <3>3. /\ state'[arg[q]] = state[arg[q]] /\ attempts'[arg[q]] = attempts[arg[q]]
          /\ code'[arg[q]] = code[arg[q]] /\ sent'[arg[q]] = sent[arg[q]]
      BY <1>14, <3>2 DEF RejectCode, Control, TypeOK
    <3>4. usr[q] \in active' <=> usr[q] \in active
      BY <1>14, <3>2 DEF RejectCode
    <3>5. QED
      BY <3>1, <3>3, <3>4, ReadKept DEF Control
  <2>5. QED
    BY <2>1, <2>2, <2>3, <2>4, FinishKeeps DEF Control
<1>15. ASSUME NEW r \in Request, AcceptCode(r) PROVE Control'
  <2>1. Finish(r)
    BY <1>15 DEF AcceptCode
  <2>2. TypeOK'
    BY <1>15, <2>1, FinishKeeps DEF Control, TypeOK, AcceptCode, Shape, challenges, outside, Verifiable
  <2>3. Shape'
    BY <1>15, <2>1, ShapeKept DEF Control, TypeOK, Shape, AcceptCode, challenges, outside, Verifiable
  <2>4. ReadCurrent'
    <3> SUFFICES ASSUME NEW q \in Request, pc'[q] = "decide" PROVE got'[q] = ReadRow(q)'
      BY DEF ReadCurrent
    <3>1. /\ q # r /\ pc[q] = "decide" /\ arg'[q] = arg[q] /\ usr'[q] = usr[q]
          /\ got'[q] = got[q] /\ pc[r] = "decide"
      BY <1>15, <2>1, FinishKeeps DEF AcceptCode, Verifiable
    <3>2. arg[q] # arg[r] /\ arg[q] \in Challenge /\ arg[r] \in Challenge
      BY <3>1, DecideAlone
    <3>3. /\ state'[arg[q]] = state[arg[q]] /\ attempts'[arg[q]] = attempts[arg[q]]
          /\ code'[arg[q]] = code[arg[q]] /\ sent'[arg[q]] = sent[arg[q]]
      BY <1>15, <3>2 DEF AcceptCode, Control, TypeOK
    <3>4. usr[q] \in active' <=> usr[q] \in active
      BY <1>15 DEF AcceptCode
    <3>5. QED
      BY <3>1, <3>3, <3>4, ReadKept DEF Control
  <2>5. QED
    BY <2>1, <2>2, <2>3, <2>4, FinishKeeps DEF Control
<1>16. ASSUME NEW u \in User, ChangeAccount(u) PROVE Control'
  <2>1. TypeOK'
    BY <1>16 DEF Control, TypeOK, ChangeAccount, Step, challenges, locks, progress, outside
  <2>2. Shape'
    BY <1>16 DEF Control, TypeOK, Shape, ChangeAccount, challenges, locks, outside, progress
  <2>3. Holding'
    BY <1>16 DEF Control, TypeOK, Holding, ChangeAccount, locks, progress
  <2>4. ReadCurrent'
    BY <1>16, ReadKept DEF Control, TypeOK, ReadCurrent, ChangeAccount, challenges, progress, Holding, Shape, locks
  <2>5. QED
    BY <2>1, <2>2, <2>3, <2>4 DEF Control
<1>17. CASE Tick
  <2>1. TypeOK'
    BY <1>17 DEF Control, TypeOK, Tick, challenges, locks, progress, outside
  <2>2. Shape' /\ Holding'
    BY <1>17 DEF Control, Shape, Holding, Tick, challenges, locks, progress, outside
  <2>3. ReadCurrent'
    BY <1>17 DEF Control, ReadCurrent, ReadRow, Tick, challenges, progress
  <2>4. QED
    BY <2>1, <2>2, <2>3 DEF Control
<1>18. ASSUME NEW r \in Request, NEW u \in User, BeginIssue(r, u) PROVE Control'
  BY <1>18, <1>2 DEF BeginIssue
<1>19. ASSUME NEW r \in Request, NEW c \in Challenge, BeginResend(r, c) PROVE Control'
  <2>1. state[c] # "absent" /\ owner[c] \in User
    BY <1>19 DEF BeginResend, Control, Shape
  <2>2. Begin(r, "row", "resend", c, owner[c], 0)
    BY <1>19 DEF BeginResend
  <2>3. QED
    BY <2>1, <2>2, <1>2
<1>20. ASSUME NEW r \in Request, NEW c \in Challenge, NEW d \in 0..MaxCodes, BeginVerify(r, c, d)
       PROVE  Control'
  <2>1. state[c] # "absent" /\ owner[c] \in User
    BY <1>20 DEF BeginVerify, Control, Shape
  <2>2. Begin(r, "row", "verify", c, owner[c], d) /\ d \in Nat
    BY <1>20 DEF BeginVerify
  <2>3. QED
    BY <2>1, <2>2, <1>2
<1>21. QED
  BY <1>1, <1>3, <1>4, <1>5, <1>6, <1>7, <1>8, <1>9, <1>10, <1>11, <1>12, <1>13, <1>14, <1>15, <1>16, <1>17, <1>18, <1>19, <1>20, RollbackControl
     DEF Next, Proceed, IssuanceLimited, Refuse, LoseRequest
-----------------------------------------------------------------------------
(* Types hold in every reachable state, for any number of requests.        *)
THEOREM TypeCorrect == Spec => []TypeOK
<1>1. Init => Control
  BY InitControl
<1>2. Control => TypeOK
  BY DEF Control
<1>3. QED
  BY <1>1, <1>2, NextControl, PTL DEF Spec

(* A decision that found a usable row decides on what the row says now.    *)
LEMMA DecidesOnCurrent ==
    ASSUME Control, NEW r \in Request, pc[r] = "decide", Usable(r)
    PROVE  /\ arg[r] \in Challenge
           /\ state[arg[r]] = "open"
           /\ owner[arg[r]] \in active
           /\ ~Expired(arg[r])
<1>1. got[r] = ReadRow(r) /\ arg[r] \in Challenge /\ usr[r] = owner[arg[r]]
  BY DEF Control, ReadCurrent, Shape
<1>2. got[r].used = (state[arg[r]] # "open") /\ got[r].active = (usr[r] \in active)
  BY <1>1 DEF ReadRow
<1>3. QED
  BY <1>1, <1>2 DEF Usable

(* Only StoreChallenge opens a challenge or stores one; a closed challenge *)
(* stays closed, and nobody disturbs a request that supersedes.            *)
Effects ==
    /\ owner' = owner /\ created' = created
    /\ \A c \in Challenge :
          /\ state'[c] = "open" => state[c] = "open"
          /\ Stored(c)' => Stored(c)
          /\ state[c] \in {"used", "deleted"} => state'[c] \in {"used", "deleted"}
    /\ \A q \in Request : pc'[q] = "supersede" =>
          /\ pc[q] = "supersede"
          /\ usr'[q] = usr[q] /\ at'[q] = at[q] /\ rows'[q] = rows[q]
          /\ \A c \in Challenge :
                /\ rowLock'[c] = q <=> rowLock[c] = q
                /\ rowLock[c] = q => state'[c] = state[c]

(* The step of a request that leaves the rows alone has these effects.     *)
LEMMA QuietEffects ==
    ASSUME Control, UNCHANGED <<state, owner, created>>, NEW r \in Request, Finish(r)
    PROVE  Effects
<1>1. pc'[r] = "idle"
  BY FinishKeeps
<1>2. \A q \in Request \ {r} :
         /\ pc'[q] = pc[q] /\ usr'[q] = usr[q] /\ at'[q] = at[q] /\ rows'[q] = rows[q]
         /\ \A c \in Challenge : rowLock'[c] = q <=> rowLock[c] = q
  BY FinishKeeps
<1>3. QED
  BY <1>1, <1>2 DEF Effects, Stored

(* So has one that closes a row nobody else holds.                         *)
LEMMA ClosingEffects ==
    ASSUME Control, NEW r \in Request, Finish(r), NEW c \in Challenge,
           UNCHANGED <<owner, created>>, rowLock[c] \in {None, r},
           Stored(c) \/ state'[c] \notin {"open", "used"},
           \A d \in Challenge \ {c} : state'[d] = state[d],
           state'[c] = state[c] \/ state'[c] \in {"used", "deleted"}
    PROVE  Effects
<1>1. pc'[r] = "idle"
  BY FinishKeeps
<1>2. \A q \in Request \ {r} :
         /\ pc'[q] = pc[q] /\ usr'[q] = usr[q] /\ at'[q] = at[q] /\ rows'[q] = rows[q]
         /\ \A d \in Challenge : rowLock'[d] = q <=> rowLock[d] = q
  BY FinishKeeps
<1>3. \A d \in Challenge :
          /\ state'[d] = "open" => state[d] = "open"
          /\ Stored(d)' => Stored(d)
          /\ state[d] \in {"used", "deleted"} => state'[d] \in {"used", "deleted"}
  BY DEF Stored
<1>4. QED
  BY <1>1, <1>2, <1>3 DEF Effects

(* Every step has these effects, but those of an issuance up to its commit.*)
LEMMA StepEffects ==
    ASSUME Control, [Next]_vars,
           \A r \in Request : ~CountIssued(r) /\ ~LockOpen(r) /\ ~StoreChallenge(r)
    PROVE  Effects
<1>1. ASSUME UNCHANGED <<state, owner, created, rowLock, usr, at, rows>>,
             \A q \in Request : pc'[q] = "supersede" => pc[q] = "supersede"
      PROVE  Effects
  BY <1>1 DEF Effects, Stored
<1>2. CASE UNCHANGED vars
  BY <1>2, <1>1 DEF vars, challenges, locks, progress
<1>3. ASSUME NEW r \in Request, NEW step \in {"lock", "row"}, NEW operation, NEW c, NEW u, NEW d,
             Begin(r, step, operation, c, u, d)
      PROVE  Effects
  <2>1. /\ pc[r] = "idle" /\ pc' = [pc EXCEPT ![r] = step]
        /\ usr' = [usr EXCEPT ![r] = u]
        /\ UNCHANGED <<state, owner, created, rowLock, rows>>
        /\ \A q \in Request \ {r} : at'[q] = at[q]
    BY <1>3 DEF Begin, challenges, locks, Control, TypeOK
  <2>2. QED
    BY <2>1 DEF Effects, Stored, Control, TypeOK
<1>4. ASSUME NEW r \in Request, LockIssuance(r) \/ PublishFailed(r) PROVE Effects
  BY <1>4, <1>1 DEF LockIssuance, PublishFailed, challenges, locks, Control, TypeOK
<1>5. ASSUME NEW r \in Request, LockAccount(r) PROVE Effects
  BY <1>5, <1>1 DEF LockAccount, challenges, Control, TypeOK
<1>6. ASSUME NEW r \in Request, LockChallenge(r) PROVE Effects
  <2>1. /\ pc[r] = "row" /\ pc' = [pc EXCEPT ![r] = "account"]
        /\ rowLock[arg[r]] = None /\ rowLock' = [rowLock EXCEPT ![arg[r]] = r]
        /\ UNCHANGED <<state, owner, created, usr, at, rows>>
    BY <1>6 DEF LockChallenge, challenges
  <2>2. QED
    BY <2>1 DEF Effects, Stored, Control, TypeOK
<1>7. ASSUME NEW r \in Request, ResendChallenge(r) PROVE Effects
  <2>1. /\ pc[r] = "decide" /\ pc' = [pc EXCEPT ![r] = "publish"]
        /\ Release(r)
        /\ at' = [at EXCEPT ![r] = clock]
        /\ UNCHANGED <<state, owner, created, usr, rows>>
    BY <1>7 DEF ResendChallenge
  <2>2. \A q \in Request \ {r} : \A c \in Challenge : rowLock'[c] = q <=> rowLock[c] = q
    BY <2>1 DEF Release, Control, TypeOK
  <2>3. QED
    BY <2>1, <2>2 DEF Effects, Stored, Control, TypeOK
<1>8. ASSUME NEW r \in Request, Rollback(r) PROVE Effects
  BY <1>8, QuietEffects DEF Rollback, challenges
<1>9. ASSUME NEW r \in Request, PublishConfirmed(r) \/ RestoreResend(r) PROVE Effects
  BY <1>9, QuietEffects DEF PublishConfirmed, RestoreResend, challenges
<1>10. ASSUME NEW r \in Request, CancelUndelivered(r) PROVE Effects
  <2>1. /\ pc[r] = "compensate" /\ rowLock[arg[r]] = None /\ Finish(r)
        /\ state' = CancelledState(arg[r]) /\ UNCHANGED <<owner, created>>
    BY <1>10 DEF CancelUndelivered
  <2>2. arg[r] \in Challenge
    BY <2>1 DEF Control, Shape
  <2>3. CASE "DELETE" \in Granted
    <3>1. state' = [state EXCEPT ![arg[r]] = "deleted"]
      BY <2>1, <2>3 DEF CancelledState
    <3>2. QED
      BY <2>1, <2>2, <3>1, ClosingEffects DEF Control, TypeOK
  <2>4. CASE "DELETE" \notin Granted
    BY <2>1, <2>4, QuietEffects DEF CancelledState
  <2>5. QED
    BY <2>3, <2>4
<1>11. ASSUME NEW r \in Request, RejectCode(r) PROVE Effects
  <2>1. arg[r] \in Challenge /\ state[arg[r]] = "open" /\ rowLock[arg[r]] = r
    BY <1>11, DecidesOnCurrent DEF RejectCode, Verifiable, Control, Holding
  <2>2. QED
    BY <1>11, <2>1, ClosingEffects DEF RejectCode, AfterRejection, Control, TypeOK, Stored
<1>12. ASSUME NEW r \in Request, AcceptCode(r) PROVE Effects
  <2>1. arg[r] \in Challenge /\ state[arg[r]] = "open" /\ rowLock[arg[r]] = r
    BY <1>12, DecidesOnCurrent DEF AcceptCode, Verifiable, Control, Holding
  <2>2. QED
    BY <1>12, <2>1, ClosingEffects DEF AcceptCode, Control, TypeOK, Stored
<1>13. ASSUME NEW u \in User, ChangeAccount(u) PROVE Effects
  BY <1>13, <1>1 DEF ChangeAccount, challenges, locks, progress
<1>14. CASE Tick
  BY <1>14, <1>1 DEF Tick, challenges, locks, progress
<1>15. QED
  BY <1>2, <1>3, <1>4, <1>5, <1>6, <1>7, <1>8, <1>9, <1>10, <1>11, <1>12, <1>13, <1>14
     DEF Next, Proceed, BeginIssue, BeginVerify, BeginResend, IssuanceLimited, Refuse, LoseRequest

(* The snapshot of an issuance covers the open challenges of its account,  *)
(* and stays so until it commits.                                          *)
LEMMA NextSuperseding == Control /\ Superseding /\ [Next]_vars => Superseding'
<1> SUFFICES ASSUME Control, Superseding, [Next]_vars PROVE Superseding'
  OBVIOUS
<1>1. CASE Effects
  BY <1>1 DEF Effects, Superseding
<1>2. ASSUME NEW r \in Request, CountIssued(r) PROVE Superseding'
  <2>1. /\ pc[r] = "count" /\ pc' = [pc EXCEPT ![r] = "supersede"]
        /\ rows' = [rows EXCEPT ![r] = Open(usr[r])]
        /\ UNCHANGED <<state, owner, rowLock, usr>>
    BY <1>2 DEF CountIssued, challenges, locks
  <2>2. \A c \in Challenge : rowLock[c] # r
    BY <2>1 DEF Control, Holding, TypeOK
  <2>3. QED
    BY <2>1, <2>2 DEF Superseding, Open, Control, TypeOK
<1>3. ASSUME NEW r \in Request, LockOpen(r) PROVE Superseding'
  <2>1. PICK c \in rows[r] :
          /\ rowLock[c] = None
          /\ rows' = [rows EXCEPT ![r] = @ \ {c}]
          /\ rowLock' = IF state[c] = "open" THEN [rowLock EXCEPT ![c] = r] ELSE rowLock
    BY <1>3 DEF LockOpen
  <2>2. c \in Challenge /\ UNCHANGED <<state, owner, pc, usr>>
    BY <1>3, <2>1 DEF LockOpen, challenges, Control, TypeOK
  <2>3. ASSUME NEW q \in Request \ {r}, pc[q] = "supersede", NEW d \in Challenge
        PROVE  (rowLock'[d] = q <=> rowLock[d] = q) /\ rows'[q] = rows[q]
    BY <2>1, <2>2, <2>3 DEF Control, TypeOK
  <2>4. ASSUME NEW d \in Challenge, pc[r] = "supersede"
        PROVE  /\ rowLock'[d] = r => state[d] = "open"
               /\ owner[d] = usr[r] /\ state[d] = "open" => d \in rows'[r] \/ rowLock'[d] = r
    BY <2>1, <2>2, <2>4 DEF Superseding, Control, TypeOK
  <2>5. QED
    BY <2>2, <2>3, <2>4 DEF Superseding
<1>4. ASSUME NEW r \in Request, StoreChallenge(r) PROVE Superseding'
  <2>1. PICK c \in Challenge :
          /\ state[c] = "absent"
          /\ state' = [Superseded(r) EXCEPT ![c] = "open"]
          /\ owner' = [owner EXCEPT ![c] = usr[r]]
    BY <1>4 DEF StoreChallenge
  <2>2. /\ pc[r] = "supersede" /\ pc' = [pc EXCEPT ![r] = "publish"]
        /\ Release(r) /\ UNCHANGED <<usr, rows>>
    BY <1>4 DEF StoreChallenge
  <2> SUFFICES ASSUME NEW q \in Request, pc'[q] = "supersede", NEW d \in Challenge
               PROVE  /\ rowLock'[d] = q => state'[d] = "open"
                      /\ owner'[d] = usr'[q] /\ state'[d] = "open" => d \in rows'[q] \/ rowLock'[d] = q
    BY DEF Superseding
  <2>3. q # r /\ pc[q] = "supersede"
    BY <2>2 DEF Control, TypeOK
  <2>4. usr[q] # usr[r]
    BY <2>2, <2>3 DEF Control, Holding
  <2>5. rowLock'[d] = q <=> rowLock[d] = q
    BY <2>2, <2>3 DEF Release, Control, TypeOK
  <2>6. CASE d = c
    BY <2>1, <2>2, <2>3, <2>4, <2>5, <2>6 DEF Superseding, Superseded, Control, TypeOK
  <2>7. CASE d # c
    BY <2>1, <2>2, <2>3, <2>5, <2>7 DEF Superseding, Superseded, Held, Control, TypeOK
  <2>8. QED
    BY <2>6, <2>7
<1>5. QED
  BY <1>1, <1>2, <1>3, <1>4, StepEffects
-----------------------------------------------------------------------------
(* The advisory lock makes an issuance supersede whatever is open when it  *)
(* stores its own challenge.                                               *)
LEMMA NextOneOpen ==
    Control /\ Superseding /\ OneOpenChallenge /\ [Next]_vars => OneOpenChallenge'
<1> SUFFICES ASSUME Control, Superseding, OneOpenChallenge, [Next]_vars
             PROVE  OneOpenChallenge'
  OBVIOUS
<1>1. CASE Effects
  BY <1>1 DEF Effects, OneOpenChallenge
<1>2. ASSUME NEW r \in Request, CountIssued(r) \/ LockOpen(r) PROVE OneOpenChallenge'
  BY <1>2 DEF CountIssued, LockOpen, challenges, OneOpenChallenge
<1>3. ASSUME NEW r \in Request, StoreChallenge(r) PROVE OneOpenChallenge'
  <2>1. PICK c \in Challenge :
          /\ state[c] = "absent"
          /\ state' = [Superseded(r) EXCEPT ![c] = "open"]
          /\ owner' = [owner EXCEPT ![c] = usr[r]]
    BY <1>3 DEF StoreChallenge
  <2>2. pc[r] = "supersede" /\ rows[r] = {}
    BY <1>3 DEF StoreChallenge
  <2>3. \A d \in Challenge \ {c} : state'[d] = "open" => state[d] = "open" /\ d \notin Held(r)
    BY <2>1 DEF Superseded, Control, TypeOK
  <2>4. \A d \in Challenge \ {c} : state'[d] = "open" => owner[d] # usr[r]
    BY <2>2, <2>3 DEF Superseding, Held
  <2>5. owner'[c] = usr[r] /\ \A d \in Challenge \ {c} : owner'[d] = owner[d]
    BY <2>1 DEF Control, TypeOK
  <2>6. QED
    BY <2>3, <2>4, <2>5 DEF OneOpenChallenge
<1>4. QED
  BY <1>1, <1>2, <1>3, StepEffects

(* An account has at most one open challenge, however its logins overlap.  *)
THEOREM AtMostOneOpen == Spec => []OneOpenChallenge
<1>1. Init => Control /\ Superseding /\ OneOpenChallenge
  BY InitControl
<1>2. Control /\ Superseding /\ OneOpenChallenge /\ [Next]_vars
          => (Control /\ Superseding /\ OneOpenChallenge)'
  BY NextControl, NextSuperseding, NextOneOpen
<1>3. QED
  BY <1>1, <1>2, PTL DEF Spec
-----------------------------------------------------------------------------
(* Only an accepted code opens a session.                                  *)
LEMMA OnlyAcceptOpens ==
    ASSUME [Next]_vars, \A r \in Request : ~AcceptCode(r)
    PROVE  sessions' = sessions
<1>1. ASSUME NEW r \in Request, Proceed(r) PROVE sessions' = sessions
  BY <1>1 DEF Proceed, LockIssuance, IssuanceLimited, CountIssued, LockOpen, StoreChallenge,
       PublishConfirmed, PublishFailed, CancelUndelivered, RestoreResend, LockChallenge,
       LockAccount, Refuse, RejectCode, ResendChallenge, Rollback
<1>2. ASSUME NEW r \in Request, NEW c, NEW u, NEW d,
             BeginIssue(r, u) \/ BeginVerify(r, c, d) \/ BeginResend(r, c)
      PROVE  sessions' = sessions
  BY <1>2 DEF BeginIssue, BeginVerify, BeginResend, Begin
<1>3. ASSUME NEW r \in Request, LoseRequest(r) PROVE sessions' = sessions
  BY <1>3 DEF LoseRequest, Rollback
<1>4. ASSUME NEW u, ChangeAccount(u) PROVE sessions' = sessions
  BY <1>4 DEF ChangeAccount
<1>5. CASE Tick \/ UNCHANGED vars
  BY <1>5 DEF Tick, vars
<1>6. QED
  BY <1>1, <1>2, <1>3, <1>4, <1>5 DEF Next

(* A session closes its challenge, and no closed challenge reopens.        *)
LEMMA NextSessionsClose ==
    Control /\ Superseding /\ SessionsClose /\ [Next]_vars => SessionsClose'
<1> SUFFICES ASSUME Control, Superseding, SessionsClose, [Next]_vars
             PROVE  SessionsClose'
  OBVIOUS
<1>1. ASSUME NEW r \in Request, AcceptCode(r) PROVE SessionsClose'
  <2>1. arg[r] \in Challenge /\ state[arg[r]] = "open"
    BY <1>1, DecidesOnCurrent DEF AcceptCode, Verifiable
  <2>2. /\ state' = [state EXCEPT ![arg[r]] = "used"]
        /\ sessions' = [sessions EXCEPT ![arg[r]] = @ + 1]
    BY <1>1 DEF AcceptCode
  <2>3. sessions[arg[r]] = 0
    BY <2>1 DEF SessionsClose
  <2>4. QED
    BY <2>1, <2>2, <2>3 DEF SessionsClose, Control, TypeOK
<1>2. CASE \A r \in Request : ~AcceptCode(r)
  <2>1. sessions' = sessions
    BY <1>2, OnlyAcceptOpens
  <2>2. CASE Effects
    BY <2>1, <2>2 DEF Effects, SessionsClose
  <2>3. ASSUME NEW r \in Request, CountIssued(r) \/ LockOpen(r) PROVE SessionsClose'
    BY <2>1, <2>3 DEF CountIssued, LockOpen, challenges, SessionsClose
  <2>4. ASSUME NEW r \in Request, StoreChallenge(r) PROVE SessionsClose'
    <3>1. PICK c \in Challenge :
            state[c] = "absent" /\ state' = [Superseded(r) EXCEPT ![c] = "open"]
      BY <2>4 DEF StoreChallenge
    <3>2. \A d \in Challenge : state[d] \in {"used", "deleted"} => state'[d] \in {"used", "deleted"}
      BY <3>1 DEF Superseded, Control, TypeOK
    <3>3. QED
      BY <2>1, <3>2 DEF SessionsClose
  <2>5. QED
    BY <2>2, <2>3, <2>4, StepEffects
<1>3. QED
  BY <1>1, <1>2

(* A challenge completes one login at most, whoever else holds its code.   *)
THEOREM AtMostOneSession == Spec => []OneSessionPerChallenge
<1>1. Init => Control /\ Superseding /\ SessionsClose
  BY InitControl
<1>2. Control /\ Superseding /\ SessionsClose /\ [Next]_vars
          => (Control /\ Superseding /\ SessionsClose)'
  BY NextControl, NextSuperseding, NextSessionsClose
<1>3. Control /\ Superseding /\ SessionsClose => OneSessionPerChallenge
  BY DEF SessionsClose, OneSessionPerChallenge
<1>4. QED
  BY <1>1, <1>2, <1>3, PTL DEF Spec

(* A session opens while account and challenge are valid at that moment.   *)
THEOREM SessionsOnValidChallenges == Spec => SessionOnlyWhileValid
<1> DEFINE Valid == \A c \in Challenge : sessions'[c] # sessions[c] =>
                        /\ state[c] = "open"
                        /\ ~Expired(c)
                        /\ owner[c] \in active
<1>1. Control /\ [Next]_vars => [Valid]_vars
  <2> SUFFICES ASSUME Control, [Next]_vars, NEW c \in Challenge, sessions'[c] # sessions[c]
               PROVE  state[c] = "open" /\ ~Expired(c) /\ owner[c] \in active
    OBVIOUS
  <2>1. PICK r \in Request : AcceptCode(r)
    BY OnlyAcceptOpens
  <2>2. c = arg[r]
    BY <2>1 DEF AcceptCode, Control, TypeOK
  <2>3. QED
    BY <2>1, <2>2, DecidesOnCurrent DEF AcceptCode, Verifiable
<1>2. Init => Control
  BY InitControl
<1>3. QED
  BY <1>1, <1>2, NextControl, PTL DEF Spec, SessionOnlyWhileValid
-----------------------------------------------------------------------------
Window(c) ==
    {d \in IssuedSince(owner[c], created[c]) : created[d] <= created[c] + IssuanceWindow}

(* A set of challenges is finite, and a smaller one counts less.           *)
LEMMA CountChallenges ==
    ASSUME NEW S \in SUBSET Challenge, NEW T \in SUBSET S
    PROVE  /\ IsFiniteSet(S) /\ IsFiniteSet(T)
           /\ Cardinality(S) \in Nat /\ Cardinality(T) \in Nat
           /\ Cardinality(T) <= Cardinality(S)
<1>1. IsFiniteSet(S)
  BY FS_Subset
<1>2. QED
  BY <1>1, FS_Subset, FS_CardinalityType

(* What StoreChallenge does to the table.                                  *)
LEMMA StoreAdds ==
    ASSUME Control, Superseding, NEW r \in Request, StoreChallenge(r)
    PROVE  /\ pc[r] = "supersede" /\ pc' = [pc EXCEPT ![r] = "publish"]
           /\ UNCHANGED <<usr, at>>
           /\ usr[r] \in User /\ at[r] \in Nat
           /\ \E c \in Challenge :
                /\ owner'[c] = usr[r] /\ created'[c] = at[r]
                /\ \A d \in Challenge \ {c} :
                      owner'[d] = owner[d] /\ created'[d] = created[d] /\ (Stored(d)' <=> Stored(d))
<1>1. /\ pc[r] = "supersede" /\ pc' = [pc EXCEPT ![r] = "publish"] /\ UNCHANGED <<usr, at>>
  BY DEF StoreChallenge
<1>2. usr[r] \in User /\ at[r] \in Nat
  BY <1>1 DEF Control, TypeOK, Shape
<1>3. PICK c \in Challenge :
        /\ state' = [Superseded(r) EXCEPT ![c] = "open"]
        /\ owner' = [owner EXCEPT ![c] = usr[r]]
        /\ created' = [created EXCEPT ![c] = at[r]]
  BY DEF StoreChallenge
<1>4. \A d \in Challenge \ {c} : Stored(d)' <=> Stored(d)
  BY <1>1, <1>3 DEF Stored, Superseded, Held, Superseding, Control, TypeOK
<1>5. QED
  BY <1>1, <1>2, <1>3, <1>4 DEF Control, TypeOK

(* The room an issuance has counted is still there when it stores.         *)
LEMMA NextRoom == Control /\ Superseding /\ Room /\ [Next]_vars => Room'
<1> SUFFICES ASSUME Control, Superseding, Room, [Next]_vars,
                    NEW q \in Request, pc'[q] = "supersede"
             PROVE  Cardinality(IssuedSince(usr[q], at[q] - IssuanceWindow)') < MaxIssuancesPerWindow
  BY DEF Room
<1> DEFINE Before == IssuedSince(usr[q], at[q] - IssuanceWindow)
<1>1. MaxIssuancesPerWindow \in Nat /\ Before \in SUBSET Challenge
  BY DEF IssuedSince
<1>2. ASSUME pc[q] = "supersede", Before' \subseteq Before
      PROVE  Cardinality(Before') < MaxIssuancesPerWindow
  <2>1. Cardinality(Before) < MaxIssuancesPerWindow
    BY <1>2 DEF Room
  <2>2. /\ Cardinality(Before') \in Nat /\ Cardinality(Before) \in Nat
        /\ Cardinality(Before') <= Cardinality(Before)
    BY <1>1, <1>2, CountChallenges
  <2>3. QED
    BY <1>1, <2>1, <2>2
<1>3. CASE Effects
  BY <1>2, <1>3 DEF Effects, IssuedSince
<1>4. ASSUME NEW r \in Request, LockOpen(r) PROVE Cardinality(Before') < MaxIssuancesPerWindow
  BY <1>2, <1>4 DEF LockOpen, challenges, IssuedSince, Stored
<1>5. ASSUME NEW r \in Request, CountIssued(r) PROVE Cardinality(Before') < MaxIssuancesPerWindow
  <2>1. Before' = Before /\ (q # r => pc[q] = "supersede")
    BY <1>5 DEF CountIssued, challenges, IssuedSince, Stored, Control, TypeOK
  <2>2. CASE q # r
    BY <1>2, <2>1, <2>2
  <2>3. CASE q = r
    <3>1. ~(Cardinality(Before) >= MaxIssuancesPerWindow)
      BY <1>5, <2>3 DEF CountIssued, Limited
    <3>2. Cardinality(Before) \in Nat
      BY <1>1, CountChallenges
    <3>3. QED
      BY <1>1, <2>1, <3>1, <3>2
  <2>4. QED
    BY <2>2, <2>3
<1>6. ASSUME NEW r \in Request, StoreChallenge(r) PROVE Cardinality(Before') < MaxIssuancesPerWindow
  <2>1. pc[q] = "supersede" /\ q # r /\ usr[q] # usr[r]
    BY <1>6, StoreAdds DEF Control, TypeOK, Holding
  <2>2. PICK c \in Challenge :
          /\ owner'[c] = usr[r]
          /\ \A d \in Challenge \ {c} :
                owner'[d] = owner[d] /\ created'[d] = created[d] /\ (Stored(d)' <=> Stored(d))
    BY <1>6, StoreAdds
  <2>3. usr' = usr /\ at' = at
    BY <1>6, StoreAdds
  <2>4. Before' \subseteq Before
    BY <2>1, <2>2, <2>3 DEF IssuedSince
  <2>5. QED
    BY <1>2, <2>1, <2>4
<1>7. QED
  BY <1>3, <1>4, <1>5, <1>6, StepEffects

(* A window a new challenge falls into was counted, or has the room that   *)
(* was counted, whichever end of it the challenge is.                      *)
LEMMA NextCap == Control /\ Superseding /\ Room /\ IssuanceCap /\ [Next]_vars => IssuanceCap'
<1> SUFFICES ASSUME Control, Superseding, Room, IssuanceCap, [Next]_vars,
                    NEW c \in Challenge, Stored(c)'
             PROVE  Cardinality(Window(c)') <= MaxIssuancesPerWindow
  BY DEF IssuanceCap, Window
<1>1. MaxIssuancesPerWindow \in Nat /\ IssuanceWindow \in Nat /\ Window(c) \in SUBSET Challenge
  BY DEF Window, IssuedSince
<1>2. ASSUME Stored(c), Window(c)' \subseteq Window(c)
      PROVE  Cardinality(Window(c)') <= MaxIssuancesPerWindow
  <2>1. Cardinality(Window(c)) <= MaxIssuancesPerWindow
    BY <1>2 DEF IssuanceCap, Window
  <2>2. /\ Cardinality(Window(c)') \in Nat /\ Cardinality(Window(c)) \in Nat
        /\ Cardinality(Window(c)') <= Cardinality(Window(c))
    BY <1>1, <1>2, CountChallenges
  <2>3. QED
    BY <1>1, <2>1, <2>2
<1>3. CASE Effects
  BY <1>2, <1>3 DEF Effects, Window, IssuedSince
<1>4. ASSUME NEW r \in Request, CountIssued(r) \/ LockOpen(r)
      PROVE  Cardinality(Window(c)') <= MaxIssuancesPerWindow
  BY <1>2, <1>4 DEF CountIssued, LockOpen, challenges, Window, IssuedSince, Stored
<1>5. ASSUME NEW r \in Request, StoreChallenge(r)
      PROVE  Cardinality(Window(c)') <= MaxIssuancesPerWindow
  <2> DEFINE Counted == IssuedSince(usr[r], at[r] - IssuanceWindow)
  <2>1. /\ pc[r] = "supersede" /\ at[r] \in Nat
        /\ Cardinality(Counted) < MaxIssuancesPerWindow
    BY <1>5, StoreAdds DEF Room
  <2>2. PICK n \in Challenge :
          /\ owner'[n] = usr[r] /\ created'[n] = at[r]
          /\ \A d \in Challenge \ {n} :
                owner'[d] = owner[d] /\ created'[d] = created[d] /\ (Stored(d)' <=> Stored(d))
    BY <1>5, StoreAdds
  <2>3. created \in [Challenge -> Nat]
    BY DEF Control, TypeOK
  <2>4. ASSUME Window(c)' \subseteq Counted \cup {n}
        PROVE  Cardinality(Window(c)') <= MaxIssuancesPerWindow
    <3>1. Counted \in SUBSET Challenge
      BY DEF IssuedSince
    <3>2. /\ IsFiniteSet(Counted) /\ Cardinality(Counted) \in Nat
      BY <3>1, CountChallenges
    <3>3. Cardinality(Counted \cup {n}) <= Cardinality(Counted) + 1
      <4> HIDE DEF Counted
      <4>1. Cardinality(Counted \cup {n}) =
                IF n \in Counted THEN Cardinality(Counted) ELSE Cardinality(Counted) + 1
        BY ONLY <3>2, FS_AddElement
      <4>2. QED
        BY <3>2, <4>1
    <3>4. /\ Cardinality(Window(c)') \in Nat /\ Cardinality(Counted \cup {n}) \in Nat
          /\ Cardinality(Window(c)') <= Cardinality(Counted \cup {n})
      <4>1. Counted \cup {n} \in SUBSET Challenge
        BY <3>1, <2>2
      <4>2. QED
        BY <4>1, <2>4, CountChallenges
    <3>5. QED
      BY <1>1, <2>1, <3>2, <3>3, <3>4
  <2>5. CASE c = n
    <3>1. \A d \in Window(c)' : d = n \/ d \in Counted
      BY <1>1, <2>1, <2>2, <2>3, <2>5 DEF Window, IssuedSince
    <3>2. QED
      BY <2>4, <3>1
  <2>6. CASE c # n
    <3>1. Stored(c)
      BY <2>2, <2>6
    <3>2. CASE n \notin Window(c)'
      BY <1>2, <2>2, <2>6, <3>1, <3>2 DEF Window, IssuedSince
    <3>3. CASE n \in Window(c)'
      <4>1. owner[c] = usr[r] /\ at[r] <= created[c] + IssuanceWindow
        BY <2>2, <2>6, <3>3 DEF Window, IssuedSince
      <4>2. \A d \in Window(c)' : d = n \/ d \in Counted
        BY <1>1, <2>1, <2>2, <2>3, <2>6, <4>1 DEF Window, IssuedSince
      <4>3. QED
        BY <2>4, <4>2
    <3>4. QED
      BY <3>2, <3>3
  <2>7. QED
    BY <2>5, <2>6
<1>6. QED
  BY <1>3, <1>4, <1>5, StepEffects

(* No account is mailed more than the allowed codes of new challenges in   *)
(* any window, in whatever order its logins reach the advisory lock.       *)
THEOREM IssuancesAreCapped == Spec => []IssuanceCap
<1>1. Init => Control /\ Superseding /\ Room /\ IssuanceCap
  BY InitControl DEF Init, Room, IssuanceCap, Stored
<1>2. Control /\ Superseding /\ Room /\ IssuanceCap /\ [Next]_vars
          => (Control /\ Superseding /\ Room /\ IssuanceCap)'
  BY NextControl, NextSuperseding, NextRoom, NextCap
<1>3. QED
  BY <1>1, <1>2, PTL DEF Spec

-----------------------------------------------------------------------------
(***************************************************************************)
(* Delivery of the codes.                                                  *)
(***************************************************************************)
(* A code was drawn, and neither confirmed nor compensated yet.            *)
Delivering(r) == pc[r] \in {"publish", "compensate"}

(* No code is confirmed that was not drawn.                                *)
Numbered ==
    \A c \in Challenge :
        /\ confirmed[c] <= drawn[c]
        /\ state[c] = "absent" => drawn[c] = 0

(* A challenge never falls back behind a code that is still on its way.    *)
Drafted ==
    \A q \in Request : Delivering(q) => digits[q] <= code[arg[q]] /\ digits[q] <= drawn[arg[q]]

(* What a resend would restore is no older than a code on its way that was *)
(* drawn before its own.                                                   *)
Ordered ==
    \A p, q \in Request : p # q /\ Delivering(p) /\ Delivering(q) /\ arg[p] = arg[q] =>
        /\ digits[p] # digits[q]
        /\ op[q] = "resend" /\ digits[p] < digits[q] => digits[p] <= got[q].code

(* Nor is it older than a confirmed code, unless a newer one than its own  *)
(* was confirmed: then there is nothing to restore.                        *)
Undoable ==
    \A q \in Request : Delivering(q) /\ op[q] = "resend" =>
        confirmed[arg[q]] <= got[q].code \/ digits[q] < confirmed[arg[q]]

Delivery == Numbered /\ Drafted /\ Ordered /\ Undoable /\ ConfirmedCodeStands

(* What is delivered after the step was delivered before, on the same code. *)
Carried ==
    \A q \in Request : Delivering(q)' =>
        /\ Delivering(q)
        /\ arg'[q] = arg[q] /\ digits'[q] = digits[q] /\ op'[q] = op[q] /\ got'[q] = got[q]

(* Most steps draw no code, confirm none and restore none.                 *)
Calm ==
    /\ UNCHANGED <<code, drawn, confirmed>>
    /\ \A c \in Challenge : state'[c] \in {"absent", "open"} => state'[c] = state[c]
    /\ Carried

LEMMA CalmDelivery == Delivery /\ Calm /\ Shape => Delivery'
<1> SUFFICES ASSUME Delivery, Calm, Shape PROVE Delivery'
  OBVIOUS
<1>1. Numbered' /\ ConfirmedCodeStands'
  BY DEF Delivery, Calm, Numbered, ConfirmedCodeStands
<1>2. Drafted'
  BY DEF Delivery, Calm, Carried, Drafted
<1>3. Ordered'
  BY DEF Delivery, Calm, Carried, Ordered
<1>4. Undoable'
  BY DEF Delivery, Calm, Carried, Undoable
<1>5. QED
  BY <1>1, <1>2, <1>3, <1>4 DEF Delivery

(* The end of a request carries the deliveries of the others.              *)
LEMMA FinishCarries ==
    ASSUME Control, NEW r \in Request, Finish(r)
    PROVE  /\ ~Delivering(r)' /\ Carried
           /\ \A q \in Request : Delivering(q)' => q # r
<1>1. ~Delivering(r)'
  BY DEF Finish, Delivering, Control, TypeOK
<1>2. \A q \in Request \ {r} :
         /\ pc'[q] = pc[q] /\ arg'[q] = arg[q] /\ digits'[q] = digits[q] /\ op'[q] = op[q]
         /\ got'[q] = got[q]
  BY DEF Finish, Control, TypeOK
<1>3. QED
  BY <1>1, <1>2 DEF Carried, Delivering

LEMMA StepCalm ==
    ASSUME Control, [Next]_vars,
           \A r \in Request : /\ ~StoreChallenge(r) /\ ~PublishConfirmed(r)
                              /\ ~RestoreResend(r) /\ ~ResendChallenge(r)
    PROVE  Calm
<1>1. ASSUME UNCHANGED <<state, code, drawn, confirmed, arg, digits, op>>,
             \A q \in Request : Delivering(q)' => Delivering(q) /\ got'[q] = got[q]
      PROVE  Calm
  BY <1>1 DEF Calm, Carried
<1>2. CASE UNCHANGED vars
  BY <1>1, <1>2 DEF vars, challenges, progress, outside, Delivering
<1>3. ASSUME NEW r \in Request, NEW step \in {"lock", "row"}, NEW operation, NEW c, NEW u, NEW d,
             Begin(r, step, operation, c, u, d)
      PROVE  Calm
  <2>1. UNCHANGED <<state, code, drawn, confirmed, got>>
    BY <1>3 DEF Begin, challenges, outside
  <2>2. pc'[r] = step
    BY <1>3 DEF Begin, Control, TypeOK
  <2>3. \A q \in Request \ {r} :
           pc'[q] = pc[q] /\ arg'[q] = arg[q] /\ digits'[q] = digits[q] /\ op'[q] = op[q]
    BY <1>3 DEF Begin, Control, TypeOK
  <2>4. Carried
    BY <2>1, <2>2, <2>3 DEF Carried, Delivering
  <2>5. QED
    BY <2>1, <2>4 DEF Calm
<1>4. ASSUME NEW r \in Request,
             \/ LockIssuance(r) \/ CountIssued(r) \/ LockOpen(r) \/ PublishFailed(r)
             \/ LockChallenge(r)
      PROVE  Calm
  BY <1>1, <1>4 DEF LockIssuance, CountIssued, LockOpen, PublishFailed, LockChallenge,
                    challenges, outside, Delivering, Control, TypeOK
<1>5. ASSUME NEW r \in Request, LockAccount(r) PROVE Calm
  BY <1>1, <1>5 DEF LockAccount, challenges, outside, Delivering, Control, TypeOK
<1>6. ASSUME NEW r \in Request, Finish(r), UNCHANGED <<code, drawn, confirmed>>,
             \A c \in Challenge : state'[c] \in {"absent", "open"} => state'[c] = state[c]
      PROVE  Calm
  BY <1>6, FinishCarries DEF Calm
<1>7. ASSUME NEW r \in Request, Rollback(r) PROVE Calm
  BY <1>6, <1>7 DEF Rollback, challenges, outside
<1>8. ASSUME NEW r \in Request, CancelUndelivered(r) PROVE Calm
  BY <1>6, <1>8 DEF CancelUndelivered, CancelledState, Control, TypeOK
<1>9. ASSUME NEW r \in Request, RejectCode(r) \/ AcceptCode(r) PROVE Calm
  BY <1>6, <1>9 DEF RejectCode, AcceptCode, AfterRejection, outside, Control, TypeOK
<1>10. CASE Tick \/ \E u \in User : ChangeAccount(u)
  BY <1>1, <1>10 DEF Tick, ChangeAccount, challenges, progress, outside, Delivering
<1>11. QED
  BY <1>2, <1>3, <1>4, <1>5, <1>7, <1>8, <1>9, <1>10
     DEF Next, Proceed, BeginIssue, BeginVerify, BeginResend, IssuanceLimited, Refuse, LoseRequest

(* A new challenge has no code before its first.                           *)
LEMMA StoreDelivers ==
    ASSUME Control, Superseding, Delivery, NEW r \in Request, StoreChallenge(r)
    PROVE  Delivery'
<1>1. PICK c \in Challenge :
        /\ state[c] = "absent" /\ state' = [Superseded(r) EXCEPT ![c] = "open"]
        /\ code' = [code EXCEPT ![c] = digits[r]]
        /\ drawn' = [drawn EXCEPT ![c] = digits[r]]
        /\ arg' = [arg EXCEPT ![r] = c]
  BY DEF StoreChallenge
<1>2. /\ pc[r] = "supersede" /\ pc' = [pc EXCEPT ![r] = "publish"]
      /\ UNCHANGED <<op, digits, got, confirmed>>
  BY DEF StoreChallenge, outside
<1>3. /\ arg'[r] = c /\ code'[c] = digits[r] /\ drawn'[c] = digits[r] /\ digits[r] \in Nat
      /\ \A q \in Request \ {r} : arg'[q] = arg[q] /\ pc'[q] = pc[q]
      /\ \A d \in Challenge \ {c} : code'[d] = code[d] /\ drawn'[d] = drawn[d]
  BY <1>1, <1>2 DEF Control, TypeOK
<1>4. \A q \in Request \ {r} : Delivering(q)' =>
         Delivering(q) /\ arg[q] \in Challenge \ {c}
  BY <1>1, <1>3 DEF Delivering, Control, Shape
<1>5. confirmed[c] = 0 /\ \A d \in Challenge : confirmed[d] \in Nat /\ drawn[d] \in Nat
  BY <1>1 DEF Delivery, Numbered, Control, TypeOK
<1>6. \A d \in Challenge \ {c} :
         /\ state'[d] = "open" => state[d] = "open"
         /\ state'[d] = "absent" => state[d] = "absent"
  BY <1>1 DEF Superseded, Control, TypeOK
<1>7. state'[c] = "open"
  BY <1>1 DEF Superseded, Control, TypeOK
<1>8. Numbered'
  <2>1. SUFFICES ASSUME NEW d \in Challenge
                 PROVE  confirmed[d] <= drawn'[d] /\ (state'[d] = "absent" => drawn'[d] = 0)
    BY <1>2 DEF Numbered
  <2>2. CASE d = c
    BY <1>3, <1>5, <1>7, <2>2
  <2>3. CASE d # c
    BY <1>3, <1>6, <2>3 DEF Delivery, Numbered
  <2>4. QED
    BY <2>2, <2>3
<1>9. Drafted'
  BY <1>2, <1>3, <1>4 DEF Delivery, Drafted
<1>10. Ordered'
  BY <1>2, <1>3, <1>4 DEF Delivery, Ordered
<1>11. Undoable'
  <2>1. SUFFICES ASSUME NEW q \in Request, Delivering(q)', op[q] = "resend"
                 PROVE  confirmed[arg'[q]] <= got[q].code \/ digits[q] < confirmed[arg'[q]]
    BY <1>2 DEF Undoable
  <2>2. CASE q = r
    <3>1. got[q].code \in Nat
      BY DEF Control, TypeOK, Row
    <3>2. QED
      BY <1>3, <1>5, <2>2, <3>1
  <2>3. CASE q # r
    <3>1. Delivering(q) /\ arg'[q] = arg[q] /\ arg[q] \in Challenge
      BY <1>3, <1>4, <2>1, <2>3
    <3>2. QED
      BY <2>1, <3>1 DEF Delivery, Undoable
  <2>4. QED
    BY <2>2, <2>3
<1>12. ConfirmedCodeStands'
  BY <1>2, <1>3, <1>5, <1>6 DEF Delivery, ConfirmedCodeStands
<1>13. QED
  BY <1>8, <1>9, <1>10, <1>11, <1>12 DEF Delivery

(* A resend reads the code it replaces under the lock of the challenge.    *)
LEMMA ResendDelivers ==
    ASSUME Control, Delivery, NEW r \in Request, ResendChallenge(r)
    PROVE  Delivery'
<1> DEFINE c == arg[r]
<1>1. /\ pc[r] = "decide" /\ op[r] = "resend" /\ Usable(r)
      /\ pc' = [pc EXCEPT ![r] = "publish"]
      /\ drawn' = [drawn EXCEPT ![c] = @ + 1]
      /\ code' = [code EXCEPT ![c] = drawn[c] + 1]
      /\ digits' = [digits EXCEPT ![r] = drawn[c] + 1]
      /\ UNCHANGED <<state, op, arg, got, confirmed>>
  BY DEF ResendChallenge, outside
<1>2. c \in Challenge /\ state[c] = "open" /\ got[r].code = code[c]
  <2>1. c \in Challenge /\ got[r] = ReadRow(r) /\ ~got[r].used
    BY <1>1 DEF Usable, Control, Shape, ReadCurrent
  <2>2. ReadRow(r).code = code[c] /\ ReadRow(r).used = (state[c] # "open")
    BY DEF ReadRow
  <2>3. QED
    BY <2>1, <2>2
<1>3. drawn[c] \in Nat /\ confirmed[c] <= drawn[c] /\ confirmed[c] <= code[c]
  BY <1>2 DEF Delivery, Numbered, ConfirmedCodeStands, Control, TypeOK
<1>4. /\ code'[c] = drawn[c] + 1 /\ drawn'[c] = drawn[c] + 1 /\ digits'[r] = drawn[c] + 1
      /\ \A q \in Request \ {r} : digits'[q] = digits[q] /\ (Delivering(q)' <=> Delivering(q))
      /\ \A d \in Challenge \ {c} : code'[d] = code[d] /\ drawn'[d] = drawn[d]
  BY <1>1, <1>2 DEF Control, TypeOK, Delivering
<1>5. \A q \in Request : digits[q] \in Nat /\ got[q].code \in Nat
  BY DEF Control, TypeOK, Row
<1>6. \A q \in Request : Delivering(q) => digits[q] <= code[arg[q]] /\ digits[q] <= drawn[arg[q]]
  BY DEF Delivery, Drafted
<1>7. \A d \in Challenge : confirmed[d] \in Nat /\ drawn[d] \in Nat /\ code[d] \in Nat
  BY DEF Control, TypeOK
<1>8. Numbered'
  BY <1>1, <1>2, <1>3, <1>4, <1>7 DEF Delivery, Numbered
<1>9. Drafted'
  BY <1>1, <1>3, <1>4, <1>5, <1>6, <1>7 DEF Drafted, Delivering, Control, Shape
<1>10. Ordered'
  <2>1. SUFFICES ASSUME NEW p \in Request, NEW q \in Request, p # q,
                        Delivering(p)', Delivering(q)', arg[p] = arg[q]
                 PROVE  /\ digits'[p] # digits'[q]
                        /\ op[q] = "resend" /\ digits'[p] < digits'[q] => digits'[p] <= got[q].code
    BY <1>1 DEF Ordered
  <2>2. CASE q = r
    BY <1>2, <1>4, <1>5, <1>6, <1>3, <2>1, <2>2
  <2>3. CASE p = r
    BY <1>3, <1>4, <1>5, <1>6, <2>1, <2>3
  <2>4. CASE p # r /\ q # r
    BY <1>4, <2>1, <2>4 DEF Delivery, Ordered
  <2>5. QED
    BY <2>2, <2>3, <2>4
<1>11. Undoable'
  <2>1. SUFFICES ASSUME NEW q \in Request, Delivering(q)', op[q] = "resend"
                 PROVE  confirmed[arg[q]] <= got[q].code \/ digits'[q] < confirmed[arg[q]]
    BY <1>1 DEF Undoable
  <2>2. CASE q = r
    BY <1>2, <1>3, <2>2
  <2>3. CASE q # r
    BY <1>4, <2>1, <2>3 DEF Delivery, Undoable
  <2>4. QED
    BY <2>2, <2>3
<1>12. ConfirmedCodeStands'
  BY <1>1, <1>2, <1>3, <1>4, <1>7 DEF Delivery, ConfirmedCodeStands
<1>13. QED
  BY <1>8, <1>9, <1>10, <1>11, <1>12 DEF Delivery

(* A confirmed code is still the code of its challenge, or older.          *)
LEMMA ConfirmDelivers ==
    ASSUME Control, Delivery, NEW r \in Request, PublishConfirmed(r)
    PROVE  Delivery'
<1> DEFINE c == arg[r]
<1>1. /\ Delivering(r) /\ Finish(r)
      /\ confirmed' = [confirmed EXCEPT ![c] = IF digits[r] > @ THEN digits[r] ELSE @]
      /\ UNCHANGED <<state, code, drawn>>
  BY DEF PublishConfirmed, Delivering, challenges
<1>2. c \in Challenge /\ digits[r] \in Nat /\ digits[r] <= code[c] /\ digits[r] <= drawn[c]
  BY <1>1 DEF Delivery, Drafted, Delivering, Control, TypeOK, Shape
<1>3. \A d \in Challenge : confirmed[d] \in Nat /\ drawn[d] \in Nat /\ code[d] \in Nat
  BY DEF Control, TypeOK
<1>4. /\ confirmed'[c] = IF digits[r] > confirmed[c] THEN digits[r] ELSE confirmed[c]
      /\ \A d \in Challenge \ {c} : confirmed'[d] = confirmed[d]
  BY <1>1, <1>2 DEF Control, TypeOK
<1>5. Carried /\ \A q \in Request : Delivering(q)' => q # r
  BY <1>1, FinishCarries
<1>6. Numbered'
  BY <1>1, <1>2, <1>3, <1>4 DEF Delivery, Numbered
<1>7. Drafted'
  BY <1>1, <1>5 DEF Delivery, Drafted, Carried
<1>8. Ordered'
  BY <1>5 DEF Delivery, Ordered, Carried
<1>9. Undoable'
  <2>1. SUFFICES ASSUME NEW q \in Request, Delivering(q)', op'[q] = "resend"
                 PROVE  confirmed'[arg'[q]] <= got'[q].code \/ digits'[q] < confirmed'[arg'[q]]
    BY DEF Undoable
  <2>2. /\ Delivering(q) /\ q # r /\ arg'[q] = arg[q] /\ digits'[q] = digits[q]
        /\ op[q] = "resend" /\ got'[q] = got[q] /\ arg[q] \in Challenge
        /\ digits[q] \in Nat /\ got[q].code \in Nat
    BY <1>5, <2>1 DEF Carried, Delivering, Control, TypeOK, Row, Shape
  <2>3. confirmed[arg[q]] <= got[q].code \/ digits[q] < confirmed[arg[q]]
    BY <2>2 DEF Delivery, Undoable
  <2>4. CASE arg[q] # c
    BY <1>4, <2>2, <2>3, <2>4
  <2>5. CASE arg[q] = c
    <3>1. digits[r] # digits[q] /\ (digits[r] < digits[q] => digits[r] <= got[q].code)
      BY <1>1, <2>2, <2>5 DEF Delivery, Ordered
    <3>2. QED
      BY <1>2, <1>3, <1>4, <2>2, <2>3, <2>5, <3>1
  <2>6. QED
    BY <2>4, <2>5
<1>10. ConfirmedCodeStands'
  BY <1>1, <1>2, <1>3, <1>4 DEF Delivery, ConfirmedCodeStands
<1>11. QED
  BY <1>6, <1>7, <1>8, <1>9, <1>10 DEF Delivery

(* A restored code is no older than one confirmed, or still on its way.    *)
LEMMA RestoreDelivers ==
    ASSUME Control, Delivery, NEW r \in Request, RestoreResend(r)
    PROVE  Delivery'
<1> DEFINE c == arg[r]
<1>1. /\ Delivering(r) /\ op[r] = "resend" /\ Finish(r)
      /\ code' = IF Restorable(r) THEN [code EXCEPT ![c] = got[r].code] ELSE code
      /\ UNCHANGED <<state, drawn, confirmed>>
  BY DEF RestoreResend, Delivering, outside
<1>2. CASE ~Restorable(r)
  <2>1. Calm
    BY <1>1, <1>2, FinishCarries DEF Calm
  <2>2. QED
    BY <2>1, CalmDelivery DEF Control
<1>3. CASE Restorable(r)
  <2>1. c \in Challenge /\ code[c] = digits[r] /\ state[c] = "open"
    BY <1>1, <1>3 DEF Restorable, Delivering, Control, Shape
  <2>2. code'[c] = got[r].code /\ \A d \in Challenge \ {c} : code'[d] = code[d]
    BY <1>1, <1>3, <2>1 DEF Control, TypeOK
  <2>3. Carried /\ \A q \in Request : Delivering(q)' => q # r
    BY <1>1, FinishCarries
  <2>4. /\ \A q \in Request : digits[q] \in Nat /\ got[q].code \in Nat
        /\ \A d \in Challenge : confirmed[d] \in Nat /\ code[d] \in Nat /\ drawn[d] \in Nat
    BY DEF Control, TypeOK, Row
  <2>5. confirmed[c] <= got[r].code
    <3>1. confirmed[c] <= code[c]
      BY <2>1 DEF Delivery, ConfirmedCodeStands
    <3>2. confirmed[c] <= got[r].code \/ digits[r] < confirmed[c]
      BY <1>1 DEF Delivery, Undoable
    <3>3. QED
      BY <2>1, <2>4, <3>1, <3>2
  <2>6. Numbered'
    BY <1>1 DEF Delivery, Numbered
  <2>7. Drafted'
    <3>1. SUFFICES ASSUME NEW q \in Request, Delivering(q)'
                   PROVE  digits'[q] <= code'[arg'[q]] /\ digits'[q] <= drawn'[arg'[q]]
      BY DEF Drafted
    <3>2. /\ Delivering(q) /\ q # r /\ arg'[q] = arg[q] /\ digits'[q] = digits[q]
          /\ arg[q] \in Challenge
      BY <2>3, <3>1 DEF Carried, Delivering, Control, Shape
    <3>3. digits[q] <= code[arg[q]] /\ digits[q] <= drawn[arg[q]]
      BY <3>2 DEF Delivery, Drafted
    <3>4. CASE arg[q] # c
      BY <1>1, <2>2, <3>2, <3>3, <3>4
    <3>5. CASE arg[q] = c
      <4>1. digits[q] # digits[r] /\ (digits[q] < digits[r] => digits[q] <= got[r].code)
        BY <1>1, <3>2, <3>5 DEF Delivery, Ordered
      <4>2. digits[q] <= got[r].code
        BY <2>1, <2>4, <3>3, <3>5, <4>1
      <4>3. QED
        BY <1>1, <2>2, <3>2, <3>3, <3>5, <4>2
    <3>6. QED
      BY <3>4, <3>5
  <2>8. Ordered'
    BY <2>3 DEF Delivery, Ordered, Carried
  <2>9. Undoable'
    BY <1>1, <2>3 DEF Delivery, Undoable, Carried
  <2>10. ConfirmedCodeStands'
    BY <1>1, <2>1, <2>2, <2>5 DEF Delivery, ConfirmedCodeStands
  <2>11. QED
    BY <2>6, <2>7, <2>8, <2>9, <2>10 DEF Delivery
<1>4. QED
  BY <1>2, <1>3

LEMMA NextDelivery == Control /\ Superseding /\ Delivery /\ [Next]_vars => Delivery'
<1> SUFFICES ASSUME Control, Superseding, Delivery, [Next]_vars PROVE Delivery'
  OBVIOUS
<1>1. ASSUME Calm PROVE Delivery'
  BY <1>1, CalmDelivery DEF Control
<1>2. QED
  BY <1>1, StepCalm, StoreDelivers, ConfirmDelivers, RestoreDelivers, ResendDelivers

(* Once a resend was answered with success no older code is valid again,   *)
(* whatever resends of the challenge fail and are compensated afterwards   *)
(* (restoreUndeliveredResend of the mfa service).                          *)
THEOREM ConfirmedCodesStand == Spec => []ConfirmedCodeStands
<1>1. Init => Control /\ Superseding /\ Delivery
  BY InitControl DEF Init, Delivery, Numbered, Drafted, Ordered, Undoable, Delivering,
                     ConfirmedCodeStands
<1>2. Control /\ Superseding /\ Delivery /\ [Next]_vars => (Control /\ Superseding /\ Delivery)'
  BY NextControl, NextSuperseding, NextDelivery
<1>3. Delivery => ConfirmedCodeStands
  BY DEF Delivery
<1>4. QED
  BY <1>1, <1>2, <1>3, PTL DEF Spec
-----------------------------------------------------------------------------
(***************************************************************************)
(* Cancellation of what was not delivered.                                 *)
(***************************************************************************)
(* No statement brings a deleted row back.                                 *)
CancelledForGood == \A c \in undelivered : state[c] = "deleted"

LEMMA DeletedStays ==
    ASSUME Control, Superseding, [Next]_vars, NEW c \in Challenge, state[c] = "deleted"
    PROVE  state'[c] = "deleted"
<1>1. CASE Effects
  BY <1>1 DEF Effects, Stored
<1>2. ASSUME NEW r \in Request, CountIssued(r) \/ LockOpen(r) PROVE state'[c] = "deleted"
  BY <1>2 DEF CountIssued, LockOpen, challenges
<1>3. ASSUME NEW r \in Request, StoreChallenge(r) PROVE state'[c] = "deleted"
  <2>1. PICK d \in Challenge : state[d] = "absent" /\ state' = [Superseded(r) EXCEPT ![d] = "open"]
    BY <1>3 DEF StoreChallenge
  <2>2. c \notin Held(r)
    BY <1>3 DEF StoreChallenge, Superseding, Held
  <2>3. QED
    BY <2>1, <2>2 DEF Superseded
<1>4. QED
  BY <1>1, <1>2, <1>3, StepEffects

LEMMA OnlyCancelGivesUp ==
    ASSUME [Next]_vars, \A r \in Request : ~CancelUndelivered(r)
    PROVE  undelivered' = undelivered
<1>1. ASSUME NEW r \in Request, Proceed(r) PROVE undelivered' = undelivered
  BY <1>1 DEF Proceed, LockIssuance, IssuanceLimited, CountIssued, LockOpen, StoreChallenge,
       PublishConfirmed, PublishFailed, RestoreResend, LockChallenge, LockAccount, Refuse,
       RejectCode, AcceptCode, ResendChallenge, Rollback, outside
<1>2. ASSUME NEW r \in Request, NEW c, NEW u, NEW d,
             BeginIssue(r, u) \/ BeginVerify(r, c, d) \/ BeginResend(r, c)
      PROVE  undelivered' = undelivered
  BY <1>2 DEF BeginIssue, BeginVerify, BeginResend, Begin, outside
<1>3. ASSUME NEW r \in Request, LoseRequest(r) PROVE undelivered' = undelivered
  BY <1>3 DEF LoseRequest, Rollback, outside
<1>4. ASSUME NEW u, ChangeAccount(u) PROVE undelivered' = undelivered
  BY <1>4 DEF ChangeAccount, outside
<1>5. CASE Tick \/ UNCHANGED vars
  BY <1>5 DEF Tick, vars, outside
<1>6. QED
  BY <1>1, <1>2, <1>3, <1>4, <1>5 DEF Next

LEMMA NextCancelled ==
    ASSUME "DELETE" \in Granted
    PROVE  Control /\ Superseding /\ CancelledForGood /\ [Next]_vars => CancelledForGood'
<1> SUFFICES ASSUME Control, Superseding, CancelledForGood, [Next]_vars PROVE CancelledForGood'
  OBVIOUS
<1>1. undelivered \subseteq Challenge
  BY DEF Control, TypeOK
<1>2. \A c \in undelivered : state'[c] = "deleted"
  BY <1>1, DeletedStays DEF CancelledForGood
<1>3. CASE \A r \in Request : ~CancelUndelivered(r)
  BY <1>2, <1>3, OnlyCancelGivesUp DEF CancelledForGood
<1>4. ASSUME NEW r \in Request, CancelUndelivered(r) PROVE CancelledForGood'
  <2>1. /\ arg[r] \in Challenge /\ state' = [state EXCEPT ![arg[r]] = "deleted"]
        /\ undelivered' = undelivered \cup {arg[r]}
    BY <1>4 DEF CancelUndelivered, CancelledState, Control, Shape
  <2>2. state'[arg[r]] = "deleted"
    BY <2>1 DEF Control, TypeOK
  <2>3. QED
    BY <1>2, <2>1, <2>2 DEF CancelledForGood
<1>5. QED
  BY <1>3, <1>4

(* Where the database role may delete challenges, one whose code could not *)
(* be mailed leaves nothing behind (cancelUndelivered of the mfa service); *)
(* with the grants of the migrations UndeliveredIsCancelled is false.      *)
THEOREM UndeliveredAreGone == "DELETE" \in Granted => (Spec => []UndeliveredIsCancelled)
<1>1. SUFFICES ASSUME "DELETE" \in Granted PROVE Spec => []UndeliveredIsCancelled
  OBVIOUS
<1>2. Init => Control /\ Superseding /\ CancelledForGood
  BY InitControl DEF Init, CancelledForGood
<1>3. Control /\ Superseding /\ CancelledForGood /\ [Next]_vars
          => (Control /\ Superseding /\ CancelledForGood)'
  BY <1>1, NextControl, NextSuperseding, NextCancelled
<1>4. CancelledForGood => UndeliveredIsCancelled
  BY DEF CancelledForGood, UndeliveredIsCancelled, Stored
<1>5. QED
  BY <1>2, <1>3, <1>4, PTL DEF Spec
=============================================================================
