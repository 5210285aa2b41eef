------------------------ MODULE AccountTokens_proofs ------------------------
(***************************************************************************)
(* Proofs about AccountTokens for any accounts, requests and bounds.       *)
(***************************************************************************)
EXTENDS AccountTokens, FiniteSetTheorems, TLAPS

Consumption == {"accept", "confirm"}

(* Where each operation may be, and what it has there: a consumption was   *)
(* given its token, an issue draws one before it publishes or commits.     *)
ShapeOf(r) ==
    pc[r] # "idle" =>
        /\ op[r] = "accept"   => pc[r] \in {"hash", "token", "user", "publish", "commit"}
        /\ op[r] = "confirm"  => pc[r] \in {"hash", "token", "user", "others", "commit"}
        /\ op[r] = "resend"   => pc[r] \in {"user", "find", "others", "draw", "publish", "commit"}
        /\ op[r] = "employee" => pc[r] \in {"insert", "draw", "publish", "commit"}
        /\ op[r] = "forgot"   => pc[r] \in {"draw", "publish", "commit"}
        /\ op[r] = "ensure"   =>
              /\ pc[r] \in {"decide", "insert", "find", "others", "draw", "commit",
                            "announce", "withdraw"}
              /\ user[r] \in Founder
        /\ op[r] \in Consumption => token[r] # None
        /\ op[r] \notin Consumption =>
              IF pc[r] \in {"publish", "commit", "announce", "withdraw"}
              THEN token[r] # None /\ token[r] <= drawn
              ELSE token[r] = None
        /\ pc[r] = "commit" /\ op[r] \in {"resend", "employee", "forgot"} => token[r] \in mailed

Shapes == \A r \in Request : ShapeOf(r)

(* The requests that may still draw a token find one.                      *)
Drawers == {r \in Request : pc[r] # "idle" /\ op[r] \notin Consumption /\ token[r] = None}

Drawing == IsFiniteSet(Drawers) /\ drawn + Cardinality(Drawers) <= MaxTokens

(* From its first lock to its commit a consumption holds the row of its    *)
(* token, which is unused.                                                 *)
ConsumesOf(r) ==
    op[r] \in Consumption /\ pc[r] \in {"user", "others", "publish", "commit"} =>
        tokenLock[token[r]] = r /\ token[r] \notin used

Consuming == \A r \in Request : ConsumesOf(r)

(* An acceptance or a confirmation left its mark.                          *)
Accounted == \A t \in Token : uses[t] <= 1 /\ (t \notin used => uses[t] = 0)

IInv == TypeOK /\ Shapes /\ Drawing /\ Consuming /\ Accounted /\ StoredWasMailed

USE TokensAssumption

LEMMA InitIInv == Init => IInv
<1>1. SUFFICES ASSUME Init PROVE IInv
  OBVIOUS
<1>2. TypeOK
  BY <1>1 DEF Init, TypeOK, Status, Op, Step, Reply, Token
<1>3. Shapes /\ Consuming /\ Accounted /\ StoredWasMailed
  BY <1>1 DEF Init, Shapes, ShapeOf, Consuming, ConsumesOf, Accounted, StoredWasMailed,
              Consumption
<1>4. Drawers = {} /\ drawn = 0
  BY <1>1 DEF Init, Drawers
<1>5. Drawing
  BY <1>4, FS_EmptySet DEF Drawing
<1>6. QED
  BY <1>2, <1>3, <1>5 DEF IInv

(* Fewer drawers need no more tokens.                                      *)
LEMMA FewerDrawers ==
    ASSUME TypeOK, Drawing, Drawers' \subseteq Drawers, drawn' = drawn
    PROVE  Drawing'
<1>1. IsFiniteSet(Drawers') /\ Cardinality(Drawers') <= Cardinality(Drawers)
  BY FS_Subset DEF Drawing
<1>2. Cardinality(Drawers') \in Nat /\ Cardinality(Drawers) \in Nat /\ drawn \in Nat
  BY <1>1, FS_CardinalityType DEF Drawing, TypeOK
<1>3. drawn + Cardinality(Drawers') <= MaxTokens
  BY <1>1, <1>2 DEF Drawing
<1>4. QED
  BY <1>1, <1>3 DEF Drawing

(* The end of a request frees its locks and forgets what it worked on.     *)
LEMMA FinishEffect ==
    ASSUME TypeOK, NEW r \in Request, NEW a \in Reply, Finish(r, a)
    PROVE  /\ userLock' \in [User -> Request \cup {None}]
           /\ tokenLock' \in [Token -> Request \cup {None}]
           /\ advisory' \in Request \cup {None}
           /\ pc' \in [Request -> Step] /\ op' \in [Request -> Op]
           /\ user' \in [Request -> User \cup {None}]
           /\ token' \in [Request -> Token \cup {None}]
           /\ others' \in [Request -> SUBSET Token]
           /\ reply' \in [Request -> Reply]
           /\ pc'[r] = "idle"
           /\ \A q \in Request \ {r} :
                 pc'[q] = pc[q] /\ op'[q] = op[q] /\ user'[q] = user[q] /\ token'[q] = token[q]
           /\ \A t \in Token : tokenLock[t] # r => tokenLock'[t] = tokenLock[t]
<1>1. /\ userLock' \in [User -> Request \cup {None}]
      /\ tokenLock' \in [Token -> Request \cup {None}]
      /\ advisory' \in Request \cup {None}
      /\ \A t \in Token : tokenLock[t] # r => tokenLock'[t] = tokenLock[t]
  BY DEF Finish, Release, TypeOK
<1>2. /\ pc' \in [Request -> Step] /\ op' \in [Request -> Op]
      /\ user' \in [Request -> User \cup {None}]
      /\ token' \in [Request -> Token \cup {None}]
      /\ others' \in [Request -> SUBSET Token]
      /\ reply' \in [Request -> Reply]
  BY DEF Finish, Goto, TypeOK, Step, Op
<1>3. /\ pc'[r] = "idle"
      /\ \A q \in Request \ {r} :
            pc'[q] = pc[q] /\ op'[q] = op[q] /\ user'[q] = user[q] /\ token'[q] = token[q]
  BY DEF Finish, Goto, TypeOK
<1>4. QED
  BY <1>1, <1>2, <1>3

(* An end that may add mails, and tokens as used that nobody holds.        *)
LEMMA EndKeeps ==
    ASSUME IInv, NEW r \in Request, NEW a \in Reply, Finish(r, a),
           UNCHANGED <<status, owner, purpose, expired, drawn, history>>,
           mailed \subseteq mailed', mailed' \in SUBSET Token,
           NEW S \in SUBSET Token, used' = used \cup S,
           \A t \in S : tokenLock[t] = None /\ owner[t] # None
    PROVE  IInv'
<1>1. TypeOK /\ Shapes /\ Drawing /\ Consuming /\ Accounted /\ StoredWasMailed
  BY DEF IInv
<1>2. TypeOK'
  BY <1>1, FinishEffect DEF TypeOK, history
<1>3. Shapes'
  BY <1>1, FinishEffect DEF Shapes, ShapeOf
<1>4. Drawers' \subseteq Drawers
  BY <1>1, FinishEffect DEF Drawers
<1>5. Drawing'
  BY <1>1, <1>4, FewerDrawers
<1>6. Consuming'
  <2>1. SUFFICES ASSUME NEW q \in Request, q # r PROVE ConsumesOf(q)'
    BY <1>1, FinishEffect DEF Consuming, ConsumesOf
  <2>2. ConsumesOf(q) /\ (op[q] \in Consumption /\ pc[q] # "idle" => token[q] \in Token)
    BY <1>1 DEF Consuming, Shapes, ShapeOf, TypeOK
  <2>3. QED
    BY <1>1, <2>1, <2>2, FinishEffect DEF ConsumesOf
<1>7. Accounted' /\ StoredWasMailed'
  BY <1>1 DEF Accounted, StoredWasMailed, history
<1>8. QED
  BY <1>2, <1>3, <1>5, <1>6, <1>7 DEF IInv

LEMMA RollbackKeeps ==
    ASSUME IInv, NEW r \in Request, NEW a \in Reply, Rollback(r, a)
    PROVE  IInv'
<1>1. /\ Finish(r, a) /\ used' = used \cup {} /\ mailed' = mailed
      /\ UNCHANGED <<status, owner, purpose, expired, drawn, history>>
      /\ mailed \in SUBSET Token
  BY DEF Rollback, tables, IInv, TypeOK
<1>2. /\ {} \in SUBSET Token /\ mailed \subseteq mailed' /\ mailed' \in SUBSET Token
      /\ \A t \in {} : tokenLock[t] = None /\ owner[t] # None
  BY <1>1
<1>3. QED
  BY <1>1, <1>2, EndKeeps

(* A statement that locks rows and writes nothing.                         *)
LEMMA MoveKeeps ==
    ASSUME IInv, NEW r \in Request, NEW st \in Step \ {"idle"}, pc[r] # "idle",
           Goto(r, st), UNCHANGED <<tables, drawn, reply, history, op, user, token>>,
           mailed \subseteq mailed', mailed' \in SUBSET Token,
           userLock' \in [User -> Request \cup {None}],
           tokenLock' \in [Token -> Request \cup {None}],
           advisory' \in Request \cup {None},
           others' \in [Request -> SUBSET Token],
           \A t \in Token : tokenLock[t] \notin {None, r} => tokenLock'[t] = tokenLock[t],
           ShapeOf(r)', ConsumesOf(r)'
    PROVE  IInv'
<1>1. TypeOK /\ Shapes /\ Drawing /\ Consuming /\ Accounted /\ StoredWasMailed
  BY DEF IInv
<1>2. /\ pc' \in [Request -> Step] /\ pc'[r] = st
      /\ \A q \in Request \ {r} : pc'[q] = pc[q]
  BY <1>1 DEF Goto, TypeOK
<1>3. TypeOK'
  BY <1>1, <1>2 DEF TypeOK, tables, history
<1>4. Shapes'
  BY <1>1, <1>2 DEF Shapes, ShapeOf
<1>5. Drawers' \subseteq Drawers
  BY <1>1, <1>2 DEF Drawers
<1>6. Drawing'
  BY <1>1, <1>5, FewerDrawers
<1>7. Consuming'
  <2>1. SUFFICES ASSUME NEW q \in Request, q # r PROVE ConsumesOf(q)'
    BY DEF Consuming
  <2>2. ConsumesOf(q) /\ (op[q] \in Consumption /\ pc[q] # "idle" => token[q] \in Token)
    BY <1>1 DEF Consuming, Shapes, ShapeOf, TypeOK
  <2>3. QED
    BY <1>2, <2>1, <2>2 DEF ConsumesOf, tables
<1>8. Accounted' /\ StoredWasMailed'
  BY <1>1 DEF Accounted, StoredWasMailed, tables, history
<1>9. QED
  BY <1>3, <1>4, <1>6, <1>7, <1>8 DEF IInv

(* A request that begins has no lock, and finds a token if it may draw one.*)
LEMMA BeginKeeps ==
    ASSUME IInv, NEW r \in Request,
           \/ \E t \in Token, o \in {"accept", "confirm"} : Present(r, o, t)
           \/ \E u \in User : Resend(r, u) \/ CreateEmployee(r, u) \/ RequestReset(r, u)
           \/ \E f \in Founder : Ensure(r, f)
    PROVE  IInv'
<1>1. TypeOK /\ Shapes /\ Drawing /\ Consuming /\ Accounted /\ StoredWasMailed
  BY DEF IInv
<1>2. PICK o \in Op \ {"none"}, u \in User, t \in Token \cup {None},
           st \in {"hash", "user", "insert", "draw", "decide"} :
        /\ Begin(r, o, u, t, st)
        /\ o \in Consumption => t # None /\ st = "hash"
        /\ o \notin Consumption => t = None /\ TokensLeft
        /\ o = "resend" => st = "user"
        /\ o = "employee" => st = "insert"
        /\ o = "forgot" => st = "draw"
        /\ o = "ensure" => st = "decide" /\ u \in Founder
  <2>1. ASSUME NEW t \in Token, NEW o \in {"accept", "confirm"}, Present(r, o, t)
        PROVE  owner[t] \in User /\ t # None /\ Begin(r, o, owner[t], t, "hash")
    BY <1>1, <2>1 DEF Present, TypeOK, Token
  <2>2. QED
    BY <2>1 DEF Resend, CreateEmployee, RequestReset, Ensure, Op, Consumption
<1>3. /\ pc' \in [Request -> Step] /\ op' \in [Request -> Op]
      /\ user' \in [Request -> User \cup {None}] /\ token' \in [Request -> Token \cup {None}]
      /\ pc[r] = "idle" /\ pc'[r] = st /\ op'[r] = o /\ user'[r] = u /\ token'[r] = t
      /\ \A q \in Request \ {r} :
            pc'[q] = pc[q] /\ op'[q] = op[q] /\ user'[q] = user[q] /\ token'[q] = token[q]
      /\ reply' \in [Request -> Reply]
      /\ UNCHANGED <<tables, locks, drawn, mailed, others, history>>
  BY <1>1, <1>2 DEF Begin, Goto, TypeOK, Step, Reply
<1>4. TypeOK'
  BY <1>1, <1>2, <1>3 DEF TypeOK, tables, locks, history
<1>5. Shapes'
  BY <1>1, <1>2, <1>3 DEF Shapes, ShapeOf, Op, Consumption
<1>6. Drawing'
  <2>1. CASE o \in Consumption
    <3>1. Drawers' \subseteq Drawers
      BY <1>3, <2>1 DEF Drawers
    <3>2. QED
      BY <1>1, <1>3, <3>1, FewerDrawers
  <2>2. CASE o \notin Consumption
    <3>1. Drawers' = Drawers \cup {r} /\ r \notin Drawers
      BY <1>2, <1>3, <2>2 DEF Drawers
    <3>2. IsFiniteSet(Drawers') /\ Cardinality(Drawers') = Cardinality(Drawers) + 1
      BY <1>1, <3>1, FS_AddElement DEF Drawing
    <3>3. drawn + Cardinality(Drawers) < MaxTokens
      BY <1>2, <2>2 DEF TokensLeft, Drawers, Consumption
    <3>4. Cardinality(Drawers) \in Nat /\ drawn \in Nat /\ MaxTokens \in Nat
      BY <1>1, FS_CardinalityType DEF Drawing, TypeOK
    <3>5. QED
      BY <1>3, <3>2, <3>3, <3>4 DEF Drawing
  <2>3. QED
    BY <2>1, <2>2
<1>7. Consuming'
  BY <1>1, <1>2, <1>3 DEF Consuming, ConsumesOf, tables, locks
<1>8. Accounted' /\ StoredWasMailed'
  BY <1>1, <1>3 DEF Accounted, StoredWasMailed, tables, history
<1>9. QED
  BY <1>4, <1>5, <1>6, <1>7, <1>8 DEF IInv

(* Consumptions lock the token, then the account; issues the account and   *)
(* its older tokens, or nothing.  None of it writes.                       *)
LEMMA LockingKeeps ==
    ASSUME IInv, NEW r \in Request,
           \/ BeginConsume(r) \/ LockToken(r) \/ LockUser(r) \/ FindInvitations(r)
           \/ LockOther(r) \/ OthersDone(r) \/ InsertUser(r) \/ Decide(r) \/ Publish(r)
    PROVE  IInv'
<1>0. CASE \E a \in Reply : Rollback(r, a)
  BY <1>0, RollbackKeeps
<1>1. /\ TypeOK /\ ShapeOf(r) /\ ConsumesOf(r)
      /\ mailed \in SUBSET Token
      /\ userLock \in [User -> Request \cup {None}]
      /\ tokenLock \in [Token -> Request \cup {None}]
      /\ advisory \in Request \cup {None}
      /\ others \in [Request -> SUBSET Token]
  BY DEF IInv, Shapes, Consuming, TypeOK
<1>2. ASSUME NEW st \in Step \ {"idle"}, Goto(r, st) PROVE pc'[r] = st
  BY <1>1, <1>2 DEF Goto, TypeOK
<1>3. CASE BeginConsume(r)
  <2>1. CASE Rollback(r, "invalid")
    BY <1>0, <2>1 DEF Reply
  <2>2. CASE /\ others' = [others EXCEPT ![r] =
                  IF op[r] = "confirm" THEN Unused(user[r], "reset") \ {token[r]} ELSE {}]
             /\ Continue(r, "token") /\ UNCHANGED <<locks, op, user, token>>
    <3>1. pc[r] = "hash" /\ "token" \in Step \ {"idle"} /\ Goto(r, "token")
      BY <1>3, <2>2 DEF BeginConsume, InSnapshot, Continue, Step
    <3>2. others' \in [Request -> SUBSET Token]
      BY <1>1, <2>2 DEF Unused
    <3>3. ShapeOf(r)' /\ ConsumesOf(r)'
      BY <1>1, <1>2, <2>2, <3>1 DEF Continue, ShapeOf, ConsumesOf, Consumption
    <3>4. QED
      BY <1>1, <2>2, <3>1, <3>2, <3>3, MoveKeeps DEF Continue, locks
  <2>3. QED
    BY <1>3, <2>1, <2>2 DEF BeginConsume, InSnapshot
<1>4. CASE LockToken(r)
  <2>1. CASE Rollback(r, "invalid")
    BY <1>0, <2>1 DEF Reply
  <2>2. CASE /\ token[r] \notin used
             /\ tokenLock' = [tokenLock EXCEPT ![token[r]] = r]
             /\ Continue(r, "user") /\ UNCHANGED <<userLock, advisory, request>>
    <3>1. /\ pc[r] = "token" /\ "user" \in Step \ {"idle"} /\ Goto(r, "user")
          /\ op[r] \in Consumption /\ token[r] \in Token
      BY <1>1, <1>4, <2>2 DEF LockToken, Continue, Step, ShapeOf, TypeOK, Op, Consumption
    <3>2. /\ tokenLock' \in [Token -> Request \cup {None}] /\ tokenLock'[token[r]] = r
          /\ \A t \in Token : tokenLock[t] \notin {None, r} => tokenLock'[t] = tokenLock[t]
      BY <1>1, <1>4, <2>2, <3>1 DEF LockToken
    <3>3. ShapeOf(r)' /\ ConsumesOf(r)'
      BY <1>1, <1>2, <2>2, <3>1, <3>2 DEF Continue, ShapeOf, ConsumesOf, Consumption,
                                           request, tables
    <3>4. QED
      BY <1>1, <2>2, <3>1, <3>2, <3>3, MoveKeeps DEF Continue, request
  <2>3. QED
    BY <1>4, <2>1, <2>2 DEF LockToken
<1>5. CASE LockUser(r)
  <2>1. CASE Rollback(r, "invalid")
    BY <1>0, <2>1 DEF Reply
  <2>2. CASE /\ userLock' = [userLock EXCEPT ![user[r]] = r]
             /\ Continue(r, AfterUser[op[r]]) /\ UNCHANGED <<tokenLock, advisory, request>>
    <3>1. /\ pc[r] = "user" /\ op[r] \in {"accept", "confirm", "resend"}
      BY <1>1, <1>5 DEF LockUser, ShapeOf, TypeOK, Op
    <3>2. /\ AfterUser[op[r]] \in Step \ {"idle"} /\ Goto(r, AfterUser[op[r]])
          /\ op[r] = "accept" => AfterUser[op[r]] = "publish"
          /\ op[r] = "confirm" => AfterUser[op[r]] = "others"
          /\ op[r] = "resend" => AfterUser[op[r]] = "find"
      BY <2>2, <3>1 DEF AfterUser, Continue, Step
    <3>3. userLock' \in [User -> Request \cup {None}]
      BY <1>1, <2>2
    <3>4. ShapeOf(r)' /\ ConsumesOf(r)'
      BY <1>1, <1>2, <2>2, <3>1, <3>2 DEF Continue, ShapeOf, ConsumesOf, Consumption,
                                           request, tables
    <3>5. QED
      BY <1>1, <2>2, <3>1, <3>2, <3>3, <3>4, MoveKeeps DEF Continue, request
  <2>3. QED
    BY <1>5, <2>1, <2>2 DEF LockUser
<1>6. CASE FindInvitations(r)
  <2>1. /\ pc[r] = "find" /\ "others" \in Step \ {"idle"} /\ Goto(r, "others")
        /\ others' \in [Request -> SUBSET Token]
        /\ UNCHANGED <<tables, drawn, mailed, reply, history, locks, op, user, token>>
    BY <1>1, <1>6 DEF FindInvitations, Continue, Step, Unused
  <2>2. ShapeOf(r)' /\ ConsumesOf(r)'
    BY <1>1, <1>2, <2>1 DEF ShapeOf, ConsumesOf, Consumption
  <2>3. QED
    BY <1>1, <2>1, <2>2, MoveKeeps DEF locks
<1>7. CASE LockOther(r)
  <2>1. PICK t \in others[r] :
           /\ tokenLock[t] = None
           /\ tokenLock' = IF t \in used THEN tokenLock ELSE [tokenLock EXCEPT ![t] = r]
           /\ others' = [others EXCEPT ![r] = @ \ {t}]
    BY <1>7 DEF LockOther
  <2>2. /\ pc[r] = "others" /\ "others" \in Step \ {"idle"} /\ Goto(r, "others")
        /\ UNCHANGED <<tables, userLock, advisory, drawn, mailed, pc, op, user, token,
                       reply, history>>
    BY <1>1, <1>7 DEF LockOther, Goto, Step, TypeOK
  <2>3. /\ tokenLock' \in [Token -> Request \cup {None}]
        /\ others' \in [Request -> SUBSET Token]
        /\ \A x \in Token : tokenLock[x] # None => tokenLock'[x] = tokenLock[x]
    BY <1>1, <2>1
  <2>4. r # None
    BY DEF TokensAssumption
  <2>5. ShapeOf(r)' /\ ConsumesOf(r)'
    <3>1. ShapeOf(r)'
      BY <1>1, <2>2 DEF ShapeOf
    <3>2. op[r] \in Consumption => token[r] \in Token
      BY <1>1, <2>2 DEF ShapeOf, TypeOK
    <3>3. QED
      BY <1>1, <2>2, <2>3, <2>4, <3>1, <3>2 DEF ConsumesOf, tables
  <2>6. QED
    BY <1>1, <2>2, <2>3, <2>5, MoveKeeps
<1>8. CASE OthersDone(r)
  <2>1. PICK st \in {"commit", "draw"} :
           /\ Continue(r, st) /\ (st = "commit") = (op[r] = "confirm")
    BY <1>8 DEF OthersDone
  <2>2. /\ pc[r] = "others" /\ st \in Step \ {"idle"} /\ Goto(r, st)
        /\ UNCHANGED <<tables, drawn, mailed, reply, history, locks, request>>
    BY <1>8, <2>1 DEF OthersDone, Continue, Step
  <2>3. ShapeOf(r)' /\ ConsumesOf(r)'
    BY <1>1, <1>2, <2>1, <2>2 DEF ShapeOf, ConsumesOf, Consumption, request, locks, tables
  <2>4. QED
    BY <1>1, <2>2, <2>3, MoveKeeps DEF locks, request
<1>9. CASE InsertUser(r)
  <2>1. CASE Rollback(r, "conflict")
    BY <1>0, <2>1 DEF Reply
  <2>2. CASE /\ userLock' = [userLock EXCEPT ![user[r]] = r]
             /\ Continue(r, "draw") /\ UNCHANGED <<tokenLock, advisory, request>>
    <3>1. pc[r] = "insert" /\ "draw" \in Step \ {"idle"} /\ Goto(r, "draw")
      BY <1>9, <2>2 DEF InsertUser, Continue, Step
    <3>2. userLock' \in [User -> Request \cup {None}]
      BY <1>1, <2>2
    <3>3. ShapeOf(r)' /\ ConsumesOf(r)'
      BY <1>1, <1>2, <2>2, <3>1 DEF Continue, ShapeOf, ConsumesOf, Consumption, request
    <3>4. QED
      BY <1>1, <2>2, <3>1, <3>2, <3>3, MoveKeeps DEF Continue, request
  <2>3. QED
    BY <1>9, <2>1, <2>2 DEF InsertUser
<1>10. CASE Decide(r)
  <2>1. CASE Rollback(r, "nothing")
    BY <1>0, <2>1 DEF Reply
  <2>2. CASE /\ advisory' = r
             /\ Continue(r, IF status[user[r]] = "absent" THEN "insert" ELSE "find")
             /\ UNCHANGED <<userLock, tokenLock, request>>
    <3>1. PICK st \in {"insert", "find"} : Continue(r, st)
      BY <2>2
    <3>2. pc[r] = "decide" /\ st \in Step \ {"idle"} /\ Goto(r, st)
      BY <1>10, <3>1 DEF Decide, Continue, Step
    <3>3. ShapeOf(r)' /\ ConsumesOf(r)'
      BY <1>1, <1>2, <2>2, <3>1, <3>2 DEF Continue, ShapeOf, ConsumesOf, Consumption, request
    <3>4. QED
      BY <1>1, <2>2, <3>1, <3>2, <3>3, MoveKeeps DEF Continue, request
  <2>3. QED
    BY <1>10, <2>1, <2>2 DEF Decide
<1>11. CASE Publish(r)
  <2>1. /\ pc[r] = "publish" /\ "commit" \in Step \ {"idle"} /\ Goto(r, "commit")
        /\ token[r] \in Token /\ mailed' = mailed \cup {token[r]}
        /\ UNCHANGED <<tables, locks, drawn, request, reply, history>>
    BY <1>1, <1>11 DEF Publish, Step, ShapeOf, TypeOK
  <2>2. ShapeOf(r)' /\ ConsumesOf(r)'
    BY <1>1, <1>2, <2>1 DEF ShapeOf, ConsumesOf, Consumption, request, locks, tables
  <2>3. QED
    BY <1>1, <2>1, <2>2, MoveKeeps DEF locks, request
<1>12. QED
  BY <1>3, <1>4, <1>5, <1>6, <1>7, <1>8, <1>9, <1>10, <1>11

(* The drawn token is new and the drawer draws no other.                   *)
LEMMA DrawKeeps ==
    ASSUME IInv, NEW r \in Request, DrawToken(r)
    PROVE  IInv'
<1>1. TypeOK /\ Shapes /\ Drawing /\ Consuming /\ Accounted /\ StoredWasMailed
  BY DEF IInv
<1>2. /\ pc[r] = "draw" /\ op[r] \in Op \ {"none"} /\ ShapeOf(r)
      /\ op[r] \notin Consumption /\ token[r] = None
  BY <1>1 DEF DrawToken, Shapes, ShapeOf, TypeOK, Consumption
<1>3. r \in Drawers
  BY <1>2 DEF Drawers
<1>4. /\ Drawers # {} /\ IsFiniteSet(Drawers \ {r})
      /\ Cardinality(Drawers \ {r}) = Cardinality(Drawers) - 1
      /\ Cardinality(Drawers) \in Nat /\ Cardinality(Drawers \ {r}) \in Nat
      /\ drawn \in Nat /\ MaxTokens \in Nat
  BY <1>1, <1>3, FS_RemoveElement, FS_CardinalityType DEF Drawing, TypeOK
<1>5. drawn + 1 \in Token /\ drawn' = drawn + 1 /\ drawn' \in 0..MaxTokens
  BY <1>1, <1>4 DEF Drawing, DrawToken, Token
<1>6. /\ pc' \in [Request -> Step] /\ token' \in [Request -> Token \cup {None}]
      /\ pc'[r] = IF op[r] = "ensure" THEN "commit" ELSE "publish"
      /\ token'[r] = drawn + 1
      /\ \A q \in Request \ {r} : pc'[q] = pc[q] /\ token'[q] = token[q]
      /\ UNCHANGED <<tables, locks, mailed, op, user, others, reply, history>>
  BY <1>1, <1>5 DEF DrawToken, Goto, TypeOK, Step
<1>7. TypeOK'
  <2>1. \A t \in Token : t <= drawn => t <= drawn'
    BY <1>4, <1>5 DEF Token
  <2>2. QED
    BY <1>1, <1>2, <1>5, <1>6, <2>1 DEF TypeOK, tables, locks, history
<1>8. Shapes'
  <2>1. ShapeOf(r)'
    <3>1. drawn + 1 # None /\ drawn + 1 <= drawn'
      BY <1>4, <1>5 DEF TokensAssumption
    <3>2. QED
      BY <1>2, <1>6, <3>1 DEF ShapeOf, Consumption, Op
  <2>2. ASSUME NEW q \in Request, q # r PROVE ShapeOf(q)'
    <3>1. ShapeOf(q) /\ (token[q] # None => token[q] \in Nat)
      BY <1>1 DEF Shapes, TypeOK, Token
    <3>2. token[q] # None /\ token[q] <= drawn => token[q] <= drawn'
      BY <1>4, <1>5, <3>1
    <3>3. QED
      BY <1>6, <2>2, <3>1, <3>2 DEF ShapeOf
  <2>3. QED
    BY <2>1, <2>2 DEF Shapes
<1>9. Drawing'
  <2>1. Drawers' = Drawers \ {r}
    BY <1>5, <1>6 DEF Drawers, Token, TokensAssumption
  <2>2. QED
    BY <1>1, <1>4, <1>5, <2>1 DEF Drawing
<1>10. Consuming'
  BY <1>1, <1>2, <1>6 DEF Consuming, ConsumesOf, tables, locks
<1>11. Accounted' /\ StoredWasMailed'
  BY <1>1, <1>6 DEF Accounted, StoredWasMailed, tables, history
<1>12. QED
  BY <1>7, <1>8, <1>9, <1>10, <1>11 DEF IInv

(* The account whose token is consumed becomes active; the token and those *)
(* invalidated with it are the rows that the request holds.                *)
LEMMA ConsumptionKeeps ==
    ASSUME IInv, NEW r \in Request, CommitConsumption(r)
    PROVE  IInv'
<1>1. TypeOK /\ Shapes /\ Drawing /\ Consuming /\ Accounted /\ StoredWasMailed
  BY DEF IInv
<1>2. Finish(r, "ok") /\ "ok" \in Reply
  BY DEF CommitConsumption, Reply
<1>3. /\ token[r] \in Token /\ tokenLock[token[r]] = r /\ token[r] \notin used
      /\ user[r] \in User
  BY <1>1 DEF CommitConsumption, Consuming, ConsumesOf, Shapes, ShapeOf, TypeOK, Consumption
<1>4. /\ used' = used \cup {t \in Token : tokenLock[t] = r} /\ used' \in SUBSET Token
      /\ uses' = [uses EXCEPT ![token[r]] = @ + 1] /\ uses' \in [Token -> Nat]
      /\ status' \in [User -> Status]
      /\ \A u \in User : status[u] # "absent" => status'[u] # "absent"
      /\ UNCHANGED <<owner, purpose, expired, drawn, mailed, latest>>
  BY <1>1, <1>3 DEF CommitConsumption, TypeOK, Status
<1>5. TypeOK'
  <2>1. \A t \in Token : owner'[t] # None => status'[owner'[t]] # "absent" /\ t <= drawn'
    BY <1>1, <1>4 DEF TypeOK
  <2>2. \A q \in Request : pc'[q] # "idle" => op'[q] # "none" /\ user'[q] # None
    BY <1>1, <1>2, FinishEffect DEF TypeOK
  <2>3. QED
    BY <1>1, <1>2, <1>4, <2>1, <2>2, FinishEffect DEF TypeOK
<1>6. Shapes'
  BY <1>1, <1>2, <1>4, FinishEffect DEF Shapes, ShapeOf
<1>7. Drawers' \subseteq Drawers
  BY <1>1, <1>2, FinishEffect DEF Drawers
<1>8. Drawing'
  BY <1>1, <1>4, <1>7, FewerDrawers
<1>9. Consuming'
  <2>1. SUFFICES ASSUME NEW q \in Request, q # r PROVE ConsumesOf(q)'
    BY <1>1, <1>2, FinishEffect DEF Consuming, ConsumesOf
  <2>2. ConsumesOf(q) /\ (op[q] \in Consumption /\ pc[q] # "idle" => token[q] \in Token)
    BY <1>1 DEF Consuming, Shapes, ShapeOf, TypeOK
  <2>3. QED
    BY <1>1, <1>2, <1>4, <2>1, <2>2, FinishEffect DEF ConsumesOf
<1>10. Accounted'
  <2>1. uses[token[r]] = 0 /\ uses'[token[r]] = 1 /\ token[r] \in used'
    BY <1>1, <1>3, <1>4 DEF Accounted, TypeOK
  <2>2. \A t \in Token \ {token[r]} : uses'[t] = uses[t]
    BY <1>1, <1>4 DEF TypeOK
  <2>3. QED
    BY <1>1, <1>4, <2>1, <2>2 DEF Accounted
<1>11. StoredWasMailed'
  BY <1>1, <1>4 DEF StoredWasMailed
<1>12. QED
  BY <1>5, <1>6, <1>8, <1>9, <1>10, <1>11 DEF IInv

(* What a commit stores, and the tokens it invalidates with it.            *)
LEMMA StoreEffect ==
    ASSUME IInv, NEW r \in Request, pc[r] = "commit", op[r] \notin Consumption, Store(r)
    PROVE  /\ status' \in [User -> Status] /\ owner' \in [Token -> User \cup {None}]
           /\ purpose' \in [Token -> {"invitation", "reset"}]
           /\ used' \in SUBSET Token /\ latest' \in [User -> Token \cup {None}]
           /\ UNCHANGED <<expired, drawn, mailed, uses>>
           /\ \A t \in Token : owner'[t] # None => status'[owner'[t]] # "absent" /\ t <= drawn
           /\ used \subseteq used'
           /\ \A t \in Token : tokenLock[t] # r /\ t \notin used => t \notin used'
           /\ StoredWasMailed'
<1>1. TypeOK /\ Shapes /\ StoredWasMailed
  BY DEF IInv
<1>2. /\ token[r] \in Token /\ token[r] <= drawn /\ user[r] \in User
      /\ token[r] \in mailed \/ user[r] \in Founder
  BY <1>1 DEF Shapes, ShapeOf, TypeOK, Op, Consumption
<1>3. /\ status' \in [User -> Status] /\ status'[user[r]] # "absent"
      /\ \A u \in User : status[u] # "absent" => status'[u] # "absent"
  BY <1>1, <1>2 DEF Store, TypeOK, Status
<1>4. /\ owner' \in [Token -> User \cup {None}] /\ owner'[token[r]] = user[r]
      /\ \A t \in Token \ {token[r]} : owner'[t] = owner[t]
  BY <1>1, <1>2 DEF Store, TypeOK
<1>5. /\ purpose' \in [Token -> {"invitation", "reset"}]
      /\ latest' \in [User -> Token \cup {None}]
      /\ UNCHANGED <<expired, drawn, mailed, uses>>
  BY <1>1, <1>2 DEF Store, TypeOK
<1>6. /\ used' \in SUBSET Token /\ used \subseteq used'
      /\ \A t \in Token : tokenLock[t] # r /\ t \notin used => t \notin used'
  BY <1>1 DEF Store, TypeOK
<1>7. \A t \in Token : owner'[t] # None => status'[owner'[t]] # "absent" /\ t <= drawn
  BY <1>1, <1>2, <1>3, <1>4 DEF TypeOK
<1>8. StoredWasMailed'
  BY <1>1, <1>2, <1>4, <1>5 DEF StoredWasMailed
<1>9. QED
  BY <1>3, <1>4, <1>5, <1>6, <1>7, <1>8

LEMMA IssueKeeps ==
    ASSUME IInv, NEW r \in Request, CommitIssue(r)
    PROVE  IInv'
<1>1. TypeOK /\ Shapes /\ Drawing /\ Consuming /\ Accounted /\ StoredWasMailed
  BY DEF IInv
<1>2. /\ Finish(r, "ok") /\ "ok" \in Reply /\ Store(r)
      /\ pc[r] = "commit" /\ op[r] \notin Consumption
  BY DEF CommitIssue, Reply, Consumption
<1>3. TypeOK'
  <2>1. \A q \in Request : pc'[q] # "idle" => op'[q] # "none" /\ user'[q] # None
    BY <1>1, <1>2, FinishEffect DEF TypeOK
  <2>2. QED
    BY <1>1, <1>2, <2>1, FinishEffect, StoreEffect DEF TypeOK
<1>4. Shapes'
  BY <1>1, <1>2, FinishEffect, StoreEffect DEF Shapes, ShapeOf
<1>5. Drawers' \subseteq Drawers
  BY <1>1, <1>2, FinishEffect DEF Drawers
<1>6. Drawing'
  BY <1>1, <1>2, <1>5, FewerDrawers, StoreEffect
<1>7. Consuming'
  <2>1. SUFFICES ASSUME NEW q \in Request, q # r PROVE ConsumesOf(q)'
    BY <1>1, <1>2, FinishEffect DEF Consuming, ConsumesOf
  <2>2. ConsumesOf(q) /\ (op[q] \in Consumption /\ pc[q] # "idle" => token[q] \in Token)
    BY <1>1 DEF Consuming, Shapes, ShapeOf, TypeOK
  <2>3. QED
    BY <1>1, <1>2, <2>1, <2>2, FinishEffect, StoreEffect DEF ConsumesOf
<1>8. Accounted' /\ StoredWasMailed'
  BY <1>1, <1>2, StoreEffect DEF Accounted
<1>9. QED
  BY <1>3, <1>4, <1>6, <1>7, <1>8 DEF IInv

(* The start of the API goes on after its commit, without its locks.       *)
LEMMA EnsureKeeps ==
    ASSUME IInv, NEW r \in Request, CommitEnsure(r)
    PROVE  IInv'
<1>1. TypeOK /\ Shapes /\ Drawing /\ Consuming /\ Accounted /\ StoredWasMailed
  BY DEF IInv
<1>2. /\ Store(r) /\ pc[r] = "commit" /\ op[r] = "ensure" /\ op[r] \notin Consumption
      /\ UNCHANGED <<op, user, token, others, reply>>
  BY DEF CommitEnsure, Consumption, request
<1>3. /\ pc' \in [Request -> Step] /\ pc'[r] = "announce"
      /\ \A q \in Request \ {r} : pc'[q] = pc[q]
  BY <1>1 DEF CommitEnsure, Goto, TypeOK, Step
<1>4. /\ userLock' \in [User -> Request \cup {None}]
      /\ tokenLock' \in [Token -> Request \cup {None}]
      /\ advisory' \in Request \cup {None}
      /\ \A t \in Token : tokenLock[t] # r => tokenLock'[t] = tokenLock[t]
  BY <1>1 DEF CommitEnsure, Release, TypeOK
<1>5. TypeOK'
  <2>1. \A q \in Request : pc'[q] # "idle" => op'[q] # "none" /\ user'[q] # None
    BY <1>1, <1>2, <1>3 DEF TypeOK
  <2>2. QED
    BY <1>1, <1>2, <1>3, <1>4, <2>1, StoreEffect DEF TypeOK
<1>6. Shapes'
  BY <1>1, <1>2, <1>3, StoreEffect DEF Shapes, ShapeOf
<1>7. Drawers' \subseteq Drawers
  BY <1>1, <1>2, <1>3 DEF Drawers
<1>8. Drawing'
  BY <1>1, <1>2, <1>7, FewerDrawers, StoreEffect
<1>9. Consuming'
  <2>1. SUFFICES ASSUME NEW q \in Request, q # r PROVE ConsumesOf(q)'
    BY <1>2 DEF Consuming, ConsumesOf
  <2>2. ConsumesOf(q) /\ (op[q] \in Consumption /\ pc[q] # "idle" => token[q] \in Token)
    BY <1>1 DEF Consuming, Shapes, ShapeOf, TypeOK
  <2>3. QED
    BY <1>1, <1>2, <1>3, <1>4, <2>1, <2>2, StoreEffect DEF ConsumesOf
<1>10. Accounted' /\ StoredWasMailed'
  BY <1>1, <1>2, StoreEffect DEF Accounted
<1>11. QED
  BY <1>5, <1>6, <1>8, <1>9, <1>10 DEF IInv

(* The ends that do not commit, and what fails half way.                   *)
LEMMA EndingKeeps ==
    ASSUME IInv, NEW r \in Request,
           \/ PublishFails(r) \/ Announce(r) \/ AnnounceFails(r) \/ Withdraw(r)
           \/ BreakDeadlock(r) \/ LoseRequest(r)
    PROVE  IInv'
<1>1. TypeOK /\ ShapeOf(r) /\ ConsumesOf(r) /\ mailed \in SUBSET Token
  BY DEF IInv, Shapes, Consuming, TypeOK
<1>2. pc[r] \in {"publish", "announce", "withdraw"} => token[r] \in Token
  BY <1>1 DEF ShapeOf, TypeOK, Op, Consumption
<1>3. CASE PublishFails(r) \/ Announce(r)
  <2>1. /\ \E a \in Reply : Finish(r, a)
        /\ UNCHANGED <<status, owner, purpose, expired, drawn, history>>
        /\ mailed \subseteq mailed' /\ mailed' \in SUBSET Token
        /\ used' = used \cup {}
    BY <1>1, <1>2, <1>3 DEF PublishFails, Announce, tables, Reply
  <2>2. {} \in SUBSET Token /\ \A t \in {} : tokenLock[t] = None /\ owner[t] # None
    OBVIOUS
  <2>3. QED
    BY <2>1, <2>2, EndKeeps
<1>4. CASE Withdraw(r)
  <2>1. /\ Finish(r, "undelivered") /\ "undelivered" \in Reply
        /\ UNCHANGED <<status, owner, purpose, expired, drawn, history>>
        /\ mailed \subseteq mailed' /\ mailed' \in SUBSET Token
        /\ used' = used \cup Unused(user[r], "invitation")
    BY <1>1, <1>4 DEF Withdraw, Reply
  <2>2. /\ Unused(user[r], "invitation") \in SUBSET Token
        /\ \A t \in Unused(user[r], "invitation") : tokenLock[t] = None /\ owner[t] # None
    BY <1>1, <1>4 DEF Withdraw, Unused, TypeOK
  <2>3. QED
    BY <2>1, <2>2, EndKeeps
<1>5. CASE AnnounceFails(r)
  <2>1. /\ pc[r] = "announce" /\ "withdraw" \in Step \ {"idle"} /\ Goto(r, "withdraw")
        /\ mailed \subseteq mailed' /\ mailed' \in SUBSET Token
        /\ UNCHANGED <<tables, locks, drawn, request, reply, history>>
    BY <1>1, <1>2, <1>5 DEF AnnounceFails, Step
  <2>2. pc'[r] = "withdraw"
    BY <1>1, <2>1 DEF Goto, TypeOK
  <2>3. ShapeOf(r)' /\ ConsumesOf(r)'
    BY <1>1, <2>1, <2>2 DEF ShapeOf, ConsumesOf, Consumption, request
  <2>4. QED
    BY <1>1, <2>1, <2>3, MoveKeeps DEF TypeOK, locks, request
<1>6. CASE BreakDeadlock(r) \/ LoseRequest(r)
  BY <1>6, RollbackKeeps DEF BreakDeadlock, LoseRequest, Reply
<1>7. QED
  BY <1>3, <1>4, <1>5, <1>6

(* What happens beside the requests.                                       *)
Changes(u) ==
    LockAccount(u) \/ UnlockAccount(u) \/ \E s \in Status \ {"absent"} : SetStatus(u, s)

Ambient == (\E t \in Token : Expire(t)) \/ (\E u \in User : Changes(u)) \/ UNCHANGED vars

(* One account gets another status, and no request holds its row; only     *)
(* administrators make it pending again.                                   *)
LEMMA ChangeFacts ==
    ASSUME TypeOK, NEW u \in User, Changes(u)
    PROVE  /\ UNCHANGED <<owner, purpose, used, expired, locks, drawn, mailed, pc, request,
                          reply, history>>
           /\ userLock[u] = None /\ status[u] # "absent"
           /\ status'[u] \in Status \ {"absent"}
           /\ status[u] # "pending" /\ u \notin Reopened => status'[u] # "pending"
           /\ \A v \in User \ {u} : status'[v] = status[v]
           /\ status' \in [User -> Status]
<1>1. PICK s \in Status \ {"absent"} :
         /\ Restate(u, s) /\ status[u] # "absent"
         /\ s = "pending" => u \in Reopened
  BY DEF Changes, LockAccount, UnlockAccount, SetStatus, Status
<1>2. status' = [status EXCEPT ![u] = s] /\ userLock[u] = None
  BY <1>1 DEF Restate, RowFree
<1>3. /\ status' \in [User -> Status] /\ status'[u] = s
      /\ \A v \in User \ {u} : status'[v] = status[v]
  BY <1>2 DEF TypeOK
<1>4. QED
  BY <1>1, <1>2, <1>3 DEF Restate

LEMMA AmbientFacts ==
    ASSUME TypeOK, Ambient
    PROVE  /\ UNCHANGED <<owner, purpose, used, locks, drawn, mailed, pc, request, reply,
                          history>>
           /\ expired \subseteq expired' /\ expired' \in SUBSET Token
           /\ status' \in [User -> Status]
           /\ \A u \in User : status[u] # "absent" => status'[u] # "absent"
           /\ \A u \in User \ Reopened : status[u] \notin {"absent", "pending"} =>
                 status'[u] \notin {"absent", "pending"}
           /\ \A u \in User : userLock[u] # None => status'[u] = status[u]
<1>1. CASE (\E t \in Token : Expire(t)) \/ UNCHANGED vars
  BY <1>1 DEF Expire, vars, tables, TypeOK
<1>2. CASE \E u \in User : Changes(u)
  BY <1>2, ChangeFacts DEF TypeOK
<1>3. QED
  BY <1>1, <1>2 DEF Ambient

LEMMA AmbientKeeps ==
    ASSUME IInv, Ambient
    PROVE  IInv'
<1>1. TypeOK /\ Shapes /\ Drawing /\ Consuming /\ Accounted /\ StoredWasMailed
  BY DEF IInv
<1>2. /\ UNCHANGED <<owner, purpose, used, locks, drawn, mailed, pc, request, reply, history>>
      /\ expired' \in SUBSET Token /\ status' \in [User -> Status]
      /\ \A u \in User : status[u] # "absent" => status'[u] # "absent"
  BY <1>1, AmbientFacts
<1>3. TypeOK' /\ Shapes' /\ Consuming' /\ Accounted' /\ StoredWasMailed'
  BY <1>1, <1>2 DEF TypeOK, Shapes, ShapeOf, Consuming, ConsumesOf, Accounted,
                     StoredWasMailed, locks, request, history
<1>4. Drawers' = Drawers
  BY <1>2 DEF Drawers, request
<1>5. Drawing'
  BY <1>1, <1>2, <1>4 DEF Drawing
<1>6. QED
  BY <1>3, <1>5 DEF IInv

LEMMA NextIInv == IInv /\ [Next]_vars => IInv'
<1>1. SUFFICES ASSUME IInv, [Next]_vars PROVE IInv'
  OBVIOUS
<1>2. CASE \/ \E r \in Request, t \in Token, o \in {"accept", "confirm"} : Present(r, o, t)
           \/ \E r \in Request, u \in User :
                 Resend(r, u) \/ CreateEmployee(r, u) \/ RequestReset(r, u)
           \/ \E r \in Request, f \in Founder : Ensure(r, f)
  BY <1>1, <1>2, BeginKeeps
<1>3. CASE \E r \in Request :
              Proceed(r) \/ PublishFails(r) \/ AnnounceFails(r) \/ LoseRequest(r)
  BY <1>1, <1>3, LockingKeeps, DrawKeeps, ConsumptionKeeps, IssueKeeps, EnsureKeeps,
     EndingKeeps DEF Proceed
<1>4. CASE Ambient
  BY <1>1, <1>4, AmbientKeeps
<1>5. QED
  BY <1>1, <1>2, <1>3, <1>4 DEF Next, Ambient, Changes

LEMMA Inductive == Spec => []IInv
  BY InitIInv, NextIInv, PTL DEF Spec
-----------------------------------------------------------------------------
(* Every variable keeps its type, whatever the requests and however many.  *)
THEOREM TypeCorrect == Spec => []TypeOK
<1>1. IInv => TypeOK
  BY DEF IInv
<1>2. QED
  BY <1>1, Inductive, PTL

(* ConsumeInvitationToken and ConsumePasswordResetTokenAndRevokeSessions:  *)
(* a token serves once, whoever carries it past the precheck.              *)
THEOREM TokenServesOnce == Spec => []SingleUse
<1>1. IInv => SingleUse
  BY DEF IInv, Accounted, SingleUse
<1>2. QED
  BY <1>1, Inductive, PTL

(* employee.Create, invitationresend.Resend and passwordreset.Request      *)
(* publish inside the transaction: what they committed is on its way.      *)
THEOREM StoredTokensWereMailed == Spec => []StoredWasMailed
<1>1. IInv => StoredWasMailed
  BY DEF IInv
<1>2. QED
  BY <1>1, Inductive, PTL

-----------------------------------------------------------------------------
(***************************************************************************)
(* One invitation at a time.                                               *)
(***************************************************************************)
Inviting == {"resend", "employee", "ensure"}

(* A resend and an employee's creation hold the row of the account, a      *)
(* start the advisory lock.  Where one founder was configured and is not   *)
(* reopened, there is an administrator to ask for a resend only once the   *)
(* founder has accepted.                                                   *)
HoldsOf(q) ==
    /\ op[q] \in {"resend", "employee"}
       /\ pc[q] \in {"find", "others", "draw", "publish", "commit"} => userLock[user[q]] = q
    /\ op[q] = "ensure" /\ pc[q] \in {"insert", "find", "others", "draw", "commit"} =>
          advisory = q
    /\ op[q] = "employee" /\ pc[q] # "idle" => user[q] \notin Founder
    /\ op[q] = "resend" /\ pc[q] # "idle" /\ Settled(user[q]) /\ user[q] \in Founder =>
          pc[q] = "user" /\ status[user[q]] \notin {"absent", "pending"}

(* A drawn token is nobody's until its drawer commits.                     *)
Carrying == {q \in Request : op[q] \notin Consumption /\ pc[q] \in {"publish", "commit"}}

FreshOf(q) ==
    /\ op[q] \in Consumption /\ pc[q] # "idle" => owner[token[q]] # None
    /\ q \in Carrying =>
          /\ owner[token[q]] = None
          /\ \A p \in Carrying \ {q} : token[p] # token[q]

(* Who issues an invitation holds every unused one of the account, or has  *)
(* it still before it; a start found none that is live.                    *)
FoundOf(q) ==
    op[q] \in Inviting /\ Settled(user[q]) =>
        /\ pc[q] \in {"others", "draw", "publish", "commit"} =>
              \A t \in Unused(user[q], "invitation") :
                 tokenLock[t] = q \/ (pc[q] = "others" /\ t \in others[q])
        /\ op[q] = "ensure" /\ pc[q] \in {"insert", "find", "others", "draw", "commit"} =>
              Live(user[q], "invitation") = {}

Holding == \A q \in Request : HoldsOf(q)
Fresh   == \A q \in Request : FreshOf(q)
Found   == \A q \in Request : FoundOf(q)

(* At most one invitation of an account can be accepted: its newest.       *)
OneUnused == \A u \in User : Settled(u) => Unused(u, "invitation") \subseteq {latest[u]}

Single == Holding /\ Fresh /\ Found /\ OneUnused

LEMMA InitSingle == Init => Single
  BY DEF Init, Single, Holding, HoldsOf, Fresh, FreshOf, Carrying, Found, FoundOf, OneUnused,
         Unused, Consumption

(* What a step leaves alone of the requests that do not take it.           *)
Untouched(q) ==
    /\ pc'[q] = pc[q] /\ op'[q] = op[q] /\ user'[q] = user[q] /\ token'[q] = token[q]
    /\ others'[q] = others[q]

Kept(r) ==
    /\ \A q \in Request \ {r} : Untouched(q)
    /\ \A u \in User : userLock[u] \notin {None, r} => userLock'[u] = userLock[u]
    /\ \A t \in Token : tokenLock[t] \notin {None, r} => tokenLock'[t] = tokenLock[t]
    /\ advisory \notin {None, r} => advisory' = advisory
    /\ \A u \in User \ Reopened : status[u] \notin {"absent", "pending"} =>
          status'[u] \notin {"absent", "pending"}

(* A step that stores no token disturbs the requests that do not take it.  *)
LEMMA QuietKeeps ==
    ASSUME IInv, Single, NEW r \in Request \cup {None}, Kept(r),
           UNCHANGED <<owner, purpose, latest>>, used \subseteq used', expired \subseteq expired',
           r \in Request => HoldsOf(r)' /\ FreshOf(r)' /\ FoundOf(r)'
    PROVE  Single'
<1>1. TypeOK /\ Holding /\ Fresh /\ Found /\ OneUnused
  BY DEF IInv, Single
<1>2. \A u : Unused(u, "invitation")' \subseteq Unused(u, "invitation")
  BY DEF Unused
<1>3. \A u : Live(u, "invitation")' \subseteq Live(u, "invitation")
  BY <1>2 DEF Live
<1>4. ASSUME NEW q \in Request, q # r PROVE HoldsOf(q)' /\ FoundOf(q)'
  <2>1. Untouched(q) /\ HoldsOf(q) /\ FoundOf(q) /\ q # None
        /\ (pc[q] # "idle" => user[q] \in User)
    BY <1>1, <1>4 DEF Kept, Holding, Found, TypeOK
  <2>2. HoldsOf(q)'
    BY <1>4, <2>1 DEF Kept, HoldsOf, Untouched, Settled, OneFounder
  <2>3. FoundOf(q)'
    <3>1. SUFFICES ASSUME op[q] \in Inviting, Settled(user[q])
                   PROVE  FoundOf(q)'
      BY <2>1 DEF FoundOf, Untouched, Settled, OneFounder
    <3>2. ASSUME pc[q] \in {"others", "draw", "publish", "commit"},
                 NEW t \in Unused(user[q], "invitation")'
          PROVE  tokenLock'[t] = q \/ (pc'[q] = "others" /\ t \in others'[q])
      <4>1. t \in Unused(user[q], "invitation") /\ t \in Token
        BY <1>2, <2>1, <3>2 DEF Untouched, Unused
      <4>2. tokenLock[t] = q \/ (pc[q] = "others" /\ t \in others[q])
        BY <2>1, <3>1, <3>2, <4>1 DEF FoundOf
      <4>3. QED
        BY <1>4, <2>1, <4>1, <4>2 DEF Kept, Untouched
    <3>3. ASSUME op[q] = "ensure", pc[q] \in {"insert", "find", "others", "draw", "commit"}
          PROVE  Live(user[q], "invitation")' = {}
      BY <1>3, <2>1, <3>1, <3>3 DEF FoundOf, Untouched
    <3>4. QED
      BY <2>1, <3>2, <3>3 DEF FoundOf, Untouched
  <2>4. QED
    BY <2>2, <2>3
<1>5. Holding' /\ Found'
  BY <1>4 DEF Holding, Found
<1>6. Fresh'
  <2>1. SUFFICES ASSUME NEW q \in Request, q # r PROVE FreshOf(q)'
    BY DEF Fresh
  <2>2. Untouched(q) /\ FreshOf(q)
    BY <1>1, <2>1 DEF Kept, Fresh
  <2>3. op[q] \in Consumption /\ pc[q] # "idle" => owner'[token'[q]] # None
    BY <2>2 DEF FreshOf, Untouched
  <2>4. ASSUME q \in Carrying'
        PROVE  owner'[token'[q]] = None /\ \A p \in Carrying' \ {q} : token'[p] # token'[q]
    <3>1. q \in Carrying
      BY <2>2, <2>4 DEF Carrying, Untouched
    <3>2. \A p \in Carrying' \ {q, r} : p \in Carrying /\ token'[p] = token[p]
      BY DEF Carrying, Kept, Untouched
    <3>3. r \in Carrying' => token'[q] # token'[r]
      BY <2>1, <2>4 DEF FreshOf, Carrying
    <3>4. QED
      BY <2>2, <3>1, <3>2, <3>3 DEF FreshOf, Untouched
  <2>5. QED
    BY <2>2, <2>3, <2>4 DEF FreshOf, Untouched
<1>7. OneUnused'
  BY <1>1, <1>2 DEF OneUnused, Settled, OneFounder
<1>8. QED
  BY <1>5, <1>6, <1>7 DEF Single

(* A request that ends keeps nothing, and no other loses anything by it.   *)
LEMMA FinishKeeps ==
    ASSUME TypeOK, NEW r \in Request, NEW a \in Reply, Finish(r, a),
           \A u \in User \ Reopened : status[u] \notin {"absent", "pending"} =>
              status'[u] \notin {"absent", "pending"}
    PROVE  Kept(r) /\ HoldsOf(r)' /\ FreshOf(r)' /\ FoundOf(r)'
<1>1. pc'[r] = "idle" /\ op'[r] = "none"
  BY DEF Finish, Goto, TypeOK
<1>2. HoldsOf(r)' /\ FreshOf(r)' /\ FoundOf(r)'
  BY <1>1 DEF HoldsOf, FreshOf, Carrying, FoundOf, Inviting
<1>3. \A q \in Request \ {r} : Untouched(q)
  BY DEF Finish, Goto, TypeOK, Untouched
<1>4. /\ \A u \in User : userLock[u] \notin {None, r} => userLock'[u] = userLock[u]
      /\ \A t \in Token : tokenLock[t] \notin {None, r} => tokenLock'[t] = tokenLock[t]
      /\ advisory \notin {None, r} => advisory' = advisory
  BY DEF Finish, Release, TypeOK
<1>5. QED
  BY <1>2, <1>3, <1>4 DEF Kept

(* The ends that store nothing.                                            *)
LEMMA EndSingle ==
    ASSUME IInv, Single, NEW r \in Request,
           \/ \E a \in Reply : Rollback(r, a)
           \/ PublishFails(r) \/ Announce(r) \/ Withdraw(r) \/ CommitConsumption(r)
           \/ BreakDeadlock(r) \/ LoseRequest(r)
    PROVE  Single'
<1>1. TypeOK
  BY DEF IInv
<1>2. /\ \E a \in Reply : Finish(r, a)
      /\ UNCHANGED <<owner, purpose, latest>>
      /\ used \subseteq used' /\ expired \subseteq expired'
  BY DEF Rollback, PublishFails, Announce, Withdraw, CommitConsumption, BreakDeadlock,
         LoseRequest, tables, history, Reply
<1>3. \A u \in User \ Reopened : status[u] \notin {"absent", "pending"} =>
         status'[u] \notin {"absent", "pending"}
  BY <1>1 DEF Rollback, PublishFails, Announce, Withdraw, CommitConsumption, BreakDeadlock,
              LoseRequest, tables, TypeOK
<1>4. Kept(r) /\ HoldsOf(r)' /\ FreshOf(r)' /\ FoundOf(r)'
  BY <1>1, <1>2, <1>3, FinishKeeps
<1>5. QED
  BY <1>2, <1>4, QuietKeeps

(* A statement that writes nothing.                                        *)
LEMMA MoveSingle ==
    ASSUME IInv, Single, NEW r \in Request, NEW st \in Step, Goto(r, st),
           UNCHANGED <<tables, history, op, user>>,
           \A q \in Request \ {r} : token'[q] = token[q] /\ others'[q] = others[q],
           \A u \in User : userLock[u] \notin {None, r} => userLock'[u] = userLock[u],
           \A t \in Token : tokenLock[t] \notin {None, r} => tokenLock'[t] = tokenLock[t],
           advisory \notin {None, r} => advisory' = advisory,
           HoldsOf(r)', FreshOf(r)', FoundOf(r)'
    PROVE  Single'
<1>1. \A q \in Request \ {r} : Untouched(q)
  BY DEF Goto, IInv, TypeOK, Untouched
<1>2. Kept(r)
  BY <1>1 DEF Kept, tables
<1>3. QED
  BY <1>2, QuietKeeps DEF tables, history

LEMMA BeginSingle ==
    ASSUME IInv, Single, NEW r \in Request,
           \/ \E t \in Token, o \in {"accept", "confirm"} : Present(r, o, t)
           \/ \E u \in User : Resend(r, u) \/ CreateEmployee(r, u) \/ RequestReset(r, u)
           \/ \E f \in Founder : Ensure(r, f)
    PROVE  Single'
<1>1. TypeOK
  BY DEF IInv
<1>2. PICK o \in Op, u \in User, t \in Token \cup {None},
           st \in {"hash", "user", "insert", "draw", "decide"} :
        /\ Begin(r, o, u, t, st)
        /\ o \in Consumption => t # None /\ owner[t] # None
        /\ o = "resend" => st = "user" /\ NonPendingAdmins # {}
        /\ o = "employee" => st = "insert" /\ u \notin Founder
        /\ o = "forgot" => st = "draw"
        /\ o = "ensure" => st = "decide"
  <2>1. ASSUME NEW t \in Token, NEW o \in {"accept", "confirm"}, Present(r, o, t)
        PROVE  owner[t] \in User /\ t # None /\ Begin(r, o, owner[t], t, "hash")
    BY <1>1, <2>1 DEF Present, TypeOK, Token
  <2>2. CASE \E t \in Token, o \in {"accept", "confirm"} : Present(r, o, t)
    BY <2>1, <2>2 DEF Op, Consumption
  <2>3. CASE ~ \E t \in Token, o \in {"accept", "confirm"} : Present(r, o, t)
    BY <2>3 DEF Resend, CreateEmployee, RequestReset, Ensure, Op, Consumption
  <2>4. QED
    BY <2>2, <2>3
<1>3. /\ Goto(r, st) /\ st \in Step /\ pc'[r] = st /\ op'[r] = o /\ user'[r] = u
      /\ token'[r] = t
      /\ \A q \in Request \ {r} : Untouched(q)
      /\ UNCHANGED <<tables, locks, history>>
  BY <1>1, <1>2 DEF Begin, Goto, TypeOK, Untouched, Step
<1>4. FreshOf(r)'
  BY <1>2, <1>3 DEF FreshOf, Carrying, Consumption, tables
<1>5. HoldsOf(r)'
  <2>1. ASSUME o = "resend", Settled(u), u \in Founder
        PROVE  status[u] \notin {"absent", "pending"}
    BY <1>2, <2>1 DEF NonPendingAdmins, Settled, OneFounder
  <2>2. QED
    BY <1>2, <1>3, <2>1 DEF HoldsOf, Settled, OneFounder, tables
<1>6. FoundOf(r)'
  BY <1>2, <1>3 DEF FoundOf, Inviting
<1>7. Kept(r)
  BY <1>3 DEF Kept, tables, locks
<1>8. QED
  BY <1>3, <1>4, <1>5, <1>6, <1>7, QuietKeeps DEF tables, history

(* Tokens expire and accounts change their status beside all this.         *)
LEMMA AmbientSingle ==
    ASSUME IInv, Single, Ambient
    PROVE  Single'
<1>1. /\ UNCHANGED <<owner, purpose, used, locks, drawn, mailed, pc, request, reply, history>>
      /\ expired \subseteq expired'
      /\ \A u \in User \ Reopened : status[u] \notin {"absent", "pending"} =>
            status'[u] \notin {"absent", "pending"}
  BY AmbientFacts DEF IInv
<1>2. Kept(None) /\ None \notin Request
  BY <1>1 DEF Kept, Untouched, locks, request, TokensAssumption
<1>3. QED
  BY <1>1, <1>2, QuietKeeps DEF history

(* Statements before the token is drawn: who locks the account may read    *)
(* its invitations, and who read them takes them one by one.               *)
LEMMA LockingSingle ==
    ASSUME IInv, Single, NEW r \in Request,
           \/ BeginConsume(r) \/ LockToken(r) \/ LockUser(r) \/ FindInvitations(r)
           \/ LockOther(r) \/ OthersDone(r) \/ InsertUser(r) \/ Decide(r) \/ Publish(r)
           \/ AnnounceFails(r)
    PROVE  Single'
<1>0. CASE \E a \in Reply : Rollback(r, a)
  BY <1>0, EndSingle
<1>1. /\ TypeOK /\ ShapeOf(r) /\ HoldsOf(r) /\ FreshOf(r) /\ FoundOf(r)
      /\ None \notin Request
  BY DEF IInv, Single, Shapes, Holding, Fresh, Found, TokensAssumption
<1>2. ASSUME NEW st \in Step, Goto(r, st) PROVE pc'[r] = st /\ \A q \in Request \ {r} : pc'[q] = pc[q]
  BY <1>1, <1>2 DEF Goto, TypeOK
<1>3. ASSUME NEW st \in Step, Goto(r, st), pc[r] # "idle",
             UNCHANGED <<owner, op, user, token>>,
             st \in {"publish", "commit"} => op[r] \in Consumption \/ r \in Carrying
      PROVE  FreshOf(r)'
  <2>1. pc'[r] = st /\ \A q \in Request \ {r} : pc'[q] = pc[q]
    BY <1>2, <1>3
  <2>2. Carrying' \ {r} = Carrying \ {r} /\ (r \in Carrying' => r \in Carrying)
    BY <1>3, <2>1 DEF Carrying
  <2>3. QED
    BY <1>1, <1>3, <2>1, <2>2 DEF FreshOf
<1>4. CASE BeginConsume(r)
  <2>1. CASE Rollback(r, "invalid")
    BY <1>0, <2>1 DEF Reply
  <2>2. CASE /\ others' = [others EXCEPT ![r] =
                  IF op[r] = "confirm" THEN Unused(user[r], "reset") \ {token[r]} ELSE {}]
             /\ Continue(r, "token") /\ UNCHANGED <<locks, op, user, token>>
    <3>1. /\ pc[r] = "hash" /\ "token" \in Step /\ Goto(r, "token")
          /\ UNCHANGED <<tables, history, locks, op, user, token>>
      BY <1>4, <2>2 DEF BeginConsume, InSnapshot, Continue, Step
    <3>2. \A q \in Request \ {r} : others'[q] = others[q]
      BY <1>1, <2>2 DEF TypeOK
    <3>3. HoldsOf(r)' /\ FoundOf(r)'
      BY <1>1, <1>2, <3>1 DEF ShapeOf, HoldsOf, FoundOf, Inviting, Settled, OneFounder, tables
    <3>4. FreshOf(r)'
      BY <1>3, <3>1 DEF tables
    <3>5. QED
      BY <3>1, <3>2, <3>3, <3>4, MoveSingle DEF locks
  <2>3. QED
    BY <1>4, <2>1, <2>2 DEF BeginConsume, InSnapshot
<1>5. CASE LockToken(r)
  <2>1. CASE Rollback(r, "invalid")
    BY <1>0, <2>1 DEF Reply
  <2>2. CASE /\ tokenLock' = [tokenLock EXCEPT ![token[r]] = r]
             /\ Continue(r, "user") /\ UNCHANGED <<userLock, advisory, request>>
    <3>1. /\ pc[r] = "token" /\ "user" \in Step /\ Goto(r, "user")
          /\ UNCHANGED <<tables, history, userLock, advisory, op, user, token, others>>
          /\ op[r] \in Consumption
      BY <1>1, <1>5, <2>2 DEF LockToken, Continue, Step, request, ShapeOf, TypeOK, Op, Consumption
    <3>2. \A t \in Token : tokenLock[t] \notin {None, r} => tokenLock'[t] = tokenLock[t]
      BY <1>1, <1>5, <2>2 DEF LockToken, TypeOK
    <3>3. HoldsOf(r)' /\ FoundOf(r)'
      BY <3>1 DEF HoldsOf, FoundOf, Inviting, Consumption
    <3>4. FreshOf(r)'
      BY <1>3, <3>1 DEF tables
    <3>5. QED
      BY <3>1, <3>2, <3>3, <3>4, MoveSingle
  <2>3. QED
    BY <1>5, <2>1, <2>2 DEF LockToken
<1>6. CASE LockUser(r)
  <2>1. CASE Rollback(r, "invalid")
    BY <1>0, <2>1 DEF Reply
  <2>2. CASE /\ status[user[r]] \in Wanted(r)
             /\ userLock' = [userLock EXCEPT ![user[r]] = r]
             /\ Continue(r, AfterUser[op[r]]) /\ UNCHANGED <<tokenLock, advisory, request>>
    <3>1. /\ pc[r] = "user" /\ op[r] \in {"accept", "confirm", "resend"} /\ user[r] \in User
          /\ userLock[user[r]] = None
      BY <1>1, <1>6 DEF LockUser, ShapeOf, TypeOK, Op
    <3>2. /\ AfterUser[op[r]] \in Step /\ Goto(r, AfterUser[op[r]])
          /\ op[r] = "resend" => AfterUser[op[r]] = "find"
          /\ UNCHANGED <<tables, history, tokenLock, advisory, op, user, token, others>>
      BY <2>2, <3>1 DEF AfterUser, Continue, Step, request
    <3>3. /\ userLock'[user[r]] = r
          /\ \A u \in User : userLock[u] \notin {None, r} => userLock'[u] = userLock[u]
      BY <1>1, <2>2, <3>1 DEF TypeOK
    <3>4. HoldsOf(r)'
      <4>1. op[r] = "resend" /\ Settled(user[r]) => user[r] \notin Founder
        BY <1>1, <2>2, <3>1 DEF HoldsOf, Wanted
      <4>2. QED
        BY <3>1, <3>2, <3>3, <4>1 DEF HoldsOf, Settled, OneFounder
    <3>5. FoundOf(r)'
      BY <1>2, <3>1, <3>2 DEF FoundOf, Inviting
    <3>6. FreshOf(r)'
      <4>1. op[r] = "resend" => AfterUser[op[r]] \notin {"publish", "commit"}
        BY <3>2
      <4>2. QED
        BY <1>3, <3>1, <3>2, <4>1 DEF Consumption, tables
    <3>7. QED
      BY <3>2, <3>3, <3>4, <3>5, <3>6, MoveSingle
  <2>3. QED
    BY <1>6, <2>1, <2>2 DEF LockUser
<1>7. CASE FindInvitations(r)
  <2>1. /\ pc[r] = "find" /\ "others" \in Step /\ Goto(r, "others")
        /\ others' = [others EXCEPT ![r] = Unused(user[r], "invitation")]
        /\ UNCHANGED <<tables, history, locks, op, user, token>>
        /\ op[r] \in {"resend", "ensure"}
    BY <1>1, <1>7 DEF FindInvitations, Continue, Step, ShapeOf, TypeOK, Op
  <2>2. /\ others'[r] = Unused(user[r], "invitation")
        /\ \A q \in Request \ {r} : others'[q] = others[q]
    BY <1>1, <2>1 DEF TypeOK
  <2>3. Unused(user[r], "invitation")' = Unused(user[r], "invitation")
        /\ Live(user[r], "invitation")' = Live(user[r], "invitation")
    BY <2>1 DEF Unused, Live, tables
  <2>4. HoldsOf(r)'
    BY <1>1, <1>2, <2>1 DEF HoldsOf, Settled, OneFounder, tables, locks
  <2>5. FoundOf(r)'
    BY <1>1, <1>2, <2>1, <2>2, <2>3 DEF FoundOf, Settled, OneFounder
  <2>6. FreshOf(r)'
    BY <1>3, <2>1 DEF tables
  <2>7. QED
    BY <2>1, <2>2, <2>4, <2>5, <2>6, MoveSingle DEF locks
<1>8. CASE LockOther(r)
  <2>1. PICK t \in others[r] :
           /\ tokenLock[t] = None
           /\ tokenLock' = IF t \in used THEN tokenLock ELSE [tokenLock EXCEPT ![t] = r]
           /\ others' = [others EXCEPT ![r] = @ \ {t}]
    BY <1>8 DEF LockOther
  <2>2. /\ pc[r] = "others" /\ "others" \in Step /\ Goto(r, "others")
        /\ UNCHANGED <<tables, history, userLock, advisory, pc, op, user, token>>
    BY <1>1, <1>8 DEF LockOther, Goto, Step, TypeOK
  <2>3. /\ t \in Token /\ others'[r] = others[r] \ {t}
        /\ t \notin used => tokenLock'[t] = r
        /\ \A x \in Token \ {t} : tokenLock'[x] = tokenLock[x]
        /\ \A q \in Request \ {r} : others'[q] = others[q]
    BY <1>1, <2>1 DEF TypeOK
  <2>4. HoldsOf(r)'
    BY <1>1, <2>2 DEF HoldsOf, Settled, OneFounder, tables
  <2>5. FoundOf(r)'
    <3>1. /\ Unused(user[r], "invitation")' = Unused(user[r], "invitation")
          /\ Live(user[r], "invitation")' = Live(user[r], "invitation")
          /\ Unused(user[r], "invitation") \subseteq Token \ used
      BY <2>2 DEF Unused, Live, tables
    <3>2. QED
      BY <1>1, <2>2, <2>3, <3>1 DEF FoundOf, Settled, OneFounder
  <2>6. FreshOf(r)'
    BY <1>3, <2>2 DEF tables
  <2>7. QED
    BY <2>1, <2>2, <2>3, <2>4, <2>5, <2>6, MoveSingle
<1>9. CASE OthersDone(r)
  <2>1. PICK st \in {"commit", "draw"} :
           /\ Goto(r, st) /\ (st = "commit") = (op[r] = "confirm")
           /\ UNCHANGED <<tables, history>>
    BY <1>9 DEF OthersDone, Continue
  <2>2. /\ pc[r] = "others" /\ others[r] = {} /\ st \in Step
        /\ UNCHANGED <<locks, op, user, token, others>>
    BY <1>9, <2>1 DEF OthersDone, Step, request
  <2>3. HoldsOf(r)'
    BY <1>1, <1>2, <2>1, <2>2 DEF HoldsOf, Settled, OneFounder, tables, locks
  <2>4. FoundOf(r)'
    <3>1. /\ Unused(user[r], "invitation")' = Unused(user[r], "invitation")
          /\ Live(user[r], "invitation")' = Live(user[r], "invitation")
      BY <2>1, <2>2 DEF Unused, Live, tables
    <3>2. QED
      BY <1>1, <1>2, <2>1, <2>2, <3>1 DEF FoundOf, Settled, OneFounder, locks
  <2>5. FreshOf(r)'
    BY <1>3, <2>1, <2>2 DEF tables, Consumption
  <2>6. QED
    BY <2>1, <2>2, <2>3, <2>4, <2>5, MoveSingle DEF locks
<1>10. CASE InsertUser(r)
  <2>1. CASE Rollback(r, "conflict")
    BY <1>0, <2>1 DEF Reply
  <2>2. CASE /\ status[user[r]] = "absent"
             /\ userLock' = [userLock EXCEPT ![user[r]] = r]
             /\ Continue(r, "draw") /\ UNCHANGED <<tokenLock, advisory, request>>
    <3>1. /\ pc[r] = "insert" /\ "draw" \in Step /\ Goto(r, "draw") /\ user[r] \in User
          /\ userLock[user[r]] = None /\ op[r] \in {"employee", "ensure"}
          /\ UNCHANGED <<tables, history, tokenLock, advisory, op, user, token, others>>
      BY <1>1, <1>10, <2>2 DEF InsertUser, Continue, Step, request, TypeOK, ShapeOf, Op
    <3>2. /\ userLock'[user[r]] = r
          /\ \A u \in User : userLock[u] \notin {None, r} => userLock'[u] = userLock[u]
      BY <1>1, <2>2, <3>1 DEF TypeOK
    <3>3. HoldsOf(r)'
      BY <1>1, <1>2, <3>1, <3>2 DEF HoldsOf, Settled, OneFounder, tables
    <3>4. FoundOf(r)'
      <4>1. Unused(user[r], "invitation")' = {} /\ Live(user[r], "invitation")' = {}
        BY <1>1, <2>2, <3>1 DEF Unused, Live, TypeOK, tables
      <4>2. QED
        BY <3>1, <4>1 DEF FoundOf
    <3>5. FreshOf(r)'
      BY <1>3, <3>1 DEF tables
    <3>6. QED
      BY <3>1, <3>2, <3>3, <3>4, <3>5, MoveSingle
  <2>3. QED
    BY <1>10, <2>1, <2>2 DEF InsertUser
<1>11. CASE Decide(r)
  <2>1. CASE Rollback(r, "nothing")
    BY <1>0, <2>1 DEF Reply
  <2>2. CASE /\ Live(user[r], "invitation") = {} /\ advisory' = r
             /\ Continue(r, IF status[user[r]] = "absent" THEN "insert" ELSE "find")
             /\ UNCHANGED <<userLock, tokenLock, request>>
    <3>1. PICK st \in {"insert", "find"} : Continue(r, st)
      BY <2>2
    <3>2. /\ pc[r] = "decide" /\ st \in Step /\ Goto(r, st) /\ op[r] = "ensure"
          /\ advisory = None
          /\ UNCHANGED <<tables, history, userLock, tokenLock, op, user, token, others>>
      BY <1>1, <1>11, <2>2, <3>1 DEF Decide, Continue, Step, request, ShapeOf, TypeOK, Op
    <3>3. HoldsOf(r)'
      BY <1>2, <2>2, <3>2 DEF HoldsOf
    <3>4. FoundOf(r)'
      <4>1. Live(user[r], "invitation")' = {}
        BY <2>2, <3>2 DEF Live, Unused, tables
      <4>2. QED
        BY <1>2, <3>2, <4>1 DEF FoundOf
    <3>5. FreshOf(r)'
      BY <1>3, <3>2 DEF tables
    <3>6. QED
      BY <3>2, <3>3, <3>4, <3>5, MoveSingle
  <2>3. QED
    BY <1>11, <2>1, <2>2 DEF Decide
<1>12. CASE Publish(r) \/ AnnounceFails(r)
  <2>1. PICK st \in {"commit", "withdraw"} :
           /\ Goto(r, st) /\ pc[r] = IF st = "commit" THEN "publish" ELSE "announce"
           /\ UNCHANGED <<tables, locks, request, history>>
    BY <1>12 DEF Publish, AnnounceFails
  <2>2. /\ st \in Step /\ UNCHANGED <<op, user, token, others>>
    BY <2>1 DEF Step, request
  <2>3. HoldsOf(r)'
    BY <1>1, <1>2, <2>1, <2>2 DEF HoldsOf, Settled, OneFounder, ShapeOf, tables, locks
  <2>4. FoundOf(r)'
    <3>1. /\ Unused(user[r], "invitation")' = Unused(user[r], "invitation")
          /\ Live(user[r], "invitation")' = Live(user[r], "invitation")
      BY <2>1, <2>2 DEF Unused, Live, tables
    <3>2. op[r] = "ensure" => st = "withdraw"
      BY <1>1, <2>1 DEF ShapeOf
    <3>3. QED
      BY <1>1, <1>2, <2>1, <2>2, <3>1, <3>2 DEF FoundOf, Settled, OneFounder, locks
  <2>5. FreshOf(r)'
    <3>1. st = "commit" => op[r] \in Consumption \/ r \in Carrying
      BY <2>1 DEF Carrying
    <3>2. pc[r] # "idle" /\ UNCHANGED <<owner, op, user, token>>
      BY <2>1, <2>2 DEF tables
    <3>3. QED
      BY <1>3, <2>1, <2>2, <3>1, <3>2
  <2>6. QED
    BY <2>1, <2>2, <2>3, <2>4, <2>5, MoveSingle DEF locks
<1>13. QED
  BY <1>4, <1>5, <1>6, <1>7, <1>8, <1>9, <1>10, <1>11, <1>12

(* The number drawn is that of no stored token and of none on its way.     *)
LEMMA DrawSingle ==
    ASSUME IInv, Single, NEW r \in Request, DrawToken(r)
    PROVE  Single'
<1>1. /\ TypeOK /\ Shapes /\ HoldsOf(r) /\ FoundOf(r)
      /\ pc[r] = "draw" /\ ShapeOf(r) /\ op[r] \notin Consumption
  BY DEF IInv, Single, Shapes, ShapeOf, Holding, Found, DrawToken, TypeOK, Op, Consumption
<1>2. /\ \A q \in Request \ {r} : Untouched(q)
      /\ pc'[r] = IF op[r] = "ensure" THEN "commit" ELSE "publish"
      /\ token'[r] = drawn + 1
      /\ UNCHANGED <<tables, locks, op, user, others, history>>
  BY <1>1 DEF DrawToken, Goto, TypeOK, Untouched
<1>3. drawn \in Nat /\ drawn + 1 \in Token
  <2>1. r \in Drawers
    BY <1>1 DEF Drawers, ShapeOf, TypeOK, Op, Consumption
  <2>2. Cardinality(Drawers) \in Nat /\ Cardinality(Drawers) # 0
    BY <2>1, FS_EmptySet, FS_CardinalityType DEF IInv, Drawing
  <2>3. drawn + Cardinality(Drawers) <= MaxTokens /\ drawn \in Nat
    BY <1>1 DEF IInv, Drawing, TypeOK
  <2>4. QED
    BY <2>2, <2>3 DEF TokensAssumption, Token
<1>4. owner[drawn + 1] = None
  BY <1>1, <1>3 DEF TypeOK
<1>5. ASSUME NEW p \in Carrying' \ {r} PROVE token'[p] # drawn + 1
  <2>1. /\ p \in Request /\ ShapeOf(p) /\ pc[p] \in {"publish", "commit"}
        /\ op[p] \notin Consumption /\ token'[p] = token[p] /\ token[p] \in Token \cup {None}
    BY <1>1, <1>2 DEF Carrying, Untouched, Shapes, TypeOK
  <2>2. token[p] \in Nat /\ token[p] <= drawn
    BY <2>1 DEF ShapeOf, Token
  <2>3. QED
    BY <1>3, <2>1, <2>2
<1>6. FreshOf(r)'
  BY <1>1, <1>2, <1>4, <1>5 DEF FreshOf, tables
<1>7. HoldsOf(r)'
  BY <1>1, <1>2 DEF HoldsOf, Settled, OneFounder, tables, locks
<1>8. FoundOf(r)'
  <2>1. /\ Unused(user[r], "invitation")' = Unused(user[r], "invitation")
        /\ Live(user[r], "invitation")' = Live(user[r], "invitation")
    BY <1>2 DEF Unused, Live, tables
  <2>2. QED
    BY <1>1, <1>2, <2>1 DEF FoundOf, Settled, OneFounder, locks
<1>9. Kept(r)
  BY <1>2 DEF Kept, tables, locks
<1>10. QED
  BY <1>2, <1>6, <1>7, <1>8, <1>9, QuietKeeps DEF tables, history

(* Nobody else issues an invitation of an account beside the request that  *)
(* is about to store one.                                                  *)
LEMMA Exclusive ==
    ASSUME IInv, Single, NEW r \in Request, NEW q \in Request, r # q,
           op[r] \in Inviting, pc[r] = "commit", op[q] \in Inviting,
           user[q] = user[r], Settled(user[r])
    PROVE  /\ pc[q] \notin {"others", "draw", "publish", "commit"}
           /\ op[q] = "ensure" => pc[q] \notin {"insert", "find"}
<1>1. /\ HoldsOf(r) /\ HoldsOf(q) /\ ShapeOf(r) /\ ShapeOf(q)
  BY DEF Single, Holding, IInv, Shapes
<1>2. CASE op[r] = "ensure" /\ op[q] = "ensure"
  BY <1>1, <1>2 DEF HoldsOf, ShapeOf
<1>3. CASE op[r] # "ensure" /\ op[q] # "ensure"
  BY <1>1, <1>3 DEF HoldsOf, Inviting
<1>4. CASE op[r] = "ensure" /\ op[q] # "ensure"
  BY <1>1, <1>4 DEF HoldsOf, Inviting, Settled, ShapeOf
<1>5. CASE op[r] # "ensure" /\ op[q] = "ensure"
  BY <1>1, <1>5 DEF HoldsOf, Inviting, Settled, ShapeOf
<1>6. QED
  BY <1>2, <1>3, <1>4, <1>5

(* What a commit stores, and what it leaves alone.                         *)
LEMMA StoreFacts ==
    ASSUME IInv, Single, NEW r \in Request, CommitIssue(r) \/ CommitEnsure(r)
    PROVE  /\ Store(r) /\ pc[r] = "commit" /\ op[r] \in Inviting \cup {"forgot"}
           /\ op[r] \notin Consumption /\ r \in Carrying
           /\ token[r] \in Token /\ user[r] \in User /\ owner[token[r]] = None
           /\ owner'[token[r]] = user[r]
           /\ purpose'[token[r]] = IF op[r] = "forgot" THEN "reset" ELSE purpose[token[r]]
           /\ \A t \in Token \ {token[r]} : owner'[t] = owner[t] /\ purpose'[t] = purpose[t]
           /\ used' = used \cup {t \in Token : tokenLock[t] = r}
           /\ \A u \in User : latest'[u] = IF u = user[r] /\ op[r] # "forgot" THEN token[r]
                                            ELSE latest[u]
           /\ \A u \in User : status'[u] = IF u = user[r] /\ status[u] = "absent" THEN "pending"
                                            ELSE status[u]
           /\ UNCHANGED expired
           /\ \A q \in Request \ {r} : Untouched(q)
           /\ \A u \in User : userLock[u] \notin {None, r} => userLock'[u] = userLock[u]
           /\ \A t \in Token : IF tokenLock[t] = r THEN tokenLock'[t] = None
                               ELSE tokenLock'[t] = tokenLock[t]
           /\ advisory \notin {None, r} => advisory' = advisory
           /\ pc'[r] \in {"idle", "announce"}
           /\ pc'[r] = "announce" => op'[r] = "ensure"
<1>1. TypeOK /\ Shapes /\ Fresh
  BY DEF IInv, Single
<1>2. /\ Store(r) /\ pc[r] = "commit" /\ op[r] \in Inviting \cup {"forgot"}
      /\ op[r] \notin Consumption /\ r \in Carrying
  BY DEF CommitIssue, CommitEnsure, Inviting, Consumption, Carrying
<1>3. token[r] \in Token /\ user[r] \in User /\ owner[token[r]] = None
  BY <1>1, <1>2 DEF Shapes, ShapeOf, TypeOK, Fresh, FreshOf
<1>4. /\ owner'[token[r]] = user[r]
      /\ purpose'[token[r]] = IF op[r] = "forgot" THEN "reset" ELSE purpose[token[r]]
      /\ \A t \in Token \ {token[r]} : owner'[t] = owner[t] /\ purpose'[t] = purpose[t]
      /\ used' = used \cup {t \in Token : tokenLock[t] = r}
      /\ UNCHANGED expired
  BY <1>1, <1>2, <1>3 DEF Store, TypeOK
<1>5. /\ \A u \in User : latest'[u] = IF u = user[r] /\ op[r] # "forgot" THEN token[r]
                                      ELSE latest[u]
      /\ \A u \in User : status'[u] = IF u = user[r] /\ status[u] = "absent" THEN "pending"
                                      ELSE status[u]
  BY <1>1, <1>2, <1>3 DEF Store, TypeOK
<1>6. CASE CommitIssue(r)
  <2>1. /\ \A q \in Request \ {r} : Untouched(q)
        /\ pc'[r] = "idle"
    BY <1>1, <1>6 DEF CommitIssue, Finish, Goto, TypeOK, Untouched
  <2>2. /\ \A u \in User : userLock[u] \notin {None, r} => userLock'[u] = userLock[u]
        /\ \A t \in Token : IF tokenLock[t] = r THEN tokenLock'[t] = None
                            ELSE tokenLock'[t] = tokenLock[t]
        /\ advisory \notin {None, r} => advisory' = advisory
    BY <1>1, <1>6 DEF CommitIssue, Finish, Release, TypeOK
  <2>3. QED
    BY <1>2, <1>3, <1>4, <1>5, <2>1, <2>2
<1>7. CASE CommitEnsure(r)
  <2>1. /\ \A q \in Request \ {r} : Untouched(q)
        /\ pc'[r] = "announce" /\ op'[r] = "ensure"
    BY <1>1, <1>7 DEF CommitEnsure, Goto, TypeOK, Untouched, request
  <2>2. /\ \A u \in User : userLock[u] \notin {None, r} => userLock'[u] = userLock[u]
        /\ \A t \in Token : IF tokenLock[t] = r THEN tokenLock'[t] = None
                            ELSE tokenLock'[t] = tokenLock[t]
        /\ advisory \notin {None, r} => advisory' = advisory
    BY <1>1, <1>7 DEF CommitEnsure, Release, TypeOK
  <2>3. QED
    BY <1>2, <1>3, <1>4, <1>5, <2>1, <2>2
<1>8. QED
  BY <1>6, <1>7

(* A commit stores the one invitation that its account will have unused.   *)
LEMMA StoreSingle ==
    ASSUME IInv, Single, NEW r \in Request, CommitIssue(r) \/ CommitEnsure(r)
    PROVE  Single'
<1>1. TypeOK /\ Shapes /\ Holding /\ Fresh /\ Found /\ OneUnused
  BY DEF IInv, Single
<1>2. /\ pc[r] = "commit" /\ op[r] \in Inviting \cup {"forgot"}
      /\ op[r] \notin Consumption /\ r \in Carrying
      /\ token[r] \in Token /\ user[r] \in User /\ owner[token[r]] = None
  BY StoreFacts
<1>3. /\ owner'[token[r]] = user[r]
      /\ \A t \in Token \ {token[r]} : owner'[t] = owner[t] /\ purpose'[t] = purpose[t]
      /\ op[r] = "forgot" => purpose'[token[r]] = "reset"
      /\ used' = used \cup {t \in Token : tokenLock[t] = r}
      /\ \A u \in User : latest'[u] = IF u = user[r] /\ op[r] # "forgot" THEN token[r]
                                      ELSE latest[u]
      /\ \A u \in User \ Reopened : status[u] \notin {"absent", "pending"} =>
            status'[u] \notin {"absent", "pending"}
      /\ UNCHANGED expired
  BY StoreFacts
<1>4. /\ \A q \in Request \ {r} : Untouched(q)
      /\ \A u \in User : userLock[u] \notin {None, r} => userLock'[u] = userLock[u]
      /\ \A t \in Token : tokenLock[t] \notin {None, r} => tokenLock'[t] = tokenLock[t]
      /\ advisory \notin {None, r} => advisory' = advisory
      /\ pc'[r] \in {"idle", "announce"}
      /\ pc'[r] = "announce" => op'[r] = "ensure"
  BY StoreFacts
(* No token becomes unused but the stored one, for its own account.        *)
<1>5. ASSUME NEW u \in User, NEW t \in Unused(u, "invitation")'
      PROVE  \/ t \in Unused(u, "invitation") /\ t # token[r]
             \/ t = token[r] /\ u = user[r] /\ op[r] \in Inviting
  BY <1>2, <1>3, <1>5 DEF Unused, TokensAssumption
<1>6. ASSUME NEW q \in Request \ {r}, op[q] \in Inviting,
             NEW u \in User, u = user[q], Settled(u),
             \/ pc[q] \in {"others", "draw", "publish", "commit"}
             \/ op[q] = "ensure" /\ pc[q] \in {"insert", "find"}
      PROVE  Unused(u, "invitation")' \subseteq Unused(u, "invitation")
  <2>1. SUFFICES ASSUME u = user[r], op[r] \in Inviting PROVE FALSE
    BY <1>5
  <2>2. QED
    BY <1>2, <1>6, <2>1, Exclusive
<1>7. Holding'
  <2>1. ASSUME NEW q \in Request \ {r} PROVE HoldsOf(q)'
    <3>1. Untouched(q) /\ HoldsOf(q) /\ q # None /\ (pc[q] # "idle" => user[q] \in User)
      BY <1>1, <1>4 DEF Holding, TypeOK, TokensAssumption
    <3>2. QED
      BY <1>3, <1>4, <3>1 DEF HoldsOf, Untouched, Settled, OneFounder
  <2>2. HoldsOf(r)'
    BY <1>4 DEF HoldsOf
  <2>3. QED
    BY <2>1, <2>2 DEF Holding
<1>8. Fresh'
  <2>1. Carrying' \subseteq Carrying \ {r}
    BY <1>4 DEF Carrying, Untouched
  <2>2. ASSUME NEW q \in Request \ {r} PROVE FreshOf(q)'
    <3>1. Untouched(q) /\ FreshOf(q)
      BY <1>1, <1>4 DEF Fresh
    <3>2. ASSUME op[q] \in Consumption, pc[q] # "idle" PROVE owner'[token[q]] # None
      <4>1. token[q] \in Token /\ owner[token[q]] # None
        BY <1>1, <3>1, <3>2 DEF FreshOf, Shapes, ShapeOf, TypeOK
      <4>2. QED
        BY <1>2, <1>3, <4>1
    <3>3. ASSUME q \in Carrying'
          PROVE  /\ owner'[token[q]] = None
                 /\ \A p \in Carrying' \ {q} : token'[p] # token[q]
      <4>1. q \in Carrying /\ token[q] # token[r] /\ owner[token[q]] = None
        BY <1>2, <2>1, <3>1, <3>3 DEF FreshOf
      <4>2. token[q] \in Token
        BY <1>1, <4>1 DEF Carrying, Shapes, ShapeOf, TypeOK
      <4>3. \A p \in Carrying' \ {q} : p \in Carrying /\ token'[p] = token[p]
        BY <1>4, <2>1 DEF Untouched, Carrying
      <4>4. QED
        BY <1>3, <3>1, <4>1, <4>2, <4>3 DEF FreshOf
    <3>4. QED
      BY <3>1, <3>2, <3>3 DEF FreshOf, Untouched
  <2>3. FreshOf(r)'
    BY <1>4 DEF FreshOf, Carrying, Consumption
  <2>4. QED
    BY <2>2, <2>3 DEF Fresh
<1>9. Found'
  <2>1. ASSUME NEW q \in Request \ {r}, op[q] \in Inviting, Settled(user[q]), pc[q] # "idle"
        PROVE  FoundOf(q)'
    <3>1. Untouched(q) /\ FoundOf(q) /\ q # None /\ user[q] \in User
      BY <1>1, <1>4, <2>1 DEF Found, TypeOK, TokensAssumption
    <3>u. PICK u \in User : u = user[q] /\ u = user'[q]
      BY <3>1 DEF Untouched
    <3>2. ASSUME pc[q] \in {"others", "draw", "publish", "commit"},
                 NEW t \in Unused(user[q], "invitation")'
          PROVE  tokenLock'[t] = q \/ (pc'[q] = "others" /\ t \in others'[q])
      <4>1. t \in Unused(user[q], "invitation") /\ t \in Token
        BY <1>6, <2>1, <3>1, <3>2, <3>u DEF Unused
      <4>2. tokenLock[t] = q \/ (pc[q] = "others" /\ t \in others[q])
        BY <2>1, <3>1, <3>2, <4>1 DEF FoundOf
      <4>3. QED
        BY <1>4, <3>1, <4>1, <4>2 DEF Untouched
    <3>3. ASSUME op[q] = "ensure", pc[q] \in {"insert", "find", "others", "draw", "commit"}
          PROVE  Live(user[q], "invitation")' = {}
      <4>1. Unused(u, "invitation")' \subseteq Unused(u, "invitation")
        BY <1>6, <2>1, <3>3, <3>u
      <4>2. Live(u, "invitation") = {}
        BY <2>1, <3>1, <3>3, <3>u DEF FoundOf
      <4>3. Live(u, "invitation")' = {}
        BY <1>3, <4>1, <4>2 DEF Live
      <4>4. QED
        BY <3>u, <4>3 DEF Live, Unused
    <3>4. QED
      BY <3>1, <3>2, <3>3 DEF FoundOf, Untouched
  <2>2. ASSUME NEW q \in Request \ {r},
               op[q] \notin Inviting \/ ~Settled(user[q]) \/ pc[q] = "idle"
        PROVE  FoundOf(q)'
    BY <1>4, <2>2 DEF FoundOf, Untouched, Settled, OneFounder
  <2>3. FoundOf(r)'
    BY <1>4 DEF FoundOf
  <2>4. QED
    BY <2>1, <2>2, <2>3 DEF Found
<1>10. OneUnused'
  <2>1. SUFFICES ASSUME NEW u \in User, Settled(u), NEW t \in Unused(u, "invitation")'
                 PROVE  t = latest'[u]
    BY DEF OneUnused, Settled, OneFounder
  <2>2. CASE t = token[r]
    BY <1>2, <1>3, <1>5, <2>2 DEF Inviting
  <2>3. CASE t # token[r]
    <3>1. t \in Unused(u, "invitation") /\ t = latest[u] /\ t \in Token /\ t \notin used'
      BY <1>1, <1>5, <2>1, <2>3 DEF OneUnused, Unused
    <3>2. u = user[r] => op[r] = "forgot"
      <4>1. SUFFICES ASSUME u = user[r], op[r] \in Inviting PROVE FALSE
        BY <1>2
      <4>2. tokenLock[t] = r
        BY <1>1, <1>2, <2>1, <3>1, <4>1 DEF Found, FoundOf
      <4>3. QED
        BY <1>3, <3>1, <4>2
    <3>3. QED
      BY <1>3, <3>1, <3>2
  <2>4. QED
    BY <2>2, <2>3
<1>11. QED
  BY <1>7, <1>8, <1>9, <1>10 DEF Single

LEMMA NextSingle == IInv /\ Single /\ [Next]_vars => Single'
<1>1. SUFFICES ASSUME IInv, Single, [Next]_vars PROVE Single'
  OBVIOUS
<1>2. CASE \/ \E r \in Request, t \in Token, o \in {"accept", "confirm"} : Present(r, o, t)
           \/ \E r \in Request, u \in User :
                 Resend(r, u) \/ CreateEmployee(r, u) \/ RequestReset(r, u)
           \/ \E r \in Request, f \in Founder : Ensure(r, f)
  BY <1>1, <1>2, BeginSingle
<1>3. CASE \E r \in Request :
              Proceed(r) \/ PublishFails(r) \/ AnnounceFails(r) \/ LoseRequest(r)
  BY <1>1, <1>3, LockingSingle, DrawSingle, StoreSingle, EndSingle DEF Proceed
<1>4. CASE Ambient
  BY <1>1, <1>4, AmbientSingle
<1>5. QED
  BY <1>1, <1>2, <1>3, <1>4 DEF Next, Ambient, Changes

LEMMA SingleInductive == Spec => []Single
  BY InitSingle, NextSingle, Inductive, PTL DEF Spec

(* What is accepted is the newest.                                         *)
LEMMA AcceptanceOfNewest ==
    ASSUME IInv, Single, Next, NEW t \in Token, uses'[t] > uses[t],
           purpose[t] = "invitation", Settled(owner[t])
    PROVE  t = latest[owner[t]]
<1>1. TypeOK /\ Shapes /\ Consuming /\ Fresh /\ OneUnused /\ uses[t] \in Nat
  BY DEF IInv, Single, TypeOK
<1>2. uses' # uses
  BY <1>1
<1>3. PICK r \in Request : CommitConsumption(r)
  BY <1>2 DEF Next, Proceed, Present, Resend, CreateEmployee, RequestReset, Ensure, Begin,
     BeginConsume, InSnapshot, LockToken, LockUser, FindInvitations, LockOther, OthersDone, InsertUser,
     DrawToken, Publish, CommitIssue, CommitEnsure, Store, Decide, Announce, Withdraw,
     BreakDeadlock, PublishFails, AnnounceFails, LoseRequest, Expire, LockAccount,
     UnlockAccount, SetStatus, Restate, Rollback,
     Continue, history
<1>4. t = token[r]
  BY <1>1, <1>3 DEF CommitConsumption, TypeOK
<1>5. t \notin used /\ owner[t] \in User
  BY <1>1, <1>3, <1>4 DEF CommitConsumption, Consuming, ConsumesOf, Fresh, FreshOf, Consumption,
                          TypeOK
<1>6. t \in Unused(owner[t], "invitation")
  BY <1>5 DEF Unused
<1>7. QED
  BY <1>1, <1>5, <1>6 DEF OneUnused
-----------------------------------------------------------------------------
(* InvalidateInvitationTokens and CreateInvitationToken in one transaction *)
(* that holds the account, or the advisory lock: of the invitations of an  *)
(* account at most one, the newest, is unused.  Not of an administrator    *)
(* whose resend ran beside a start, with another BOOTSTRAP_ADMIN_EMAIL or  *)
(* after the account was set back to pending.                              *)
THEOREM OneInvitationUnused == Spec => []OneUnused
<1>1. Single => OneUnused
  BY DEF Single
<1>2. QED
  BY <1>1, SingleInductive, PTL

(* RF-001, for employees: after any number of resends, however they run    *)
(* beside acceptances and starts, only the newest invitation is accepted.  *)
THEOREM EmployeesAcceptNewest ==
    Spec => [][\A t \in Token :
                  uses'[t] > uses[t] /\ purpose[t] = "invitation" /\ owner[t] \notin Founder =>
                      t = latest[owner[t]]]_vars
<1>1. IInv /\ Single /\ [Next]_vars =>
         [\A t \in Token :
             uses'[t] > uses[t] /\ purpose[t] = "invitation" /\ owner[t] \notin Founder =>
                 t = latest[owner[t]]]_vars
  BY AcceptanceOfNewest DEF Settled
<1>2. QED
  BY <1>1, Inductive, SingleInductive, PTL DEF Spec

(* RF-001, for the first administrator too, if BOOTSTRAP_ADMIN_EMAIL is    *)
(* never changed and nobody sets that administrator back to pending.       *)
THEOREM NewestIsAccepted ==
    (\A f \in Founder : Settled(f)) => (Spec => NewestInvitationOnly)
<1>1. SUFFICES ASSUME \A f \in Founder : Settled(f) PROVE Spec => NewestInvitationOnly
  OBVIOUS
<1>2. IInv /\ Single /\ [Next]_vars =>
         [\A t \in Token :
             uses'[t] > uses[t] /\ purpose[t] = "invitation" => t = latest[owner[t]]]_vars
  BY <1>1, AcceptanceOfNewest DEF Settled
<1>3. QED
  BY <1>2, Inductive, SingleInductive, PTL DEF Spec, NewestInvitationOnly

(* bootstrap.Ensure: starts with one BOOTSTRAP_ADMIN_EMAIL, any number at  *)
(* once, invalidate no live link when they commit theirs, if nobody sets   *)
(* that administrator back to pending.                                     *)
THEOREM StartsSpareLiveLinks ==
    (\A f \in Founder : Settled(f)) => (Spec => StartsSpareLive)
<1>1. SUFFICES ASSUME \A f \in Founder : Settled(f) PROVE Spec => StartsSpareLive
  OBVIOUS
<1>2. ASSUME Single, NEW r \in Request, op[r] = "ensure", pc[r] = "commit"
      PROVE  Live(user[r], "invitation") \cap mailed \cap used' = {}
  BY <1>1, <1>2 DEF Single, Found, FoundOf, Settled, Inviting
<1>3. Single /\ [Next]_vars =>
         [\A r \in Request :
             op[r] = "ensure" /\ pc[r] = "commit" /\ pc'[r] = "announce" =>
                 Live(user[r], "invitation") \cap mailed \cap used' = {}]_vars
  BY <1>2
<1>4. QED
  BY <1>3, SingleInductive, PTL DEF Spec, StartsSpareLive

-----------------------------------------------------------------------------
(***************************************************************************)
(* AccountTokens implements Invitations.                                   *)
(***************************************************************************)
(* What a token is for, by the operation that works on it.                 *)
Serving(o) == IF o = "confirm" THEN "reset" ELSE "invitation"

HeldBy(r) == {t \in Token : tokenLock[t] = r \/ t \in others[r]}

(* A request locks, or will lock, tokens of its own account and purpose    *)
(* only; an acceptance about to commit holds an account still pending.     *)
FitsOf(r) ==
    /\ \A t \in HeldBy(r) :
          /\ pc[r] # "idle" /\ op[r] \in Consumption \cup {"resend", "ensure"}
          /\ owner[t] = user[r] /\ purpose[t] = Serving(op[r])
    /\ op[r] \in Consumption /\ pc[r] # "idle" =>
          owner[token[r]] = user[r] /\ purpose[token[r]] = Serving(op[r])
    /\ op[r] = "accept" /\ pc[r] \in {"publish", "commit"} =>
          userLock[user[r]] = r /\ status[user[r]] = "pending"

Fitting == \A r \in Request : FitsOf(r)

(* A number that was not stored is nobody's, whatever was drawn.           *)
Blank == \A t \in Token : owner[t] = None => t \notin used /\ purpose[t] = "invitation"

Matching == Fitting /\ Blank

LEMMA InitMatching == Init => Matching
  BY DEF Init, Matching, Fitting, FitsOf, HeldBy, Blank, Consumption

(* What a step of r leaves alone.                                          *)
Beside(r) ==
    /\ \A q \in Request \ {r} : Untouched(q)
    /\ \A u \in User : userLock[u] \notin {None, r} =>
          userLock'[u] = userLock[u] /\ (status[u] = "pending" => status'[u] = "pending")
    /\ \A t \in Token : tokenLock'[t] \in {tokenLock[t], None, r}
    /\ \A t \in Token : owner[t] # None => owner'[t] = owner[t] /\ purpose'[t] = purpose[t]

LEMMA BesideFits ==
    ASSUME IInv, Fitting, NEW r \in Request \cup {None}, Beside(r),
           NEW q \in Request, q # r
    PROVE  FitsOf(q)'
<1>1. /\ Untouched(q) /\ FitsOf(q) /\ q # None
      /\ (pc[q] # "idle" => user[q] \in User)
      /\ (op[q] \in Consumption /\ pc[q] # "idle" => token[q] \in Token)
  BY DEF Beside, Fitting, IInv, TypeOK, Shapes, ShapeOf, TokensAssumption
<1>2. HeldBy(q)' \subseteq HeldBy(q)
  BY <1>1 DEF HeldBy, Beside, Untouched
<1>3. ASSUME NEW t \in HeldBy(q)'
      PROVE  /\ pc'[q] # "idle" /\ op'[q] \in Consumption \cup {"resend", "ensure"}
             /\ owner'[t] = user'[q] /\ purpose'[t] = Serving(op'[q])
  <2>1. /\ pc[q] # "idle" /\ op[q] \in Consumption \cup {"resend", "ensure"}
        /\ owner[t] = user[q] /\ purpose[t] = Serving(op[q]) /\ t \in Token
    BY <1>1, <1>2, <1>3 DEF FitsOf, HeldBy
  <2>2. owner[t] # None
    BY <1>1, <2>1 DEF TokensAssumption
  <2>3. QED
    BY <1>1, <2>1, <2>2 DEF Beside, Untouched
<1>4. ASSUME op'[q] \in Consumption, pc'[q] # "idle"
      PROVE  owner'[token'[q]] = user'[q] /\ purpose'[token'[q]] = Serving(op'[q])
  <2>1. /\ owner[token[q]] = user[q] /\ purpose[token[q]] = Serving(op[q])
        /\ token[q] \in Token /\ user[q] \in User
    BY <1>1, <1>4 DEF FitsOf, Untouched
  <2>2. owner[token[q]] # None
    BY <2>1 DEF TokensAssumption
  <2>3. QED
    BY <1>1, <2>1, <2>2 DEF Beside, Untouched
<1>5. ASSUME op'[q] = "accept", pc'[q] \in {"publish", "commit"}
      PROVE  userLock'[user'[q]] = q /\ status'[user'[q]] = "pending"
  <2>1. userLock[user[q]] = q /\ status[user[q]] = "pending" /\ user[q] \in User
    BY <1>1, <1>5 DEF FitsOf, Untouched
  <2>2. QED
    BY <1>1, <2>1 DEF Beside, Untouched
<1>6. QED
  BY <1>3, <1>4, <1>5 DEF FitsOf

(* A step that stores nothing and uses nothing.                            *)
LEMMA QuietMatches ==
    ASSUME IInv, Matching, NEW r \in Request \cup {None}, Beside(r),
           UNCHANGED <<owner, purpose, used>>, r \in Request => FitsOf(r)'
    PROVE  Matching'
<1>1. Fitting'
  BY BesideFits DEF Matching, Fitting
<1>2. Blank'
  BY DEF Matching, Blank
<1>3. QED
  BY <1>1, <1>2 DEF Matching

(* A request that ends holds nothing.                                      *)
LEMMA FinishFits ==
    ASSUME TypeOK, NEW r \in Request, NEW a \in Reply, Finish(r, a)
    PROVE  /\ FitsOf(r)'
           /\ \A q \in Request \ {r} : Untouched(q)
           /\ \A u \in User : userLock[u] \notin {None, r} => userLock'[u] = userLock[u]
           /\ \A t \in Token : tokenLock'[t] \in {tokenLock[t], None}
<1>1. pc'[r] = "idle" /\ op'[r] = "none" /\ others'[r] = {}
  BY DEF Finish, Goto, TypeOK
<1>2. \A t \in Token : tokenLock'[t] \in {tokenLock[t], None} /\ tokenLock'[t] # r
  BY DEF Finish, Release, TypeOK, TokensAssumption
<1>3. FitsOf(r)'
  BY <1>1, <1>2 DEF FitsOf, HeldBy, Consumption
<1>4. \A q \in Request \ {r} : Untouched(q)
  BY DEF Finish, Goto, TypeOK, Untouched
<1>5. \A u \in User : userLock[u] \notin {None, r} => userLock'[u] = userLock[u]
  BY DEF Finish, Release, TypeOK
<1>6. QED
  BY <1>2, <1>3, <1>4, <1>5

(* The ends that store nothing: what a consumption or a withdrawal uses is *)
(* stored.                                                                 *)
LEMMA EndMatches ==
    ASSUME IInv, Matching, NEW r \in Request,
           \/ \E a \in Reply : Rollback(r, a)
           \/ PublishFails(r) \/ Announce(r) \/ Withdraw(r) \/ CommitConsumption(r)
           \/ BreakDeadlock(r) \/ LoseRequest(r)
    PROVE  Matching'
<1>1. TypeOK /\ FitsOf(r) /\ Blank
  BY DEF IInv, Matching, Fitting
<1>2. (\E a \in Reply : Finish(r, a)) /\ UNCHANGED <<owner, purpose>>
  BY DEF Rollback, PublishFails, Announce, Withdraw, CommitConsumption, BreakDeadlock,
         LoseRequest, tables, Reply
<1>3. /\ FitsOf(r)'
      /\ \A q \in Request \ {r} : Untouched(q)
      /\ \A u \in User : userLock[u] \notin {None, r} => userLock'[u] = userLock[u]
      /\ \A t \in Token : tokenLock'[t] \in {tokenLock[t], None}
  BY <1>1, <1>2, FinishFits
<1>4. \A u \in User : userLock[u] \notin {None, r} /\ status[u] = "pending" => status'[u] = "pending"
  <2>1. CASE CommitConsumption(r)
    <3>1. \A u \in User \ {user[r]} : status'[u] = status[u]
      BY <1>1, <2>1 DEF CommitConsumption, TypeOK
    <3>2. op[r] = "accept" => userLock[user[r]] = r
      BY <1>1, <2>1 DEF CommitConsumption, FitsOf
    <3>3. op[r] # "accept" /\ user[r] \in User /\ status[user[r]] = "pending" =>
             status'[user[r]] = "pending"
      BY <1>1, <2>1 DEF CommitConsumption, TypeOK
    <3>4. QED
      BY <3>1, <3>2, <3>3
  <2>2. CASE ~CommitConsumption(r)
    BY <2>2 DEF Rollback, PublishFails, Announce, Withdraw, BreakDeadlock, LoseRequest, tables
  <2>3. QED
    BY <2>1, <2>2
<1>5. Beside(r)
  BY <1>2, <1>3, <1>4 DEF Beside
<1>6. Fitting'
  BY <1>3, <1>5, BesideFits DEF Matching, Fitting
<1>7. \A t \in Token : t \in used' /\ t \notin used => owner[t] # None
  <2>1. CASE CommitConsumption(r)
    <3>1. ASSUME NEW t \in Token, tokenLock[t] = r PROVE owner[t] # None
      <4>1. t \in HeldBy(r)
        BY <3>1 DEF HeldBy
      <4>2. owner[t] = user[r] /\ pc[r] # "idle"
        BY <1>1, <4>1 DEF FitsOf
      <4>3. QED
        BY <1>1, <4>2 DEF TypeOK
    <3>2. QED
      BY <2>1, <3>1 DEF CommitConsumption
  <2>2. CASE Withdraw(r)
    BY <1>1, <2>2 DEF Withdraw, Unused, TypeOK
  <2>3. CASE ~CommitConsumption(r) /\ ~Withdraw(r)
    BY <2>3 DEF Rollback, PublishFails, Announce, BreakDeadlock, LoseRequest, tables
  <2>4. QED
    BY <2>1, <2>2, <2>3
<1>8. Blank'
  BY <1>1, <1>2, <1>7 DEF Blank
<1>9. QED
  BY <1>6, <1>8 DEF Matching

(* A statement that writes nothing.                                        *)
LEMMA MoveMatches ==
    ASSUME IInv, Matching, NEW r \in Request, NEW st \in Step, Goto(r, st),
           UNCHANGED <<tables, op, user>>,
           \A q \in Request \ {r} : token'[q] = token[q] /\ others'[q] = others[q],
           \A u \in User : userLock[u] \notin {None, r} => userLock'[u] = userLock[u],
           \A t \in Token : tokenLock'[t] \in {tokenLock[t], None, r},
           FitsOf(r)'
    PROVE  Matching'
<1>1. \A q \in Request \ {r} : Untouched(q)
  BY DEF Goto, IInv, TypeOK, Untouched
<1>2. Beside(r)
  BY <1>1 DEF Beside, tables
<1>3. QED
  BY <1>2, QuietMatches DEF tables

(* What is presented is for the operation.                                 *)
LEMMA BeginMatches ==
    ASSUME IInv, Matching, NEW r \in Request,
           \/ \E t \in Token, o \in {"accept", "confirm"} : Present(r, o, t)
           \/ \E u \in User : Resend(r, u) \/ CreateEmployee(r, u) \/ RequestReset(r, u)
           \/ \E f \in Founder : Ensure(r, f)
    PROVE  Matching'
<1>1. TypeOK /\ FitsOf(r)
  BY DEF IInv, Matching, Fitting
<1>2. PICK o \in Op, u \in User, t \in Token \cup {None},
           st \in {"hash", "user", "insert", "draw", "decide"} :
        /\ Begin(r, o, u, t, st)
        /\ o \in Consumption => owner[t] = u /\ purpose[t] = Serving(o)
  <2>1. ASSUME NEW t \in Token, NEW o \in {"accept", "confirm"}, Present(r, o, t)
        PROVE  owner[t] \in User /\ purpose[t] = Serving(o) /\ Begin(r, o, owner[t], t, "hash")
    BY <1>1, <2>1 DEF Present, Serving, TypeOK
  <2>2. CASE \E t \in Token, o \in {"accept", "confirm"} : Present(r, o, t)
    BY <2>1, <2>2 DEF Op, Consumption
  <2>3. CASE ~ \E t \in Token, o \in {"accept", "confirm"} : Present(r, o, t)
    BY <2>3 DEF Resend, CreateEmployee, RequestReset, Ensure, Op, Consumption
  <2>4. QED
    BY <2>2, <2>3
<1>3. /\ pc[r] = "idle" /\ pc'[r] = st /\ op'[r] = o /\ user'[r] = u /\ token'[r] = t
      /\ \A q \in Request \ {r} : Untouched(q)
      /\ UNCHANGED <<tables, locks, others>>
  BY <1>1, <1>2 DEF Begin, Goto, TypeOK, Untouched
<1>4. HeldBy(r)' = {}
  BY <1>1, <1>3 DEF FitsOf, HeldBy, locks
<1>5. FitsOf(r)'
  BY <1>2, <1>3, <1>4 DEF FitsOf, tables
<1>6. Beside(r)
  BY <1>3 DEF Beside, tables, locks
<1>7. QED
  BY <1>3, <1>5, <1>6, QuietMatches DEF tables

LEMMA AmbientMatches ==
    ASSUME IInv, Matching, Ambient
    PROVE  Matching'
<1>1. /\ UNCHANGED <<owner, purpose, used, locks, pc, request>>
      /\ \A u \in User : userLock[u] # None => status'[u] = status[u]
  BY AmbientFacts DEF IInv
<1>2. Beside(None) /\ None \notin Request
  BY <1>1 DEF Beside, Untouched, locks, request, TokensAssumption
<1>3. QED
  BY <1>1, <1>2, QuietMatches

(* Each statement locks, or reads as its snapshot, what its operation is   *)
(* about.                                                                  *)
LEMMA LockingMatches ==
    ASSUME IInv, Matching, NEW r \in Request,
           \/ BeginConsume(r) \/ LockToken(r) \/ LockUser(r) \/ FindInvitations(r)
           \/ LockOther(r) \/ OthersDone(r) \/ InsertUser(r) \/ DrawToken(r) \/ Decide(r)
           \/ Publish(r) \/ AnnounceFails(r)
    PROVE  Matching'
<1>0. CASE \E a \in Reply : Rollback(r, a)
  BY <1>0, EndMatches
<1>1. TypeOK /\ ShapeOf(r) /\ FitsOf(r) /\ None \notin Request
  BY DEF IInv, Shapes, Matching, Fitting, TokensAssumption
<1>2. ASSUME NEW st \in Step, Goto(r, st) PROVE pc'[r] = st
  BY <1>1, <1>2 DEF Goto, TypeOK
(* Nothing new is held, and the account of an acceptance stays held.       *)
<1>3. ASSUME NEW st \in Step \ {"idle"}, Goto(r, st), pc[r] # "idle",
             UNCHANGED <<tables, op, user>>,
             HeldBy(r)' \subseteq HeldBy(r),
             op[r] \in Consumption => token'[r] = token[r],
             op[r] = "accept" /\ st \in {"publish", "commit"} =>
                pc[r] = "publish" /\ userLock' = userLock
      PROVE  FitsOf(r)'
  <2>1. pc'[r] = st
    BY <1>2, <1>3
  <2>2. QED
    BY <1>1, <1>3, <2>1 DEF FitsOf, tables
<1>4. CASE BeginConsume(r)
  <2>1. CASE Rollback(r, "invalid")
    BY <1>0, <2>1 DEF Reply
  <2>2. CASE /\ others' = [others EXCEPT ![r] =
                  IF op[r] = "confirm" THEN Unused(user[r], "reset") \ {token[r]} ELSE {}]
             /\ Continue(r, "token") /\ UNCHANGED <<locks, op, user, token>>
    <3>1. /\ pc[r] = "hash" /\ op[r] \in Consumption /\ "token" \in Step /\ Goto(r, "token")
          /\ UNCHANGED <<tables, locks, op, user, token>>
      BY <1>1, <1>4, <2>2 DEF BeginConsume, InSnapshot, Continue, Step, ShapeOf, TypeOK, Op, Consumption
    <3>2. /\ others'[r] = (IF op[r] = "confirm" THEN Unused(user[r], "reset") \ {token[r]} ELSE {})
          /\ \A q \in Request \ {r} : others'[q] = others[q]
      BY <1>1, <2>2 DEF TypeOK
    <3>3. ASSUME NEW t \in HeldBy(r)'
          PROVE  owner[t] = user[r] /\ purpose[t] = Serving(op[r])
      BY <1>1, <3>1, <3>2, <3>3 DEF HeldBy, FitsOf, Unused, Serving, locks
    <3>4. FitsOf(r)'
      BY <1>1, <1>2, <3>1, <3>3 DEF FitsOf, tables
    <3>5. QED
      BY <3>1, <3>2, <3>4, MoveMatches DEF locks
  <2>3. QED
    BY <1>4, <2>1, <2>2 DEF BeginConsume, InSnapshot
<1>5. CASE LockToken(r)
  <2>1. CASE Rollback(r, "invalid")
    BY <1>0, <2>1 DEF Reply
  <2>2. CASE /\ tokenLock' = [tokenLock EXCEPT ![token[r]] = r]
             /\ Continue(r, "user") /\ UNCHANGED <<userLock, advisory, request>>
    <3>1. /\ pc[r] = "token" /\ op[r] \in Consumption /\ "user" \in Step /\ Goto(r, "user")
          /\ UNCHANGED <<tables, userLock, op, user, token, others>>
      BY <1>1, <1>5, <2>2 DEF LockToken, Continue, Step, request, ShapeOf, TypeOK, Op, Consumption
    <3>2. \A t \in Token : tokenLock'[t] = IF t = token[r] THEN r ELSE tokenLock[t]
      BY <1>1, <2>2 DEF TypeOK
    <3>3. ASSUME NEW t \in HeldBy(r)'
          PROVE  owner[t] = user[r] /\ purpose[t] = Serving(op[r])
      BY <1>1, <3>1, <3>2, <3>3 DEF HeldBy, FitsOf
    <3>4. FitsOf(r)'
      BY <1>1, <1>2, <3>1, <3>3 DEF FitsOf, tables
    <3>5. QED
      BY <3>1, <3>2, <3>4, MoveMatches
  <2>3. QED
    BY <1>5, <2>1, <2>2 DEF LockToken
<1>6. CASE LockUser(r)
  <2>1. CASE Rollback(r, "invalid")
    BY <1>0, <2>1 DEF Reply
  <2>2. CASE /\ status[user[r]] \in Wanted(r)
             /\ userLock' = [userLock EXCEPT ![user[r]] = r]
             /\ Continue(r, AfterUser[op[r]]) /\ UNCHANGED <<tokenLock, advisory, request>>
    <3>1. /\ pc[r] = "user" /\ op[r] \in {"accept", "confirm", "resend"} /\ user[r] \in User
          /\ userLock[user[r]] = None
      BY <1>1, <1>6 DEF LockUser, ShapeOf, TypeOK, Op
    <3>2. /\ AfterUser[op[r]] \in Step \ {"idle"} /\ Goto(r, AfterUser[op[r]])
          /\ UNCHANGED <<tables, tokenLock, op, user, token, others>>
      BY <2>2, <3>1 DEF AfterUser, Continue, Step, request
    <3>3. /\ userLock'[user[r]] = r
          /\ \A u \in User : userLock[u] \notin {None, r} => userLock'[u] = userLock[u]
      BY <1>1, <2>2, <3>1 DEF TypeOK
    <3>4. op[r] = "accept" => status[user[r]] = "pending"
      BY <2>2 DEF Wanted
    <3>5. HeldBy(r)' = HeldBy(r) /\ pc'[r] # "idle"
      BY <1>2, <3>2 DEF HeldBy
    <3>6. FitsOf(r)'
      BY <1>1, <3>1, <3>2, <3>3, <3>4, <3>5 DEF FitsOf, tables
    <3>7. QED
      BY <3>2, <3>3, <3>6, MoveMatches
  <2>3. QED
    BY <1>6, <2>1, <2>2 DEF LockUser
<1>7. CASE FindInvitations(r)
  <2>1. /\ pc[r] = "find" /\ "others" \in Step /\ Goto(r, "others")
        /\ others' = [others EXCEPT ![r] = Unused(user[r], "invitation")]
        /\ UNCHANGED <<tables, locks, op, user, token>>
        /\ op[r] \in {"resend", "ensure"}
    BY <1>1, <1>7 DEF FindInvitations, Continue, Step, ShapeOf, TypeOK, Op
  <2>2. /\ others'[r] = Unused(user[r], "invitation")
        /\ \A q \in Request \ {r} : others'[q] = others[q]
    BY <1>1, <2>1 DEF TypeOK
  <2>3. ASSUME NEW t \in HeldBy(r)'
        PROVE  owner[t] = user[r] /\ purpose[t] = Serving(op[r])
    BY <1>1, <2>1, <2>2, <2>3 DEF HeldBy, FitsOf, Unused, Serving, locks
  <2>4. FitsOf(r)'
    BY <1>1, <1>2, <2>1, <2>3 DEF FitsOf, Consumption, tables
  <2>5. QED
    BY <2>1, <2>2, <2>4, MoveMatches DEF locks
<1>8. CASE LockOther(r)
  <2>1. PICK t \in others[r] :
           /\ tokenLock' = IF t \in used THEN tokenLock ELSE [tokenLock EXCEPT ![t] = r]
           /\ others' = [others EXCEPT ![r] = @ \ {t}]
    BY <1>8 DEF LockOther
  <2>2. /\ pc[r] = "others" /\ "others" \in Step \ {"idle"} /\ Goto(r, "others")
        /\ UNCHANGED <<tables, userLock, pc, op, user, token>>
    BY <1>1, <1>8 DEF LockOther, Goto, Step, TypeOK
  <2>3. /\ t \in Token /\ others'[r] = others[r] \ {t}
        /\ \A x \in Token : tokenLock'[x] = tokenLock[x] \/ (x = t /\ tokenLock'[x] = r)
        /\ \A q \in Request \ {r} : others'[q] = others[q]
    BY <1>1, <2>1 DEF TypeOK
  <2>4. HeldBy(r)' \subseteq HeldBy(r)
    BY <2>3 DEF HeldBy
  <2>5. FitsOf(r)'
    BY <1>3, <2>2, <2>4
  <2>6. QED
    BY <2>2, <2>3, <2>5, MoveMatches
<1>9. CASE InsertUser(r)
  <2>1. CASE Rollback(r, "conflict")
    BY <1>0, <2>1 DEF Reply
  <2>2. CASE /\ userLock' = [userLock EXCEPT ![user[r]] = r]
             /\ Continue(r, "draw") /\ UNCHANGED <<tokenLock, advisory, request>>
    <3>1. /\ pc[r] = "insert" /\ "draw" \in Step \ {"idle"} /\ Goto(r, "draw") /\ user[r] \in User
          /\ UNCHANGED <<tables, tokenLock, op, user, token, others>>
      BY <1>1, <1>9, <2>2 DEF InsertUser, Continue, Step, request, TypeOK
    <3>2. userLock[user[r]] = None
      BY <1>9 DEF InsertUser
    <3>3. \A u \in User : userLock[u] \notin {None, r} => userLock'[u] = userLock[u]
      BY <1>1, <2>2, <3>1, <3>2 DEF TypeOK
    <3>4. HeldBy(r)' = HeldBy(r)
      BY <3>1 DEF HeldBy
    <3>5. FitsOf(r)'
      BY <1>3, <3>1, <3>4
    <3>6. QED
      BY <3>1, <3>3, <3>5, MoveMatches
  <2>3. QED
    BY <1>9, <2>1, <2>2 DEF InsertUser
<1>10. CASE Decide(r)
  <2>1. CASE Rollback(r, "nothing")
    BY <1>0, <2>1 DEF Reply
  <2>2. CASE /\ Continue(r, IF status[user[r]] = "absent" THEN "insert" ELSE "find")
             /\ UNCHANGED <<userLock, tokenLock, request>>
    <3>1. PICK st \in {"insert", "find"} : Continue(r, st)
      BY <2>2
    <3>2. /\ pc[r] = "decide" /\ st \in Step \ {"idle"} /\ Goto(r, st)
          /\ UNCHANGED <<tables, userLock, tokenLock, op, user, token, others>>
      BY <1>10, <2>2, <3>1 DEF Decide, Continue, Step, request
    <3>3. HeldBy(r)' = HeldBy(r)
      BY <3>2 DEF HeldBy
    <3>4. FitsOf(r)'
      BY <1>3, <3>1, <3>2, <3>3
    <3>5. QED
      BY <3>2, <3>4, MoveMatches
  <2>3. QED
    BY <1>10, <2>1, <2>2 DEF Decide
<1>11. CASE OthersDone(r) \/ DrawToken(r) \/ Publish(r) \/ AnnounceFails(r)
  <2>1. PICK st \in {"commit", "draw", "publish", "withdraw"} :
           /\ Goto(r, st) /\ pc[r] # "idle"
           /\ UNCHANGED <<tables, locks, op, user, others>>
           /\ op[r] \in Consumption => token'[r] = token[r]
           /\ \A q \in Request \ {r} : token'[q] = token[q]
           /\ op[r] = "accept" /\ st \in {"publish", "commit"} => pc[r] = "publish"
    <3>1. CASE OthersDone(r)
      BY <1>1, <3>1 DEF OthersDone, Continue, request, ShapeOf
    <3>2. CASE DrawToken(r)
      BY <1>1, <3>2 DEF DrawToken, ShapeOf, Consumption, TypeOK
    <3>3. CASE Publish(r)
      BY <3>3 DEF Publish, request
    <3>4. CASE AnnounceFails(r)
      BY <3>4 DEF AnnounceFails, request
    <3>5. QED
      BY <1>11, <3>1, <3>2, <3>3, <3>4
  <2>2. st \in Step \ {"idle"} /\ HeldBy(r)' = HeldBy(r) /\ UNCHANGED <<userLock, tokenLock>>
    BY <2>1 DEF Step, HeldBy, locks
  <2>3. FitsOf(r)'
    BY <1>3, <2>1, <2>2
  <2>4. QED
    BY <2>1, <2>2, <2>3, MoveMatches
<1>12. QED
  BY <1>4, <1>5, <1>6, <1>7, <1>8, <1>9, <1>10, <1>11

(* A commit stores for its account what is nobody's.                       *)
LEMMA StoreMatches ==
    ASSUME IInv, Single, Matching, NEW r \in Request, CommitIssue(r) \/ CommitEnsure(r)
    PROVE  Matching'
<1>1. TypeOK /\ FitsOf(r) /\ Blank /\ None \notin User
  BY DEF IInv, Matching, Fitting, TokensAssumption
<1>2. /\ token[r] \in Token /\ user[r] \in User /\ owner[token[r]] = None
      /\ owner'[token[r]] = user[r] /\ op[r] \notin Consumption
      /\ \A t \in Token \ {token[r]} : owner'[t] = owner[t] /\ purpose'[t] = purpose[t]
      /\ used' = used \cup {t \in Token : tokenLock[t] = r}
      /\ \A t \in Token : IF tokenLock[t] = r THEN tokenLock'[t] = None
                          ELSE tokenLock'[t] = tokenLock[t]
  BY StoreFacts
<1>3. Beside(r)
  <2>1. \A u \in User : status[u] = "pending" => status'[u] = "pending"
    BY StoreFacts
  <2>2. /\ \A q \in Request \ {r} : Untouched(q)
        /\ \A u \in User : userLock[u] \notin {None, r} => userLock'[u] = userLock[u]
    BY StoreFacts
  <2>3. QED
    BY <1>2, <2>1, <2>2 DEF Beside
<1>4. ASSUME NEW t \in HeldBy(r)
      PROVE  t \in Token /\ owner[t] # None
  <2>1. t \in Token /\ pc[r] # "idle" /\ owner[t] = user[r]
    BY <1>1, <1>4 DEF FitsOf, HeldBy
  <2>2. QED
    BY <1>1, <1>2, <2>1
<1>5. FitsOf(r)'
  <2>1. CASE CommitIssue(r)
    BY <1>1, <2>1, FinishFits DEF CommitIssue, Reply
  <2>2. CASE CommitEnsure(r)
    <3>1. /\ op[r] = "ensure" /\ op'[r] = "ensure" /\ pc'[r] = "announce" /\ pc[r] = "commit"
          /\ UNCHANGED <<user, token, others>>
      BY <1>1, <2>2 DEF CommitEnsure, Goto, TypeOK, request
    <3>2. HeldBy(r)' \subseteq HeldBy(r)
      BY <1>2, <3>1 DEF HeldBy, TokensAssumption
    <3>3. ASSUME NEW t \in HeldBy(r)'
          PROVE  owner'[t] = user'[r] /\ purpose'[t] = Serving(op'[r])
      <4>1. t \in HeldBy(r) /\ owner[t] = user[r] /\ purpose[t] = Serving(op[r])
        BY <1>1, <3>2, <3>3 DEF FitsOf
      <4>2. t \in Token \ {token[r]}
        BY <1>2, <1>4, <4>1
      <4>3. QED
        BY <1>2, <3>1, <4>1, <4>2
    <3>4. QED
      BY <3>1, <3>3 DEF FitsOf, Consumption
  <2>3. QED
    BY <2>1, <2>2
<1>6. Fitting'
  BY <1>3, <1>5, BesideFits DEF Matching, Fitting
<1>7. Blank'
  <2>1. SUFFICES ASSUME NEW t \in Token, owner'[t] = None
                 PROVE  t \notin used' /\ purpose'[t] = "invitation"
    BY DEF Blank
  <2>2. t # token[r] /\ owner[t] = None
    BY <1>1, <1>2, <2>1
  <2>3. tokenLock[t] # r
    BY <1>4, <2>2 DEF HeldBy
  <2>4. QED
    BY <1>1, <1>2, <2>2, <2>3 DEF Blank
<1>8. QED
  BY <1>6, <1>7 DEF Matching

LEMMA NextMatching == IInv /\ Single /\ Matching /\ [Next]_vars => Matching'
<1>1. SUFFICES ASSUME IInv, Single, Matching, [Next]_vars PROVE Matching'
  OBVIOUS
<1>2. CASE \/ \E r \in Request, t \in Token, o \in {"accept", "confirm"} : Present(r, o, t)
           \/ \E r \in Request, u \in User :
                 Resend(r, u) \/ CreateEmployee(r, u) \/ RequestReset(r, u)
           \/ \E r \in Request, f \in Founder : Ensure(r, f)
  BY <1>1, <1>2, BeginMatches
<1>3. CASE \E r \in Request :
              Proceed(r) \/ PublishFails(r) \/ AnnounceFails(r) \/ LoseRequest(r)
  BY <1>1, <1>3, LockingMatches, StoreMatches, EndMatches DEF Proceed
<1>4. CASE Ambient
  BY <1>1, <1>4, AmbientMatches
<1>5. QED
  BY <1>1, <1>2, <1>3, <1>4 DEF Next, Ambient, Changes

LEMMA MatchingInductive == Spec => []Matching
  BY InitMatching, NextMatching, Inductive, SingleInductive, PTL DEF Spec

-----------------------------------------------------------------------------
(* A step that keeps the invitations, what is unused of them and who is in *)
(* is none of Invitations.                                                 *)
LEMMA SameView ==
    ASSUME Issued' = Issued, Accepted' = Accepted, Member' = Member,
           \A u \in Invitee : /\ Unused(u, "invitation")' = Unused(u, "invitation")
                              /\ latest'[u] = latest[u]
    PROVE  UNCHANGED <<Open, Issued, Accepted, Member>>
<1>1. \A u \in Invitee : OpenOf(u)' = OpenOf(u)
  BY DEF OpenOf
<1>2. Open' = Open
  BY <1>1 DEF Open
<1>3. QED
  BY <1>2

LEMMA TablesView ==
    ASSUME UNCHANGED <<status, owner, purpose, used, history>>
    PROVE  UNCHANGED <<Open, Issued, Accepted, Member>>
<1>1. Issued' = Issued /\ Member' = Member /\ uses' = uses /\ latest' = latest
  BY DEF Issued, Member, history
<1>2. Accepted' = Accepted
  BY <1>1 DEF Accepted
<1>3. \A u \in Invitee : Unused(u, "invitation")' = Unused(u, "invitation")
  BY DEF Unused
<1>4. QED
  BY <1>1, <1>2, <1>3, SameView

(* The invitation of one account changes: to t, or to None.                *)
LEMMA OpenOfOne ==
    ASSUME NEW u \in Invitee, NEW t, OpenOf(u)' = t,
           \A v \in Invitee \ {u} : /\ Unused(v, "invitation")' = Unused(v, "invitation")
                                    /\ latest'[v] = latest[v]
    PROVE  Open' = [Open EXCEPT ![u] = t]
<1>1. \A v \in Invitee \ {u} : OpenOf(v)' = OpenOf(v)
  BY DEF OpenOf
<1>2. QED
  BY <1>1 DEF Open

(* Employees, resends and starts: the token they store is new, and what    *)
(* they hold was their account's.                                          *)
LEMMA StoreInvites ==
    ASSUME IInv, Single, Matching, NEW r \in Request, CommitIssue(r) \/ CommitEnsure(r),
           op[r] \in Inviting
    PROVE  IF Settled(user[r]) THEN Promise!Invite(user[r], token[r])
           ELSE UNCHANGED <<Open, Issued, Accepted, Member>>
<1>0. PICK u \in User, t \in Token : u = user[r] /\ t = token[r]
  BY StoreFacts
<1>1. TypeOK /\ FitsOf(r) /\ Blank /\ Accounted /\ None \notin User
  BY DEF IInv, Matching, Fitting, TokensAssumption
<1>2. /\ owner[t] = None
      /\ owner'[t] = u /\ purpose'[t] = purpose[t]
      /\ \A x \in Token \ {t} : owner'[x] = owner[x] /\ purpose'[x] = purpose[x]
      /\ used' = used \cup {x \in Token : tokenLock[x] = r}
  BY <1>0, StoreFacts DEF Inviting
<1>3. /\ \A v \in User : latest'[v] = IF v = u THEN t ELSE latest[v]
      /\ \A v \in User : status'[v] = IF v = u /\ status[v] = "absent" THEN "pending"
                                      ELSE status[v]
  BY <1>0, StoreFacts DEF Inviting
<1>4. /\ purpose[t] = "invitation" /\ t \notin used /\ uses[t] = 0
      /\ uses' = uses
  BY <1>1, <1>2, StoreFacts DEF Blank, Accounted, Store
<1>5. \A x \in Token : tokenLock[x] = r => owner[x] = u
  BY <1>0, <1>1 DEF FitsOf, HeldBy
<1>6. t \in Unused(u, "invitation")'
  BY <1>1, <1>2, <1>4, <1>5 DEF Unused
<1>7. OpenOf(u)' = t
  BY <1>2, <1>3, <1>6 DEF OpenOf
<1>8. ASSUME NEW v \in User \ {u}
      PROVE  Unused(v, "invitation")' = Unused(v, "invitation")
  BY <1>1, <1>2, <1>5 DEF Unused
<1>9. Member' = Member
  BY <1>3 DEF Member, Invitee
<1>10. t \notin Issued /\ Issued' = IF u \in Invitee THEN Issued \cup {t} ELSE Issued
  BY <1>1, <1>2, <1>4 DEF Issued, Invitee
<1>11. Accepted' = Accepted
  BY <1>4, <1>10 DEF Accepted
<1>12. CASE Settled(u)
  <2>1. u \in Invitee /\ Invitee \subseteq User
    BY <1>12 DEF Invitee
  <2>2. Open' = [Open EXCEPT ![u] = t]
    BY <1>3, <1>7, <1>8, <2>1, OpenOfOne
  <2>3. QED
    BY <1>0, <1>9, <1>10, <1>11, <1>12, <2>1, <2>2 DEF Promise!Invite
<1>13. CASE ~Settled(u)
  <2>1. u \notin Invitee /\ Invitee \subseteq User \ {u}
    BY <1>13 DEF Invitee
  <2>2. QED
    BY <1>0, <1>3, <1>8, <1>9, <1>10, <1>11, <1>13, <2>1, SameView
<1>14. QED
  BY <1>12, <1>13

(* passwordreset.Request stores a reset.                                   *)
LEMMA StoredResetView ==
    ASSUME IInv, Single, Matching, NEW r \in Request, CommitIssue(r) \/ CommitEnsure(r),
           op[r] = "forgot"
    PROVE  UNCHANGED <<Open, Issued, Accepted, Member>>
<1>1. TypeOK /\ FitsOf(r) /\ None \notin User
  BY DEF IInv, Matching, Fitting, TokensAssumption
<1>2. /\ token[r] \in Token /\ owner[token[r]] = None /\ purpose'[token[r]] = "reset"
      /\ \A t \in Token \ {token[r]} : owner'[t] = owner[t] /\ purpose'[t] = purpose[t]
      /\ used' = used \cup {t \in Token : tokenLock[t] = r}
  BY StoreFacts
<1>3. used' = used
  BY <1>1, <1>2 DEF FitsOf, HeldBy, Consumption
<1>4. \A u \in User : latest'[u] = latest[u]
  BY StoreFacts
<1>5. \A u \in User : status'[u] = status[u] \/ (status[u] = "absent" /\ status'[u] = "pending")
  BY StoreFacts
<1>6. Member' = Member
  BY <1>5 DEF Member, Invitee
<1>7. Issued' = Issued /\ Invitee \subseteq User /\ None \notin Invitee
  BY <1>1, <1>2 DEF Issued, Invitee
<1>8. uses' = uses
  BY StoreFacts DEF Store
<1>9. Accepted' = Accepted
  BY <1>7, <1>8 DEF Accepted
<1>10. \A u \in User : Unused(u, "invitation")' = Unused(u, "invitation")
  BY <1>1, <1>2, <1>3 DEF Unused
<1>11. QED
  BY <1>4, <1>6, <1>7, <1>9, <1>10, SameView

(* ConsumeInvitationToken: what is accepted is all that was open, and the  *)
(* account is still pending when its acceptance commits.                   *)
LEMMA AcceptRefines ==
    ASSUME IInv, Single, Matching, NEW r \in Request, CommitConsumption(r),
           op[r] = "accept"
    PROVE  IF Settled(user[r]) THEN Promise!Accept(user[r])
           ELSE UNCHANGED <<Open, Issued, Accepted, Member>>
<1>1. /\ TypeOK /\ FitsOf(r) /\ ConsumesOf(r) /\ ShapeOf(r) /\ OneUnused
      /\ None \notin User /\ None \notin Token /\ pc[r] = "commit"
  BY DEF IInv, Shapes, Consuming, Single, Matching, Fitting, TokensAssumption, Token,
         CommitConsumption
<1>2. PICK u \in User, t \in Token : u = user[r] /\ t = token[r]
  BY <1>1 DEF TypeOK, ShapeOf, Consumption
<1>3. /\ tokenLock[t] = r /\ t \notin used
      /\ owner[t] = u /\ purpose[t] = "invitation"
      /\ status[u] = "pending"
  BY <1>1, <1>2 DEF FitsOf, ConsumesOf, Consumption, Serving
<1>4. /\ used' = used \cup {x \in Token : tokenLock[x] = r}
      /\ UNCHANGED <<owner, purpose, latest>>
      /\ uses' = [uses EXCEPT ![t] = @ + 1]
      /\ \A v \in User : status'[v] = IF v = u THEN "active" ELSE status[v]
  BY <1>1, <1>2 DEF CommitConsumption, TypeOK
<1>5. \A x \in Token : tokenLock[x] = r => owner[x] = u
  BY <1>1, <1>2 DEF FitsOf, HeldBy
<1>6. Issued' = Issued
  BY <1>4 DEF Issued
<1>7. ASSUME NEW v \in User \ {u}
      PROVE  Unused(v, "invitation")' = Unused(v, "invitation")
  BY <1>4, <1>5 DEF Unused
<1>8. CASE Settled(u)
  <2>1. u \in Invitee /\ Invitee \subseteq User
    BY <1>8 DEF Invitee
  <2>2. t \in Unused(u, "invitation")
    BY <1>2, <1>3 DEF Unused
  <2>3. Unused(u, "invitation") \subseteq {t} /\ latest[u] = t
    BY <1>1, <1>2, <1>8, <2>2 DEF OneUnused
  <2>4. Open[u] = t
    BY <2>1, <2>2, <2>3 DEF Open, OpenOf
  <2>5. Unused(u, "invitation")' = {}
    BY <1>2, <1>3, <1>4, <2>3 DEF Unused
  <2>6. OpenOf(u)' = None
    BY <2>5 DEF OpenOf
  <2>7. Open' = [Open EXCEPT ![u] = None]
    BY <1>4, <1>7, <2>1, <2>6, OpenOfOne
  <2>8. t \in Issued
    BY <1>3, <2>1 DEF Issued
  <2>9. \A x \in Token : uses'[x] = IF x = t THEN uses[t] + 1 ELSE uses[x]
    BY <1>1, <1>4 DEF TypeOK
  <2>10. Accepted' = [x \in Token |-> IF x = t THEN Accepted[t] + 1 ELSE Accepted[x]]
    BY <1>6, <2>8, <2>9 DEF Accepted
  <2>11. Accepted' = [Accepted EXCEPT ![Open[u]] = @ + 1]
    BY <2>4, <2>10 DEF Accepted
  <2>12. u \notin Member /\ Member' = Member \cup {u}
    BY <1>2, <1>3, <1>4, <2>1 DEF Member
  <2>13. Open[u] # None
    BY <1>1, <2>4
  <2>14. QED
    BY <1>2, <1>6, <1>8, <2>7, <2>11, <2>12, <2>13 DEF Promise!Accept
<1>9. CASE ~Settled(u)
  <2>1. u \notin Invitee /\ Invitee \subseteq User \ {u}
    BY <1>9 DEF Invitee
  <2>2. Member' = Member
    BY <1>4, <2>1 DEF Member
  <2>3. \A x \in Issued : uses'[x] = uses[x]
    BY <1>1, <1>3, <1>4, <2>1 DEF Issued, TypeOK
  <2>4. Accepted' = Accepted
    BY <1>6, <2>3 DEF Accepted
  <2>5. QED
    BY <1>2, <1>4, <1>6, <1>7, <1>9, <2>1, <2>2, <2>4, SameView
<1>10. QED
  BY <1>8, <1>9

(* ConsumePasswordResetTokenAndRevokeSessions uses up resets alone, and    *)
(* lets nobody in.                                                         *)
LEMMA ConfirmView ==
    ASSUME IInv, Matching, NEW r \in Request, CommitConsumption(r), op[r] = "confirm"
    PROVE  UNCHANGED <<Open, Issued, Accepted, Member>>
<1>1. /\ TypeOK /\ FitsOf(r) /\ ShapeOf(r) /\ user[r] \in User /\ pc[r] = "commit"
  BY DEF IInv, Shapes, Matching, Fitting, CommitConsumption, TypeOK
<1>2. \A t \in Token : tokenLock[t] = r => purpose[t] = "reset"
  BY <1>1 DEF FitsOf, HeldBy, Serving
<1>3. /\ used' = used \cup {t \in Token : tokenLock[t] = r}
      /\ UNCHANGED <<owner, purpose, latest>>
      /\ \A u \in User : status'[u] = status[u] \/ (status[u] = "locked" /\ status'[u] = "active")
  BY <1>1 DEF CommitConsumption, TypeOK
<1>4. Issued' = Issued /\ Member' = Member /\ Invitee \subseteq User
  BY <1>3 DEF Issued, Member, Invitee
<1>5. \A u \in User : Unused(u, "invitation")' = Unused(u, "invitation")
  BY <1>2, <1>3 DEF Unused
<1>6. token[r] \notin Issued
  BY <1>1 DEF FitsOf, Serving, Issued, Consumption
<1>7. \A t \in Issued : uses'[t] = uses[t]
  BY <1>1, <1>6 DEF CommitConsumption, TypeOK, Issued
<1>8. Accepted' = Accepted
  BY <1>4, <1>7 DEF Accepted
<1>9. QED
  BY <1>3, <1>4, <1>5, <1>8, SameView

(* A start whose mail did not leave: nothing was open, or it is withdrawn. *)
LEMMA WithdrawRefines ==
    ASSUME IInv, NEW r \in Request, Withdraw(r)
    PROVE  \/ Settled(user[r]) /\ Promise!Withdraw(user[r])
           \/ UNCHANGED <<Open, Issued, Accepted, Member>>
<1>1. PICK u \in User : u = user[r]
  BY DEF IInv, TypeOK, Withdraw
<1>2. /\ used' = used \cup Unused(u, "invitation")
      /\ UNCHANGED <<status, owner, purpose, uses, latest>>
  BY <1>1 DEF Withdraw, history
<1>3. Issued' = Issued /\ Member' = Member
  BY <1>2 DEF Issued, Member
<1>4. Accepted' = Accepted
  BY <1>2, <1>3 DEF Accepted
<1>5. ASSUME NEW v \in User \ {u}
      PROVE  Unused(v, "invitation")' = Unused(v, "invitation")
  BY <1>2 DEF Unused
<1>6. CASE Settled(u)
  <2>1. u \in Invitee /\ Invitee \subseteq User
    BY <1>6 DEF Invitee
  <2>2. Unused(u, "invitation")' = {}
    BY <1>2 DEF Unused
  <2>3. OpenOf(u)' = None
    BY <2>2 DEF OpenOf
  <2>4. Open' = [Open EXCEPT ![u] = None]
    BY <1>2, <1>5, <2>1, <2>3, OpenOfOne
  <2>5. CASE OpenOf(u) = None
    <3>1. Open[u] = None /\ Open \in [Invitee -> {Open[v] : v \in Invitee}]
      BY <2>1, <2>5 DEF Open
    <3>2. QED
      BY <1>3, <1>4, <2>1, <2>4, <3>1
  <2>6. CASE OpenOf(u) # None
    BY <1>1, <1>3, <1>4, <1>6, <2>1, <2>4, <2>6 DEF Open, Promise!Withdraw
  <2>7. QED
    BY <2>5, <2>6
<1>7. CASE ~Settled(u)
  <2>1. Invitee \subseteq User \ {u}
    BY <1>7 DEF Invitee
  <2>2. QED
    BY <1>2, <1>3, <1>4, <1>5, <2>1, SameView
<1>8. QED
  BY <1>6, <1>7

(* Failed logins and administrators touch no invitation.                   *)
LEMMA ChangeOverrides ==
    ASSUME IInv, NEW u \in User, Changes(u)
    PROVE  \/ Settled(u) /\ Promise!Override(u)
           \/ UNCHANGED <<Open, Issued, Accepted, Member>>
<1>1. TypeOK
  BY DEF IInv
<1>2. /\ UNCHANGED <<owner, purpose, used, history>>
      /\ \A v \in User \ {u} : status'[v] = status[v]
  BY <1>1, ChangeFacts
<1>3. Issued' = Issued /\ uses' = uses /\ latest' = latest
  BY <1>2 DEF Issued, history
<1>4. Accepted' = Accepted
  BY <1>3 DEF Accepted
<1>5. \A v \in User : Unused(v, "invitation")' = Unused(v, "invitation")
  BY <1>2 DEF Unused
<1>6. Open' = Open
  <2>1. \A v \in Invitee : OpenOf(v)' = OpenOf(v)
    BY <1>3, <1>5 DEF OpenOf, Invitee
  <2>2. QED
    BY <2>1 DEF Open
<1>7. Member' \ {u} = Member \ {u}
  BY <1>2 DEF Member, Invitee
<1>8. u \in Member' \cup Member => Settled(u)
  BY DEF Member, Invitee
<1>9. CASE Member' = Member
  BY <1>3, <1>4, <1>6, <1>9
<1>10. CASE Member' # Member
  <2>1. Settled(u) /\ Member' = IF u \in Member THEN Member \ {u} ELSE Member \cup {u}
    BY <1>7, <1>8, <1>10
  <2>2. QED
    BY <1>3, <1>4, <1>6, <2>1 DEF Promise!Override
<1>11. QED
  BY <1>9, <1>10

LEMMA NextInvites ==
    ASSUME IInv, Single, Matching, [Next]_vars
    PROVE  [Promise!Next]_<<Open, Issued, Accepted, Member>>
<1>0. \A u \in User : Settled(u) => u \in Invitee
  BY DEF Invitee
<1>1. ASSUME NEW r \in Request, CommitIssue(r) \/ CommitEnsure(r)
      PROVE  [Promise!Next]_<<Open, Issued, Accepted, Member>>
  <2>1. op[r] \in Inviting \cup {"forgot"} /\ user[r] \in User /\ token[r] \in Token
    BY <1>1, StoreFacts
  <2>2. CASE op[r] \in Inviting
    BY <1>0, <1>1, <2>1, <2>2, StoreInvites DEF Promise!Next
  <2>3. CASE op[r] = "forgot"
    BY <1>1, <2>3, StoredResetView
  <2>4. QED
    BY <2>1, <2>2, <2>3
<1>2. ASSUME NEW r \in Request, CommitConsumption(r)
      PROVE  [Promise!Next]_<<Open, Issued, Accepted, Member>>
  <2>1. op[r] \in {"accept", "confirm"} /\ user[r] \in User
    BY <1>2 DEF CommitConsumption, IInv, TypeOK
  <2>2. CASE op[r] = "accept"
    BY <1>0, <1>2, <2>1, <2>2, AcceptRefines DEF Promise!Next
  <2>3. CASE op[r] = "confirm"
    BY <1>2, <2>3, ConfirmView
  <2>4. QED
    BY <2>1, <2>2, <2>3
<1>3. ASSUME NEW r \in Request, Withdraw(r)
      PROVE  [Promise!Next]_<<Open, Issued, Accepted, Member>>
  <2>1. user[r] \in User
    BY <1>3 DEF IInv, TypeOK, Withdraw
  <2>2. QED
    BY <1>0, <1>3, <2>1, WithdrawRefines DEF Promise!Next
<1>4. ASSUME NEW u \in User, Changes(u)
      PROVE  [Promise!Next]_<<Open, Issued, Accepted, Member>>
  BY <1>0, <1>4, ChangeOverrides DEF Promise!Next
<1>5. ASSUME \/ \E r \in Request, t \in Token, o \in {"accept", "confirm"} : Present(r, o, t)
             \/ \E r \in Request, u \in User :
                   Resend(r, u) \/ CreateEmployee(r, u) \/ RequestReset(r, u)
             \/ \E r \in Request, f \in Founder : Ensure(r, f)
             \/ \E t \in Token : Expire(t)
             \/ UNCHANGED vars
      PROVE  UNCHANGED <<Open, Issued, Accepted, Member>>
  <2>1. UNCHANGED <<status, owner, purpose, used, history>>
    BY <1>5 DEF Present, Resend, CreateEmployee, RequestReset, Ensure, Begin, Expire, vars,
                tables
  <2>2. QED
    BY <2>1, TablesView
<1>6. ASSUME NEW r \in Request, Proceed(r) \/ PublishFails(r) \/ AnnounceFails(r) \/ LoseRequest(r),
             ~CommitIssue(r), ~CommitEnsure(r), ~CommitConsumption(r), ~Withdraw(r)
      PROVE  UNCHANGED <<Open, Issued, Accepted, Member>>
  <2>1. UNCHANGED <<status, owner, purpose, used, history>>
    BY <1>6 DEF Proceed, BeginConsume, InSnapshot, LockToken, LockUser, FindInvitations, LockOther,
                OthersDone, InsertUser, DrawToken, Publish, Decide, Announce, BreakDeadlock,
                PublishFails, AnnounceFails, LoseRequest, Rollback, Continue, tables
  <2>2. QED
    BY <2>1, TablesView
<1>7. QED
  BY <1>1, <1>2, <1>3, <1>4, <1>5, <1>6 DEF Next, Changes

(* Domain invariant 7 and RF-001 together: the tables, row locks and       *)
(* snapshots of users.sql and bootstrap.go implement Invitations, whatever *)
(* overlaps and whatever status administrators set meanwhile.  Of an       *)
(* administrator that is not settled nothing is said.                      *)
THEOREM InvitationsKept == Spec => ImplementsInvitations
<1>1. Init => Promise!Init
  <2>1. SUFFICES ASSUME Init PROVE Promise!Init
    OBVIOUS
  <2>2. /\ owner = [t \in Token |-> None] /\ latest = [u \in User |-> None]
        /\ None \notin Invitee /\ Invitee \subseteq User
    BY <2>1 DEF Init, TokensAssumption, Invitee
  <2>3. \A u \in Invitee : OpenOf(u) = None
    BY <2>2 DEF OpenOf
  <2>4. Open = [u \in Invitee |-> None] /\ Issued = {} /\ Member \in SUBSET Invitee
    BY <2>2, <2>3 DEF Open, Issued, Member
  <2>5. Accepted = [t \in Token |-> 0]
    BY <2>4 DEF Accepted
  <2>6. QED
    BY <2>4, <2>5 DEF Promise!Init
<1>2. IInv /\ Single /\ Matching /\ [Next]_vars => [Promise!Next]_(Promise!avars)
  BY NextInvites DEF Promise!avars
<1>3. QED
  BY <1>1, <1>2, Inductive, SingleInductive, MatchingInductive, PTL
     DEF Spec, ImplementsInvitations, Promise!Spec
=============================================================================
