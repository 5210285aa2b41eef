---------------------------- MODULE Lockout_proofs ----------------------------
(***************************************************************************)
(* Proofs about Lockout for any accounts, addresses, requests and limits.  *)
(***************************************************************************)
EXTENDS Lockout, FiniteSetTheorems, SequenceTheorems, TLAPS

(* No clock runs ahead, and an attempt reads its time after it began.      *)
Clocks ==
    \A r \in Request :
        /\ begun[r] <= clock /\ now[r] <= clock
        /\ pc[r] = "lock" /\ kind[r] = "password" => begun[r] <= now[r]
        /\ pc[r] \in {"held", "counted"} /\ kind[r] # "reset" => begun[r] <= now[r]

(* From its lock to its commit an attempt holds the row of its account.    *)
HoldsRow ==
    \A r \in Request :
        /\ pc[r] \in {"held", "counted"} => userLock[user[r]] = r
        /\ pc[r] = "counted" => kind[r] # "reset"

(* The committed failures that an attempt counts, and whether it counts    *)
(* its own.                                                                *)
Seen(r) ==
    {k \in DOMAIN failures :
        /\ failures[k].user = user[r]
        /\ InWindow(failures[k].at, now[r])
        /\ resetAt[user[r]] # None => failures[k].at > resetAt[user[r]]}

CountsOwn(r) ==
    /\ InWindow(begun[r], now[r])
    /\ resetAt[user[r]] # None => begun[r] > resetAt[user[r]]

(* What an attempt counted it could count again: nobody else fails, resets *)
(* or changes the account meanwhile.                                       *)
CountHolds ==
    \A r \in Request : pc[r] = "counted" =>
        IF Active(r)
        THEN Cardinality(Seen(r)) + (IF CountsOwn(r) THEN 1 ELSE 0) <= counted[r]
        ELSE counted[r] = 0 /\ status[user[r]] # "locked"

(* When a lock ends by itself the failures that led to it have left the    *)
(* window, up to those that arrived while the attempt that locked waited.  *)
RecentAt(u, end) == {k \in Recent(u) : failures[k].at + FailureWindow > end}

LockCovers ==
    \A u \in User : lockedUntil[u] # None =>
        Cardinality(RecentAt(u, lockedUntil[u])) < AccountMaxFailures

(* Passwords that passed the limit of an address and may still fail.       *)
Admitted(i) ==
    {r \in Request : kind[r] = "password" /\ ip[r] = i /\ pc[r] \in {"lock", "held", "counted"}}

Admission ==
    \A i \in IP :
        Cardinality(RejectedPasswords(i)) + Cardinality(Admitted(i))
            < IPMaxFailures + Cardinality(Request)

(* Locks whose notice is still to be published.                            *)
Announcing(u) == {r \in Request : pc[r] = "notify" /\ user[r] = u}

Announced == \A u \in User : notices[u] + Cardinality(Announcing(u)) <= locks[u]

Control == TypeOK /\ Clocks /\ HoldsRow

USE LockoutAssumption

-----------------------------------------------------------------------------
(***************************************************************************)
(* Types, clocks and locks.                                                *)
(***************************************************************************)
LEMMA InitControl == Init => Control
  BY DEF Init, Control, TypeOK, Clocks, HoldsRow, Time, Status, Kind, Step, Reply

(* The end of an attempt frees its row and forgets what it worked on.      *)
LEMMA FinishEffect ==
    ASSUME TypeOK, NEW r \in Request, NEW a \in Reply, Finish(r, a)
    PROVE  /\ userLock' \in [User -> Request \cup {None}]
           /\ pc' \in [Request -> Step] /\ kind' \in [Request -> Kind]
           /\ user' \in [Request -> User \cup {None}] /\ ip' \in [Request -> IP \cup {None}]
           /\ right' \in [Request -> BOOLEAN]
           /\ begun' \in [Request -> Time] /\ now' \in [Request -> Time]
           /\ counted' \in [Request -> Nat] /\ reply' \in [Request -> Reply]
           /\ pc'[r] = "idle" /\ begun'[r] = 0 /\ now'[r] = 0
           /\ \A q \in Request \ {r} :
                 /\ pc'[q] = pc[q] /\ kind'[q] = kind[q] /\ user'[q] = user[q]
                 /\ ip'[q] = ip[q] /\ begun'[q] = begun[q] /\ now'[q] = now[q]
                 /\ counted'[q] = counted[q]
           /\ \A u \in User : userLock[u] # r => userLock'[u] = userLock[u]
<1>1. 0 \in Time
  BY DEF Time
<1>2. userLock' \in [User -> Request \cup {None}]
  BY DEF Finish, Release, TypeOK
<1>3. \A u \in User : userLock[u] # r => userLock'[u] = userLock[u]
  BY DEF Finish, Release
<1>4. /\ pc' \in [Request -> Step] /\ kind' \in [Request -> Kind]
      /\ user' \in [Request -> User \cup {None}] /\ ip' \in [Request -> IP \cup {None}]
      /\ right' \in [Request -> BOOLEAN]
      /\ begun' \in [Request -> Time] /\ now' \in [Request -> Time]
      /\ counted' \in [Request -> Nat] /\ reply' \in [Request -> Reply]
  BY <1>1 DEF Finish, Goto, TypeOK, Step, Kind
<1>5. pc'[r] = "idle" /\ begun'[r] = 0 /\ now'[r] = 0
  BY DEF Finish, Goto, TypeOK
<1>6. \A q \in Request \ {r} :
         /\ pc'[q] = pc[q] /\ kind'[q] = kind[q] /\ user'[q] = user[q]
         /\ ip'[q] = ip[q] /\ begun'[q] = begun[q] /\ now'[q] = now[q]
         /\ counted'[q] = counted[q]
  BY DEF Finish, Goto, TypeOK
<1>7. QED
  BY <1>2, <1>3, <1>4, <1>5, <1>6

(* An end that keeps the tables well formed keeps the control state.       *)
LEMMA EndControl ==
    ASSUME Control, NEW r \in Request, NEW a \in Reply, Finish(r, a), clock' = clock,
           status' \in [User -> Status], lockedUntil' \in [User -> Nat \cup {None}],
           \A u \in User : lockedUntil'[u] # None => status'[u] = "locked",
           failures' \in Seq(Failure), resetAt' \in [User -> Time \cup {None}],
           locks' \in [User -> Nat], notices' \in [User -> Nat],
           forgiven' \in [User -> Nat]
    PROVE  Control'
<1>1. TypeOK /\ Clocks /\ HoldsRow
  BY DEF Control
<1>2. TypeOK'
  <2>1. \A q \in Request : pc'[q] \in {"held", "counted", "notify"} => user'[q] # None
    BY <1>1, FinishEffect DEF TypeOK
  <2>2. clock' \in Time
    BY <1>1 DEF TypeOK
  <2>3. QED
    BY <1>1, <2>1, <2>2, FinishEffect DEF TypeOK
<1>3. Clocks'
  <2>1. 0 <= clock'
    BY <1>1 DEF TypeOK, Time
  <2>2. /\ pc'[r] = "idle" /\ begun'[r] = 0 /\ now'[r] = 0
        /\ \A q \in Request \ {r} :
              /\ pc'[q] = pc[q] /\ kind'[q] = kind[q]
              /\ begun'[q] = begun[q] /\ now'[q] = now[q]
    BY <1>1, FinishEffect
  <2>3. QED
    BY <1>1, <2>1, <2>2 DEF Clocks
<1>4. HoldsRow'
  <2>1. SUFFICES ASSUME NEW q \in Request, q # r
                 PROVE  /\ pc'[q] \in {"held", "counted"} => userLock'[user'[q]] = q
                        /\ pc'[q] = "counted" => kind'[q] # "reset"
    BY <1>1, FinishEffect DEF HoldsRow
  <2>2. pc[q] \in {"held", "counted"} => user[q] \in User
    BY <1>1 DEF TypeOK
  <2>3. /\ pc'[q] = pc[q] /\ kind'[q] = kind[q] /\ user'[q] = user[q]
        /\ \A u \in User : userLock[u] # r => userLock'[u] = userLock[u]
    BY <1>1, <2>1, FinishEffect
  <2>4. QED
    BY <1>1, <2>1, <2>2, <2>3 DEF HoldsRow
<1>5. QED
  BY <1>2, <1>3, <1>4 DEF Control

LEMMA RollbackControl ==
    ASSUME Control, NEW r \in Request, NEW a \in Reply, Rollback(r, a)
    PROVE  Control'
<1>1. /\ Finish(r, a) /\ UNCHANGED <<clock, status, lockedUntil, failures, resetAt,
                                     locks, notices, forgiven>>
  BY DEF Rollback, tables, history
<1>2. TypeOK
  BY DEF Control
<1>3. QED
  BY <1>1, <1>2, EndControl DEF TypeOK

(* What an attempt records is a failure.                                   *)
LEMMA RecordEffect ==
    ASSUME TypeOK, NEW r \in Request
    PROVE  /\ RecordedFailures(r) \in Seq(Failure)
           /\ Len(RecordedFailures(r)) = Len(failures) + 1
           /\ DOMAIN RecordedFailures(r) = DOMAIN failures \cup {Len(failures) + 1}
           /\ \A k \in DOMAIN failures : RecordedFailures(r)[k] = failures[k]
           /\ RecordedFailures(r)[Len(failures) + 1] =
                 [kind |-> kind[r], user |-> user[r], ip |-> ip[r], at |-> begun[r]]
<1>1. [kind |-> kind[r], user |-> user[r], ip |-> ip[r], at |-> begun[r]] \in Failure
  BY DEF TypeOK, Failure
<1>2. failures \in Seq(Failure)
  BY DEF TypeOK
<1>3. QED
  BY <1>1, <1>2 DEF RecordedFailures

(* One attempt moves within its transaction.                               *)
LEMMA BeginControl ==
    ASSUME Control, NEW r \in Request, NEW k \in Kind, NEW u \in User \cup {None},
           NEW i \in IP \cup {None}, NEW ok \in BOOLEAN, Begin(r, k, u, i, ok)
    PROVE  Control'
<1>1. TypeOK /\ Clocks /\ HoldsRow
  BY DEF Control
<1>2. /\ pc'[r] = IF k = "password" THEN "count" ELSE "lock"
      /\ kind'[r] = k /\ begun'[r] = clock
      /\ \A q \in Request \ {r} : pc'[q] = pc[q] /\ kind'[q] = kind[q] /\ user'[q] = user[q]
                                  /\ begun'[q] = begun[q]
      /\ UNCHANGED <<clock, tables, userLock, now, counted, history>>
  BY <1>1 DEF Begin, Goto, TypeOK
<1>3. TypeOK'
  BY <1>1, <1>2 DEF Begin, Goto, TypeOK, tables, history, Step, Reply
<1>4. Clocks'
  <2>1. clock <= clock
    BY <1>1 DEF TypeOK, Time
  <2>2. QED
    BY <1>1, <1>2, <2>1 DEF Clocks
<1>5. HoldsRow'
  BY <1>1, <1>2 DEF HoldsRow
<1>6. QED
  BY <1>3, <1>4, <1>5 DEF Control

LEMMA MoveControl ==
    ASSUME Control, NEW r \in Request,
           \/ CountIP(r) /\ pc'[r] = "lock"
           \/ LockUser(r) \/ Evaluate(r) \/ FailAndLock(r)
    PROVE  Control'
<1>0. clock \in Nat
  BY DEF Control, TypeOK, Time
<1>1. TypeOK /\ Clocks /\ HoldsRow /\ clock \in Nat
  BY <1>0 DEF Control
<1>2. CASE CountIP(r) /\ pc'[r] = "lock"
  <2>1. CASE Rollback(r, "limited")
    BY <1>1, <1>2, <2>1, RollbackControl DEF Reply
  <2>2. CASE /\ now' = [now EXCEPT ![r] = clock] /\ Goto(r, "lock")
             /\ UNCHANGED <<clock, tables, userLock, kind, user, ip, right, begun,
                            counted, reply, history>>
    <3>1. TypeOK'
      BY <1>1, <2>2 DEF Goto, TypeOK, tables, history, Step
    <3>2. /\ now'[r] = clock /\ pc'[r] = "lock"
          /\ \A q \in Request \ {r} : now'[q] = now[q] /\ pc'[q] = pc[q]
      BY <1>1, <2>2 DEF Goto, TypeOK
    <3>3. Clocks' /\ HoldsRow'
      BY <1>1, <2>2, <3>2 DEF Clocks, HoldsRow
    <3>4. QED
      BY <3>1, <3>3 DEF Control
  <2>3. QED
    BY <1>2, <2>1, <2>2 DEF CountIP
<1>3. CASE LockUser(r)
  <2>1. /\ user[r] \in User /\ userLock[user[r]] = None
        /\ now'[r] = (IF kind[r] = "code" THEN clock ELSE now[r])
        /\ pc[r] = "lock" /\ pc'[r] = "held" /\ userLock'[user[r]] = r
        /\ \A q \in Request \ {r} : now'[q] = now[q] /\ pc'[q] = pc[q]
        /\ \A u \in User \ {user[r]} : userLock'[u] = userLock[u]
        /\ UNCHANGED <<clock, tables, kind, user, ip, right, begun, counted, reply, history>>
    BY <1>1, <1>3 DEF LockUser, Goto, TypeOK
  <2>2. TypeOK'
    BY <1>1, <1>3, <2>1 DEF LockUser, Goto, TypeOK, tables, history, Step
  <2>3. Clocks'
    <3>1. kind[r] \in {"password", "code", "reset"}
      BY <1>1 DEF TypeOK, Kind
    <3>2. QED
      BY <1>1, <2>1, <3>1 DEF Clocks
  <2>4. HoldsRow'
    <3>1. \A q \in Request \ {r} : pc[q] \in {"held", "counted"} =>
             user[q] \in User /\ userLock[user[q]] = q /\ user[q] # user[r]
      BY <1>1, <2>1 DEF HoldsRow, TypeOK
    <3>2. QED
      BY <1>1, <2>1, <3>1 DEF HoldsRow
  <2>5. QED
    BY <2>2, <2>3, <2>4 DEF Control
<1>4. CASE Evaluate(r)
  <2>1. /\ pc[r] = "held" /\ pc'[r] = "counted" /\ kind[r] # "reset"
        /\ \A q \in Request \ {r} : pc'[q] = pc[q]
        /\ UNCHANGED <<clock, tables, userLock, kind, user, ip, right, begun, now, reply, history>>
    BY <1>1, <1>4 DEF Evaluate, Goto, TypeOK
  <2>2. counted' \in [Request -> Nat]
    <3>1. AccountFailures(RecordedFailures(r), user[r], now[r]) \in Nat
      <4>1. RecordedFailures(r) \in Seq(Failure)
        BY <1>1, RecordEffect
      <4>2. IsFiniteSet(DOMAIN RecordedFailures(r))
        <5>1. Len(RecordedFailures(r)) \in Int
          BY <4>1
        <5>2. DOMAIN RecordedFailures(r) = 1..Len(RecordedFailures(r))
          BY <4>1
        <5>3. IsFiniteSet(1..Len(RecordedFailures(r)))
          BY <5>1, FS_Interval
        <5>4. QED
          BY <5>2, <5>3
      <4>3. QED
        BY <4>2, FS_Subset, FS_CardinalityType DEF AccountFailures
    <3>2. QED
      BY <1>1, <1>4, <3>1 DEF Evaluate, TypeOK
  <2>3. TypeOK'
    BY <1>1, <1>4, <2>1, <2>2 DEF Evaluate, Goto, TypeOK, tables, history, Step
  <2>4. Clocks' /\ HoldsRow'
    BY <1>1, <2>1 DEF Clocks, HoldsRow
  <2>5. QED
    BY <2>3, <2>4 DEF Control
<1>5. CASE FailAndLock(r)
  <2>1. /\ pc[r] = "counted" /\ pc'[r] = "notify" /\ user[r] \in User
        /\ \A q \in Request \ {r} : pc'[q] = pc[q]
        /\ \A u \in User : userLock[u] # r => userLock'[u] = userLock[u]
        /\ UNCHANGED <<clock, resetAt, kind, user, ip, right, begun, now, counted, reply,
                       notices, forgiven>>
    BY <1>1, <1>5 DEF FailAndLock, Goto, Release, TypeOK, request
  <2>2. failures' \in Seq(Failure)
    BY <1>1, <1>5, RecordEffect DEF FailAndLock
  <2>3. now[r] + LockoutDuration \in Nat
    BY <1>1 DEF TypeOK, Time
  <2>4. /\ status' \in [User -> Status] /\ lockedUntil' \in [User -> Nat \cup {None}]
        /\ \A u \in User : lockedUntil'[u] # None => status'[u] = "locked"
        /\ locks' \in [User -> Nat] /\ userLock' \in [User -> Request \cup {None}]
        /\ pc' \in [Request -> Step]
    BY <1>1, <1>5, <2>1, <2>3 DEF FailAndLock, Goto, Release, TypeOK, Status, Step
  <2>5. TypeOK'
    BY <1>1, <2>1, <2>2, <2>4 DEF TypeOK
  <2>6. Clocks'
    BY <1>1, <2>1 DEF Clocks
  <2>7. HoldsRow'
    <3>1. \A q \in Request \ {r} : pc[q] \in {"held", "counted"} =>
             user[q] \in User /\ userLock[user[q]] = q
      BY <1>1 DEF HoldsRow, TypeOK
    <3>2. QED
      BY <1>1, <2>1, <3>1 DEF HoldsRow
  <2>8. QED
    BY <2>5, <2>6, <2>7 DEF Control
<1>6. QED
  BY <1>2, <1>3, <1>4, <1>5

(* One attempt ends.                                                       *)
LEMMA EndingControl ==
    ASSUME Control, NEW r \in Request,
           \/ CountIP(r) /\ Rollback(r, "limited")
           \/ RejectUnknownUser(r) \/ RefuseLocked(r) \/ Accept(r) \/ Fail(r)
           \/ PublishLockEvent(r) \/ CompleteReset(r) \/ LoseRequest(r)
    PROVE  Control'
<1>1. TypeOK /\ Clocks /\ HoldsRow /\ clock \in Nat
  BY DEF Control, TypeOK, Time
<1>2. CASE \E a \in Reply : Rollback(r, a)
  BY <1>2, RollbackControl
<1>3. CASE RejectUnknownUser(r)
  <2>1. failures' \in Seq(Failure)
    BY <1>1, <1>3, RecordEffect DEF RejectUnknownUser
  <2>2. Finish(r, "invalid") /\ "invalid" \in Reply
        /\ UNCHANGED <<clock, status, lockedUntil, resetAt, locks, notices, forgiven>>
    BY <1>3 DEF RejectUnknownUser, Reply, history
  <2>3. QED
    BY <1>1, <2>1, <2>2, EndControl DEF TypeOK
<1>4. CASE Accept(r)
  <2>1. Finish(r, "ok") /\ "ok" \in Reply
        /\ UNCHANGED <<clock, failures, resetAt, locks, notices, forgiven>>
    BY <1>4 DEF Accept, Reply, history
  <2>2. /\ status' \in [User -> Status] /\ lockedUntil' \in [User -> Nat \cup {None}]
        /\ \A u \in User : lockedUntil'[u] # None => status'[u] = "locked"
    BY <1>1, <1>4 DEF Accept, TypeOK, Status
  <2>3. QED
    BY <1>1, <2>1, <2>2, EndControl DEF TypeOK
<1>5. CASE Fail(r)
  <2>1. Finish(r, "invalid") /\ "invalid" \in Reply
        /\ UNCHANGED <<clock, resetAt, locks, notices, forgiven>>
    BY <1>5 DEF Fail, Reply, history
  <2>2. failures' \in Seq(Failure)
    BY <1>1, <1>5, RecordEffect DEF Fail
  <2>3. /\ status' \in [User -> Status] /\ lockedUntil' \in [User -> Nat \cup {None}]
        /\ \A u \in User : lockedUntil'[u] # None => status'[u] = "locked"
    BY <1>1, <1>5 DEF Fail, TypeOK, Status
  <2>4. QED
    BY <1>1, <2>1, <2>2, <2>3, EndControl DEF TypeOK
<1>6. CASE PublishLockEvent(r)
  <2>1. Finish(r, "invalid") /\ "invalid" \in Reply
        /\ UNCHANGED <<clock, status, lockedUntil, failures, resetAt, locks, forgiven>>
    BY <1>6 DEF PublishLockEvent, Reply, tables
  <2>2. notices' \in [User -> Nat]
    BY <1>1, <1>6 DEF PublishLockEvent, TypeOK
  <2>3. QED
    BY <1>1, <2>1, <2>2, EndControl DEF TypeOK
<1>7. CASE CompleteReset(r)
  <2>1. Finish(r, "ok") /\ "ok" \in Reply
        /\ UNCHANGED <<clock, failures, locks, notices>>
    BY <1>7 DEF CompleteReset, Reply
  <2>2. /\ status' \in [User -> Status] /\ lockedUntil' \in [User -> Nat \cup {None}]
        /\ \A u \in User : lockedUntil'[u] # None => status'[u] = "locked"
        /\ resetAt' \in [User -> Time \cup {None}]
    BY <1>1, <1>7 DEF CompleteReset, TypeOK, Status
  <2>3. forgiven' \in [User -> Nat]
    BY <1>1, <1>7 DEF CompleteReset, TypeOK
  <2>4. QED
    BY <1>1, <2>1, <2>2, <2>3, EndControl DEF TypeOK
<1>8. QED
  BY <1>2, <1>3, <1>4, <1>5, <1>6, <1>7
     DEF RefuseLocked, LoseRequest, Reply

LEMMA AmbientControl ==
    ASSUME Control, Tick \/ (\E u \in User, s \in Status : SetStatus(u, s)) \/ UNCHANGED vars
    PROVE  Control'
<1>1. TypeOK /\ Clocks /\ HoldsRow
  BY DEF Control
<1>2. CASE Tick
  <2>1. clock' = clock + 1 /\ clock' \in Time /\ clock \in Nat
    BY <1>1, <1>2 DEF Tick, TypeOK, Time
  <2>2. UNCHANGED <<status, lockedUntil, failures, resetAt, userLock, pc, kind, user, ip,
                    right, begun, now, counted, reply, locks, notices, forgiven>>
    BY <1>2 DEF Tick, tables, request, history
  <2>3. TypeOK' /\ HoldsRow'
    BY <1>1, <2>1, <2>2 DEF TypeOK, HoldsRow
  <2>4. Clocks'
    <3>1. \A r \in Request : begun[r] \in Nat /\ now[r] \in Nat
      BY <1>1 DEF TypeOK, Time
    <3>2. QED
      BY <1>1, <2>1, <2>2, <3>1 DEF Clocks
  <2>5. QED
    BY <2>3, <2>4 DEF Control
<1>3. ASSUME NEW u \in User, NEW s \in Status, SetStatus(u, s) PROVE Control'
  <2>1. UNCHANGED <<clock, failures, resetAt, userLock, pc, kind, user, ip, right, begun,
                    now, counted, reply, locks, notices>>
    BY <1>3 DEF SetStatus, request
  <2>2. /\ status' \in [User -> Status] /\ lockedUntil' \in [User -> Nat \cup {None}]
        /\ \A v \in User : lockedUntil'[v] # None => status'[v] = "locked"
    BY <1>1, <1>3 DEF SetStatus, TypeOK
  <2>3. forgiven' \in [User -> Nat]
    BY <1>1, <1>3 DEF SetStatus, TypeOK
  <2>4. TypeOK' /\ HoldsRow' /\ Clocks'
    BY <1>1, <2>1, <2>2, <2>3 DEF TypeOK, HoldsRow, Clocks
  <2>5. QED
    BY <2>4 DEF Control
<1>4. CASE UNCHANGED vars
  BY <1>1, <1>4 DEF vars, tables, request, history, Control, TypeOK, Clocks, HoldsRow
<1>5. QED
  BY <1>2, <1>3, <1>4

LEMMA NextControl == Control /\ [Next]_vars => Control'
<1>1. SUFFICES ASSUME Control, [Next]_vars PROVE Control'
  OBVIOUS
<1>2. ASSUME NEW r \in Request, CountIP(r) PROVE Control'
  <2>1. CASE Rollback(r, "limited")
    BY <1>1, <1>2, <2>1, EndingControl
  <2>2. CASE Goto(r, "lock")
    <3>1. pc'[r] = "lock"
      BY <1>1, <2>2 DEF Goto, Control, TypeOK
    <3>2. QED
      BY <1>1, <1>2, <3>1, MoveControl
  <2>3. QED
    BY <1>2, <2>1, <2>2 DEF CountIP
<1>3. ASSUME NEW r \in Request, Proceed(r) \/ LoseRequest(r) PROVE Control'
  BY <1>1, <1>2, <1>3, MoveControl, EndingControl DEF Proceed
<1>4. QED
  BY <1>1, <1>3, BeginControl, AmbientControl DEF Next

-----------------------------------------------------------------------------
(***************************************************************************)
(* Whom a step touches.                                                    *)
(***************************************************************************)
(* A step of one request leaves the others where they are.                 *)
LEMMA OthersUntouched ==
    ASSUME TypeOK, NEW r \in Request,
           \/ Proceed(r) \/ LoseRequest(r)
           \/ \E k \in Kind, u \in User \cup {None}, i \in IP \cup {None}, ok \in BOOLEAN :
                 Begin(r, k, u, i, ok)
    PROVE  \A q \in Request \ {r} :
              /\ pc'[q] = pc[q] /\ kind'[q] = kind[q] /\ user'[q] = user[q]
              /\ ip'[q] = ip[q] /\ begun'[q] = begun[q] /\ now'[q] = now[q]
              /\ counted'[q] = counted[q]
<1>1. CASE \E a \in Reply : Finish(r, a)
  BY <1>1, FinishEffect
<1>2. CASE (CountIP(r) /\ Goto(r, "lock")) \/ LockUser(r) \/ Evaluate(r) \/ FailAndLock(r)
  BY <1>2 DEF CountIP, LockUser, Evaluate, FailAndLock, Rollback, Finish, Goto, TypeOK, request
<1>3. CASE \E k \in Kind, u \in User \cup {None}, i \in IP \cup {None}, ok \in BOOLEAN :
             Begin(r, k, u, i, ok)
  BY <1>3 DEF Begin, Goto, TypeOK
<1>4. CASE CountIP(r)
  BY <1>1, <1>2, <1>4 DEF CountIP, Rollback, Reply
<1>5. QED
  BY <1>1, <1>2, <1>3, <1>4
     DEF Proceed, LoseRequest, RejectUnknownUser, RefuseLocked, Accept, Fail, PublishLockEvent,
         CompleteReset, Rollback, Reply

(* An attempt or a reset writes the row it holds and no other, and records *)
(* a failure of no other account.                                          *)
LEMMA WritesOwnRow ==
    ASSUME Control, NEW r \in Request, Proceed(r) \/ LoseRequest(r)
    PROVE  /\ clock' = clock
           /\ failures' = failures \/ failures' = RecordedFailures(r)
           /\ \A u \in User : userLock[u] # r =>
                 /\ status'[u] = status[u] /\ lockedUntil'[u] = lockedUntil[u]
                 /\ resetAt'[u] = resetAt[u] /\ forgiven'[u] = forgiven[u]
                 /\ failures' # failures => user[r] # u
<1>1. TypeOK /\ HoldsRow
  BY DEF Control
<1>2. CASE \/ CountIP(r) \/ LockUser(r) \/ RefuseLocked(r) \/ Evaluate(r) \/ PublishLockEvent(r)
           \/ LoseRequest(r)
  BY <1>2 DEF CountIP, LockUser, RefuseLocked, Evaluate, PublishLockEvent,
              LoseRequest, Rollback, tables, history
<1>3. CASE RejectUnknownUser(r)
  BY <1>3 DEF RejectUnknownUser, history
<1>4. CASE Accept(r) \/ Fail(r) \/ FailAndLock(r) \/ CompleteReset(r)
  <2>1. userLock[user[r]] = r
    BY <1>1, <1>4 DEF HoldsRow, Accept, Fail, FailAndLock, CompleteReset
  <2>2. CASE Accept(r)
    BY <1>1, <2>1, <2>2 DEF Accept, TypeOK, history
  <2>3. CASE Fail(r)
    BY <1>1, <2>1, <2>3 DEF Fail, TypeOK, history
  <2>4. CASE FailAndLock(r)
    BY <1>1, <2>1, <2>4 DEF FailAndLock, TypeOK
  <2>5. CASE CompleteReset(r)
    BY <1>1, <2>1, <2>5 DEF CompleteReset, TypeOK
  <2>6. QED
    BY <1>4, <2>2, <2>3, <2>4, <2>5
<1>5. QED
  BY <1>2, <1>3, <1>4 DEF Proceed

-----------------------------------------------------------------------------
(***************************************************************************)
(* No notice without its lock.                                             *)
(***************************************************************************)
LEMMA AnnouncingFinite ==
    \A u : /\ IsFiniteSet(Announcing(u)) /\ Cardinality(Announcing(u)) \in Nat
          /\ IsFiniteSet(Announcing(u)') /\ Cardinality(Announcing(u)') \in Nat
  BY FS_Subset, FS_CardinalityType DEF Announcing

(* A step that neither locks nor publishes.                                *)
LEMMA KeepAnnounced ==
    ASSUME TypeOK, Announced, UNCHANGED <<locks, notices>>,
           \A u \in User : Announcing(u)' \subseteq Announcing(u)
    PROVE  Announced'
<1>1. SUFFICES ASSUME NEW u \in User
               PROVE  notices'[u] + Cardinality(Announcing(u)') <= locks'[u]
  BY DEF Announced
<1>2. Cardinality(Announcing(u)') <= Cardinality(Announcing(u))
  BY AnnouncingFinite, FS_Subset
<1>3. notices[u] \in Nat /\ locks[u] \in Nat
  BY DEF TypeOK
<1>4. QED
  BY <1>2, <1>3, AnnouncingFinite DEF Announced

LEMMA NextAnnounced == Control /\ Announced /\ [Next]_vars => Announced'
<1>1. SUFFICES ASSUME Control, Announced, [Next]_vars PROVE Announced'
  OBVIOUS
<1>2. TypeOK
  BY <1>1 DEF Control
<1>3. CASE Tick \/ (\E u \in User, s \in Status : SetStatus(u, s)) \/ UNCHANGED vars
  <2>1. UNCHANGED <<pc, user, locks, notices>>
    BY <1>3 DEF Tick, SetStatus, vars, request, history
  <2>2. QED
    BY <1>1, <1>2, <2>1, KeepAnnounced DEF Announcing
<1>4. ASSUME NEW r \in Request, FailAndLock(r) PROVE Announced'
  <2>1. /\ pc[r] = "counted" /\ pc'[r] = "notify" /\ user'[r] = user[r] /\ user[r] \in User
        /\ \A q \in Request \ {r} : pc'[q] = pc[q] /\ user'[q] = user[q]
        /\ notices' = notices
        /\ \A u \in User : locks'[u] = IF u = user[r] THEN locks[u] + 1 ELSE locks[u]
    BY <1>2, <1>4 DEF FailAndLock, Goto, TypeOK, request
  <2>2. SUFFICES ASSUME NEW u \in User
                 PROVE  notices'[u] + Cardinality(Announcing(u)') <= locks'[u]
    BY DEF Announced
  <2>3. notices[u] \in Nat /\ locks[u] \in Nat
    BY <1>2 DEF TypeOK
  <2>4. CASE u = user[r]
    <3>1. Announcing(u)' = Announcing(u) \cup {r} /\ r \notin Announcing(u)
      BY <2>1, <2>4 DEF Announcing
    <3>2. Cardinality(Announcing(u)') = Cardinality(Announcing(u)) + 1
      BY <3>1, AnnouncingFinite, FS_AddElement
    <3>3. QED
      BY <1>1, <2>1, <2>3, <2>4, <3>2, AnnouncingFinite DEF Announced
  <2>5. CASE u # user[r]
    <3>1. Announcing(u)' = Announcing(u)
      BY <2>1, <2>5 DEF Announcing
    <3>2. QED
      BY <1>1, <2>1, <2>3, <2>5, <3>1 DEF Announced
  <2>6. QED
    BY <2>4, <2>5
<1>5. ASSUME NEW r \in Request, PublishLockEvent(r) PROVE Announced'
  <2>1. /\ Finish(r, "invalid") /\ "invalid" \in Reply /\ locks' = locks
        /\ pc[r] = "notify" /\ user[r] \in User
        /\ \A u \in User : notices'[u] = IF u = user[r] THEN notices[u] + 1 ELSE notices[u]
    BY <1>2, <1>5 DEF PublishLockEvent, TypeOK, Reply
  <2>2. /\ pc'[r] = "idle"
        /\ \A q \in Request \ {r} : pc'[q] = pc[q] /\ user'[q] = user[q]
    BY <1>2, <2>1, FinishEffect
  <2>3. SUFFICES ASSUME NEW u \in User
                 PROVE  notices'[u] + Cardinality(Announcing(u)') <= locks'[u]
    BY DEF Announced
  <2>4. notices[u] \in Nat /\ locks[u] \in Nat
    BY <1>2 DEF TypeOK
  <2>5. CASE u = user[r]
    <3>1. Announcing(u)' = Announcing(u) \ {r} /\ r \in Announcing(u)
      BY <2>1, <2>2, <2>5 DEF Announcing
    <3>2. Cardinality(Announcing(u)') = Cardinality(Announcing(u)) - 1
      BY <3>1, AnnouncingFinite, FS_RemoveElement
    <3>3. QED
      BY <1>1, <2>1, <2>4, <2>5, <3>2, AnnouncingFinite DEF Announced
  <2>6. CASE u # user[r]
    <3>1. Announcing(u)' = Announcing(u)
      BY <2>1, <2>2, <2>6 DEF Announcing
    <3>2. QED
      BY <1>1, <2>1, <2>4, <2>6, <3>1 DEF Announced
  <2>7. QED
    BY <2>5, <2>6
<1>6. ASSUME NEW r \in Request, ~FailAndLock(r), ~PublishLockEvent(r),
             \/ Proceed(r) \/ LoseRequest(r)
             \/ \E k \in Kind, u \in User \cup {None}, i \in IP \cup {None}, ok \in BOOLEAN :
                   Begin(r, k, u, i, ok)
      PROVE  Announced'
  <2>1. \A q \in Request \ {r} : pc'[q] = pc[q] /\ user'[q] = user[q]
    BY <1>2, <1>6, OthersUntouched
  <2>2. pc'[r] # "notify" /\ UNCHANGED <<locks, notices>>
    <3>1. CASE \E a : Finish(r, a) /\ UNCHANGED <<locks, notices>>
      BY <1>2, <3>1 DEF Finish, Goto, TypeOK
    <3>2. CASE LockUser(r) \/ Evaluate(r) \/ CountIP(r)
      BY <1>2, <3>1, <3>2 DEF LockUser, Evaluate, CountIP, Rollback, Goto, history, TypeOK
    <3>3. CASE \E k \in Kind, u \in User \cup {None}, i \in IP \cup {None}, ok \in BOOLEAN :
                 Begin(r, k, u, i, ok)
      BY <1>2, <3>3 DEF Begin, Goto, history, TypeOK
    <3>4. QED
      BY <1>6, <3>1, <3>2, <3>3
         DEF Proceed, LoseRequest, RejectUnknownUser, RefuseLocked, Accept, Fail,
             CompleteReset, Rollback, history
  <2>3. \A u \in User : Announcing(u)' \subseteq Announcing(u)
    BY <2>1, <2>2 DEF Announcing
  <2>4. QED
    BY <1>1, <1>2, <2>2, <2>3, KeepAnnounced
<1>7. QED
  BY <1>1, <1>3, <1>4, <1>5, <1>6 DEF Next

-----------------------------------------------------------------------------
(***************************************************************************)
(* The limit per IP.                                                       *)
(***************************************************************************)
LEMMA FailuresFinite ==
    ASSUME TypeOK
    PROVE  /\ DOMAIN failures = 1..Len(failures) /\ Len(failures) \in Nat
           /\ IsFiniteSet(DOMAIN failures)
           /\ \A k \in DOMAIN failures : failures[k] \in Failure /\ failures[k].at \in Nat
<1>1. failures \in Seq(Failure)
  BY DEF TypeOK
<1>2. \A k \in DOMAIN failures : failures[k] \in Failure
  BY <1>1
<1>3. DOMAIN failures = 1..Len(failures) /\ Len(failures) \in Nat
  BY <1>1
<1>4. QED
  BY <1>2, <1>3, FS_Interval DEF Failure, Time

LEMMA AdmissionFinite ==
    ASSUME TypeOK, NEW i
    PROVE  /\ IsFiniteSet(RejectedPasswords(i)) /\ Cardinality(RejectedPasswords(i)) \in Nat
           /\ IsFiniteSet(Admitted(i)) /\ Cardinality(Admitted(i)) \in Nat
           /\ Cardinality(Admitted(i)) <= Cardinality(Request) /\ Cardinality(Request) \in Nat
<1>1. RejectedPasswords(i) \subseteq DOMAIN failures /\ Admitted(i) \subseteq Request
  BY DEF RejectedPasswords, Admitted
<1>2. QED
  BY <1>1, FailuresFinite, FS_Subset, FS_CardinalityType

(* A step that rejects no password and admits none.                        *)
LEMMA KeepAdmission ==
    ASSUME TypeOK, TypeOK', Admission,
           \A i \in IP : /\ RejectedPasswords(i)' \subseteq RejectedPasswords(i)
                         /\ Admitted(i)' \subseteq Admitted(i)
    PROVE  Admission'
<1>1. SUFFICES ASSUME NEW i \in IP
               PROVE  Cardinality(RejectedPasswords(i)') + Cardinality(Admitted(i)')
                         < IPMaxFailures + Cardinality(Request)
  BY DEF Admission
<1>2. /\ IsFiniteSet(RejectedPasswords(i)) /\ IsFiniteSet(Admitted(i))
      /\ Cardinality(RejectedPasswords(i)) \in Nat /\ Cardinality(Admitted(i)) \in Nat
      /\ Cardinality(Request) \in Nat
  BY AdmissionFinite
<1>3. /\ Cardinality(RejectedPasswords(i)') <= Cardinality(RejectedPasswords(i))
      /\ Cardinality(RejectedPasswords(i)') \in Nat
      /\ Cardinality(Admitted(i)') <= Cardinality(Admitted(i))
      /\ Cardinality(Admitted(i)') \in Nat
  BY <1>2, FS_Subset, FS_CardinalityType
<1>4. QED
  BY <1>2, <1>3 DEF Admission

(* A password that fails leaves the admitted as it enters the rejected.    *)
LEMMA RejectAdmission ==
    ASSUME TypeOK, TypeOK', Admission, NEW r \in Request,
           failures' = RecordedFailures(r), clock' = clock,
           pc[r] \in {"lock", "counted"}, pc'[r] \notin {"lock", "held", "counted"},
           \A q \in Request \ {r} : pc'[q] = pc[q] /\ kind'[q] = kind[q] /\ ip'[q] = ip[q]
    PROVE  Admission'
<1>1. SUFFICES ASSUME NEW i \in IP
               PROVE  Cardinality(RejectedPasswords(i)') + Cardinality(Admitted(i)')
                         < IPMaxFailures + Cardinality(Request)
  BY DEF Admission
<1> DEFINE n == Len(failures) + 1
<1>2. /\ IsFiniteSet(RejectedPasswords(i)) /\ IsFiniteSet(Admitted(i))
      /\ Cardinality(RejectedPasswords(i)) \in Nat /\ Cardinality(Admitted(i)) \in Nat
      /\ Cardinality(Request) \in Nat
  BY AdmissionFinite
<1>3. /\ DOMAIN failures' = DOMAIN failures \cup {n} /\ n \notin DOMAIN failures
      /\ \A k \in DOMAIN failures : failures'[k] = failures[k]
      /\ failures'[n] = [kind |-> kind[r], user |-> user[r], ip |-> ip[r], at |-> begun[r]]
  <2>1. n \notin DOMAIN failures
    BY FailuresFinite
  <2>2. QED
    BY <2>1, RecordEffect, Zenon
<1>4. CASE kind[r] = "password" /\ ip[r] = i
  <2>1. Admitted(i)' = Admitted(i) \ {r} /\ r \in Admitted(i)
    BY <1>4 DEF Admitted
  <2>2. Cardinality(Admitted(i)') = Cardinality(Admitted(i)) - 1
    BY <1>2, <2>1, FS_RemoveElement
  <2>3. RejectedPasswords(i)' \subseteq RejectedPasswords(i) \cup {n}
    BY <1>3 DEF RejectedPasswords, InWindow
  <2>4. /\ IsFiniteSet(RejectedPasswords(i) \cup {n})
        /\ Cardinality(RejectedPasswords(i) \cup {n}) = Cardinality(RejectedPasswords(i)) + 1
    <3>1. n \notin RejectedPasswords(i)
      BY <1>3 DEF RejectedPasswords
    <3>2. QED
      BY <1>2, <3>1, FS_AddElement
  <2>5. /\ Cardinality(RejectedPasswords(i)') <= Cardinality(RejectedPasswords(i)) + 1
        /\ Cardinality(RejectedPasswords(i)') \in Nat
    BY <2>3, <2>4, FS_Subset, FS_CardinalityType
  <2>6. QED
    BY <1>2, <2>2, <2>5 DEF Admission
<1>5. CASE ~(kind[r] = "password" /\ ip[r] = i)
  <2>1. Admitted(i)' \subseteq Admitted(i)
    BY DEF Admitted
  <2>2. RejectedPasswords(i)' \subseteq RejectedPasswords(i)
    BY <1>3, <1>5 DEF RejectedPasswords, InWindow
  <2>3. /\ Cardinality(RejectedPasswords(i)') <= Cardinality(RejectedPasswords(i))
        /\ Cardinality(RejectedPasswords(i)') \in Nat
        /\ Cardinality(Admitted(i)') <= Cardinality(Admitted(i))
        /\ Cardinality(Admitted(i)') \in Nat
    BY <1>2, <2>1, <2>2, FS_Subset, FS_CardinalityType
  <2>4. QED
    BY <1>2, <2>3 DEF Admission
<1>6. QED
  BY <1>4, <1>5

(* Fewer passwords than the limit have failed when one more is admitted.   *)
LEMMA AdmitAdmission ==
    ASSUME Control, Control', Admission, NEW r \in Request, CountIP(r), Goto(r, "lock")
    PROVE  Admission'
<1>1. TypeOK /\ TypeOK'
  BY DEF Control
<1>2. SUFFICES ASSUME NEW i \in IP
               PROVE  Cardinality(RejectedPasswords(i)') + Cardinality(Admitted(i)')
                         < IPMaxFailures + Cardinality(Request)
  BY DEF Admission
<1>3. /\ pc[r] = "count" /\ pc'[r] = "lock" /\ ~Limited(r)
      /\ \A q \in Request \ {r} : pc'[q] = pc[q]
      /\ UNCHANGED <<clock, failures, kind, ip>>
  <2>1. pc'[r] = "lock"
    BY <1>1 DEF Goto, TypeOK
  <2>2. ~Rollback(r, "limited")
    BY <1>1, <2>1 DEF Rollback, Finish, Goto, TypeOK
  <2>3. QED
    BY <1>1, <2>1, <2>2 DEF CountIP, Goto, TypeOK, tables
<1>4. RejectedPasswords(i)' = RejectedPasswords(i)
  BY <1>3 DEF RejectedPasswords, InWindow
<1>5. CASE ip[r] = i
  <2> DEFINE F == {k \in DOMAIN failures :
                      failures[k].ip = ip[r] /\ InWindow(failures[k].at, clock)}
  <2>1. RejectedPasswords(i) \subseteq F /\ IsFiniteSet(F)
    BY <1>1, <1>5, FailuresFinite, FS_Subset DEF RejectedPasswords
  <2>2. Cardinality(RejectedPasswords(i)) <= Cardinality(F) /\ Cardinality(F) \in Nat
    BY <2>1, FS_Subset, FS_CardinalityType
  <2>3. Cardinality(F) < IPMaxFailures
    <3>1. ip[r] # None
      BY <1>5
    <3>2. IPFailures(failures, ip[r], clock) = Cardinality(F)
      BY DEF IPFailures
    <3>3. QED
      BY <1>3, <2>2, <3>1, <3>2 DEF Limited
  <2>4. /\ Cardinality(Admitted(i)') \in Nat /\ Cardinality(Request) \in Nat
        /\ Cardinality(Admitted(i)') <= Cardinality(Request)
        /\ Cardinality(RejectedPasswords(i)) \in Nat
    <3>1. Admitted(i)' \subseteq Request
      BY DEF Admitted
    <3>2. QED
      BY <1>1, <3>1, AdmissionFinite, FS_Subset, FS_CardinalityType
  <2>5. QED
    BY <1>4, <2>2, <2>3, <2>4
<1>6. CASE ip[r] # i
  <2>1. Admitted(i)' = Admitted(i)
    BY <1>3, <1>6 DEF Admitted
  <2>2. QED
    BY <1>4, <2>1 DEF Admission
<1>7. QED
  BY <1>5, <1>6

LEMMA NextAdmission == Control /\ Admission /\ [Next]_vars => Admission'
<1>1. SUFFICES ASSUME Control, Admission, [Next]_vars PROVE Admission'
  OBVIOUS
<1>2. TypeOK /\ Control' /\ TypeOK'
  BY <1>1, NextControl DEF Control
<1>3. CASE Tick
  <2>1. clock' = clock + 1 /\ UNCHANGED <<failures, pc, kind, ip>> /\ clock \in Nat
    BY <1>2, <1>3 DEF Tick, tables, request, TypeOK, Time
  <2>2. \A i \in IP : Admitted(i)' = Admitted(i)
    BY <2>1 DEF Admitted
  <2>3. \A i \in IP : RejectedPasswords(i)' \subseteq RejectedPasswords(i)
    BY <1>2, <2>1, FailuresFinite DEF RejectedPasswords, InWindow
  <2>4. QED
    BY <1>1, <1>2, <2>2, <2>3, KeepAdmission
<1>4. CASE (\E u \in User, s \in Status : SetStatus(u, s)) \/ UNCHANGED vars
  <2>1. UNCHANGED <<clock, failures, pc, kind, ip>>
    BY <1>4 DEF SetStatus, vars, tables, request
  <2>2. QED
    BY <1>1, <2>1 DEF Admission, Admitted, RejectedPasswords, InWindow
<1>5. ASSUME NEW r \in Request, RejectUnknownUser(r) \/ Fail(r) \/ FailAndLock(r)
      PROVE  Admission'
  <2>1. \A q \in Request \ {r} : pc'[q] = pc[q] /\ kind'[q] = kind[q] /\ ip'[q] = ip[q]
    BY <1>2, <1>5, OthersUntouched DEF Proceed
  <2>2. /\ failures' = RecordedFailures(r) /\ clock' = clock
        /\ pc[r] \in {"lock", "counted"} /\ pc'[r] \notin {"lock", "held", "counted"}
    BY <1>2, <1>5 DEF RejectUnknownUser, Fail, FailAndLock, Finish, Goto, TypeOK
  <2>3. QED
    BY <1>1, <1>2, <2>1, <2>2, RejectAdmission
<1>6. ASSUME NEW r \in Request, CountIP(r) PROVE Admission'
  <2>1. CASE Goto(r, "lock")
    BY <1>1, <1>2, <1>6, <2>1, AdmitAdmission
  <2>2. CASE Rollback(r, "limited")
    <3>1. \A q \in Request \ {r} : pc'[q] = pc[q] /\ kind'[q] = kind[q] /\ ip'[q] = ip[q]
      BY <1>2, <1>6, OthersUntouched DEF Proceed
    <3>2. pc'[r] = "idle" /\ UNCHANGED <<clock, failures>>
      BY <1>2, <2>2 DEF Rollback, Finish, Goto, TypeOK, tables
    <3>3. \A i \in IP : RejectedPasswords(i)' = RejectedPasswords(i)
                        /\ Admitted(i)' \subseteq Admitted(i)
      BY <3>1, <3>2 DEF RejectedPasswords, Admitted, InWindow
    <3>4. QED
      BY <1>1, <1>2, <3>3, KeepAdmission
  <2>3. QED
    BY <1>6, <2>1, <2>2 DEF CountIP
<1>7. ASSUME NEW r \in Request, ~CountIP(r),
             ~(RejectUnknownUser(r) \/ Fail(r) \/ FailAndLock(r)),
             \/ Proceed(r) \/ LoseRequest(r)
             \/ \E k \in Kind, u \in User \cup {None}, i \in IP \cup {None}, ok \in BOOLEAN :
                   Begin(r, k, u, i, ok)
      PROVE  Admission'
  <2>1. \A q \in Request \ {r} : pc'[q] = pc[q] /\ kind'[q] = kind[q] /\ ip'[q] = ip[q]
    BY <1>2, <1>7, OthersUntouched
  <2>2. /\ UNCHANGED <<clock, failures>>
        /\ \/ pc'[r] \notin {"lock", "held", "counted"} \/ kind'[r] # "password"
           \/ pc[r] \in {"lock", "held"} /\ kind'[r] = kind[r] /\ ip'[r] = ip[r]
    <3>1. CASE \E a : Finish(r, a) /\ UNCHANGED <<clock, failures>>
      BY <1>2, <3>1 DEF Finish, Goto, TypeOK
    <3>2. CASE LockUser(r) \/ Evaluate(r)
      BY <1>2, <3>2 DEF LockUser, Evaluate, tables
    <3>3. CASE \E k \in Kind, u \in User \cup {None}, i \in IP \cup {None}, ok \in BOOLEAN :
                 Begin(r, k, u, i, ok)
      BY <1>2, <3>3 DEF Begin, Goto, tables, TypeOK
    <3>4. QED
      BY <1>7, <3>1, <3>2, <3>3
         DEF Proceed, LoseRequest, RefuseLocked, Accept, PublishLockEvent, CompleteReset,
             Rollback, tables
  <2>3. \A i \in IP : RejectedPasswords(i)' = RejectedPasswords(i)
                      /\ Admitted(i)' \subseteq Admitted(i)
    BY <2>1, <2>2 DEF RejectedPasswords, Admitted, InWindow
  <2>4. QED
    BY <1>1, <1>2, <2>3, KeepAdmission
<1>8. QED
  BY <1>1, <1>3, <1>4, <1>5, <1>6, <1>7 DEF Next

-----------------------------------------------------------------------------
(***************************************************************************)
(* A count stays true until the attempt that made it commits.              *)
(***************************************************************************)
LEMMA SeenFinite ==
    ASSUME TypeOK, NEW r
    PROVE  IsFiniteSet(Seen(r)) /\ Cardinality(Seen(r)) \in Nat
<1>1. Seen(r) \subseteq DOMAIN failures
  BY DEF Seen
<1>2. QED
  BY <1>1, FailuresFinite, FS_Subset, FS_CardinalityType

(* The statement that counts sees what is committed, and its own failure.  *)
LEMMA EvaluateCounts ==
    ASSUME TypeOK, NEW r \in Request
    PROVE  AccountFailures(RecordedFailures(r), user[r], now[r])
              = Cardinality(Seen(r)) + (IF CountsOwn(r) THEN 1 ELSE 0)
<1> DEFINE n == Len(failures) + 1
           log == RecordedFailures(r)
           C == {k \in DOMAIN log :
                    /\ log[k].user = user[r]
                    /\ InWindow(log[k].at, now[r])
                    /\ resetAt[user[r]] # None => log[k].at > resetAt[user[r]]}
<1>1. /\ DOMAIN log = DOMAIN failures \cup {n}
      /\ \A k \in DOMAIN failures : log[k] = failures[k]
      /\ log[n] = [kind |-> kind[r], user |-> user[r], ip |-> ip[r], at |-> begun[r]]
  BY RecordEffect
<1>2. n \notin DOMAIN failures
  BY FailuresFinite
<1>3. n \notin Seen(r)
  BY <1>2 DEF Seen
<1>4. AccountFailures(log, user[r], now[r]) = Cardinality(C)
  BY DEF AccountFailures
<1>5. log[n].user = user[r] /\ log[n].at = begun[r]
  BY <1>1
<1> HIDE DEF log, n
<1>6. CASE CountsOwn(r)
  <2>1. C = Seen(r) \cup {n}
    BY <1>1, <1>5, <1>6 DEF Seen, CountsOwn
  <2>2. Cardinality(C) = Cardinality(Seen(r)) + 1
    BY <1>3, <2>1, SeenFinite, FS_AddElement
  <2>3. QED
    BY <1>4, <1>6, <2>2 DEF log
<1>7. CASE ~CountsOwn(r)
  <2>1. C = Seen(r)
    BY <1>1, <1>5, <1>7 DEF Seen, CountsOwn
  <2> HIDE DEF C
  <2>2. Cardinality(C) = Cardinality(Seen(r)) /\ Cardinality(Seen(r)) \in Nat
    BY <2>1, SeenFinite
  <2>3. QED
    BY <1>4, <1>7, <2>2 DEF log
<1>8. QED
  BY <1>6, <1>7

(* What a failure recorded by somebody else does to an account: nothing.   *)
OthersFailed(u) ==
    \/ failures' = failures
    \/ \E r \in Request : failures' = RecordedFailures(r) /\ user[r] # u

LEMMA SteadyCount ==
    ASSUME TypeOK, NEW q \in Request, user[q] \in User, OthersFailed(user[q]),
           user'[q] = user[q], kind'[q] = kind[q], now'[q] = now[q], begun'[q] = begun[q],
           status'[user[q]] = status[user[q]], lockedUntil'[user[q]] = lockedUntil[user[q]],
           resetAt'[user[q]] = resetAt[user[q]]
    PROVE  Seen(q)' = Seen(q) /\ CountsOwn(q)' = CountsOwn(q) /\ Active(q)' = Active(q)
<1>1. CountsOwn(q)' = CountsOwn(q) /\ Active(q)' = Active(q)
  BY DEF CountsOwn, Active, Lifted, InWindow
<1>2. CASE failures' = failures
  BY <1>1, <1>2 DEF Seen, InWindow
<1>3. ASSUME NEW r \in Request, failures' = RecordedFailures(r), user[r] # user[q]
      PROVE  Seen(q)' = Seen(q)
  <2> DEFINE n == Len(failures) + 1
  <2>1. /\ DOMAIN failures' = DOMAIN failures \cup {n}
        /\ \A k \in DOMAIN failures : failures'[k] = failures[k]
        /\ failures'[n] = [kind |-> kind[r], user |-> user[r], ip |-> ip[r], at |-> begun[r]]
    BY <1>3, RecordEffect, Zenon
  <2> HIDE DEF n
  <2>2. failures'[n].user # user[q]
    BY <1>3, <2>1
  <2>3. QED
    BY <2>1, <2>2 DEF Seen, InWindow
<1>4. QED
  BY <1>1, <1>2, <1>3 DEF OthersFailed

LEMMA NextCountHolds == Control /\ CountHolds /\ [Next]_vars => CountHolds'
<1>1. SUFFICES ASSUME Control, CountHolds, [Next]_vars,
                      NEW q \in Request, pc'[q] = "counted"
               PROVE  IF Active(q)'
                      THEN Cardinality(Seen(q)') + (IF CountsOwn(q)' THEN 1 ELSE 0) <= counted'[q]
                      ELSE counted'[q] = 0 /\ status'[user'[q]] # "locked"
  BY DEF CountHolds
<1>2. TypeOK /\ HoldsRow
  BY <1>1 DEF Control
<1>3. CASE /\ pc[q] = "counted"
           /\ user'[q] = user[q] /\ kind'[q] = kind[q] /\ now'[q] = now[q]
           /\ begun'[q] = begun[q] /\ counted'[q] = counted[q]
           /\ status'[user[q]] = status[user[q]]
           /\ lockedUntil'[user[q]] = lockedUntil[user[q]]
           /\ resetAt'[user[q]] = resetAt[user[q]] /\ OthersFailed(user[q])
  <2>1. user[q] \in User
    BY <1>2, <1>3 DEF TypeOK
  <2>2. Seen(q)' = Seen(q) /\ CountsOwn(q)' = CountsOwn(q) /\ Active(q)' = Active(q)
    BY <1>2, <1>3, <2>1, SteadyCount
  <2>3. QED
    BY <1>1, <1>3, <2>2 DEF CountHolds
<1>4. CASE Evaluate(q)
  <2>1. /\ UNCHANGED <<status, lockedUntil, failures, resetAt, user, kind, begun, now>>
        /\ counted'[q] = IF Active(q)
                         THEN AccountFailures(RecordedFailures(q), user[q], now[q]) ELSE 0
    BY <1>2, <1>4 DEF Evaluate, tables, TypeOK
  <2>2. Seen(q)' = Seen(q) /\ CountsOwn(q)' = CountsOwn(q) /\ Active(q)' = Active(q)
    BY <2>1 DEF Seen, CountsOwn, Active, Lifted, InWindow
  <2>3. CASE Active(q)
    BY <1>2, <2>1, <2>2, <2>3, EvaluateCounts, SeenFinite
  <2>4. CASE ~Active(q)
    BY <1>4, <2>1, <2>2, <2>4 DEF Evaluate, Active, StillLocked
  <2>5. QED
    BY <2>3, <2>4
<1>5. ASSUME NEW r \in Request, r # q, Proceed(r) \/ LoseRequest(r)
      PROVE  pc[q] = "counted" /\ user[q] \in User /\ userLock[user[q]] # r
  <2>1. pc[q] = "counted"
    BY <1>1, <1>2, <1>5, OthersUntouched
  <2>2. QED
    BY <1>2, <1>5, <2>1 DEF HoldsRow, TypeOK
<1>6. ASSUME NEW r \in Request, r # q, Proceed(r) \/ LoseRequest(r)
      PROVE  IF Active(q)'
             THEN Cardinality(Seen(q)') + (IF CountsOwn(q)' THEN 1 ELSE 0) <= counted'[q]
             ELSE counted'[q] = 0 /\ status'[user'[q]] # "locked"
  <2>1. /\ user'[q] = user[q] /\ kind'[q] = kind[q] /\ now'[q] = now[q]
        /\ begun'[q] = begun[q] /\ counted'[q] = counted[q]
    BY <1>2, <1>6, OthersUntouched
  <2>2. /\ status'[user[q]] = status[user[q]]
        /\ lockedUntil'[user[q]] = lockedUntil[user[q]]
        /\ resetAt'[user[q]] = resetAt[user[q]] /\ OthersFailed(user[q])
    BY <1>1, <1>5, <1>6, WritesOwnRow DEF OthersFailed
  <2>3. QED
    BY <1>3, <1>5, <1>6, <2>1, <2>2
<1>7. ASSUME Proceed(q) \/ LoseRequest(q), ~Evaluate(q) PROVE FALSE
  BY <1>1, <1>2, <1>7
     DEF Proceed, LoseRequest, CountIP, RejectUnknownUser, LockUser, RefuseLocked, Accept, Fail,
         FailAndLock, PublishLockEvent, CompleteReset, Rollback, Finish, Goto, TypeOK
<1>8. ASSUME NEW r \in Request, NEW k \in Kind, NEW u \in User \cup {None},
             NEW i \in IP \cup {None}, NEW ok \in BOOLEAN, Begin(r, k, u, i, ok)
      PROVE  IF Active(q)'
             THEN Cardinality(Seen(q)') + (IF CountsOwn(q)' THEN 1 ELSE 0) <= counted'[q]
             ELSE counted'[q] = 0 /\ status'[user'[q]] # "locked"
  <2>1. r # q
    BY <1>1, <1>2, <1>8 DEF Begin, Goto, TypeOK
  <2>2. /\ pc'[q] = pc[q] /\ user'[q] = user[q] /\ kind'[q] = kind[q] /\ now'[q] = now[q]
        /\ begun'[q] = begun[q] /\ counted'[q] = counted[q]
    BY <1>2, <1>8, <2>1, OthersUntouched
  <2>3. QED
    BY <1>1, <1>3, <1>8, <2>2 DEF Begin, tables, OthersFailed
<1>9. CASE Tick \/ UNCHANGED vars
  BY <1>1, <1>3, <1>9 DEF Tick, vars, tables, request, OthersFailed
<1>10. ASSUME NEW u \in User, NEW s \in Status, SetStatus(u, s)
       PROVE  IF Active(q)'
              THEN Cardinality(Seen(q)') + (IF CountsOwn(q)' THEN 1 ELSE 0) <= counted'[q]
              ELSE counted'[q] = 0 /\ status'[user'[q]] # "locked"
  <2>1. /\ UNCHANGED <<failures, resetAt, pc, kind, user, begun, now, counted>>
        /\ \A v \in User \ {u} : status'[v] = status[v] /\ lockedUntil'[v] = lockedUntil[v]
    BY <1>2, <1>10 DEF SetStatus, request, TypeOK
  <2>2. user[q] \in User \ {u}
    BY <1>1, <1>2, <1>10, <2>1 DEF SetStatus, HoldsRow, TypeOK
  <2>3. QED
    BY <1>1, <1>3, <2>1, <2>2 DEF OthersFailed
<1>11. QED
  BY <1>1, <1>4, <1>6, <1>7, <1>8, <1>9, <1>10 DEF Next

-----------------------------------------------------------------------------
(***************************************************************************)
(* The limit per account.                                                  *)
(***************************************************************************)
(* A lockout lasts at least as long as the window it counts in, as it does *)
(* with the default configuration.                                         *)
LockOutlastsWindow == LockoutDuration >= FailureWindow

(* What an account has behind it, active or under a lock that will end.    *)
Below(u) ==
    /\ status[u] = "active" => Cardinality(Recent(u)) < AccountMaxFailures
    /\ lockedUntil[u] # None => Cardinality(RecentAt(u, lockedUntil[u])) < AccountMaxFailures

BelowAll == \A u \in User : Below(u)

LEMMA BelowSplit == BelowAll <=> ActiveBelowLimit /\ LockCovers
  BY DEF BelowAll, Below, ActiveBelowLimit, LockCovers

LEMMA RecentFinite ==
    ASSUME TypeOK, NEW u, NEW e
    PROVE  /\ IsFiniteSet(Recent(u)) /\ Cardinality(Recent(u)) \in Nat
           /\ IsFiniteSet(RecentAt(u, e)) /\ Cardinality(RecentAt(u, e)) \in Nat
<1>1. Recent(u) \subseteq DOMAIN failures /\ RecentAt(u, e) \subseteq DOMAIN failures
  BY DEF Recent, RecentAt
<1>2. QED
  BY <1>1, FailuresFinite, FS_Subset, FS_CardinalityType

(* Fewer recent failures than before: time passes, or nothing happens here. *)
LEMMA KeepBelow ==
    ASSUME TypeOK, NEW u \in User, Below(u), OthersFailed(u),
           clock' = clock \/ clock' = clock + 1,
           status'[u] = status[u], lockedUntil'[u] = lockedUntil[u],
           resetAt'[u] = resetAt[u], forgiven'[u] = forgiven[u]
    PROVE  Below(u)'
<1>1. Recent(u)' \subseteq Recent(u)
  <2>1. clock \in Nat /\ \A k \in DOMAIN failures : failures[k].at \in Nat
    <3>1. clock \in Nat
      BY DEF TypeOK, Time
    <3>2. QED
      BY <3>1, FailuresFinite
  <2>2. CASE failures' = failures
    BY <2>1, <2>2 DEF Recent
  <2>3. ASSUME NEW r \in Request, failures' = RecordedFailures(r), user[r] # u
        PROVE  Recent(u)' \subseteq Recent(u)
    <3> DEFINE n == Len(failures) + 1
    <3>1. /\ DOMAIN failures' = DOMAIN failures \cup {n}
          /\ \A k \in DOMAIN failures : failures'[k] = failures[k]
          /\ failures'[n] = [kind |-> kind[r], user |-> user[r], ip |-> ip[r], at |-> begun[r]]
      BY <2>3, RecordEffect, Zenon
    <3> HIDE DEF n
    <3>2. failures'[n].user # u
      BY <2>3, <3>1
    <3>3. QED
      BY <2>1, <3>1, <3>2 DEF Recent
  <2>4. QED
    BY <2>2, <2>3 DEF OthersFailed
<1>2. \A k \in Recent(u)' : failures'[k] = failures[k]
  <2>1. CASE failures' = failures
    BY <2>1
  <2>2. ASSUME NEW r \in Request, failures' = RecordedFailures(r)
        PROVE  \A k \in DOMAIN failures : failures'[k] = failures[k]
    BY <2>2, RecordEffect, Zenon
  <2>3. QED
    BY <1>1, <2>1, <2>2 DEF OthersFailed, Recent
<1>3. RecentAt(u, lockedUntil[u])' \subseteq RecentAt(u, lockedUntil[u])
  BY <1>1, <1>2 DEF RecentAt
<1>4. Cardinality(Recent(u)') <= Cardinality(Recent(u)) /\ Cardinality(Recent(u)') \in Nat
  BY <1>1, RecentFinite, FS_Subset, FS_CardinalityType
<1>5. /\ Cardinality(RecentAt(u, lockedUntil[u])') <= Cardinality(RecentAt(u, lockedUntil[u]))
      /\ Cardinality(RecentAt(u, lockedUntil[u])') \in Nat
  BY <1>3, RecentFinite, FS_Subset, FS_CardinalityType
<1>6. AccountMaxFailures \in Nat /\ Cardinality(Recent(u)) \in Nat
      /\ Cardinality(RecentAt(u, lockedUntil[u])) \in Nat
  BY RecentFinite
<1>7. QED
  BY <1>4, <1>5, <1>6 DEF Below

(* An attempt that lifts a lock leaves behind what the lock left behind.   *)
LEMMA LiftedBelow ==
    ASSUME Control, NEW r \in Request, user[r] \in User, Active(r), Below(user[r])
    PROVE  /\ ~Lifted(r) => Cardinality(Recent(user[r])) < AccountMaxFailures
           /\ Lifted(r) => /\ Cardinality(RecentAt(user[r], lockedUntil[user[r]]))
                               < AccountMaxFailures
                           /\ Recent(user[r]) \subseteq RecentAt(user[r], lockedUntil[user[r]])
<1>1. CASE Lifted(r)
  <2>1. lockedUntil[user[r]] # None /\ now[r] >= lockedUntil[user[r]]
    BY <1>1 DEF Lifted
  <2>2. lockedUntil[user[r]] \in Nat /\ lockedUntil[user[r]] <= clock /\ clock \in Nat
    BY <2>1 DEF Control, Clocks, TypeOK, Time
  <2>3. \A k \in DOMAIN failures : failures[k].at \in Nat
    BY FailuresFinite DEF Control
  <2>4. Recent(user[r]) \subseteq RecentAt(user[r], lockedUntil[user[r]])
    BY <2>2, <2>3 DEF Recent, RecentAt
  <2>5. QED
    BY <1>1, <2>1, <2>4 DEF Below
<1>2. CASE ~Lifted(r)
  <2>1. status[user[r]] = "active"
    BY <1>2 DEF Active
  <2>2. Cardinality(Recent(user[r])) < AccountMaxFailures
    BY <2>1 DEF Below
  <2>3. QED
    BY <1>2, <2>2
<1>3. QED
  BY <1>1, <1>2

LEMMA AcceptBelow ==
    ASSUME Control, NEW r \in Request, Accept(r),
           NEW u \in User, u = user[r], Below(u)
    PROVE  Below(u)'
<1>1. TypeOK /\ user[r] \in User /\ Active(r)
  BY DEF Control, TypeOK, Accept
<1>2. /\ UNCHANGED <<clock, failures, resetAt, forgiven>>
      /\ status'[u] = "active" /\ lockedUntil'[u] = None
  BY <1>1 DEF Accept, history, TypeOK
<1>3. Recent(u)' = Recent(u) /\ u \in User
  BY <1>1, <1>2 DEF Recent
<1>4. Cardinality(Recent(u)) < AccountMaxFailures
  <2>1. CASE Lifted(r)
    <3>1. /\ Recent(u) \subseteq RecentAt(u, lockedUntil[u])
          /\ Cardinality(RecentAt(u, lockedUntil[u])) < AccountMaxFailures
      BY <1>1, <2>1, LiftedBelow
    <3>2. /\ Cardinality(Recent(u)) <= Cardinality(RecentAt(u, lockedUntil[u]))
          /\ Cardinality(Recent(u)) \in Nat
          /\ Cardinality(RecentAt(u, lockedUntil[u])) \in Nat
      BY <1>1, <3>1, RecentFinite, FS_Subset
    <3>3. AccountMaxFailures \in Nat
      OBVIOUS
    <3>4. QED
      BY <3>1, <3>2, <3>3
  <2>2. QED
    BY <1>1, <2>1, LiftedBelow
<1>5. QED
  BY <1>2, <1>3, <1>4 DEF Below

(* A failure that does not lock was counted below the limit.               *)
LEMMA FailBelow ==
    ASSUME Control, CountHolds, NEW r \in Request, Fail(r),
           NEW u \in User, u = user[r]
    PROVE  Below(u)'
<1>1. TypeOK /\ user[r] \in User /\ pc[r] = "counted" /\ counted[r] < AccountMaxFailures
  BY DEF Control, TypeOK, Fail
<1> DEFINE n == Len(failures) + 1
<1>2. CASE ~Active(r)
  <2>1. status'[u] = status[u] /\ lockedUntil'[u] = lockedUntil[u] /\ status[u] # "locked"
    BY <1>1, <1>2 DEF Fail, Active, CountHolds, TypeOK
  <2>2. status'[u] # "active" /\ lockedUntil'[u] = None
    BY <1>1, <1>2, <2>1 DEF Active, TypeOK
  <2>3. QED
    BY <2>2 DEF Below
<1>3. CASE Active(r)
  <2>1. status'[u] = "active" /\ lockedUntil'[u] = None
    BY <1>1, <1>3 DEF Fail, Active, TypeOK
  <2>2. /\ DOMAIN failures' = DOMAIN failures \cup {n}
        /\ \A k \in DOMAIN failures : failures'[k] = failures[k]
        /\ failures'[n] = [kind |-> kind[r], user |-> user[r], ip |-> ip[r], at |-> begun[r]]
    BY <1>1, RecordEffect, Zenon DEF Fail
  <2>3. failures'[n].at = begun[r]
    BY <2>2
  <2>4. /\ UNCHANGED <<clock, resetAt, forgiven>>
        /\ now[r] \in Nat /\ begun[r] \in Nat /\ clock \in Nat /\ now[r] <= clock
        /\ \A k \in DOMAIN failures : failures[k].at \in Nat
    <3>1. /\ UNCHANGED <<clock, resetAt, forgiven>>
          /\ now[r] \in Nat /\ begun[r] \in Nat /\ clock \in Nat /\ now[r] <= clock
      BY <1>1 DEF Fail, history, Control, Clocks, TypeOK, Time
    <3>2. QED
      BY <1>1, <3>1, FailuresFinite
  <2> HIDE DEF n
  <2>5. Recent(u)' \subseteq Seen(r) \cup (IF CountsOwn(r) THEN {n} ELSE {})
    <3>1. SUFFICES ASSUME NEW k \in DOMAIN failures',
                          failures'[k].user = u, failures'[k].at + FailureWindow > clock,
                          resetAt[u] # None => failures'[k].at > resetAt[u]
                   PROVE  k \in Seen(r) \cup (IF CountsOwn(r) THEN {n} ELSE {})
      BY <2>4 DEF Recent
    <3>2. CASE k \in DOMAIN failures
      BY <2>2, <2>4, <3>1, <3>2 DEF Seen, InWindow
    <3>3. CASE k = n
      BY <2>3, <2>4, <3>1, <3>3 DEF CountsOwn, InWindow
    <3>4. QED
      BY <2>2, <3>2, <3>3
  <2>6. /\ IsFiniteSet(Seen(r) \cup (IF CountsOwn(r) THEN {n} ELSE {}))
        /\ Cardinality(Seen(r) \cup (IF CountsOwn(r) THEN {n} ELSE {})) <= counted[r]
    <3>1. Cardinality(Seen(r)) + (IF CountsOwn(r) THEN 1 ELSE 0) <= counted[r]
      BY <1>1, <1>3 DEF CountHolds
    <3>2. n \notin Seen(r)
      BY <1>1, FailuresFinite DEF Seen, n
    <3>3. CASE CountsOwn(r)
      <4>1. /\ IsFiniteSet(Seen(r) \cup {n})
            /\ Cardinality(Seen(r) \cup {n}) = Cardinality(Seen(r)) + 1
        BY <1>1, <3>2, SeenFinite, FS_AddElement
      <4>2. QED
        BY <3>1, <3>3, <4>1
    <3>4. CASE ~CountsOwn(r)
      <4>1. Seen(r) \cup {} = Seen(r)
        OBVIOUS
      <4>2. QED
        BY <1>1, <3>1, <3>4, <4>1, SeenFinite
    <3>5. QED
      BY <3>3, <3>4
  <2>7. Cardinality(Recent(u)') <= counted[r] /\ Cardinality(Recent(u)') \in Nat
    <3>1. counted[r] \in Nat
      BY <1>1 DEF TypeOK
    <3>2. QED
      BY <2>5, <2>6, <3>1, FS_Subset, FS_CardinalityType
  <2>8. Cardinality(Recent(u)') < AccountMaxFailures
    <3>1. counted[r] \in Nat /\ AccountMaxFailures \in Nat
      BY <1>1 DEF TypeOK
    <3>2. QED
      BY <1>1, <2>7, <3>1
  <2>9. QED
    BY <2>1, <2>8 DEF Below
<1>4. QED
  BY <1>2, <1>3

(* A lock outlasts the window of every failure its attempt could count, the *)
(* attempt's own among them: what is left came while the attempt waited.   *)
LEMMA FailAndLockBelow ==
    ASSUME Control, CountHolds, LockOutlastsWindow,
           NEW r \in Request, FailAndLock(r), NEW u \in User, u = user[r], Below(u)
    PROVE  Below(u)'
<1>1. /\ TypeOK /\ user[r] \in User /\ pc[r] = "counted" /\ kind[r] # "reset"
      /\ counted[r] >= AccountMaxFailures
  BY DEF Control, TypeOK, FailAndLock, HoldsRow
<1>2. Active(r)
  BY <1>1 DEF CountHolds
<1> DEFINE n == Len(failures) + 1
<1>0. PICK end : end = now[r] + LockoutDuration
  OBVIOUS
<1>3. /\ status'[u] = "locked" /\ lockedUntil'[u] = end
      /\ UNCHANGED <<clock, resetAt, forgiven>>
  BY <1>0, <1>1 DEF FailAndLock, TypeOK
<1>4. /\ DOMAIN failures' = DOMAIN failures \cup {n}
      /\ \A k \in DOMAIN failures : failures'[k] = failures[k]
      /\ failures'[n] = [kind |-> kind[r], user |-> user[r], ip |-> ip[r], at |-> begun[r]]
  BY <1>1, RecordEffect, Zenon DEF FailAndLock
<1>5. failures'[n].at = begun[r]
  BY <1>4
<1>6. /\ now[r] \in Nat /\ begun[r] \in Nat /\ begun[r] <= now[r]
      /\ clock \in Nat /\ now[r] <= clock
      /\ FailureWindow \in Nat /\ LockoutDuration \in Nat /\ LockoutDuration >= FailureWindow
      /\ \A k \in DOMAIN failures : failures[k].at \in Nat
  <2>1. /\ now[r] \in Nat /\ begun[r] \in Nat /\ begun[r] <= now[r]
        /\ clock \in Nat /\ now[r] <= clock
    BY <1>1 DEF Control, Clocks, TypeOK, Time
  <2>2. LockoutDuration >= FailureWindow
    BY DEF LockOutlastsWindow
  <2>3. QED
    BY <1>1, <2>1, <2>2, FailuresFinite
<1> HIDE DEF n
<1>7. \A k \in RecentAt(u, end)' : k \in Recent(u) /\ failures[k].at > now[r]
  <2>1. SUFFICES ASSUME NEW k \in DOMAIN failures',
                        k > forgiven[u], failures'[k].user = u,
                        failures'[k].at + FailureWindow > clock,
                        resetAt[u] # None => failures'[k].at > resetAt[u],
                        failures'[k].at + FailureWindow > end
                 PROVE  k \in Recent(u) /\ failures[k].at > now[r]
    BY <1>1, <1>3 DEF Recent, RecentAt
  <2>2. k # n
    BY <1>0, <1>5, <1>6, <2>1
  <2>3. k \in DOMAIN failures /\ failures'[k] = failures[k]
    BY <1>4, <2>2
  <2>4. QED
    BY <1>0, <1>6, <2>1, <2>3 DEF Recent
<1>8. Cardinality(RecentAt(u, end)') < AccountMaxFailures
  <2>1. AccountMaxFailures \in Nat
    OBVIOUS
  <2>2. CASE Lifted(r)
    <3>1. lockedUntil[u] \in Nat /\ now[r] >= lockedUntil[u]
      BY <1>1, <2>2 DEF Lifted, TypeOK
    <3>2. RecentAt(u, end)' \subseteq RecentAt(u, lockedUntil[u])
      BY <1>0, <1>6, <1>7, <3>1 DEF RecentAt, Recent
    <3>3. /\ Cardinality(RecentAt(u, end)') <= Cardinality(RecentAt(u, lockedUntil[u]))
          /\ Cardinality(RecentAt(u, end)') \in Nat
          /\ Cardinality(RecentAt(u, lockedUntil[u])) \in Nat
      BY <1>1, <3>2, RecentFinite, FS_Subset, FS_CardinalityType
    <3>4. Cardinality(RecentAt(u, lockedUntil[u])) < AccountMaxFailures
      BY <1>1, <1>2, <2>2, LiftedBelow
    <3>5. QED
      BY <2>1, <3>3, <3>4
  <2>3. CASE Cardinality(Recent(u)) < AccountMaxFailures
    <3>1. RecentAt(u, end)' \subseteq Recent(u)
      BY <1>7
    <3>2. /\ Cardinality(RecentAt(u, end)') <= Cardinality(Recent(u))
          /\ Cardinality(RecentAt(u, end)') \in Nat /\ Cardinality(Recent(u)) \in Nat
      BY <1>1, <3>1, RecentFinite, FS_Subset, FS_CardinalityType
    <3>3. QED
      BY <2>1, <2>3, <3>2
  <2>4. QED
    BY <1>1, <1>2, <2>2, <2>3, LiftedBelow
<1>9. RecentAt(u, lockedUntil[u])' = RecentAt(u, end)'
  BY <1>3 DEF RecentAt, Recent
<1>10. QED
  BY <1>3, <1>8, <1>9 DEF Below

LEMMA NextBelow ==
    ASSUME LockOutlastsWindow
    PROVE  Control /\ CountHolds /\ BelowAll /\ [Next]_vars => BelowAll'
<1>1. SUFFICES ASSUME Control, CountHolds, BelowAll, [Next]_vars, NEW u \in User
               PROVE  Below(u)'
  BY DEF BelowAll
<1>2. TypeOK /\ HoldsRow /\ Below(u) /\ clock \in Nat
  BY <1>1 DEF Control, BelowAll, TypeOK, Time
<1>3. CASE UNCHANGED tables /\ UNCHANGED forgiven /\ (clock' = clock \/ clock' = clock + 1)
  BY <1>2, <1>3, KeepBelow DEF tables, OthersFailed
<1>4. ASSUME NEW r \in Request, Proceed(r) \/ LoseRequest(r), userLock[u] # r
      PROVE  Below(u)'
  BY <1>1, <1>2, <1>4, WritesOwnRow, KeepBelow DEF OthersFailed
<1>5. ASSUME NEW r \in Request, RejectUnknownUser(r) PROVE Below(u)'
  <2>1. OthersFailed(u) /\ UNCHANGED <<clock, status, lockedUntil, resetAt, forgiven>>
    BY <1>5 DEF RejectUnknownUser, OthersFailed, history
  <2>2. QED
    BY <1>2, <2>1, KeepBelow
<1>6. ASSUME NEW r \in Request, Accept(r) \/ Fail(r) \/ FailAndLock(r) \/ CompleteReset(r)
      PROVE  Below(u)'
  <2>1. userLock[user[r]] = r /\ user[r] \in User
    BY <1>2, <1>6 DEF HoldsRow, TypeOK, Accept, Fail, FailAndLock, CompleteReset
  <2>2. CASE u # user[r]
    <3>1. /\ OthersFailed(u) /\ clock' = clock
          /\ status'[u] = status[u] /\ lockedUntil'[u] = lockedUntil[u]
          /\ resetAt'[u] = resetAt[u] /\ forgiven'[u] = forgiven[u]
      <4>1. CASE Accept(r)
        BY <1>2, <2>2, <4>1 DEF Accept, TypeOK, OthersFailed, history
      <4>2. CASE Fail(r)
        BY <1>2, <2>2, <4>2 DEF Fail, TypeOK, OthersFailed, history
      <4>3. CASE FailAndLock(r)
        BY <1>2, <2>2, <4>3 DEF FailAndLock, TypeOK, OthersFailed
      <4>4. CASE CompleteReset(r)
        BY <1>2, <2>2, <4>4 DEF CompleteReset, TypeOK, OthersFailed
      <4>5. QED
        BY <1>6, <4>1, <4>2, <4>3, <4>4
    <3>2. QED
      BY <1>2, <3>1, KeepBelow
  <2>3. CASE u = user[r] /\ CompleteReset(r)
    <3>1. /\ failures' = failures /\ lockedUntil'[u] = None /\ forgiven'[u] = Len(failures)
      BY <1>2, <2>3 DEF CompleteReset, TypeOK
    <3>2. Recent(u)' = {}
      BY <1>2, <3>1, FailuresFinite DEF Recent
    <3>3. Cardinality(Recent(u)') = 0
      BY <3>2, FS_EmptySet
    <3>4. QED
      BY <3>1, <3>3 DEF Below
  <2>4. QED
    BY <1>1, <1>2, <1>6, <2>2, <2>3, AcceptBelow, FailBelow, FailAndLockBelow
<1>7. ASSUME NEW r \in Request, Proceed(r) \/ LoseRequest(r),
             ~(\/ RejectUnknownUser(r) \/ Accept(r) \/ Fail(r) \/ FailAndLock(r)
               \/ CompleteReset(r))
      PROVE  Below(u)'
  BY <1>3, <1>7
     DEF Proceed, LoseRequest, CountIP, LockUser, RefuseLocked, Evaluate, PublishLockEvent,
         Rollback, history
<1>8. ASSUME NEW v \in User, NEW s \in Status, SetStatus(v, s) PROVE Below(u)'
  <2>1. UNCHANGED <<clock, failures, resetAt>>
    BY <1>8 DEF SetStatus
  <2>2. CASE u # v
    <3>1. /\ status'[u] = status[u] /\ lockedUntil'[u] = lockedUntil[u]
          /\ forgiven'[u] = forgiven[u]
      BY <1>2, <1>8, <2>2 DEF SetStatus, TypeOK
    <3>2. QED
      BY <1>2, <2>1, <3>1, KeepBelow DEF OthersFailed
  <2>3. CASE u = v
    <3>1. /\ lockedUntil'[u] = None /\ status'[u] = s
          /\ s = "active" => forgiven'[u] = Len(failures)
      BY <1>2, <1>8, <2>3 DEF SetStatus, TypeOK
    <3>2. CASE s = "active"
      <4>1. Recent(u)' = {}
        BY <1>2, <2>1, <3>1, <3>2, FailuresFinite DEF Recent
      <4>2. Cardinality(Recent(u)') = 0
        BY <4>1, FS_EmptySet
      <4>3. QED
        BY <3>1, <4>2 DEF Below
    <3>3. CASE s # "active"
      BY <3>1, <3>3 DEF Below
    <3>4. QED
      BY <3>2, <3>3
  <2>4. QED
    BY <2>2, <2>3
<1>9. CASE \/ Tick \/ UNCHANGED vars
           \/ \E r \in Request, k \in Kind, v \in User \cup {None}, i \in IP \cup {None},
                 ok \in BOOLEAN : Begin(r, k, v, i, ok)
  BY <1>3, <1>9 DEF Tick, vars, Begin, history
<1>10. QED
  BY <1>1, <1>5, <1>6, <1>7, <1>8, <1>9 DEF Next

-----------------------------------------------------------------------------
(***************************************************************************)
(* A lock in force.                                                        *)
(***************************************************************************)
(* Only an attempt that found the account active, or its lock ended, locks. *)
LEMMA LocksTheActive ==
    ASSUME Control, CountHolds, NEW r \in Request, FailAndLock(r)
    PROVE  ~InForce(user[r])
<1>1. TypeOK /\ user[r] \in User /\ pc[r] = "counted" /\ counted[r] >= AccountMaxFailures
  BY DEF Control, TypeOK, FailAndLock
<1>2. Active(r)
  BY <1>1 DEF CountHolds
<1>3. CASE status[user[r]] = "active"
  BY <1>3 DEF InForce
<1>4. CASE Lifted(r)
  <2>1. lockedUntil[user[r]] # None /\ now[r] >= lockedUntil[user[r]]
    BY <1>4 DEF Lifted
  <2>2. lockedUntil[user[r]] \in Nat /\ now[r] \in Nat /\ clock \in Nat /\ now[r] <= clock
    BY <1>1, <2>1 DEF Control, Clocks, TypeOK, Time
  <2>3. QED
    BY <2>1, <2>2 DEF InForce
<1>5. QED
  BY <1>2, <1>3, <1>4 DEF Active

LEMMA NextLockNotExtended ==
    Control /\ CountHolds /\ [Next]_vars =>
        \A u \in User : InForce(u) /\ status'[u] = "locked" => lockedUntil'[u] = lockedUntil[u]
<1>1. SUFFICES ASSUME Control, CountHolds, [Next]_vars,
                      NEW u \in User, InForce(u), status'[u] = "locked"
               PROVE  lockedUntil'[u] = lockedUntil[u]
  OBVIOUS
<1>2. TypeOK /\ status[u] = "locked"
  BY <1>1 DEF Control, InForce
<1>3. ASSUME NEW r \in Request, Accept(r) \/ CompleteReset(r) PROVE lockedUntil'[u] = lockedUntil[u]
  <2>1. u # user[r]
    BY <1>1, <1>2, <1>3 DEF Accept, CompleteReset, TypeOK
  <2>2. QED
    BY <1>2, <1>3, <2>1 DEF Accept, CompleteReset, TypeOK
<1>4. ASSUME NEW r \in Request, Fail(r) PROVE lockedUntil'[u] = lockedUntil[u]
  BY <1>1, <1>2, <1>4 DEF Fail, TypeOK
<1>5. ASSUME NEW r \in Request, FailAndLock(r) PROVE lockedUntil'[u] = lockedUntil[u]
  <2>1. u # user[r]
    BY <1>1, <1>5, LocksTheActive
  <2>2. QED
    BY <1>2, <1>5, <2>1 DEF FailAndLock, TypeOK
<1>6. ASSUME NEW v \in User, NEW s \in Status, SetStatus(v, s)
      PROVE  lockedUntil'[u] = lockedUntil[u]
  <2>1. u # v
    BY <1>1, <1>2, <1>6 DEF SetStatus, TypeOK
  <2>2. QED
    BY <1>2, <1>6, <2>1 DEF SetStatus, TypeOK
<1>7. ASSUME NEW r \in Request, Proceed(r) \/ LoseRequest(r),
             ~(Accept(r) \/ CompleteReset(r) \/ Fail(r) \/ FailAndLock(r))
      PROVE  lockedUntil'[u] = lockedUntil[u]
  BY <1>7
     DEF Proceed, LoseRequest, CountIP, RejectUnknownUser, LockUser, RefuseLocked, Evaluate,
         PublishLockEvent, Rollback, tables
<1>8. CASE \/ Tick \/ UNCHANGED vars
           \/ \E r \in Request, k \in Kind, v \in User \cup {None}, i \in IP \cup {None},
                 ok \in BOOLEAN : Begin(r, k, v, i, ok)
  BY <1>8 DEF Tick, vars, Begin, tables
<1>9. QED
  BY <1>1, <1>3, <1>4, <1>5, <1>6, <1>7, <1>8 DEF Next

-----------------------------------------------------------------------------
(***************************************************************************)
(* Theorems.                                                               *)
(***************************************************************************)
LEMMA Starts == Init => CountHolds /\ BelowAll /\ Admission /\ Announced
<1>1. SUFFICES ASSUME Init PROVE CountHolds /\ BelowAll /\ Admission /\ Announced
  OBVIOUS
<1>2. TypeOK /\ failures = <<>>
  BY <1>1, InitControl DEF Control, Init
<1>3. CountHolds
  BY <1>1 DEF Init, CountHolds
<1>4. BelowAll
  <2>1. \A u \in User : Recent(u) = {} /\ lockedUntil[u] = None
    BY <1>1 DEF Init, Recent
  <2>2. QED
    BY <2>1, FS_EmptySet DEF BelowAll, Below
<1>5. Admission
  <2>1. \A i \in IP : RejectedPasswords(i) = {} /\ Admitted(i) = {}
    BY <1>1 DEF Init, RejectedPasswords, Admitted
  <2>2. Cardinality(Request) \in Nat /\ IPMaxFailures \in Nat \ {0}
    BY FS_CardinalityType
  <2>3. QED
    BY <2>1, <2>2, FS_EmptySet DEF Admission
<1>6. Announced
  <2>1. \A u \in User : Announcing(u) = {} /\ notices[u] = 0 /\ locks[u] = 0
    BY <1>1 DEF Init, Announcing
  <2>2. QED
    BY <2>1, FS_EmptySet DEF Announced
<1>7. QED
  BY <1>3, <1>4, <1>5, <1>6

LEMMA Working == Spec => [](Control /\ CountHolds)
<1>1. Init => Control /\ CountHolds
  BY InitControl, Starts
<1>2. Control /\ CountHolds /\ [Next]_vars => (Control /\ CountHolds)'
  BY NextControl, NextCountHolds
<1>3. QED
  BY <1>1, <1>2, PTL DEF Spec

(* Rows, clocks and counts keep their types, and a lock has an end only on *)
(* a locked account (auth.Service and the user queries).                   *)
THEOREM TypeCorrect == Spec => []TypeOK
<1>1. Control => TypeOK
  BY DEF Control
<1>2. QED
  BY <1>1, Working, PTL

(* RF-017 for any limits and any number of concurrent attempts (Login,     *)
(* recordMFAFailure and CompletePasswordReset of auth.Service): an active  *)
(* account is below its limit, as long as a lockout lasts at least the     *)
(* window it counts in.                                                    *)
THEOREM AccountBelowLimit == LockOutlastsWindow => (Spec => []ActiveBelowLimit)
<1>1. SUFFICES ASSUME LockOutlastsWindow PROVE Spec => []ActiveBelowLimit
  OBVIOUS
<1>2. Init => BelowAll
  BY Starts
<1>3. (Control /\ CountHolds) /\ BelowAll /\ [Next]_vars => BelowAll'
  BY <1>1, NextBelow
<1>4. BelowAll => ActiveBelowLimit
  BY BelowSplit
<1>5. QED
  BY <1>2, <1>3, <1>4, Working, PTL DEF Spec

(* The limit per IP of auth.Service.Login is overshot by the requests in   *)
(* flight at most.                                                         *)
THEOREM IPLimitHolds == Spec => []IPFailuresBounded
<1>1. Init => Control /\ Admission
  BY InitControl, Starts
<1>2. Control /\ Admission /\ [Next]_vars => (Control /\ Admission)'
  BY NextControl, NextAdmission
<1>3. Control /\ Admission => IPFailuresBounded
  <2>1. SUFFICES ASSUME Control, Admission, NEW i \in IP
                 PROVE  Cardinality(RejectedPasswords(i)) < IPMaxFailures + Cardinality(Request)
    BY DEF IPFailuresBounded
  <2>2. /\ Cardinality(RejectedPasswords(i)) \in Nat /\ Cardinality(Admitted(i)) \in Nat
        /\ Cardinality(Request) \in Nat /\ IPMaxFailures \in Nat
    BY <2>1, AdmissionFinite DEF Control
  <2>3. QED
    BY <2>1, <2>2 DEF Admission
<1>4. QED
  BY <1>1, <1>2, <1>3, PTL DEF Spec

(* publishAccountLockedEvent runs after the commit: an announced lock is in *)
(* the database.                                                           *)
THEOREM NoticesFollowLocks == Spec => []NoticeOfLock
<1>1. Init => Control /\ Announced
  BY InitControl, Starts
<1>2. Control /\ Announced /\ [Next]_vars => (Control /\ Announced)'
  BY NextControl, NextAnnounced
<1>3. Control /\ Announced => NoticeOfLock
  <2>1. SUFFICES ASSUME Control, Announced, NEW u \in User PROVE notices[u] <= locks[u]
    BY DEF NoticeOfLock
  <2>2. notices[u] \in Nat /\ locks[u] \in Nat
    BY <2>1 DEF Control, TypeOK
  <2>3. QED
    BY <2>1, <2>2, AnnouncingFinite DEF Announced
<1>4. QED
  BY <1>1, <1>2, <1>3, PTL DEF Spec

(* However attempts queue for the row, none moves the end of a lock in     *)
(* force (resolveLock, RecordFailedLoginAttempt and SetUserStatus).        *)
THEOREM LocksStay == Spec => LockNotExtended
<1>1. Control /\ CountHolds /\ [Next]_vars =>
          [\A u \in User : InForce(u) /\ status'[u] = "locked"
                              => lockedUntil'[u] = lockedUntil[u]]_vars
  BY NextLockNotExtended
<1>2. QED
  BY <1>1, Working, PTL DEF Spec, LockNotExtended
=============================================================================
