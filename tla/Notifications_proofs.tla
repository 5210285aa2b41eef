------------------------ MODULE Notifications_proofs ------------------------
(***************************************************************************)
(* Proofs about Notifications for any events, limits and numbers of        *)
(* crashes and moves.                                                      *)
(***************************************************************************)
EXTENDS Notifications, FiniteSetTheorems, TLAPS

(* What the worker has in hand before it sends is new to it; what it marked *)
(* stays in its memory until it is acknowledged.                           *)
InHand ==
    /\ step = "send" => handling \notin seen
    /\ step = "marked" => handling \in seen

(* An event the worker knows to be delivered, in its memory or in hand.    *)
Known(e) == e \in seen \/ (handling = e /\ step \in {"sent", "marked"})

(* Nothing is known that did not leave or was to be dropped.               *)
KnownIsSettled == \A e \in Event : Known(e) => mails[e] > 0 \/ e \in dropped

(* Mails of an event the worker does not know are all excused.             *)
UnknownIsExcused == \A e \in Event : ~Known(e) => mails[e] <= excuses[e]

IInv ==
    /\ TypeOK /\ IsFiniteSet(unacked)
    /\ InHand /\ KnownIsSettled /\ UnknownIsExcused
    /\ NothingLost /\ SecondMailExcused

USE NotificationsAssumption

(* The empty broker and the worker that starts with it.                    *)
LEMMA InitIInv == Init => IInv
<1>1. SUFFICES ASSUME Init PROVE IInv
  OBVIOUS
<1>2. IsFiniteSet(unacked) /\ Cardinality(unacked) = 0
  BY <1>1, FS_EmptySet DEF Init
<1>3. TypeOK
  BY <1>1, <1>2 DEF Init, TypeOK
<1>4. InHand /\ KnownIsSettled /\ UnknownIsExcused /\ NothingLost /\ SecondMailExcused
  BY <1>1 DEF Init, InHand, Known, KnownIsSettled, UnknownIsExcused, NothingLost,
              SecondMailExcused, Published
<1>5. QED
  BY <1>2, <1>3, <1>4 DEF IInv

(* Fewer deliveries in flight are still within the prefetch.               *)
LEMMA FewerUnacked ==
    ASSUME TypeOK, IsFiniteSet(unacked), NEW S, S \subseteq unacked
    PROVE  IsFiniteSet(S) /\ Cardinality(S) <= Prefetch
<1>1. IsFiniteSet(S) /\ Cardinality(S) <= Cardinality(unacked)
  BY FS_Subset
<1>2. Cardinality(S) \in Nat /\ Cardinality(unacked) \in Nat
  BY <1>1, FS_CardinalityType
<1>3. QED
  BY <1>1, <1>2 DEF TypeOK

(* What the queue takes back waits again or is dead, and its count of      *)
(* returns stays below the limit.                                          *)
LEMMA ReturnEffect ==
    ASSUME TypeOK, IsFiniteSet(unacked), NEW S, S \subseteq unacked, Return(S)
    PROVE  /\ ready' \in SUBSET Event /\ unacked' \in SUBSET Event
           /\ dead' \in SUBSET Event
           /\ returned' \in [Event -> 0..DeliveryLimit - 1]
           /\ IsFiniteSet(unacked') /\ Cardinality(unacked') <= Prefetch
           /\ unacked' = unacked \ S
           /\ ready' \cup unacked' \cup dead' = ready \cup unacked \cup dead
<1>1. IsFiniteSet(unacked') /\ Cardinality(unacked') <= Prefetch
  BY FewerUnacked DEF Return
<1>2. returned' \in [Event -> 0..DeliveryLimit - 1]
  <2>1. returned' = [e \in Event |->
            IF e \in S \ Limit(S) THEN returned[e] + 1 ELSE returned[e]]
    BY DEF Return
  <2>2. \A e \in Event : returned[e] \in 0..DeliveryLimit - 1
    BY DEF TypeOK
  <2>3. \A e \in S \ Limit(S) : ~(returned[e] + 1 >= DeliveryLimit)
    BY DEF Limit
  <2>4. \A e \in S \ Limit(S) : returned[e] + 1 \in 0..DeliveryLimit - 1
    BY <2>2, <2>3 DEF TypeOK
  <2>5. QED
    BY <2>1, <2>2, <2>4
<1>3. Limit(S) \subseteq S
  BY DEF Limit
<1>4. QED
  BY <1>1, <1>2, <1>3 DEF Return, TypeOK
-----------------------------------------------------------------------------
(* The steps that move an event between queues without the worker knowing  *)
(* more or less of it.                                                     *)
LEMMA QueueKeeps ==
    ASSUME IInv,
           \/ \E e \in Event, k \in Kind : Publish(e, k)
           \/ \E e \in Event : Deliver(e) \/ Reject(e) \/ DropDuplicate(e) \/ Move(e)
           \/ Start
    PROVE  IInv'
<1>0. /\ TypeOK /\ IsFiniteSet(unacked) /\ InHand
      /\ KnownIsSettled /\ UnknownIsExcused /\ NothingLost /\ SecondMailExcused
  BY DEF IInv
<1>1. UNCHANGED <<handling, step, seen, history>>
  BY DEF Publish, Deliver, Reject, DropDuplicate, Move, Start, worker
<1>2. InHand' /\ KnownIsSettled' /\ UnknownIsExcused' /\ SecondMailExcused'
  BY <1>0, <1>1 DEF InHand, Known, KnownIsSettled, UnknownIsExcused,
                    SecondMailExcused, history
<1>3. ASSUME NEW e \in Event, NEW k \in Kind, Publish(e, k) PROVE IInv'
  <2>1. TypeOK' /\ IsFiniteSet(unacked')
    BY <1>0, <1>3 DEF Publish, TypeOK, worker, history
  <2>2. NothingLost'
    BY <1>0, <1>3, <1>1 DEF Publish, NothingLost, Published, history
  <2>3. QED
    BY <1>2, <2>1, <2>2 DEF IInv
<1>4. ASSUME NEW e \in Event, Deliver(e) PROVE IInv'
  <2>1. /\ unacked' = unacked \cup {e} /\ e \notin unacked
        /\ Cardinality(unacked) < Prefetch
    BY <1>4 DEF Deliver
  <2>2. IsFiniteSet(unacked') /\ Cardinality(unacked') <= Prefetch
    <3>1. IsFiniteSet(unacked') /\ Cardinality(unacked') = Cardinality(unacked) + 1
      BY <1>0, <2>1, FS_AddElement
    <3>2. Cardinality(unacked) \in Nat
      BY <1>0, FS_CardinalityType
    <3>3. QED
      BY <2>1, <3>1, <3>2
  <2>3. TypeOK'
    BY <1>0, <1>4, <2>1, <2>2 DEF Deliver, TypeOK, worker, history
  <2>4. NothingLost'
    BY <1>0, <1>4, <1>1 DEF Deliver, NothingLost, Published, history
  <2>5. QED
    BY <1>2, <2>2, <2>3, <2>4 DEF IInv
<1>5. ASSUME NEW e \in Event, Reject(e) \/ DropDuplicate(e) PROVE IInv'
  <2>1. unacked' = unacked \ {e} /\ handling = None
    BY <1>5 DEF Reject, DropDuplicate, Waiting
  <2>2. IsFiniteSet(unacked') /\ Cardinality(unacked') <= Prefetch
    BY <1>0, <2>1, FewerUnacked
  <2>3. TypeOK'
    BY <1>0, <1>5, <2>1, <2>2 DEF Reject, DropDuplicate, TypeOK, worker, history
  <2>4. NothingLost'
    <3>1. CASE Reject(e)
      BY <1>0, <1>1, <3>1 DEF Reject, NothingLost, Published, history
    <3>2. CASE DropDuplicate(e)
      <4>1. mails[e] > 0 \/ e \in dropped
        BY <1>0, <3>2 DEF DropDuplicate, KnownIsSettled, Known
      <4>2. QED
        BY <1>0, <1>1, <3>2, <4>1 DEF DropDuplicate, NothingLost, Published, history
    <3>3. QED
      BY <1>5, <3>1, <3>2
  <2>5. QED
    BY <1>2, <2>2, <2>3, <2>4 DEF IInv
<1>6. ASSUME NEW e \in Event, Move(e) PROVE IInv'
  <2>1. moves < MaxMoves /\ moves' = moves + 1 /\ dead' \in SUBSET Event
        /\ returned' = [returned EXCEPT ![e] = 0]
    BY <1>0, <1>6 DEF Move, TypeOK
  <2>2. returned' \in [Event -> 0..DeliveryLimit - 1] /\ moves' \in 0..MaxMoves
    BY <1>0, <2>1 DEF TypeOK
  <2>3. TypeOK' /\ IsFiniteSet(unacked')
    BY <1>0, <1>6, <2>1, <2>2 DEF Move, TypeOK, worker, history
  <2>4. NothingLost'
    BY <1>0, <1>1, <1>6 DEF Move, NothingLost, Published, history
  <2>5. QED
    BY <1>2, <2>3, <2>4 DEF IInv
<1>7. CASE Start
  <2>1. TypeOK' /\ IsFiniteSet(unacked') /\ NothingLost'
    BY <1>0, <1>7 DEF Start, TypeOK, NothingLost, Published, queues, history
  <2>2. QED
    BY <1>2, <2>1 DEF IInv
<1>8. QED
  BY <1>3, <1>4, <1>5, <1>6, <1>7

(* A mail leaves only for an event that is in hand and new to the worker.  *)
LEMMA WorkKeeps ==
    ASSUME IInv,
           \/ \E e \in Event : Take(e)
           \/ SkipNobody \/ Send \/ MarkDelivered
    PROVE  IInv'
<1>0. /\ TypeOK /\ IsFiniteSet(unacked) /\ InHand
      /\ KnownIsSettled /\ UnknownIsExcused /\ NothingLost /\ SecondMailExcused
  BY DEF IInv
<1>1. ASSUME NEW e \in Event, Take(e) PROVE IInv'
  <2>1. TypeOK' /\ IsFiniteSet(unacked')
    BY <1>0, <1>1 DEF Take, Waiting, TypeOK, queues, history
  <2>2. InHand' /\ KnownIsSettled' /\ UnknownIsExcused'
    BY <1>0, <1>1 DEF Take, Waiting, TypeOK, InHand, Known, KnownIsSettled,
                      UnknownIsExcused, history
  <2>3. NothingLost' /\ SecondMailExcused'
    BY <1>0, <1>1 DEF Take, NothingLost, SecondMailExcused, Published, queues, history
  <2>4. QED
    BY <2>1, <2>2, <2>3 DEF IInv
<1>2. CASE SkipNobody
  <2>1. handling \in Event
    BY <1>0, <1>2 DEF SkipNobody, TypeOK
  <2>2. TypeOK' /\ IsFiniteSet(unacked')
    BY <1>0, <1>2, <2>1 DEF SkipNobody, TypeOK, queues
  <2>3. InHand' /\ KnownIsSettled' /\ UnknownIsExcused'
    BY <1>0, <1>2, <2>1 DEF SkipNobody, InHand, Known, KnownIsSettled, UnknownIsExcused
  <2>4. NothingLost' /\ SecondMailExcused'
    BY <1>0, <1>2 DEF SkipNobody, NothingLost, SecondMailExcused, Published, queues
  <2>5. QED
    BY <2>2, <2>3, <2>4 DEF IInv
<1>3. CASE Send
  <2>1. /\ handling \in Event /\ ~Known(handling)
        /\ mails' = [mails EXCEPT ![handling] = @ + 1]
    BY <1>0, <1>3 DEF Send, TypeOK, InHand, Known
  <2>2. mails[handling] <= excuses[handling]
    BY <1>0, <2>1 DEF UnknownIsExcused
  <2>3. /\ \A e \in Event : e # handling => mails'[e] = mails[e]
        /\ mails'[handling] = mails[handling] + 1
        /\ mails' \in [Event -> Nat] /\ excuses \in [Event -> Nat]
    BY <1>0, <2>1 DEF TypeOK
  <2>4. \A e \in Event : mails[e] \in Nat /\ excuses[e] \in Nat
    BY <1>0 DEF TypeOK
  <2>5. TypeOK' /\ IsFiniteSet(unacked')
    BY <1>0, <1>3, <2>1, <2>3 DEF Send, TypeOK, queues
  <2>6. InHand' /\ KnownIsSettled' /\ UnknownIsExcused'
    BY <1>0, <1>3, <2>1, <2>3, <2>4 DEF Send, InHand, Known, KnownIsSettled, UnknownIsExcused
  <2>7. NothingLost'
    BY <1>0, <1>3, <2>1, <2>3, <2>4 DEF Send, NothingLost, Published, queues
  <2>8. SecondMailExcused'
    BY <1>0, <1>3, <2>1, <2>2, <2>3, <2>4 DEF Send, SecondMailExcused
  <2>9. QED
    BY <2>5, <2>6, <2>7, <2>8 DEF IInv
<1>4. CASE MarkDelivered
  <2>1. handling \in Event /\ Known(handling)
    BY <1>0, <1>4 DEF MarkDelivered, TypeOK, Known
  <2>2. TypeOK' /\ IsFiniteSet(unacked')
    BY <1>0, <1>4, <2>1 DEF MarkDelivered, TypeOK, queues, history
  <2>3. InHand' /\ KnownIsSettled' /\ UnknownIsExcused'
    BY <1>0, <1>4, <2>1 DEF MarkDelivered, InHand, Known, KnownIsSettled,
                            UnknownIsExcused, history
  <2>4. NothingLost' /\ SecondMailExcused'
    BY <1>0, <1>4 DEF MarkDelivered, NothingLost, SecondMailExcused, Published,
                      queues, history
  <2>5. QED
    BY <2>2, <2>3, <2>4 DEF IInv
<1>5. QED
  BY <1>1, <1>2, <1>3, <1>4

(* An event leaves the worker settled, or goes back to the queue; what the *)
(* worker forgets is counted as an excuse.                                 *)
LEMMA EndKeeps ==
    ASSUME IInv, SendFails \/ Acknowledge \/ Crash \/ \E e \in Event : Forget(e)
    PROVE  IInv'
<1>0. /\ TypeOK /\ IsFiniteSet(unacked) /\ InHand
      /\ KnownIsSettled /\ UnknownIsExcused /\ NothingLost /\ SecondMailExcused
  BY DEF IInv
<1>n. \A e \in Event : mails[e] \in Nat /\ excuses[e] \in Nat
  BY <1>0 DEF TypeOK
<1>1. CASE SendFails
  <2>1. /\ handling \in Event /\ handling \in unacked /\ ~Known(handling)
        /\ handling \notin seen /\ Return({handling}) /\ handling' = None
        /\ step' = "wait"
        /\ UNCHANGED <<kind, up, seen, dropped, crashes, moves>>
    BY <1>0, <1>1 DEF SendFails, TypeOK, InHand, Known, Done
  <2>2. PICK left \in {0, 1} : /\ mails' = [mails EXCEPT ![handling] = @ + left]
                              /\ excuses' = [excuses EXCEPT ![handling] = @ + left]
    BY <1>1 DEF SendFails
  <2>3. /\ mails' \in [Event -> Nat] /\ excuses' \in [Event -> Nat]
        /\ \A e \in Event : \/ mails'[e] = mails[e] /\ excuses'[e] = excuses[e]
                            \/ /\ mails'[e] = mails[e] + left
                               /\ excuses'[e] = excuses[e] + left
    BY <1>0, <2>1, <2>2 DEF TypeOK
  <2>4. TypeOK' /\ IsFiniteSet(unacked')
    BY <1>0, <2>1, <2>3, ReturnEffect DEF TypeOK
  <2>5. InHand' /\ KnownIsSettled' /\ UnknownIsExcused'
    BY <1>0, <1>n, <2>1, <2>3 DEF InHand, Known, KnownIsSettled, UnknownIsExcused
  <2>6. NothingLost'
    BY <1>0, <1>n, <2>1, <2>3, ReturnEffect DEF NothingLost, Published
  <2>7. SecondMailExcused'
    BY <1>0, <1>n, <2>3 DEF SecondMailExcused
  <2>8. QED
    BY <2>4, <2>5, <2>6, <2>7 DEF IInv
<1>2. CASE Acknowledge
  <2>1. handling \in Event /\ Known(handling) /\ handling \in seen
    BY <1>0, <1>2 DEF Acknowledge, TypeOK, Known, InHand
  <2>2. IsFiniteSet(unacked') /\ Cardinality(unacked') <= Prefetch
    BY <1>0, <1>2, FewerUnacked DEF Acknowledge
  <2>3. TypeOK'
    BY <1>0, <1>2, <2>2 DEF Acknowledge, Done, TypeOK, history
  <2>4. InHand' /\ KnownIsSettled' /\ UnknownIsExcused'
    BY <1>0, <1>2, <2>1 DEF Acknowledge, Done, InHand, Known, KnownIsSettled,
                            UnknownIsExcused, history
  <2>5. NothingLost' /\ SecondMailExcused'
    BY <1>0, <1>2, <2>1 DEF Acknowledge, NothingLost, SecondMailExcused, Published,
                            KnownIsSettled, history
  <2>6. QED
    BY <2>2, <2>3, <2>4, <2>5 DEF IInv
<1>3. CASE Crash
  <2>1. /\ Return(unacked) /\ ~up' /\ up' = FALSE /\ seen' = {} /\ handling' = None
        /\ step' = "wait" /\ crashes < MaxCrashes /\ crashes' = crashes + 1
        /\ UNCHANGED <<kind, dropped, moves>>
    BY <1>3 DEF Crash, Done
  <2>2. PICK left \in {0, 1} :
           /\ left = 1 => step = "send"
           /\ mails' = [e \in Event |-> IF e = handling THEN mails[e] + left ELSE mails[e]]
           /\ excuses' = [e \in Event |->
                  IF e \in seen \/ (e = handling /\ step = "sent") THEN excuses[e] + 1
                  ELSE IF e = handling THEN excuses[e] + left
                  ELSE excuses[e]]
    BY <1>3 DEF Crash
  <2>3. \A e \in Event :
           /\ mails'[e] \in Nat /\ excuses'[e] \in Nat
           /\ mails'[e] = IF e = handling THEN mails[e] + left ELSE mails[e]
           /\ Known(e) => mails'[e] = mails[e] /\ excuses'[e] = excuses[e] + 1
           /\ ~Known(e) => excuses'[e] = IF e = handling THEN excuses[e] + left
                                                       ELSE excuses[e]
    <3>1. TAKE e \in Event
    <3>2. mails[e] \in Nat /\ excuses[e] \in Nat
      BY <1>n
    <3>3. mails'[e] = IF e = handling THEN mails[e] + left ELSE mails[e]
      BY <2>2
    <3>4. CASE Known(e)
      <4>1. e \in seen \/ (e = handling /\ step = "sent")
        BY <1>0, <3>4 DEF Known, InHand
      <4>2. excuses'[e] = excuses[e] + 1
        BY <2>2, <4>1
      <4>3. e = handling => left = 0
        BY <1>0, <2>2, <3>4 DEF Known, InHand
      <4>4. QED
        BY <3>2, <3>3, <3>4, <4>2, <4>3
    <3>5. CASE ~Known(e)
      <4>1. ~(e \in seen \/ (e = handling /\ step = "sent"))
        BY <3>5 DEF Known
      <4>2. excuses'[e] = IF e = handling THEN excuses[e] + left ELSE excuses[e]
        BY <2>2, <4>1
      <4>3. QED
        BY <2>2, <3>2, <3>3, <3>5, <4>2
    <3>6. QED
      BY <3>4, <3>5
  <2>4. mails' \in [Event -> Nat] /\ excuses' \in [Event -> Nat]
    BY <2>2, <2>3
  <2>5. TypeOK' /\ IsFiniteSet(unacked')
    <3>1. crashes' \in 0..MaxCrashes
      BY <1>0, <2>1 DEF TypeOK
    <3>2. /\ ready' \in SUBSET Event /\ unacked' \in SUBSET Event
          /\ dead' \in SUBSET Event
          /\ returned' \in [Event -> 0..DeliveryLimit - 1]
          /\ IsFiniteSet(unacked') /\ Cardinality(unacked') <= Prefetch
      BY <1>0, <2>1, ReturnEffect
    <3>3. QED
      BY <1>0, <2>1, <2>4, <3>1, <3>2 DEF TypeOK
  <2>6. UnknownIsExcused' /\ SecondMailExcused'
    BY <1>0, <1>n, <2>3 DEF UnknownIsExcused, SecondMailExcused
  <2>7. InHand' /\ KnownIsSettled'
    BY <2>1, <1>0 DEF InHand, Known, KnownIsSettled, TypeOK
  <2>8. NothingLost'
    BY <1>0, <1>n, <2>1, <2>3, ReturnEffect DEF NothingLost, Published
  <2>9. QED
    BY <2>5, <2>6, <2>7, <2>8 DEF IInv
<1>4. ASSUME NEW e \in Event, Forget(e) PROVE IInv'
  <2>1. /\ seen' = seen \ {e} /\ excuses' = [excuses EXCEPT ![e] = @ + 1] /\ handling # e
        /\ UNCHANGED <<kind, queues, up, handling, step, mails, dropped, crashes, moves>>
    BY <1>4 DEF Forget
  <2>2. /\ excuses' \in [Event -> Nat] /\ excuses'[e] = excuses[e] + 1
        /\ \A d \in Event : d # e => excuses'[d] = excuses[d]
    BY <1>0, <1>n, <2>1 DEF TypeOK
  <2>3. TypeOK' /\ IsFiniteSet(unacked')
    BY <1>0, <2>1, <2>2 DEF TypeOK, queues
  <2>4. InHand' /\ KnownIsSettled' /\ NothingLost'
    BY <1>0, <2>1 DEF InHand, Known, KnownIsSettled, NothingLost, Published, queues
  <2>5. UnknownIsExcused' /\ SecondMailExcused'
    BY <1>0, <1>n, <2>1, <2>2 DEF Known, UnknownIsExcused, SecondMailExcused
  <2>6. QED
    BY <2>3, <2>4, <2>5 DEF IInv
<1>5. QED
  BY <1>1, <1>2, <1>3, <1>4

(* IInv is inductive.                                                      *)
LEMMA NextIInv == IInv /\ [Next]_vars => IInv'
<1>1. CASE UNCHANGED vars
  BY <1>1 DEF IInv, TypeOK, InHand, Known, KnownIsSettled, UnknownIsExcused,
              NothingLost, SecondMailExcused, Published, vars, queues, worker, history
<1>2. QED
  BY <1>1, QueueKeeps, WorkKeeps, EndKeeps DEF Next, Work

LEMMA Inductive == Spec => []IInv
  BY InitIInv, NextIInv, PTL DEF Spec
-----------------------------------------------------------------------------
(* The queues keep their types and never hold more deliveries than the     *)
(* prefetch, whatever the limits are.                                      *)
THEOREM TypeCorrect == Spec => []TypeOK
<1>1. IInv => TypeOK
  BY DEF IInv
<1>2. QED
  BY Inductive, <1>1, PTL

(* cmd/worker: an event is acknowledged only once it was mailed or is      *)
(* nobody's, for any number of events, crashes and moves.                  *)
THEOREM NoEventIsLost == Spec => []NothingLost
<1>1. IInv => NothingLost
  BY DEF IInv
<1>2. QED
  BY Inductive, <1>1, PTL

(* A second mail always has an excuse, however many copies of an event     *)
(* arrive.                                                                 *)
THEOREM MailsAreExcused == Spec => []SecondMailExcused
<1>1. IInv => SecondMailExcused
  BY DEF IInv
<1>2. QED
  BY Inductive, <1>1, PTL
=============================================================================
