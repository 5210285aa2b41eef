---------------------------- MODULE Notifications ----------------------------
(***************************************************************************)
(* From the broker to the mailbox: the queue notifications, the worker     *)
(* that mails its events one by one, and the queue of dead letters an      *)
(* operator empties.  Queues keep the events they took across crashes; the *)
(* worker remembers in its memory what it has mailed.                      *)
(*                                                                         *)
(* What matters here: a mail cannot be taken back, and a crash, a          *)
(* connection or an SMTP answer may be lost right after it left.           *)
(***************************************************************************)
EXTENDS Naturals, FiniteSets

CONSTANTS
    Event,             \* events that may be published
    None,
    Prefetch,          \* Qos: deliveries the worker holds at once
    DeliveryLimit,     \* x-delivery-limit
    MaxCrashes,        \* bound of the crashes of the worker
    MaxMoves           \* bound of the operator's moves out of the DLQ

ASSUME NotificationsAssumption ==
    /\ None \notin Event
    /\ Prefetch \in Nat \ {0} /\ DeliveryLimit \in Nat \ {0}
    /\ MaxCrashes \in Nat /\ MaxMoves \in Nat

(* What the worker finds in an event: a mail, a reset for an unknown email *)
(* (nothing to send), a body it cannot read, one it cannot render.         *)
Kind == {"mail", "nobody", "malformed", "unrenderable"}

VARIABLES
    kind,                   \* the events published so far
    ready, unacked, dead,   \* where copies of an event are: waiting, with the
                            \*   worker, in notifications.dlq
    returned,               \* x-delivery-count
    up, handling, step,     \* worker: running, event in hand, progress
    seen,                   \* worker: identifiers already delivered
    mails,                  \* history: mails that left, per event
    dropped,                \* history: events answered without a mail
    excuses,                \* history: mails that left and that the worker
                            \*   could not record, or forgot
    crashes, moves

queues  == <<ready, unacked, dead, returned>>
worker  == <<up, handling, step, seen>>
history == <<mails, dropped, excuses>>
vars    == <<kind, queues, worker, history, crashes, moves>>

Published == {e \in Event : kind[e] # None}

TypeOK ==
    /\ kind \in [Event -> Kind \cup {None}]
    /\ ready \in SUBSET Event /\ unacked \in SUBSET Event /\ dead \in SUBSET Event
    /\ Cardinality(unacked) <= Prefetch
    /\ returned \in [Event -> 0..DeliveryLimit - 1]
    /\ up \in BOOLEAN
    /\ handling \in Event \cup {None}
    /\ step \in {"wait", "send", "sent", "marked"}
    /\ seen \in SUBSET Event
    /\ mails \in [Event -> Nat] /\ excuses \in [Event -> Nat]
    /\ dropped \in SUBSET Event
    /\ crashes \in 0..MaxCrashes /\ moves \in 0..MaxMoves
    /\ handling # None => handling \in unacked /\ up
    /\ (handling = None) = (step = "wait")

Init ==
    /\ kind = [e \in Event |-> None]
    /\ ready = {} /\ unacked = {} /\ dead = {}
    /\ returned = [e \in Event |-> 0]
    /\ up = TRUE /\ handling = None /\ step = "wait" /\ seen = {}
    /\ mails = [e \in Event |-> 0] /\ dropped = {} /\ excuses = [e \in Event |-> 0]
    /\ crashes = 0 /\ moves = 0

(* The API's publish; whether its confirm arrives in time is no matter of  *)
(* the queue.                                                              *)
Publish(e, k) ==
    /\ kind[e] = None
    /\ kind' = [kind EXCEPT ![e] = k]
    /\ ready' = ready \cup {e}
    /\ UNCHANGED <<unacked, dead, returned, worker, history, crashes, moves>>

Deliver(e) ==
    /\ up /\ e \in ready \ unacked
    /\ Cardinality(unacked) < Prefetch
    /\ ready' = ready \ {e}
    /\ unacked' = unacked \cup {e}
    /\ UNCHANGED <<kind, dead, returned, worker, history, crashes, moves>>

(* A delivery the queue takes back is delivered again or, after the third  *)
(* attempt, dead.                                                          *)
Limit(S) == {e \in S : returned[e] + 1 >= DeliveryLimit}

ReturnForever(S) ==   \* faulty: no delivery limit
    /\ unacked' = unacked \ S
    /\ ready' = ready \cup S
    /\ UNCHANGED <<dead, returned>>

Return(S) ==
    /\ unacked' = unacked \ S
    /\ ready' = ready \cup (S \ Limit(S))
    /\ dead' = dead \cup Limit(S)
    /\ returned' = [e \in Event |-> IF e \in S \ Limit(S) THEN returned[e] + 1 ELSE returned[e]]

Done == handling' = None /\ step' = "wait"
-----------------------------------------------------------------------------
(***************************************************************************)
(* handle: one delivery after the other.                                   *)
(***************************************************************************)
Waiting(e) == up /\ handling = None /\ e \in unacked

Reject(e) ==
    /\ Waiting(e) /\ kind[e] = "malformed"
    /\ unacked' = unacked \ {e}
    /\ dead' = dead \cup {e}
    /\ UNCHANGED <<kind, ready, returned, worker, history, crashes, moves>>

DropNothing(e) ==   \* faulty: every event is taken for a new one
    /\ Waiting(e) /\ kind[e] # "malformed" /\ e \in seen
    /\ handling' = e /\ step' = "send"
    /\ UNCHANGED <<kind, queues, up, seen, history, crashes, moves>>

DropDuplicate(e) ==
    /\ Waiting(e) /\ kind[e] # "malformed" /\ e \in seen
    /\ unacked' = unacked \ {e}
    /\ UNCHANGED <<kind, ready, dead, returned, worker, history, crashes, moves>>

TakeMarked(e) ==   \* faulty: marked before it is delivered
    /\ Waiting(e) /\ kind[e] # "malformed" /\ e \notin seen
    /\ handling' = e /\ step' = "send"
    /\ seen' = seen \cup {e}
    /\ UNCHANGED <<kind, queues, up, history, crashes, moves>>

Take(e) ==
    /\ Waiting(e) /\ kind[e] # "malformed" /\ e \notin seen
    /\ handling' = e /\ step' = "send"
    /\ UNCHANGED <<kind, queues, up, seen, history, crashes, moves>>

(* A reset requested for an unknown email is delivered by sending nothing. *)
SkipNobody ==
    /\ step = "send" /\ kind[handling] = "nobody"
    /\ dropped' = dropped \cup {handling}
    /\ step' = "sent"
    /\ UNCHANGED <<kind, queues, up, handling, seen, mails, excuses, crashes, moves>>

Send ==
    /\ step = "send" /\ kind[handling] = "mail"
    /\ mails' = [mails EXCEPT ![handling] = @ + 1]
    /\ step' = "sent"
    /\ UNCHANGED <<kind, queues, up, handling, seen, dropped, excuses, crashes, moves>>

SendFailsOn ==   \* faulty: no return after the Nack
    /\ step = "send" /\ kind[handling] # "nobody"
    /\ Return({handling})
    /\ step' = "sent"
    /\ UNCHANGED <<kind, up, handling, seen, history, crashes, moves>>

(* Nack with requeue: nothing left, the event could not be rendered, or    *)
(* the server's answer to DATA was lost with the mail on its way.          *)
SendFails ==
    /\ step = "send" /\ kind[handling] # "nobody"
    /\ \E left \in IF kind[handling] = "mail" THEN {0, 1} ELSE {0} :
          /\ mails' = [mails EXCEPT ![handling] = @ + left]
          /\ excuses' = [excuses EXCEPT ![handling] = @ + left]
    /\ Return({handling})
    /\ Done
    /\ UNCHANGED <<kind, up, seen, dropped, crashes, moves>>

MarkDelivered ==
    /\ step = "sent"
    /\ seen' = seen \cup {handling}
    /\ step' = "marked"
    /\ UNCHANGED <<kind, queues, up, handling, history, crashes, moves>>

Acknowledge ==
    /\ step = "marked"
    /\ unacked' = unacked \ {handling}
    /\ Done
    /\ UNCHANGED <<kind, ready, dead, returned, up, seen, history, crashes, moves>>
-----------------------------------------------------------------------------
(***************************************************************************)
(* Faults, and the operator.                                               *)
(***************************************************************************)
(* The process ends, or the channel is closed and it ends for that: its    *)
(* memory is gone and the queue takes its deliveries back.  In the middle  *)
(* of a send the mail may have left.                                       *)
Crash ==
    /\ up /\ crashes < MaxCrashes
    /\ crashes' = crashes + 1
    /\ \E left \in IF step = "send" /\ kind[handling] = "mail" THEN {0, 1} ELSE {0} :
          /\ mails' = [e \in Event |-> IF e = handling THEN mails[e] + left ELSE mails[e]]
          /\ excuses' = [e \in Event |->
                 IF e \in seen \/ (e = handling /\ step = "sent") THEN excuses[e] + 1
                 ELSE IF e = handling THEN excuses[e] + left
                 ELSE excuses[e]]
    /\ Return(unacked)
    /\ up' = FALSE /\ seen' = {} /\ Done
    /\ UNCHANGED <<kind, dropped, moves>>

Start ==
    /\ ~up /\ up' = TRUE
    /\ UNCHANGED <<kind, queues, handling, step, seen, history, crashes, moves>>

(* alreadyProcessed: an identifier of more than an hour is purged.         *)
Forget(e) ==
    /\ e \in seen /\ handling # e
    /\ seen' = seen \ {e}
    /\ excuses' = [excuses EXCEPT ![e] = @ + 1]
    /\ UNCHANGED <<kind, queues, up, handling, step, mails, dropped, crashes, moves>>

(* "Move messages": counted anew.  A move that is interrupted leaves the   *)
(* message in both queues.                                                 *)
Move(e) ==
    /\ e \in dead \ ready /\ moves < MaxMoves
    /\ moves' = moves + 1
    /\ ready' = ready \cup {e}
    /\ dead' \in {dead, dead \ {e}}
    /\ returned' = [returned EXCEPT ![e] = 0]
    /\ UNCHANGED <<kind, unacked, worker, history, crashes>>
-----------------------------------------------------------------------------
Work ==
    \/ \E e \in Event : Deliver(e) \/ Reject(e) \/ DropDuplicate(e) \/ Take(e)
    \/ SkipNobody \/ Send \/ SendFails \/ MarkDelivered \/ Acknowledge

Next ==
    \/ \E e \in Event, k \in Kind : Publish(e, k)
    \/ Work
    \/ Crash \/ Start
    \/ \E e \in Event : Forget(e) \/ Move(e)

Spec == Init /\ [][Next]_vars

(* The worker's loop goes on while it runs, and Docker restarts it.        *)
FairSpec == Spec /\ WF_vars(Work) /\ WF_vars(Start)
-----------------------------------------------------------------------------
(***************************************************************************)
(* Properties.                                                             *)
(***************************************************************************)
(* An event the broker took is never lost: until it was mailed, or skipped *)
(* by the rule for unknown emails, a copy of it is in a queue.             *)
NothingLost ==
    \A e \in Published :
        \/ e \in ready \cup unacked \cup dead
        \/ mails[e] > 0 \/ e \in dropped

(* smtp.go, main.go: a second mail of an event is owed to a lost SMTP      *)
(* answer, or to a crash or an hour that made the worker forget the first; *)
(* never to the worker's own steps, however many copies arrive.            *)
SecondMailExcused == \A e \in Event : mails[e] <= 1 + excuses[e]

(* Every event is settled: mailed, skipped, or left to the operator, even  *)
(* one that can never be rendered and one the worker crashes on.           *)
EveryEventSettled ==
    \A e \in Event :
        kind[e] # None ~> mails[e] > 0 \/ e \in dropped \/ e \in dead
=============================================================================
