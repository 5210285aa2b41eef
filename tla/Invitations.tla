---------------------------- MODULE Invitations ----------------------------
(***************************************************************************)
(* What the invitations of accounts promise, with no trace of SQL, locks,  *)
(* mails or requests (RF-001, domain invariant 7).  An account has at most *)
(* one invitation that can be accepted; a new one replaces it and is never *)
(* one that was issued before; only the open one is accepted, once, and    *)
(* only by an account that is not in.  Administrators let accounts in and  *)
(* out beside that, and an open invitation survives it.                    *)
(***************************************************************************)
EXTENDS Naturals

CONSTANTS User, Token, None

VARIABLES
    open,       \* open[u]: the one invitation u can accept, or None
    issued,     \* every invitation handed out so far
    accepted,   \* accepted[t]: how often t was accepted
    member      \* accounts that are in

avars == <<open, issued, accepted, member>>

(* Some accounts are in before the first invitation.                       *)
Init ==
    /\ open = [u \in User |-> None]
    /\ issued = {}
    /\ accepted = [t \in Token |-> 0]
    /\ member \in SUBSET User

(* A member may be sent one too.                                           *)
Invite(u, t) ==
    /\ t \notin issued
    /\ open' = [open EXCEPT ![u] = t]
    /\ issued' = issued \cup {t}
    /\ UNCHANGED <<accepted, member>>

Accept(u) ==
    /\ open[u] # None
    /\ u \notin member
    /\ open' = [open EXCEPT ![u] = None]
    /\ accepted' = [accepted EXCEPT ![open[u]] = @ + 1]
    /\ member' = member \cup {u}
    /\ UNCHANGED issued

(* Its mail did not leave.                                                 *)
Withdraw(u) ==
    /\ open[u] # None
    /\ open' = [open EXCEPT ![u] = None]
    /\ UNCHANGED <<issued, accepted, member>>

(* An administrator lets the account in, or out.                           *)
Override(u) ==
    /\ member' = IF u \in member THEN member \ {u} ELSE member \cup {u}
    /\ UNCHANGED <<open, issued, accepted>>

Next == \E u \in User :
    \/ \E t \in Token : Invite(u, t)
    \/ Accept(u)
    \/ Withdraw(u)
    \/ Override(u)

Spec == Init /\ [][Next]_avars
=============================================================================
