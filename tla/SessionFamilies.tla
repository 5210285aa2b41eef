-------------------------- MODULE SessionFamilies --------------------------
(***************************************************************************)
(* What the refresh-session component promises, with no trace of SQL,      *)
(* locks or requests (ADR 0005, domain invariant 3).  A session is a       *)
(* family of refresh tokens.  A family is opened once, holds exactly one   *)
(* usable token while it is open, replaces that token by one never issued  *)
(* before, and once closed is never open again.                            *)
(***************************************************************************)
CONSTANTS Family, Token, None

VARIABLES
    phase,      \* phase[f]: has the session been opened, has it ended?
    current,    \* current[f]: the one token that can be rotated, or None
    issued      \* every token handed out so far

avars == <<phase, current, issued>>

Init ==
    /\ phase = [f \in Family |-> "unborn"]
    /\ current = [f \in Family |-> None]
    /\ issued = {}

Open(f, t) ==
    /\ phase[f] = "unborn"
    /\ t \notin issued
    /\ phase' = [phase EXCEPT ![f] = "open"]
    /\ current' = [current EXCEPT ![f] = t]
    /\ issued' = issued \cup {t}

Renew(f, t) ==
    /\ phase[f] = "open"
    /\ t \notin issued
    /\ current' = [current EXCEPT ![f] = t]
    /\ issued' = issued \cup {t}
    /\ UNCHANGED phase

(* A password reset ends several sessions of one account at once.          *)
Close(F) ==
    /\ F # {}
    /\ \A f \in F : phase[f] = "open"
    /\ phase' = [f \in Family |-> IF f \in F THEN "closed" ELSE phase[f]]
    /\ current' = [f \in Family |-> IF f \in F THEN None ELSE current[f]]
    /\ UNCHANGED issued

Next ==
    \/ \E f \in Family, t \in Token : Open(f, t) \/ Renew(f, t)
    \/ \E F \in SUBSET Family : Close(F)

Spec == Init /\ [][Next]_avars
=============================================================================
