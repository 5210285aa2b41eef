---------------------------- MODULE ServiceKeys ----------------------------
(***************************************************************************)
(* Service keys: an administrator issues and revokes them, machines        *)
(* present them.  Authentication reads a key once, without a lock, and     *)
(* records its use afterwards; a revocation locks the row.                 *)
(*                                                                         *)
(* What matters here: revocations and uses of one key overlap, and the     *)
(* time recorded as a use is read before the row may be waited for.        *)
(***************************************************************************)
EXTENDS Naturals

CONSTANTS
    Key,            \* service keys
    Client,         \* concurrent requests
    Null,
    Throttle,       \* TouchServiceKeyLastUsed: the minute between two writes
    Lifetime,       \* expiresInDays
    MaxTime,        \* bound of the clock
    Lost            \* may a request lose its connection or its context?

ASSUME ServiceKeysAssumption ==
    /\ Null \notin Client \cup Key \cup Nat
    /\ {Throttle, Lifetime, MaxTime} \subseteq Nat
    /\ Lost \in BOOLEAN

VARIABLES
    now,                         \* the clock
    issued, revoked, lastUsed,   \* service_keys: created_at or Null, revoked_at
                                 \*   set, last_used_at or Null
    keyLock,                     \* row locks: the holder, or Null
    step, key, at,               \* per request: step, key, time of the use
    answer,                      \* per request: the last answer
    revocations                  \* history: per key, service_key_revoked events

rows     == <<issued, revoked, lastUsed>>
client   == <<step, key, at, answer>>
keyVars  == <<now, rows, keyLock, client, revocations>>

KeyTypeOK ==
    /\ now \in 0..MaxTime
    /\ issued \in [Key -> 0..MaxTime \cup {Null}]
    /\ revoked \in SUBSET Key
    /\ lastUsed \in [Key -> 0..MaxTime \cup {Null}]
    /\ keyLock \in [Key -> Client \cup {Null}]
    /\ step \in [Client -> {"idle", "read", "touch", "lock", "revoke"}]
    /\ key \in [Client -> Key \cup {Null}]
    /\ at \in [Client -> 0..MaxTime \cup {Null}]
    /\ answer \in [Client -> {"none", "ok", "principal", "unauthenticated", "error"}]
    /\ revocations \in [Key -> Nat]
    /\ \A k \in revoked : issued[k] # Null
    /\ \A k \in Key : lastUsed[k] # Null => issued[k] # Null /\ lastUsed[k] <= now

KeyInit ==
    /\ now = 0
    /\ issued = [k \in Key |-> Null] /\ revoked = {}
    /\ lastUsed = [k \in Key |-> Null]
    /\ keyLock = [k \in Key |-> Null]
    /\ step = [c \in Client |-> "idle"] /\ key = [c \in Client |-> Null]
    /\ at = [c \in Client |-> Null] /\ answer = [c \in Client |-> "none"]
    /\ revocations = [k \in Key |-> 0]

Expired(k) == now >= issued[k] + Lifetime

InForce(k) == issued[k] # Null /\ k \notin revoked /\ ~Expired(k)

Enter(c, k, s) ==
    /\ step[c] = "idle"
    /\ step' = [step EXCEPT ![c] = s]
    /\ key' = [key EXCEPT ![c] = k]
    /\ answer' = [answer EXCEPT ![c] = "none"]
    /\ UNCHANGED <<now, rows, keyLock, at, revocations>>

Leave(c, a) ==
    /\ keyLock' = [k \in Key |-> IF keyLock[k] = c THEN Null ELSE keyLock[k]]
    /\ step' = [step EXCEPT ![c] = "idle"]
    /\ key' = [key EXCEPT ![c] = Null]
    /\ at' = [at EXCEPT ![c] = Null]
    /\ answer' = [answer EXCEPT ![c] = a]

Fail(c, a) == Leave(c, a) /\ UNCHANGED <<now, rows, revocations>>
-----------------------------------------------------------------------------
(* One transaction: the key and its audit event.                           *)
CreateKey(k) ==
    /\ issued[k] = Null
    /\ issued' = [issued EXCEPT ![k] = now]
    /\ UNCHANGED <<now, revoked, lastUsed, keyLock, client, revocations>>

Revoke(c, k) == issued[k] # Null /\ Enter(c, k, "lock")

LockKeyShared(c) ==   \* faulty: read without FOR UPDATE
    /\ step[c] = "lock"
    /\ \/ key[c] \in revoked /\ Fail(c, "ok")
       \/ /\ key[c] \notin revoked
          /\ step' = [step EXCEPT ![c] = "revoke"]
          /\ UNCHANGED <<now, rows, keyLock, key, at, answer, revocations>>

(* GetServiceKeyForUpdate: a key revoked meanwhile is left as it is.       *)
LockKey(c) ==
    /\ step[c] = "lock" /\ keyLock[key[c]] = Null
    /\ \/ key[c] \in revoked /\ Fail(c, "ok")
       \/ /\ key[c] \notin revoked
          /\ keyLock' = [keyLock EXCEPT ![key[c]] = c]
          /\ step' = [step EXCEPT ![c] = "revoke"]
          /\ UNCHANGED <<now, rows, key, at, answer, revocations>>

CommitRevocation(c) ==
    /\ step[c] = "revoke"
    /\ revoked' = revoked \cup {key[c]}
    /\ revocations' = [revocations EXCEPT ![key[c]] = @ + 1]
    /\ Leave(c, "ok")
    /\ UNCHANGED <<now, issued, lastUsed>>
-----------------------------------------------------------------------------
Present(c, k) == issued[k] # Null /\ Enter(c, k, "read")

(* The record, the clock, the decision.  A wrong secret and a missing      *)
(* scope are refused here whatever the key is.                             *)
Check(c) ==
    /\ step[c] = "read"
    /\ \/ Fail(c, "unauthenticated")
       \/ /\ InForce(key[c])
          /\ step' = [step EXCEPT ![c] = "touch"]
          /\ at' = [at EXCEPT ![c] = now]
          /\ UNCHANGED <<now, rows, keyLock, key, answer, revocations>>

Due(c) ==
    \/ lastUsed[key[c]] = Null
    \/ lastUsed[key[c]] + Throttle < at[c]

(* A use is recorded once a minute; the request is good even if the write  *)
(* fails.                                                                  *)
Touch(c) ==
    /\ step[c] = "touch" /\ keyLock[key[c]] = Null
    /\ lastUsed' = IF Due(c) THEN [lastUsed EXCEPT ![key[c]] = at[c]] ELSE lastUsed
    /\ Leave(c, "principal")
    /\ UNCHANGED <<now, issued, revoked, revocations>>

TouchFails(c) == Lost /\ step[c] = "touch" /\ Fail(c, "principal")
-----------------------------------------------------------------------------
Tick ==
    /\ now < MaxTime
    /\ now' = now + 1
    /\ UNCHANGED <<rows, keyLock, client, revocations>>

Drop(c) == Lost /\ step[c] # "idle" /\ Fail(c, "error")

KeyNext ==
    \/ \E k \in Key : CreateKey(k)
    \/ \E c \in Client, k \in Key : Revoke(c, k) \/ Present(c, k)
    \/ \E c \in Client :
          LockKey(c) \/ CommitRevocation(c) \/ Check(c) \/ Touch(c)
             \/ TouchFails(c) \/ Drop(c)
    \/ Tick

KeySpec == KeyInit /\ [][KeyNext]_keyVars
-----------------------------------------------------------------------------
(***************************************************************************)
(* Properties.                                                             *)
(***************************************************************************)
(* What the row of a key tells only moves forward: concurrent revocations  *)
(* write one audit event (store/service_keys.go), and uses, whose times    *)
(* may arrive out of order, never take last_used_at back nor write it more *)
(* than once a minute.                                                     *)
RowsAdvance ==
    [][\A k \in Key :
          /\ revocations'[k] # revocations[k] => k \notin revoked /\ k \in revoked'
          /\ lastUsed[k] # Null /\ lastUsed'[k] # lastUsed[k] =>
                lastUsed'[k] > lastUsed[k] + Throttle]_keyVars
=============================================================================
