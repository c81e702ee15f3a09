-------------------------- MODULE OidcSigningKeys --------------------------
(***************************************************************************)
(* The per-tenant OIDC signing key: lazy provisioning, signing, rotation   *)
(* with an overlap period, and the sweep that clears the retired key       *)
(* (services/oidc/keys.py over database/oidc/signing_keys.py).             *)
(*                                                                         *)
(* One tenant has one row.  Every database call of the service layer is a  *)
(* transaction of its own, so an operation is a sequence of steps between  *)
(* which other requests run.  Keys are numbered in the order in which they *)
(* are generated; 0 stands for SQL null.                                   *)
(***************************************************************************)
EXTENDS Integers

CONSTANTS
    Signers,        \* requests that mint an ID token
    Rotators,       \* requests of a super admin that rotate the key
    Graces,         \* values of grace_period_hours a request may carry
    MinGrace,       \* _MIN_GRACE_PERIOD_HOURS
    MaxGrace,       \* _MAX_GRACE_PERIOD_HOURS
    IdTokenExpiry,  \* ID_TOKEN_EXPIRY, in the unit of the clock
    MaxDelay,       \* longest time one request is in flight
    MaxTime,        \* bound of the clock
    MaxKeys         \* bound on the number of generated keys

ASSUME ConstantsAssumption ==
    /\ Graces \subseteq Nat
    /\ {MinGrace, MaxGrace, IdTokenExpiry, MaxDelay, MaxTime, MaxKeys} \subseteq Nat
    /\ MinGrace > 0
    /\ Signers \cap Rotators = {}

VARIABLES
    now,        \* the clock
    key,        \* the tenant's row of oidc_signing_keys; kid = 0: no row yet
    generated,  \* how many keys were generated so far
    pc,         \* where each request is
    since,      \* when each request began (for a signer: its iat)
    seen,       \* the row each request holds
    graceEnd,   \* the grace period end a rotation has computed
    tokens      \* the issued ID tokens that have not expired: kid and exp

vars == <<now, key, generated, pc, since, seen, graceEnd, tokens>>

Requests == Signers \cup Rotators
Null == 0
Row == [kid : Nat, previous_kid : Nat, rotation_grace_period_ends_at : Nat]
NoRow == [kid |-> Null, previous_kid |-> Null, rotation_grace_period_ends_at |-> Null]
FreshRow(k) == [kid |-> k, previous_kid |-> Null, rotation_grace_period_ends_at |-> Null]

Init ==
    /\ now = 1
    /\ key = NoRow
    /\ generated = 0
    /\ pc = [p \in Requests |-> "idle"]
    /\ since = [p \in Requests |-> 0]
    /\ seen = [p \in Requests |-> NoRow]
    /\ graceEnd = [p \in Requests |-> 0]
    /\ tokens = {}

---------------------------------------------------------------------------
(* A request ends: what it held is gone.                                   *)
End(p) ==
    /\ pc' = [pc EXCEPT ![p] = "idle"]
    /\ since' = [since EXCEPT ![p] = 0]
    /\ seen' = [seen EXCEPT ![p] = NoRow]
    /\ graceEnd' = [graceEnd EXCEPT ![p] = 0]

(* A request begins.  A signer fixes iat and exp before it asks for the    *)
(* key; a rotation validates grace_period_hours when it has the row.       *)
Begin(p) ==
    /\ pc[p] = "idle"
    /\ p \in Rotators => generated < MaxKeys
    /\ pc' = [pc EXCEPT ![p] = "get"]
    /\ since' = [since EXCEPT ![p] = now]
    /\ UNCHANGED <<now, key, generated, seen, graceEnd, tokens>>

(* _get_or_provision: the first select.                                    *)
GetSigningKey(p) ==
    /\ pc[p] = "get"
    /\ IF key.kid = Null
       THEN /\ pc' = [pc EXCEPT ![p] = "provision"]
            /\ UNCHANGED seen
       ELSE /\ pc' = [pc EXCEPT ![p] = "have"]
            /\ seen' = [seen EXCEPT ![p] = key]
    /\ UNCHANGED <<now, key, generated, since, graceEnd, tokens>>

(* create_signing_key: insert ... on conflict (tenant_id) do nothing.  The *)
(* loser of a race between two first fetches gets no row back and selects  *)
(* the winner's.                                                           *)
Provision(p) ==
    /\ pc[p] = "provision"
    /\ IF key.kid = Null
       THEN /\ generated' = generated + 1
            /\ key' = FreshRow(generated + 1)
            /\ seen' = [seen EXCEPT ![p] = FreshRow(generated + 1)]
            /\ pc' = [pc EXCEPT ![p] = "have"]
       ELSE /\ pc' = [pc EXCEPT ![p] = "reselect"]
            /\ UNCHANGED <<key, seen, generated>>
    /\ UNCHANGED <<now, since, graceEnd, tokens>>

Reselect(p) ==
    /\ pc[p] = "reselect"
    /\ seen' = [seen EXCEPT ![p] = key]
    /\ pc' = [pc EXCEPT ![p] = "have"]
    /\ UNCHANGED <<now, key, generated, since, graceEnd, tokens>>

(* issue_id_token: sign with the key held and hand the token out.          *)
IssueIdToken(p) ==
    /\ p \in Signers
    /\ pc[p] = "have"
    /\ tokens' = tokens \cup {[kid |-> seen[p].kid, exp |-> since[p] + IdTokenExpiry]}
    /\ End(p)
    /\ UNCHANGED <<now, key, generated>>

RotationInProgress(row) ==
    /\ row.rotation_grace_period_ends_at # Null
    /\ row.rotation_grace_period_ends_at > now

(* rotate_signing_key, between its select and its update: the in-progress  *)
(* guard on the row read earlier, and the end of the grace period.  A      *)
(* grace_period_hours out of range never gets this far.                    *)
PrepareRotation(p) ==
    /\ p \in Rotators
    /\ pc[p] = "have"
    /\ ~RotationInProgress(seen[p])
    /\ \E hours \in Graces :
        /\ MinGrace <= hours /\ hours <= MaxGrace
        /\ graceEnd' = [graceEnd EXCEPT ![p] = now + hours]
    /\ pc' = [pc EXCEPT ![p] = "rotate"]
    /\ UNCHANGED <<now, key, generated, since, seen, tokens>>

RefuseRotation(p) ==
    /\ p \in Rotators
    /\ pc[p] = "have"
    /\ RotationInProgress(seen[p])
    /\ End(p)
    /\ UNCHANGED <<now, key, generated, tokens>>

(* A slip: the retired key is not kept.                                    *)
RotateSigningKey_ForgetsPrevious(p) ==
    /\ pc[p] = "rotate"
    /\ generated' = generated + 1
    /\ key' = FreshRow(generated + 1)
    /\ End(p)
    /\ UNCHANGED <<now, tokens>>

(* The update has no condition: it installs the new key and writes the row *)
(* read earlier into the previous_* columns.                               *)
RotateSigningKey(p) ==
    /\ pc[p] = "rotate"
    /\ generated' = generated + 1
    /\ key' = [kid |-> generated + 1,
               previous_kid |-> seen[p].kid,
               rotation_grace_period_ends_at |-> graceEnd[p]]
    /\ End(p)
    /\ UNCHANGED <<now, tokens>>

(* clear_previous_signing_key, from the hourly sweep or the operator API.  *)
CleanupPreviousSigningKey ==
    /\ key.rotation_grace_period_ends_at # Null
    /\ key.rotation_grace_period_ends_at < now
    /\ key' = [key EXCEPT !.previous_kid = Null,
                          !.rotation_grace_period_ends_at = Null]
    /\ UNCHANGED <<now, generated, pc, since, seen, graceEnd, tokens>>

(* Time passes; no request is in flight for longer than MaxDelay.          *)
Tick ==
    /\ now < MaxTime
    /\ \A p \in Requests : pc[p] = "idle" \/ now < since[p] + MaxDelay
    /\ now' = now + 1
    /\ tokens' = {t \in tokens : t.exp > now + 1}
    /\ UNCHANGED <<key, generated, pc, since, seen, graceEnd>>

Next ==
    \/ \E p \in Requests :
        \/ Begin(p) \/ GetSigningKey(p) \/ Provision(p) \/ Reselect(p)
        \/ IssueIdToken(p)
        \/ PrepareRotation(p) \/ RefuseRotation(p) \/ RotateSigningKey(p)
    \/ CleanupPreviousSigningKey
    \/ Tick

Spec == Init /\ [][Next]_vars

---------------------------------------------------------------------------
(* get_jwks: the active key, and the previous one while its grace lasts.   *)
JwksOf(row, t) ==
    (IF row.kid # Null THEN {row.kid} ELSE {}) \cup
    (IF /\ row.previous_kid # Null
        /\ row.rotation_grace_period_ends_at # Null
        /\ row.rotation_grace_period_ends_at > t
     THEN {row.previous_kid} ELSE {})

Jwks == JwksOf(key, now)

States == {"idle", "get", "provision", "reselect", "have", "rotate"}

(* Every variable has the shape the code gives it; a request that goes on  *)
(* to sign or to rotate holds a key, even when it lost the race between    *)
(* two first fetches.                                                      *)
TypeOK ==
    /\ now \in Nat
    /\ key \in Row
    /\ generated \in Nat
    /\ pc \in [Requests -> States]
    /\ since \in [Requests -> Nat]
    /\ seen \in [Requests -> Row]
    /\ graceEnd \in [Requests -> Nat]
    /\ tokens \subseteq [kid : Nat \ {Null}, exp : Nat]
    /\ \A p \in Requests :
        /\ pc[p] \in {"have", "rotate"} => seen[p].kid # Null
        /\ pc[p] = "reselect" => key.kid # Null

(* An ID token that has not expired can be verified against the published  *)
(* key set, whatever rotations and sweeps ran since it was signed: the     *)
(* point of rotating with an overlap period.                               *)
LiveTokensVerifiable ==
    \A t \in tokens : now < t.exp => t.kid \in Jwks

(* A retired key leaves the previous_* columns only when its grace period  *)
(* is over, whether the next rotation overwrites it or the sweep clears    *)
(* it.                                                                     *)
GraceRespected ==
    [][key.previous_kid # Null /\ key'.previous_kid # key.previous_kid
        => key.rotation_grace_period_ends_at <= now]_vars
====
