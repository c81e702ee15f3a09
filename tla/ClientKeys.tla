------------------------------ MODULE ClientKeys ------------------------------
(***************************************************************************)
(* How one process finds the keys of a private_key_jwt client: given in    *)
(* its row, or behind its jwks_uri, cached for an hour, fetched again at   *)
(* most once a minute when no key fits, one fetch at a time, and not for   *)
(* thirty seconds after a failure (FetchGuard).                            *)
(*                                                                         *)
(* Threads serve requests of the client; a fetch takes time, during which  *)
(* the client may publish other keys and an administrator may point the    *)
(* client at another document.  A key set is the one key in it.            *)
(***************************************************************************)
EXTENDS Naturals, FiniteSets

CONSTANTS
    Threads,
    Keys,        \* keys the client signs with
    Uris,        \* addresses of key documents
    MaxInFlight, \* FetchGuard's limit
    None

VARIABLES
    row,         \* [jwks, uri]: the client's columns, one of them None
    served,      \* key in the document at each URI, None when it cannot be had
    cache,       \* _jwks_cache: [uri, key] or None; its hour is over when Expire takes it
    cooling,     \* _last_refresh is less than a minute ago
    failed,      \* URIs whose failure is remembered
    in_flight,   \* fetches FetchGuard counts
    at           \* request of each thread, None when there is none

vars == <<row, served, cache, cooling, failed, in_flight, at>>

Request == [step : {"lookup", "fetch", "store", "verify"}, signed : Keys,
            row : [jwks : Keys \cup {None}, uri : Uris \cup {None}],
            refresh : BOOLEAN, keys : Keys \cup {None}, from : Uris \cup {None}]

TypeOK ==
    /\ row \in [jwks : Keys \cup {None}, uri : Uris \cup {None}]
    /\ served \in [Uris -> Keys \cup {None}]
    /\ cache \in [uri : Uris, key : Keys] \cup {None}
    /\ cooling \in BOOLEAN
    /\ failed \subseteq Uris
    /\ in_flight \in 0..Cardinality(Threads)
    /\ at \in [Threads -> Request \cup {None}]

Init ==
    /\ row \in [jwks : {None}, uri : Uris] \cup [jwks : Keys, uri : {None}]
    /\ served \in [Uris -> Keys]
    /\ cache = None
    /\ cooling = FALSE
    /\ failed = {}
    /\ in_flight = 0
    /\ at = [t \in Threads |-> None]

-----------------------------------------------------------------------------
At(t, step) == at[t] # None /\ at[t].step = step

Close(t) == at' = [at EXCEPT ![t] = None]

(* authenticate_client_assertion, verify_client_signed_jwt: the client is  *)
(* read, then its keys are looked for.                                     *)
_check_assertion(t, k) ==
    /\ at[t] = None
    /\ at' = [at EXCEPT ![t] = [step |-> "lookup", signed |-> k, row |-> row,
                                refresh |-> FALSE, keys |-> None, from |-> None]]
    /\ UNCHANGED <<row, served, cache, cooling, failed, in_flight>>

Have(t, k, u) ==
    at' = [at EXCEPT ![t].step = "verify", ![t].keys = k, ![t].from = u]

CacheHit_AnyUri(uri) == cache # None

CacheHit(uri) == cache # None /\ cache.uri = uri

(* Under the lock: keys of the row, the cache, or the way to a fetch.  A   *)
(* refresh is refused within a minute of the last.                         *)
_client_jwks(t) ==
    LET mine == at[t].row
    IN  /\ At(t, "lookup")
        /\ CASE mine.jwks # None ->
                  /\ IF at[t].refresh THEN Close(t) ELSE Have(t, mine.jwks, None)
                  /\ UNCHANGED cooling
             [] mine.jwks = None /\ at[t].refresh ->
                  IF cooling
                  THEN Close(t) /\ UNCHANGED cooling
                  ELSE at' = [at EXCEPT ![t].step = "fetch"] /\ cooling' = TRUE
             [] OTHER ->
                  /\ IF CacheHit(mine.uri)
                     THEN Have(t, cache.key, cache.uri)
                     ELSE at' = [at EXCEPT ![t].step = "fetch"]
                  /\ UNCHANGED cooling
        /\ UNCHANGED <<row, served, cache, failed, in_flight>>

(* FetchGuard.run, its first critical section: a remembered failure or a   *)
(* full house refuses the request.                                         *)
run(t) ==
    LET u == at[t].row.uri
    IN  /\ At(t, "fetch") /\ at[t].from = None
        /\ IF u \in failed \/ in_flight >= MaxInFlight
           THEN Close(t) /\ UNCHANGED in_flight
           ELSE /\ in_flight' = in_flight + 1
                /\ at' = [at EXCEPT ![t].from = u]
        /\ UNCHANGED <<row, served, cache, cooling, failed>>

(* The document as it is when it is read; a failure is remembered.         *)
_fetch_jwks(t) ==
    LET u == at[t].row.uri
    IN  /\ At(t, "fetch") /\ at[t].from # None
        /\ in_flight' = in_flight - 1
        /\ \/ /\ served[u] # None
              /\ at' = [at EXCEPT ![t].step = "store", ![t].keys = served[u]]
              /\ UNCHANGED failed
           \/ /\ Close(t)
              /\ failed' = failed \cup {u}
        /\ UNCHANGED <<row, served, cache, cooling>>

(* After the guard has let go.                                             *)
StoreKeys(t) ==
    /\ At(t, "store")
    /\ cache' = [uri |-> at[t].row.uri, key |-> at[t].keys]
    /\ Have(t, at[t].keys, at[t].row.uri)
    /\ UNCHANGED <<row, served, cooling, failed, in_flight>>

(* Accepted, or looked for once more, or refused.                          *)
_verify_with_keys(t) ==
    /\ At(t, "verify")
    /\ IF at[t].keys = at[t].signed \/ at[t].refresh
       THEN Close(t)
       ELSE at' = [at EXCEPT ![t].step = "lookup", ![t].refresh = TRUE, ![t].keys = None,
                             ![t].from = None]
    /\ UNCHANGED <<row, served, cache, cooling, failed, in_flight>>

(* set_client_authentication, update_client_configuration: other keys, and *)
(* this process forgets what it knew of the client.                        *)
clear_jwks_cache(new) ==
    /\ new \in [jwks : {None}, uri : Uris] \cup [jwks : Keys, uri : {None}]
    /\ row' = new
    /\ cache' = None
    /\ cooling' = FALSE
    /\ failed' = {}
    /\ UNCHANGED <<served, in_flight, at>>

(* The same by another process: this one keeps its cache.                  *)
Elsewhere(new) ==
    /\ new \in [jwks : {None}, uri : Uris] \cup [jwks : Keys, uri : {None}]
    /\ row' = new
    /\ UNCHANGED <<served, cache, cooling, failed, in_flight, at>>

(* The client's own site.                                                  *)
Publish(u, k) ==
    /\ served' = [served EXCEPT ![u] = k]
    /\ UNCHANGED <<row, cache, cooling, failed, in_flight, at>>

(* An hour, a minute, thirty seconds pass.                                 *)
Expire ==
    /\ \/ cache # None /\ cache' = None /\ UNCHANGED <<cooling, failed>>
       \/ cooling /\ cooling' = FALSE /\ UNCHANGED <<cache, failed>>
       \/ \E u \in failed : failed' = failed \ {u} /\ UNCHANGED <<cache, cooling>>
    /\ UNCHANGED <<row, served, in_flight, at>>

Next ==
    \/ \E t \in Threads :
         \/ \E k \in Keys : _check_assertion(t, k)
         \/ _client_jwks(t)
         \/ run(t)
         \/ _fetch_jwks(t)
         \/ StoreKeys(t)
         \/ _verify_with_keys(t)
    \/ \E new \in [jwks : Keys \cup {None}, uri : Uris \cup {None}] :
         clear_jwks_cache(new) \/ Elsewhere(new)
    \/ \E u \in Uris, k \in Keys \cup {None} : Publish(u, k)
    \/ Expire

Spec == Init /\ [][Next]_vars

-----------------------------------------------------------------------------
(* A signature is only checked with a key of the document the client's row *)
(* named when the request read it, whatever fetch of an earlier document   *)
(* was still under way when the row changed, and in whichever process it   *)
(* was changed; and FetchGuard counts exactly the fetches under way and    *)
(* never more than its limit (_client_jwks, FetchGuard.run).               *)
OwnKeysOnly ==
    /\ \A t \in Threads : At(t, "verify") => at[t].from = at[t].row.uri
    /\ in_flight = Cardinality({t \in Threads : At(t, "fetch") /\ at[t].from # None})
    /\ in_flight <= MaxInFlight
=============================================================================
