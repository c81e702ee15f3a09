---------------------------- MODULE MCOAuthGrants ----------------------------
(* Small instances of OAuthGrants: two requests on the same grants, with   *)
(* crashes, and one request at a time with sign-in sessions and expiry.    *)
(* While the grants rest one of these runs: the registry of clients        *)
(* (OAuthClients), the requests that lead to a code (AuthorizeRequests),   *)
(* the keys of a client that signs what it sends (ClientKeys).             *)
EXTENDS OAuthGrants, TLC

CONSTANTS c1, d1, s1, t1, t2, t3, p1, p2, h1, h2, k1, g1, Gone, none,
    Clients, Hosts, Groups, MaxRat   \* the registry's

CONSTANTS b1, b2, u1, u2, a1, r1, r2, r3, k2, MaxLogins, MaxInFlight

VARIABLES
    scenario,                           \* what this behaviour is about
    settings, initial, clients, editing,                           \* of OAuthClients
    app, covered, pushed, asked, issued, logins, cookie, browsing, \* of AuthorizeRequests
    columns, served, cache, cooling, missed, in_flight, thread     \* of ClientKeys

registryVars == <<settings, initial, clients, editing>>
authorizeVars == <<app, covered, pushed, asked, issued, logins, cookie, browsing>>
clientVars == <<columns, served, cache, cooling, missed, in_flight, thread>>

Symmetry == Permutations({t1, t2, t3})

(* Concurrent requests on the same grants.                                 *)
Contended == AllOperations \ {"session", "expiry"}

(* Granting and revoking, without what leaves unredeemed codes behind.     *)
Granting == AllOperations \ {"user", "client"}

OneByOne == INSTANCE OAuthGrants WITH
    Sessions <- {s1}, Operations <- Granting, Crashes <- FALSE

(* Administrators and clients one after the other: on the metadata, on     *)
(* access and credentials, on the policy; and clients that race.           *)
ByScenario ==
    [metadata |-> {"register", "update_configuration", "update_client", "subject"},
     access |-> {"create", "authentication", "secret", "oidc", "groups", "introspection",
                 "role", "switch", "delete", "issue"},
     policy |-> {"register", "settings"},
     racing |-> {"register", "update_configuration", "delete_configuration", "reset_token",
                 "switch"}]

Registry == INSTANCE OAuthClients WITH
    Tokens <- {k1},
    Operations <- UNION {ByScenario[s] : s \in DOMAIN ByScenario}, None <- none, req <- editing

(* What a scenario of the registry leaves out.                             *)
Within ==
    LET here == ByScenario[scenario]
        it == clients'[c1]
    IN  /\ \A p \in Requests : editing'[p] # none => editing'[p].op \in here
        /\ scenario # "racing" => editing'[p2] = none
        /\ "settings" \notin here => UNCHANGED settings /\ initial' = initial
        /\ "create" \notin here /\ it \notin {none, Gone} => it.asked # none
        /\ scenario = "racing" /\ it \notin {none, Gone}
             => it.hosts \subseteq {h1} /\ it.front = none /\ ~it.pairwise /\ ~it.keys
        /\ scenario = "policy" /\ it \notin {none, Gone}
             => /\ it.hosts = {h1} /\ it.front = none /\ ~it.pairwise /\ ~it.keys /\ ~it.par
                /\ it.asked.family = "secret" /\ ~it.device
        /\ "issue" \notin here /\ it \notin {none, Gone} => ~it.tokens

Authorize == INSTANCE AuthorizeRequests WITH
    Browsers <- {b1, b2}, Users <- {u1, u2}, Asks <- {a1}, References <- {r1, r2, r3},
    Uris <- {h1}, Prompts <- {{}, {"login"}, {"none"}, {"consent"}}, Edits <- TRUE,
    client <- app, consented <- covered, at <- browsing

KeysOf == INSTANCE ClientKeys WITH
    Threads <- {b1, b2}, Keys <- {k1, k2}, Uris <- {h1, h2},
    row <- columns, failed <- missed, at <- thread

(* Two browsers, in which the user opens the same references.               *)
Opened ==
    /\ UNCHANGED app
    /\ \A b \in {b1, b2} : cookie'[b].user # u2
    /\ asked'[a1] # None => asked'[a1].prompt \subseteq {"login"} /\ asked'[a1].hint = None

(* One browser, two users, and an administrator who edits the application.  *)
Edited ==
    /\ browsing'[b2] = None /\ cookie'[b2] = cookie[b2]
    /\ app'.par = app.par
    /\ logins' <= 2
    /\ app' # app => app'.active \/ (app'.open /\ app'.uris # {})
    /\ app' # app => app'.open \/ app'.uris # {}

(* Two threads and two documents, each with a key of its own.               *)
Published ==
    /\ UNCHANGED served
    /\ missed' \subseteq {h1}
    /\ columns'.jwks # k2
    /\ thread'[b2] # None => thread'[b2].signed = k1

Authorizing == {"browsers", "edited"}

MCInit ==
    /\ scenario \in {"contended", "one_by_one", "metadata", "access", "policy", "racing", "keys"} \cup Authorizing
    /\ IF scenario = "one_by_one" THEN OneByOne!Init ELSE Init
    /\ IF scenario = "metadata" \/ scenario = "racing"
       THEN /\ settings = [policy |-> "open", all |-> FALSE]
            /\ initial = [t \in {k1} |-> "unused"]
            /\ clients = [c \in {c1} |-> none]
            /\ editing = [p \in Requests |-> none]
       ELSE Registry!Init
    /\ IF scenario = "browsers" THEN Authorize!Init ELSE Authorize!Init /\ ~app.par
    /\ IF scenario = "edited" THEN covered \subseteq {u1} ELSE covered = {}
    /\ KeysOf!Init
    /\ served = [u \in {h1, h2} |-> IF u = h1 THEN k2 ELSE k1]
    /\ columns = [jwks |-> None, uri |-> h1]

MCNext ==
    /\ scenario' = scenario
    /\ \/ /\ \/ scenario = "contended" /\ Next
             \/ scenario = "one_by_one" /\ OneByOne!Next /\ req'[p2] = Idle
          /\ UNCHANGED <<registryVars, authorizeVars, clientVars>>
       \/ /\ scenario \in DOMAIN ByScenario /\ Registry!Next /\ Within
          /\ UNCHANGED <<vars, authorizeVars, clientVars>>
       \/ /\ scenario \in Authorizing /\ Authorize!Next
          /\ IF scenario = "browsers" THEN Opened ELSE Edited
          /\ UNCHANGED <<vars, registryVars, clientVars>>
       \/ /\ scenario = "keys" /\ KeysOf!Next /\ Published
          /\ UNCHANGED <<vars, registryVars, authorizeVars>>

MCSpec == MCInit /\ [][MCNext]_<<vars, scenario, registryVars, authorizeVars, clientVars>>

(* While requests follow one another the client holds tokens, or codes     *)
(* that yield tokens, only while the user's consent stands                 *)
(* (consent._revoke).                                                      *)
GrantedUnderConsentOneByOne == scenario = "one_by_one" => GrantedUnderConsent

(* While requests follow one another no token of a code that was reported  *)
(* as reused is left (validate_and_consume_code).                          *)
ReusedCodeHoldsNoTokensOneByOne == scenario = "one_by_one" => ReusedCodeHoldsNoTokens

(* A pairwise client has a sector, and the front-channel logout URI is at  *)
(* a redirect URI's origin (update_client, set_client_subject_type,        *)
(* update_client_configuration).                                           *)
UrisFit == Registry!UrisFit

(* A pushed request is in one place at a time, also when its reference is   *)
(* opened in two browsers (consume_pushed_request).                         *)
PushedServedOnce == Authorize!PushedServedOnce

(* A code answers what was asked: a new sign-in, and the hinted user        *)
(* (_reauthenticate).                                                       *)
CodeAnswersAsk == Authorize!CodeAnswersAsk

(* A signature is checked with keys of the document the client's row named  *)
(* (_client_jwks, FetchGuard.run).                                          *)
OwnKeysOnly == KeysOf!OwnKeysOnly

=============================================================================
