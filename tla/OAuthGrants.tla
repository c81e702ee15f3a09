----------------------------- MODULE OAuthGrants -----------------------------
(***************************************************************************)
(* What one user has granted one OAuth2 client: consent, authorization     *)
(* codes, device codes, refresh and access tokens, and everything that     *)
(* ends them (routers/oauth2.py, services/oauth2*.py, services/oidc/,      *)
(* database/oauth2/).                                                      *)
(*                                                                         *)
(* A request runs one database call per step: each is a transaction of its *)
(* own, and other requests act in between.  The id of a code or of a       *)
(* device request is the grant id of the tokens issued from it.            *)
(***************************************************************************)
EXTENDS Naturals

CONSTANTS
    Codes,       \* ids of authorization codes
    Devices,     \* ids of device authorization requests
    Tokens,      \* ids of refresh tokens
    Sessions,    \* session identifiers (sid) of the user's sign-ins
    Requests,    \* HTTP requests and jobs in progress
    Operations,  \* the operations the requests perform
    Crashes,     \* may a request end between two statements?
    None         \* no grant, token or session

Grants == Codes \cup Devices

AllOperations == {"authorize", "device", "token", "revoke", "consent", "session",
                  "user", "client", "expiry"}

ASSUME GrantConstants ==
    /\ Codes \cap Devices = {}
    /\ None \notin Grants \cup Tokens \cup Sessions
    /\ Operations \subseteq AllOperations
    /\ Crashes \in BOOLEAN

VARIABLES
    active,    \* is the user's account active?
    client,    \* oauth2_clients.is_active
    consent,   \* does the user's consent grant for the client exist?
    ended,     \* sessions that have ended
    grant,     \* the row of each code and device request
    lapsed,    \* codes and device requests past expires_at
    sid,       \* the session a code was issued in, None unless it asks for openid
    refresh,   \* rows of refresh tokens: id and grant_id
    access,    \* live access tokens: grant_id and parent_token_id
    expired,   \* grants whose refresh token is past its (carried forward) expiry
    reused,    \* codes reported as redeemed twice
    req        \* Requests -> the statement the request runs next, and on what

rowVars == <<active, client, consent, ended, grant, lapsed, sid, refresh, access, expired, reused>>
vars == <<rowVars, req>>

GrantStates == {"unused", "open", "pending", "approved", "denied", "redeemed", "gone"}
Statements == {"idle", "consent", "code", "decided", "consume", "reuse", "redeem", "refresh",
               "access", "rotate", "delete", "user_client", "devices", "tokens", "consents",
               "session", "client_tokens", "client_consents"}
Refresh == [id : Tokens, grant : Grants]
Access == [grant : Grants, parent : Tokens]
Request == [pc : Statements, g : Grants \cup {None}, t : Tokens \cup {None},
            s : Sessions \cup {None}]

Idle == [pc |-> "idle", g |-> None, t |-> None, s |-> None]

TypeOK ==
    /\ active \in BOOLEAN /\ client \in BOOLEAN /\ consent \in BOOLEAN
    /\ ended \subseteq Sessions
    /\ grant \in [Grants -> GrantStates]
    /\ lapsed \subseteq Grants
    /\ sid \in [Grants -> Sessions \cup {None}]
    /\ refresh \subseteq Refresh
    /\ access \subseteq Access
    /\ expired \subseteq Grants
    /\ reused \subseteq Grants
    /\ req \in [Requests -> Request]

Init ==
    /\ active = TRUE /\ client = TRUE /\ consent = FALSE
    /\ ended = {}
    /\ grant = [g \in Grants |-> "unused"]
    /\ lapsed = {}
    /\ sid = [g \in Grants |-> None]
    /\ refresh = {} /\ access = {}
    /\ expired = {}
    /\ reused = {}
    /\ req = [p \in Requests |-> Idle]

At(p, statement) == req[p].pc = statement
Goto(p, statement) == req' = [req EXCEPT ![p].pc = statement]
Done(p) == req' = [req EXCEPT ![p] = Idle]
Start(p, statement, g, t, s) ==
    /\ req[p] = Idle
    /\ req' = [req EXCEPT ![p] = [pc |-> statement, g |-> g, t |-> t, s |-> s]]

HasRefresh(t) == \E r \in refresh : r.id = t
RefreshOf(g) == {r \in refresh : r.grant = g}
AccessOf(g) == {a \in access : a.grant = g}

(* The id of a row to insert: one that no row and no request uses.         *)
Fresh(t) == ~HasRefresh(t) /\ \A q \in Requests : req[q].t # t

(* Deleting a refresh token deletes the access tokens that name it as      *)
(* parent (foreign key, on delete cascade).                                *)
DeleteRefresh(rows) ==
    /\ refresh' = refresh \ rows
    /\ access' = {a \in access : \A r \in rows : r.id # a.parent}

DeleteAllTokens == refresh' = {} /\ access' = {}

-----------------------------------------------------------------------------
(* The authorization endpoint.                                             *)

_authenticate_client == client

consent_covers == consent

SignedIn(s) == active /\ s \notin ended

(* A request the remembered consent covers is answered without the page.   *)
authorize(p, s) ==
    /\ "authorize" \in Operations
    /\ SignedIn(s) /\ client
    /\ consent_covers
    /\ Start(p, "code", None, None, s)
    /\ UNCHANGED rowVars

(* The user allows the request on the consent page.                        *)
authorize_grant(p, s) ==
    /\ "authorize" \in Operations
    /\ SignedIn(s) /\ client
    /\ Start(p, "consent", None, None, s)
    /\ UNCHANGED rowVars

record_consent(p) ==
    /\ \/ At(p, "consent") /\ Goto(p, "code")
       \/ At(p, "decided") /\ Done(p)
    /\ consent' = TRUE
    /\ UNCHANGED <<active, client, ended, grant, lapsed, sid, refresh, access, expired, reused>>

create_authorization_code(p, g) ==
    /\ At(p, "code")
    /\ g \in Codes /\ grant[g] = "unused"
    /\ grant' = [grant EXCEPT ![g] = "open"]
    /\ sid' = [sid EXCEPT ![g] = req[p].s]
    /\ Done(p)
    /\ UNCHANGED <<active, client, consent, ended, lapsed, refresh, access, expired, reused>>

-----------------------------------------------------------------------------
(* The device authorization endpoint and the page where the user decides.  *)

start_device_authorization(g) ==
    /\ "device" \in Operations
    /\ _authenticate_client
    /\ g \in Devices /\ grant[g] = "unused"
    /\ grant' = [grant EXCEPT ![g] = "pending"]
    /\ UNCHANGED <<active, client, consent, ended, lapsed, sid, refresh, access, expired, reused, req>>

decide_request(p, g, approved) ==
    /\ "device" \in Operations
    /\ active /\ client
    /\ grant[g] = "pending" /\ g \notin lapsed
    /\ grant' = [grant EXCEPT ![g] = IF approved THEN "approved" ELSE "denied"]
    /\ IF approved THEN Start(p, "decided", g, None, None) ELSE UNCHANGED req
    /\ UNCHANGED <<active, client, consent, ended, lapsed, sid, refresh, access, expired, reused>>

-----------------------------------------------------------------------------
(* The token endpoint.  Each grant type authenticates the client and looks *)
(* up what is presented; the writes follow one by one.                     *)

token_endpoint_code(p, g) ==
    /\ "token" \in Operations
    /\ _authenticate_client
    /\ g \in Codes /\ grant[g] \in {"open", "redeemed"} /\ g \notin lapsed
    /\ Start(p, IF grant[g] = "open" THEN "consume" ELSE "reuse", g, None, None)
    /\ UNCHANGED rowVars

validate_and_consume_code(p) ==
    /\ At(p, "consume")
    /\ IF grant[req[p].g] = "open"
         THEN /\ grant' = [grant EXCEPT ![req[p].g] = "redeemed"]
              /\ Goto(p, "refresh")
         ELSE Goto(p, "reuse") /\ UNCHANGED grant
    /\ UNCHANGED <<active, client, consent, ended, lapsed, sid, refresh, access, expired, reused>>

revoke_grant_tokens_ReportOnly(p) ==
    /\ At(p, "reuse")
    /\ reused' = reused \cup {req[p].g}
    /\ Done(p)
    /\ UNCHANGED <<active, client, consent, ended, grant, lapsed, sid, refresh, access, expired>>

revoke_grant_tokens(p) ==
    /\ At(p, "reuse")
    /\ refresh' = refresh \ RefreshOf(req[p].g)
    /\ access' = access \ AccessOf(req[p].g)
    /\ reused' = reused \cup {req[p].g}
    /\ Done(p)
    /\ UNCHANGED <<active, client, consent, ended, grant, lapsed, sid, expired>>

token_endpoint_device(p, g) ==
    /\ "token" \in Operations
    /\ _authenticate_client
    /\ g \in Devices /\ grant[g] = "approved" /\ g \notin lapsed
    /\ Start(p, "redeem", g, None, None)
    /\ UNCHANGED rowVars

redeem_device_code(p) ==
    /\ At(p, "redeem")
    /\ IF grant[req[p].g] = "approved" /\ req[p].g \notin lapsed
         THEN /\ grant' = [grant EXCEPT ![req[p].g] = "redeemed"]
              /\ Goto(p, "refresh")
         ELSE Done(p) /\ UNCHANGED grant
    /\ UNCHANGED <<active, client, consent, ended, lapsed, sid, refresh, access, expired, reused>>

create_refresh_token(p, t) ==
    /\ At(p, "refresh")
    /\ Fresh(t)
    /\ refresh' = refresh \cup {[id |-> t, grant |-> req[p].g]}
    /\ req' = [req EXCEPT ![p].pc = "access", ![p].t = t]
    /\ UNCHANGED <<active, client, consent, ended, grant, lapsed, sid, access, expired, reused>>

create_access_token_NoForeignKey(p) ==
    /\ At(p, "access")
    /\ access' = access \cup {[grant |-> req[p].g, parent |-> req[p].t]}
    /\ Done(p)
    /\ UNCHANGED <<active, client, consent, ended, grant, lapsed, sid, refresh, expired, reused>>

(* The insert fails when the parent is gone, and with it the request.      *)
create_access_token(p) ==
    /\ At(p, "access")
    /\ access' = access \cup {a \in {[grant |-> req[p].g, parent |-> req[p].t]} :
                                HasRefresh(req[p].t)}
    /\ Done(p)
    /\ UNCHANGED <<active, client, consent, ended, grant, lapsed, sid, refresh, expired, reused>>

token_endpoint_refresh(p, r) ==
    /\ "token" \in Operations
    /\ _authenticate_client
    /\ r.grant \notin expired
    /\ Start(p, "rotate", r.grant, r.id, None)
    /\ UNCHANGED rowVars

rotate_refresh_token_KeepsOld(p, n) ==
    /\ At(p, "rotate")
    /\ IF HasRefresh(req[p].t)
         THEN /\ Fresh(n)
              /\ refresh' = refresh \cup {[id |-> n, grant |-> req[p].g]}
              /\ req' = [req EXCEPT ![p].pc = "access", ![p].t = n]
         ELSE Done(p) /\ UNCHANGED refresh
    /\ UNCHANGED <<active, client, consent, ended, grant, lapsed, sid, access, expired, reused>>

(* One transaction under a lock of the old row: insert the new token, hand *)
(* the access tokens over to it, delete the old one.                       *)
rotate_refresh_token(p, n) ==
    /\ At(p, "rotate")
    /\ IF HasRefresh(req[p].t)
         THEN /\ Fresh(n)
              /\ refresh' = {r \in refresh : r.id # req[p].t}
                              \cup {[id |-> n, grant |-> req[p].g]}
              /\ access' = {IF a.parent = req[p].t THEN [a EXCEPT !.parent = n] ELSE a :
                              a \in access}
              /\ req' = [req EXCEPT ![p].pc = "access", ![p].t = n]
         ELSE Done(p) /\ UNCHANGED <<refresh, access>>
    /\ UNCHANGED <<active, client, consent, ended, grant, lapsed, sid, expired, reused>>

-----------------------------------------------------------------------------
(* The revocation endpoint looks a token up and deletes it by id.          *)

revoke_token(p, r) ==
    /\ "revoke" \in Operations
    /\ _authenticate_client
    /\ r.grant \notin expired
    /\ Start(p, "delete", r.grant, r.id, None)
    /\ UNCHANGED rowVars

delete_token(p) ==
    /\ At(p, "delete")
    /\ DeleteRefresh({r \in refresh : r.id = req[p].t})
    /\ Done(p)
    /\ UNCHANGED <<active, client, consent, ended, grant, lapsed, sid, expired, reused>>

revoke_access_token(a) ==
    /\ "revoke" \in Operations
    /\ _authenticate_client
    /\ access' = access \ {a}
    /\ UNCHANGED <<active, client, consent, ended, grant, lapsed, sid, refresh, expired, reused, req>>

-----------------------------------------------------------------------------
(* The user or an admin revokes the consent; a second revocation finds no  *)
(* row and stops.                                                          *)

revoke_consent(p) ==
    /\ "consent" \in Operations
    /\ consent
    /\ consent' = FALSE
    /\ Start(p, "user_client", None, None, None)
    /\ UNCHANGED <<active, client, ended, grant, lapsed, sid, refresh, access, expired, reused>>

revoke_user_client_tokens_TokensOnly(p) ==
    /\ At(p, "user_client")
    /\ DeleteAllTokens
    /\ Done(p)
    /\ UNCHANGED <<active, client, consent, ended, grant, lapsed, sid, expired, reused>>

revoke_user_client_tokens(p) ==
    /\ At(p, "user_client")
    /\ grant' = [g \in Grants |-> IF grant[g] \in {"open", "approved"} THEN "gone" ELSE grant[g]]
    /\ DeleteAllTokens
    /\ Done(p)
    /\ UNCHANGED <<active, client, consent, ended, lapsed, sid, expired, reused>>

-----------------------------------------------------------------------------
(* Deactivation of the user: four statements.                              *)

inactivate_user(p) ==
    /\ "user" \in Operations
    /\ active
    /\ active' = FALSE
    /\ Start(p, "devices", None, None, None)
    /\ UNCHANGED <<client, consent, ended, grant, lapsed, sid, refresh, access, expired, reused>>

revoke_all_user_tokens(p) ==
    /\ At(p, "devices")
    /\ grant' = [g \in Grants |-> IF g \in Devices /\ grant[g] = "approved" THEN "gone"
                                                                           ELSE grant[g]]
    /\ Goto(p, "tokens")
    /\ UNCHANGED <<active, client, consent, ended, lapsed, sid, refresh, access, expired, reused>>

revoke_all_user_tokens_rows(p) ==
    /\ At(p, "tokens")
    /\ DeleteAllTokens
    /\ Goto(p, "consents")
    /\ UNCHANGED <<active, client, consent, ended, grant, lapsed, sid, expired, reused>>

delete_consent_grants_for_user(p) ==
    /\ At(p, "consents")
    /\ consent' = FALSE
    /\ Done(p)
    /\ UNCHANGED <<active, client, ended, grant, lapsed, sid, refresh, access, expired, reused>>

reactivate_user ==
    /\ "user" \in Operations
    /\ ~active
    /\ active' = TRUE
    /\ UNCHANGED <<client, consent, ended, grant, lapsed, sid, refresh, access, expired, reused, req>>

-----------------------------------------------------------------------------
(* The end of a session, and the deactivation of the client.               *)

end_oidc_session(p, s) ==
    /\ "session" \in Operations
    /\ s \notin ended
    /\ ended' = ended \cup {s}
    /\ Start(p, "session", None, None, s)
    /\ UNCHANGED <<active, client, consent, grant, lapsed, sid, refresh, access, expired, reused>>

revoke_session_refresh_tokens(p) ==
    /\ At(p, "session")
    /\ DeleteRefresh({r \in refresh : sid[r.grant] = req[p].s})
    /\ Done(p)
    /\ UNCHANGED <<active, client, consent, ended, grant, lapsed, sid, expired, reused>>

deactivate_client(p) ==
    /\ "client" \in Operations
    /\ client
    /\ client' = FALSE
    /\ Start(p, "client_tokens", None, None, None)
    /\ UNCHANGED <<active, consent, ended, grant, lapsed, sid, refresh, access, expired, reused>>

revoke_all_client_tokens(p) ==
    /\ At(p, "client_tokens")
    /\ DeleteAllTokens
    /\ Goto(p, "client_consents")
    /\ UNCHANGED <<active, client, consent, ended, grant, lapsed, sid, expired, reused>>

delete_consent_grants_for_client(p) ==
    /\ At(p, "client_consents")
    /\ consent' = FALSE
    /\ Done(p)
    /\ UNCHANGED <<active, client, ended, grant, lapsed, sid, refresh, access, expired, reused>>

reactivate_client ==
    /\ "client" \in Operations
    /\ ~client
    /\ client' = TRUE
    /\ UNCHANGED <<active, consent, ended, grant, lapsed, sid, refresh, access, expired, reused, req>>

-----------------------------------------------------------------------------
(* Time passes, and the sweeps follow.                                     *)

Lapse(g) ==
    /\ "expiry" \in Operations
    /\ grant[g] \notin {"unused", "gone"} /\ g \notin lapsed
    /\ lapsed' = lapsed \cup {g}
    /\ UNCHANGED <<active, client, consent, ended, grant, sid, refresh, access, expired, reused, req>>

(* cleanup_expired_codes and cleanup_expired_device_codes: whenever some   *)
(* code or device request of the tenant, of any user, is about to be made. *)
cleanup_expired_codes ==
    /\ \E g \in lapsed : grant[g] # "gone"
    /\ grant' = [g \in Grants |-> IF g \in lapsed THEN "gone" ELSE grant[g]]
    /\ UNCHANGED <<active, client, consent, ended, lapsed, sid, refresh, access, expired, reused, req>>

(* A rotation carries expires_at forward, so the grant expires as one.     *)
ExpireRefresh(r) ==
    /\ "expiry" \in Operations
    /\ r.grant \notin expired
    /\ expired' = expired \cup {r.grant}
    /\ UNCHANGED <<active, client, consent, ended, grant, lapsed, sid, refresh, access, reused, req>>

ExpireAccess(a) ==
    /\ "expiry" \in Operations
    /\ access' = access \ {a}
    /\ UNCHANGED <<active, client, consent, ended, grant, lapsed, sid, refresh, expired, reused, req>>

(* The purge waits a day after expiry, longer than an access token lives.  *)
purge_expired_tokens(r) ==
    /\ r.grant \in expired
    /\ AccessOf(r.grant) = {}
    /\ DeleteRefresh({r})
    /\ UNCHANGED <<active, client, consent, ended, grant, lapsed, sid, expired, reused, req>>

Crash(p) ==
    /\ Crashes
    /\ req[p] # Idle
    /\ Done(p)
    /\ UNCHANGED rowVars

-----------------------------------------------------------------------------
Lookups(p) ==
    \/ \E s \in Sessions \cup {None} : authorize(p, s) \/ authorize_grant(p, s)
    \/ \E g \in Codes : token_endpoint_code(p, g)
    \/ \E g \in Devices : token_endpoint_device(p, g)
    \/ \E r \in refresh : token_endpoint_refresh(p, r) \/ revoke_token(p, r)

Decisions(p) ==
    \/ \E g \in Devices, approved \in BOOLEAN : decide_request(p, g, approved)
    \/ revoke_consent(p)
    \/ inactivate_user(p)
    \/ \E s \in Sessions : end_oidc_session(p, s)
    \/ deactivate_client(p)

IssueStep(p) ==
    \/ record_consent(p)
    \/ \E g \in Codes : create_authorization_code(p, g)
    \/ validate_and_consume_code(p)
    \/ redeem_device_code(p)
    \/ \E t \in Tokens : create_refresh_token(p, t)
    \/ create_access_token(p)
    \/ \E n \in Tokens : rotate_refresh_token(p, n)

RevokeStep(p) ==
    \/ revoke_grant_tokens(p)
    \/ delete_token(p)
    \/ revoke_user_client_tokens(p)
    \/ revoke_all_user_tokens(p) \/ revoke_all_user_tokens_rows(p)
    \/ delete_consent_grants_for_user(p)
    \/ revoke_session_refresh_tokens(p)
    \/ revoke_all_client_tokens(p) \/ delete_consent_grants_for_client(p)

Elsewhere ==
    \/ \E g \in Devices : start_device_authorization(g)
    \/ \E a \in access : revoke_access_token(a) \/ ExpireAccess(a)
    \/ reactivate_user \/ reactivate_client
    \/ \E g \in Grants : Lapse(g)
    \/ cleanup_expired_codes
    \/ \E r \in refresh : ExpireRefresh(r) \/ purge_expired_tokens(r)

Next ==
    \/ \E p \in Requests : Lookups(p) \/ Decisions(p) \/ IssueStep(p) \/ RevokeStep(p) \/ Crash(p)
    \/ Elsewhere

Spec == Init /\ [][Next]_vars

-----------------------------------------------------------------------------
(* A grant holds at most one refresh token, whatever requests redeem the   *)
(* same code, poll with the same device code or present the same refresh   *)
(* token at once: the conditional updates and the row lock elect one.      *)
OneRefreshPerGrant == \A r1, r2 \in refresh : r1.grant = r2.grant => r1 = r2

(* Every access token stands under a live refresh token of its own grant,  *)
(* so that revoking the refresh token "also revokes the access tokens      *)
(* minted from it" (revoke_token), through rotations and concurrent        *)
(* issuing.                                                                *)
AccessUnderRefresh == \A a \in access : [id |-> a.parent, grant |-> a.grant] \in refresh

(* A grant is over: it was used or deleted, it holds no refresh token, and *)
(* no request has won its redemption and is about to issue one.            *)
Over(g) ==
    /\ grant[g] \in {"redeemed", "denied", "gone"}
    /\ RefreshOf(g) = {}
    /\ \A p \in Requests : At(p, "refresh") => req[p].g # g

(* A grant that is over stays over: no later redemption, refresh or reuse  *)
(* of what was issued under it brings a token back.                        *)
GrantsEndForGood == [][\A g \in Grants : Over(g) => Over(g)']_vars

(* Rotation keeps the access tokens issued earlier: they "stay valid until *)
(* they expire" (rotate_refresh_token).                                    *)
RotationKeepsAccess ==
    [][\A p \in Requests : At(p, "rotate") /\ req'[p].pc = "access" =>
         \A a \in access : \E b \in access' : b.grant = a.grant]_vars

Quiet == \A p \in Requests : req[p] = Idle
NoTokensOf(g) == RefreshOf(g) = {} /\ AccessOf(g) = {}

(* Between requests the client holds tokens, or codes that yield tokens,   *)
(* only while the user's consent stands: the consent "is what the client's *)
(* tokens were issued under: they end with it" (consent._revoke).          *)
GrantedUnderConsent ==
    Quiet /\ ~consent =>
        \A g \in Grants : grant[g] \notin {"open", "approved"} /\ NoTokensOf(g)

(* Between requests no token of a code that was reported as reused is      *)
(* left (validate_and_consume_code).                                       *)
ReusedCodeHoldsNoTokens == Quiet => \A g \in reused : NoTokensOf(g)

(* Between requests a deactivated user has no token ("API access is cut    *)
(* off").                                                                  *)
InactiveHoldsNoTokens == Quiet /\ ~active => refresh = {} /\ access = {}

(* Between requests a deactivated client holds no token.                   *)
DeactivatedHoldsNoTokens == Quiet /\ ~client => refresh = {} /\ access = {}

(* Between requests no refresh token of an ended session is left.          *)
EndedSessionHoldsNoTokens == Quiet => \A r \in refresh : sid[r.grant] \notin ended

=============================================================================
