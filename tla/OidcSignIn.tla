----------------------------- MODULE OidcSignIn -----------------------------
(***************************************************************************)
(* Signing in through an upstream OIDC connection: the login redirect, the *)
(* callback, the account it finds, links or creates, the confirmation of   *)
(* an address the provider does not vouch for, and the logout the provider *)
(* sends (routers/oidc_upstream, services/oidc_upstream).                  *)
(*                                                                         *)
(* An address is the account it is the primary address of.  A browser has  *)
(* one request at a time; requests of several browsers interleave between  *)
(* their statements.                                                       *)
(***************************************************************************)
EXTENDS Naturals, FiniteSets

CONSTANTS
    Connections,  \* connections; the settings below do not change
    TypeOf,       \* Connections -> their provider type
    Linking,      \* those that link by address
    Provisioning, \* those that create accounts
    Subs,         \* accounts at the providers
    AtOf,         \* Subs -> Connections: where the account is
    Users,        \* addresses, and the accounts they belong to
    AddressOf,    \* Subs -> Users or None: the address the provider states
    Refused,      \* accounts outside the allowed organizations
    Browsers,     \* browsers, each with the person at it
    HolderOf,     \* Subs -> Browsers: whose account it is
    Reads,        \* Browsers -> SUBSET Users: the mailboxes the person reads
    States,       \* values of the state parameter
    Sids,         \* identifiers of WeftID sessions
    Tokens,       \* logout tokens the providers send
    TokenOf,      \* Tokens -> Subs: whose sign-out they announce
    Gone, None

(* A provider that is trusted with addresses states one its user reads.    *)
SignInConstants ==
    /\ TypeOf \in [Connections -> {"generic", "microsoft", "apple", "github", "discord", "facebook"}]
    /\ Linking \cup Provisioning \subseteq Connections
    /\ \A sub \in Subs : TypeOf[AtOf[sub]] \notin {"microsoft", "facebook"} =>
                           AddressOf[sub] \in Reads[HolderOf[sub]] \cup {None}

VARIABLES
    users,        \* Users -> None or [active, saml (assigned to one), confirmed]
    link,         \* Subs -> Users: rows of oidc_idp_user_links
    enabled,      \* connections that are switched on
    mfa,          \* those that ask for WeftID's own second step
    store,        \* States -> None, Gone or [c, fields]: the cached login state
    posted,       \* states to which an answer has been posted
    code,         \* States -> None, Gone or the account the provider answered for
    cookie,       \* Browsers -> the session cookie, and the code cookie
    req,          \* Browsers -> the request in progress
    session,      \* Sids -> None, Gone (revoked) or [user, browser]
    idp_session,  \* Sids -> None or [c, sub, user]: rows of oidc_idp_sessions
    jwks,         \* connections whose cached key set has the key in use
    refetched,    \* connections whose keys a logout token fetched this minute
    jti,          \* logout tokens used up
    ending,       \* Tokens -> sessions the token still has to end
    applied       \* Tokens -> how often the token was carried out (history)

db == <<users, link, enabled, mfa>>
keys == <<jwks, refetched>>
logout_vars == <<jti, ending, applied>>
vars == <<users, link, enabled, mfa, store, posted, code, cookie, req, session, idp_session,
          jwks, refetched, jti, ending, applied>>

Fresh == [state |-> [c \in Connections |-> None], stash |-> None, confirm |-> None,
          sent |-> None, mfa |-> None, sid |-> None]
Idle == [pc |-> "idle", c |-> None, sub |-> None, user |-> None]

TypeOK ==
    /\ \A u \in Users : users[u] = None \/ users[u] \in [active : BOOLEAN, saml : BOOLEAN, confirmed : BOOLEAN]
    /\ link \in [Subs -> Users \cup {None}]
    /\ enabled \subseteq Connections /\ mfa \subseteq Connections /\ posted \subseteq States
    /\ \A b \in Browsers : cookie[b].sid \in Sids \cup {None}
    /\ jwks \subseteq Connections /\ refetched \subseteq Connections /\ jti \subseteq Tokens

(* An account may be there before anybody signs in: an administrator       *)
(* created it and its address is not confirmed.                            *)
Init ==
    /\ users \in [Users -> {None, [active |-> TRUE, saml |-> FALSE, confirmed |-> FALSE]}]
    /\ link = [sub \in Subs |-> None]
    /\ enabled = Connections /\ mfa \in SUBSET Connections
    /\ store = [s \in States |-> None] /\ posted = {} /\ code = [s \in States |-> None]
    /\ cookie = [b \in Browsers |-> Fresh] /\ req = [b \in Browsers |-> Idle]
    /\ session = [sid \in Sids |-> None] /\ idp_session = [sid \in Sids |-> None]
    /\ jwks = {} /\ refetched = {} /\ jti = {}
    /\ ending = [t \in Tokens |-> {}] /\ applied = [t \in Tokens |-> 0]

At(b, step) == req[b].pc = step
Done(b) == req' = [req EXCEPT ![b] = Idle]
Goto(b, step) == req' = [req EXCEPT ![b].pc = step]
Links(u) == {sub \in Subs : link[sub] = u}

email_linking_trusted(c) == TypeOf[c] \notin {"microsoft", "facebook"}
requires_confirmed_email(c) == ~email_linking_trusted(c)
pending_email_confirmation(c, u) == requires_confirmed_email(c) /\ users[u] # None /\ ~users[u].confirmed

-----------------------------------------------------------------------------
(* The login redirect.                                                     *)

save_login_state(s, c) == store' = [store EXCEPT ![s] = [c |-> c, fields |-> FALSE]]

oidc_login(b, c, s) ==
    /\ req[b] = Idle /\ c \in enabled /\ store[s] = None
    /\ save_login_state(s, c)
    /\ cookie' = [cookie EXCEPT ![b].state[c] = s]
    /\ UNCHANGED <<db, posted, code, req, session, idp_session, keys, logout_vars>>

(* The provider signs its user in and answers with a code for this login:  *)
(* the nonce and the code challenge tie the two together.                  *)
Answer(b, s, sub) ==
    /\ store[s] \notin {None, Gone} /\ code[s] = None
    /\ AtOf[sub] = store[s].c /\ cookie[b].state[store[s].c] = s /\ HolderOf[sub] = b
    /\ code' = [code EXCEPT ![s] = sub]
    /\ UNCHANGED <<db, store, posted, cookie, req, session, idp_session, keys, logout_vars>>

LOGIN_STATE_TTL(s) ==
    /\ store[s] \notin {None, Gone}
    /\ store' = [store EXCEPT ![s] = Gone]
    /\ UNCHANGED <<db, posted, code, cookie, req, session, idp_session, keys, logout_vars>>

(* The first posted answer is kept with the login state; the browser goes  *)
(* on to the callback with the state alone.                                *)
attach_callback_fields(s) ==
    /\ s \notin posted
    /\ posted' = posted \cup {s}
    /\ store' = [store EXCEPT ![s].fields = TRUE]

oidc_callback_post(s) ==
    /\ store[s] \notin {None, Gone} /\ code[s] \in Subs
    /\ store[s].c \in enabled /\ TypeOf[store[s].c] = "apple"
    /\ attach_callback_fields(s)
    /\ UNCHANGED <<db, code, cookie, req, session, idp_session, keys, logout_vars>>

-----------------------------------------------------------------------------
(* The callback.                                                           *)

(* Any browser may open the address: only the one whose cookie has the     *)
(* state goes on, and takes the login state.                               *)
take_login_state(b, c, s) == cookie[b].state[c] = s /\ store[s].c = c

HasCode(s) == code[s] \in Subs /\ (TypeOf[store[s].c] = "apple" => store[s].fields)

oidc_callback(b, c, s) ==
    /\ req[b] = Idle /\ c \in enabled /\ store[s] \notin {None, Gone}
    /\ take_login_state(b, c, s)
    /\ store' = [store EXCEPT ![s] = Gone]
    /\ cookie' = [cookie EXCEPT ![b].state[c] = None]
    /\ IF HasCode(s)
       THEN req' = [req EXCEPT ![b] = [pc |-> "complete", c |-> c, sub |-> code[s], user |-> None]]
       ELSE UNCHANGED req
    /\ UNCHANGED <<db, posted, code, session, idp_session, keys, logout_vars>>

(* The keys come from the cache; a token signed with another key has them  *)
(* fetched once more.                                                      *)
refresh_jwks(c) == jwks' = jwks \cup {c}

get_jwks(c) == UNCHANGED jwks

validate_id_token(c) == (c \in jwks /\ get_jwks(c)) \/ (c \notin jwks /\ refresh_jwks(c))

(* A standard provider answers with an ID token; Apple's is read the same  *)
(* way.  The others answer with an access token, for their own interface;  *)
(* GitHub accounts outside the allowed organizations are refused.          *)
SpecOIDCAdapter(b) ==
    /\ TypeOf[req[b].c] \in {"generic", "microsoft"}
    /\ validate_id_token(req[b].c)

AppleAdapter(b) ==
    /\ TypeOf[req[b].c] = "apple"
    /\ validate_id_token(req[b].c)

GitHubAdapter(b) ==
    /\ TypeOf[req[b].c] = "github"
    /\ req[b].sub \notin Refused
    /\ UNCHANGED jwks

DiscordAdapter(b) ==
    /\ TypeOf[req[b].c] = "discord"
    /\ UNCHANGED jwks

FacebookAdapter(b) ==
    /\ TypeOf[req[b].c] = "facebook"
    /\ UNCHANGED jwks

complete(b) ==
    /\ At(b, "complete")
    /\ \/ SpecOIDCAdapter(b) \/ AppleAdapter(b) \/ GitHubAdapter(b)
       \/ DiscordAdapter(b) \/ FacebookAdapter(b)
    /\ Goto(b, "authenticate")
    /\ UNCHANGED <<db, store, posted, code, cookie, session, idp_session, refetched, logout_vars>>

(* The provider cannot be reached, or its answer is refused.               *)
ProviderLoginError(b) ==
    /\ At(b, "complete")
    /\ Done(b)
    /\ UNCHANGED <<db, store, posted, code, cookie, session, idp_session, keys, logout_vars>>

-----------------------------------------------------------------------------
(* Which account it is.                                                    *)

Signing(b, step, u) == req' = [req EXCEPT ![b].pc = step, ![b].user = u]

(* Linked: the account signs in if it is active and not assigned to a SAML *)
(* provider.                                                               *)
authenticate_linked(b) ==
    LET u == link[req[b].sub]
    IN /\ At(b, "authenticate") /\ u # None
       /\ IF users[u] # None /\ users[u].active /\ ~users[u].saml THEN Signing(b, "sign_in", u) ELSE Done(b)
       /\ UNCHANGED users

(* By address: not if the account has a link at the connection, nor if its *)
(* address is unconfirmed and somebody is linked to it already.            *)
MayLink_Unconfirmed(c, u) ==
    users[u].active /\ ~users[u].saml /\ ~\E sub \in Links(u) : AtOf[sub] = c

MayLink(c, u) ==
    /\ users[u].active /\ ~users[u].saml
    /\ ~\E sub \in Links(u) : AtOf[sub] = c
    /\ users[u].confirmed \/ Links(u) = {}

(* The address must be stated, and the provider trusted with it.           *)
ByEmail(b) ==
    LET u == AddressOf[req[b].sub]
    IN req[b].c \in Linking /\ email_linking_trusted(req[b].c) /\ u # None /\ users[u] # None

authenticate_by_email(b) ==
    LET u == AddressOf[req[b].sub]
    IN /\ At(b, "authenticate") /\ link[req[b].sub] = None
       /\ ByEmail(b)
       /\ IF ~MayLink(req[b].c, u) THEN Done(b) /\ UNCHANGED users
          ELSE /\ users' = [users EXCEPT ![u].confirmed = TRUE]
               /\ Signing(b, "link", u)

(* A new account: its address is confirmed if the provider is trusted with *)
(* it.  The unique index on addresses refuses a second one.                *)
jit_provision_user(b) ==
    LET u == AddressOf[req[b].sub]
    IN /\ At(b, "authenticate") /\ link[req[b].sub] = None
       /\ ~ByEmail(b)
       /\ IF req[b].c \notin Provisioning \/ u = None THEN Done(b) /\ UNCHANGED users
          ELSE IF users[u] # None THEN Done(b) /\ UNCHANGED users
          ELSE /\ users' = [users EXCEPT ![u] =
                              [active |-> TRUE, saml |-> FALSE, confirmed |-> ~requires_confirmed_email(req[b].c)]]
               /\ Signing(b, "link", u)

authenticate_via_oidc(b) ==
    /\ authenticate_linked(b) \/ authenticate_by_email(b) \/ jit_provision_user(b)
    /\ UNCHANGED <<link, enabled, mfa, store, posted, code, cookie, session, idp_session, keys, logout_vars>>

(* One link per account and connection; the index refuses a second one.    *)
create_link(b) ==
    /\ At(b, "link")
    /\ IF link[req[b].sub] = None /\ ~\E sub \in Links(req[b].user) : AtOf[sub] = req[b].c
       THEN link' = [link EXCEPT ![req[b].sub] = req[b].user] /\ Goto(b, "sign_in")
       ELSE Done(b) /\ UNCHANGED link
    /\ UNCHANGED <<users, enabled, mfa, store, posted, code, cookie, session, idp_session, keys, logout_vars>>

-----------------------------------------------------------------------------
(* Signing in.                                                             *)

(* Of the stash only one about this account is used.                       *)
_pop_fresh_stash(b, u) ==
    IF cookie[b].stash # None /\ cookie[b].stash.user = u THEN cookie[b].stash ELSE None

record_upstream_session(sid, stash) ==
    idp_session' = [idp_session EXCEPT ![sid] = stash]

complete_authenticated_login(b, u) ==
    \E sid \in Sids :
        /\ session[sid] = None
        /\ session' = [session EXCEPT ![sid] = [user |-> u, browser |-> b]]
        /\ record_upstream_session(sid, _pop_fresh_stash(b, u))
        /\ cookie' = [cookie EXCEPT ![b] = [Fresh EXCEPT !.sid = sid]]

_finish_sign_in(b, u, c, kept) ==
    IF c \in mfa
    THEN cookie' = [cookie EXCEPT ![b] = [kept EXCEPT !.mfa = u]] /\ UNCHANGED <<session, idp_session>>
    ELSE complete_authenticated_login(b, u)

(* What the provider said is stashed; then the address, the second step or *)
(* the session.                                                            *)
_start_email_confirmation(b, u, c, stashed) ==
    /\ cookie' = [cookie EXCEPT ![b] = [stashed EXCEPT !.confirm = [user |-> u, c |-> c], !.sent = u]]
    /\ UNCHANGED <<session, idp_session>>

stash_upstream_oidc_session(b) ==
    /\ At(b, "sign_in")
    /\ cookie' = [cookie EXCEPT ![b].stash = [c |-> req[b].c, sub |-> req[b].sub, user |-> req[b].user]]
    /\ Goto(b, "respond")
    /\ UNCHANGED <<db, store, posted, code, session, idp_session, keys, logout_vars>>

oidc_callback_respond(b) ==
    LET u == req[b].user
        c == req[b].c
    IN /\ At(b, "respond")
       /\ IF pending_email_confirmation(c, u)
          THEN _start_email_confirmation(b, u, c, cookie[b])
          ELSE _finish_sign_in(b, u, c, cookie[b])
       /\ Done(b)
       /\ UNCHANGED <<db, store, posted, code, keys, logout_vars>>

(* The second step, a code sent to the address, and a sign-in with a       *)
(* password end in the same place.                                         *)
mfa_verify(b) ==
    /\ req[b] = Idle /\ cookie[b].mfa # None /\ cookie[b].mfa \in Reads[b]
    /\ complete_authenticated_login(b, cookie[b].mfa)
    /\ UNCHANGED <<db, store, posted, code, req, keys, logout_vars>>

login(b, u) ==
    /\ req[b] = Idle /\ u \in Reads[b]
    /\ users[u] # None /\ users[u].active /\ users[u].confirmed
    /\ complete_authenticated_login(b, u)
    /\ UNCHANGED <<db, store, posted, code, req, keys, logout_vars>>

-----------------------------------------------------------------------------
(* Confirming the address.                                                 *)

_abandon_confirmation(b) ==
    /\ cookie' = [cookie EXCEPT ![b].confirm = None, ![b].sent = None]
    /\ Done(b)

_pending_confirmation(b) ==
    /\ cookie[b].confirm # None
    /\ cookie[b].confirm.c \in enabled
    /\ pending_email_confirmation(cookie[b].confirm.c, cookie[b].confirm.user)

(* The code in the mailbox must be typed, and be for the pending address.  *)
validate_verification_cookie(b, u) == cookie[b].sent = u /\ u \in Reads[b]

confirm_email(b) ==
    /\ req[b] = Idle /\ cookie[b].confirm # None
    /\ IF ~_pending_confirmation(b) \/ cookie[b].sent = None THEN _abandon_confirmation(b)
       ELSE /\ validate_verification_cookie(b, cookie[b].confirm.user)
            /\ req' = [req EXCEPT ![b] = [Idle EXCEPT !.pc = "confirm", !.user = cookie[b].confirm.user,
                                                      !.c = cookie[b].confirm.c]]
            /\ UNCHANGED cookie
    /\ UNCHANGED <<db, store, posted, code, session, idp_session, keys, logout_vars>>

confirm_rate_limited(b) ==
    /\ req[b] = Idle /\ _pending_confirmation(b)
    /\ _abandon_confirmation(b)
    /\ UNCHANGED <<db, store, posted, code, session, idp_session, keys, logout_vars>>

confirm_sign_in_email(b) ==
    /\ At(b, "confirm")
    /\ users' = IF users[req[b].user] = None THEN users
                ELSE [users EXCEPT ![req[b].user].confirmed = TRUE]
    /\ _finish_sign_in(b, req[b].user, req[b].c, [cookie[b] EXCEPT !.confirm = None, !.sent = None])
    /\ Done(b)
    /\ UNCHANGED <<link, enabled, mfa, store, posted, code, keys, logout_vars>>

resend_confirmation_code(b) ==
    /\ req[b] = Idle /\ cookie[b].confirm # None
    /\ IF _pending_confirmation(b)
       THEN cookie' = [cookie EXCEPT ![b].sent = cookie[b].confirm.user] /\ UNCHANGED req
       ELSE _abandon_confirmation(b)
    /\ UNCHANGED <<db, store, posted, code, session, idp_session, keys, logout_vars>>

-----------------------------------------------------------------------------
(* Signing out, here and at the provider.                                  *)

revoke_session(sids) ==
    /\ session' = [sid \in Sids |-> IF sid \in sids THEN Gone ELSE session[sid]]
    /\ idp_session' = [sid \in Sids |-> IF sid \in sids THEN None ELSE idp_session[sid]]

terminate_session(b) ==
    /\ req[b] = Idle /\ cookie[b].sid # None
    /\ revoke_session({cookie[b].sid})
    /\ cookie' = [cookie EXCEPT ![b] = Fresh]
    /\ UNCHANGED <<db, store, posted, code, req, keys, logout_vars>>

(* Logout tokens may have the keys fetched once a minute.                  *)
_may_refetch(c) == c \notin refetched

validate_logout_token(c) ==
    \/ c \in jwks /\ UNCHANGED keys
    \/ c \notin jwks /\ _may_refetch(c) /\ refetched' = refetched \cup {c} /\ refresh_jwks(c)

consume_logout_token_jti_Again(t) == UNCHANGED jti

consume_logout_token_jti(t) == t \notin jti /\ jti' = jti \cup {t}

find_idp_sessions(sub) ==
    {sid \in Sids : idp_session[sid] # None /\ idp_session[sid].sub = sub}

handle_backchannel_logout(t) ==
    /\ ending[t] = {}
    /\ validate_logout_token(AtOf[TokenOf[t]])
    /\ consume_logout_token_jti(t)
    /\ ending' = [ending EXCEPT ![t] = find_idp_sessions(TokenOf[t])]
    /\ applied' = [applied EXCEPT ![t] = @ + 1]
    /\ UNCHANGED <<db, store, posted, code, cookie, req, session, idp_session>>

end_oidc_session(t) ==
    \E sid \in ending[t] :
        /\ revoke_session({sid})
        /\ ending' = [ending EXCEPT ![t] = @ \ {sid}]
        /\ UNCHANGED <<db, store, posted, code, cookie, req, keys, jti, applied>>

Minute(c) ==
    /\ c \in refetched
    /\ refetched' = refetched \ {c}
    /\ UNCHANGED <<db, store, posted, code, cookie, req, session, idp_session, jwks, logout_vars>>

(* The provider signs with a new key, or the cached set is an hour old.    *)
Rotate(c) ==
    /\ c \in jwks
    /\ jwks' = jwks \ {c}
    /\ UNCHANGED <<db, store, posted, code, cookie, req, session, idp_session, refetched, logout_vars>>

-----------------------------------------------------------------------------
(* Administration; the steps of an unlink are those of IdpAssignment.      *)

unlink_user_from_connection(u, c) ==
    LET at == {sub \in Links(u) : AtOf[sub] = c}
    IN /\ at # {}
       /\ link' = [sub \in Subs |-> IF sub \in at THEN None ELSE link[sub]]
       /\ revoke_session({sid \in Sids : idp_session[sid] # None
                                           /\ idp_session[sid].c = c /\ idp_session[sid].user = u})
       /\ users' = IF Links(u) = at /\ users[u] # None
                   THEN [users EXCEPT ![u].active = FALSE, ![u].confirmed = FALSE] ELSE users
       /\ UNCHANGED <<enabled, mfa, store, posted, code, cookie, req, keys, logout_vars>>

set_active(u) ==
    /\ users[u] # None
    /\ users' = [users EXCEPT ![u].active = ~@]
    /\ UNCHANGED <<link, enabled, mfa, store, posted, code, cookie, req, session, idp_session, keys, logout_vars>>

assign_user_idp(u) ==
    /\ users[u] # None
    /\ users' = [users EXCEPT ![u].saml = ~@]
    /\ UNCHANGED <<link, enabled, mfa, store, posted, code, cookie, req, session, idp_session, keys, logout_vars>>

set_connection_enabled(c) ==
    /\ enabled' = IF c \in enabled THEN enabled \ {c} ELSE enabled \cup {c}
    /\ UNCHANGED <<users, link, mfa, store, posted, code, cookie, req, session, idp_session, keys, logout_vars>>

-----------------------------------------------------------------------------
Next ==
    \/ \E b \in Browsers :
         \/ \E c \in Connections, s \in States : oidc_login(b, c, s) \/ oidc_callback(b, c, s)
         \/ \E s \in States, sub \in Subs : Answer(b, s, sub)
         \/ complete(b) \/ ProviderLoginError(b)
         \/ authenticate_via_oidc(b) \/ create_link(b)
         \/ stash_upstream_oidc_session(b) \/ oidc_callback_respond(b)
         \/ mfa_verify(b) \/ (\E u \in Users : login(b, u))
         \/ confirm_email(b) \/ confirm_rate_limited(b) \/ confirm_sign_in_email(b)
         \/ resend_confirmation_code(b) \/ terminate_session(b)
    \/ \E s \in States : LOGIN_STATE_TTL(s) \/ oidc_callback_post(s)
    \/ \E t \in Tokens : handle_backchannel_logout(t) \/ end_oidc_session(t)
    \/ \E c \in Connections :
         \/ Minute(c) \/ Rotate(c) \/ set_connection_enabled(c)
         \/ \E u \in Users : unlink_user_from_connection(u, c)
    \/ \E u \in Users : set_active(u) \/ assign_user_idp(u)

Spec == Init /\ [][Next]_vars

(* A first sign-in that has created its account and not yet its link.      *)
Creating(b, u) == At(b, "link") /\ req[b].user = u

(* No other sign-in links itself to an account that an untrusted provider  *)
(* is creating, and nobody is unlinked from an account during a sign-in.   *)
Apart ==
    /\ \A b, d \in Browsers, u \in Users : b # d =>
         ~(Creating(b, u) /\ requires_confirmed_email(req[b].c) /\ Creating(d, u))'
    /\ \A sub \in Subs : link[sub] # None /\ link'[sub] = None =>
         \A b \in Browsers : req[b].user # link[sub]

-----------------------------------------------------------------------------
(* "The provider does not prove the address": whoever is signed in to an   *)
(* account reads its mailbox, whichever providers stated the address, in   *)
(* whichever order they were linked, unlinked and confirmed, and whichever *)
(* browser the callback was opened in.                                     *)
AddressHolderOnly ==
    \A sid \in Sids : session[sid] \notin {None, Gone} =>
        session[sid].user \in Reads[session[sid].browser]

(* A logout token delivered again, even at the same time, ends nothing: a  *)
(* session begun after the first delivery stays.                           *)
LogoutAppliedOnce == \A t \in Tokens : applied[t] <= 1

=============================================================================
