---------------------------- MODULE ForwardAuth ----------------------------
(* Forward auth for the HTTP applications of one tenant: protected domains *)
(* and their DNS challenge, proxy apps and their grants, and the handshake *)
(* that carries a central sign-in to a cookie of the protected domain.     *)
(*                                                                         *)
(* Each database statement is a step.  Time moves in ticks that are longer *)
(* than a request.  A host stands for an external URL, and a group for its *)
(* members over the hierarchy (GroupHierarchy keeps the closure, AppAccess *)
(* resolves grants over it).                                               *)
EXTENDS Integers, FiniteSets

CONSTANTS Domains, Hosts, DomainOf, Rows, Apps, Users, Groups, Browsers, Nonces,
          Admins, Callbacks, TokenTTL, CookieTTL, None, Gone

VARIABLES row,       \* protected_domains
          app,       \* proxy_apps with their sp_group_assignments
          members,   \* group_memberships
          active,    \* users neither inactivated nor anonymized
          session,   \* who is signed in centrally, per browser
          nav,       \* where a browser is in the handshake
          cookie,    \* the cookie of a domain, per browser
          token,     \* the tokens handed out, by nonce
          nonces,    \* forward_auth_nonces
          spent,     \* history: cookies set for a token
          req,       \* callbacks under way
          adm,       \* administrators' requests under way
          since,     \* history: ticks since a user's session in a browser ended
          idle       \* history: ticks since a user was deactivated

config == <<row, app>>
people == <<members, active>>
tokens == <<token, nonces, spent>>
clocks == <<since, idle>>
vars == <<row, app, members, active, session, nav, cookie, token, nonces, spent, req, adm,
          since, idle>>

Limit == CookieTTL + TokenTTL + 1
Home == [pc |-> "home"]
Idle == [pc |-> "idle"]
Live(x) == x \notin {None, Gone}

Init ==
    /\ row = [r \in Rows |-> None]
    /\ app = [a \in Apps |-> None]
    /\ members \in SUBSET (Users \X Groups)
    /\ active = Users
    /\ session = [b \in Browsers |-> None]
    /\ nav = [b \in Browsers |-> Home]
    /\ cookie = [b \in Browsers |-> [d \in Domains |-> None]]
    /\ token = [n \in Nonces |-> None]
    /\ nonces = {}
    /\ spent = [n \in Nonces |-> 0]
    /\ req = [p \in Callbacks |-> Idle]
    /\ adm = [p \in Admins |-> Idle]
    /\ since = [b \in Browsers |-> [u \in Users |-> Limit]]
    /\ idle = [u \in Users |-> 0]

-----------------------------------------------------------------------------
(* Rows.                                                                   *)

get_protected_domain_by_domain(d) == {r \in Rows : Live(row[r]) /\ row[r].domain = d}

(* The portal host of a domain is its own, and unique: finding the domain  *)
(* by it is finding it by name.                                            *)
resolve_verified_portal_host(d) ==
    {r \in get_protected_domain_by_domain(d) : row[r].verification_status = "verified"}

_verified_domain_row(d) == resolve_verified_portal_host(d)

list_proxy_apps_for_domain(r) == {a \in Apps : Live(app[a]) /\ app[a].row = r}

get_enabled_proxy_app_for_domain_and_host(r, h) ==
    {a \in list_proxy_apps_for_domain(r) : app[a].enabled /\ app[a].host = h}

(* The one enabled app of a domain, if there is just one.                  *)
SoleEnabled(r) ==
    LET enabled == {a \in list_proxy_apps_for_domain(r) : app[a].enabled}
    IN  IF Cardinality(enabled) = 1 THEN enabled ELSE {}

user_can_access_app(u, a) ==
    /\ Live(app[a])
    /\ app[a].available_to_all \/ \E g \in app[a].grants : <<u, g>> \in members

-----------------------------------------------------------------------------
(* Administration: what is read first, then the statement that writes.     *)

At(p, pc) == adm[p].pc = pc
Ask(p, r) == adm' = [adm EXCEPT ![p] = r]
Done(p) == adm' = [adm EXCEPT ![p] = Idle]
AdminOnly == UNCHANGED <<people, session, nav, cookie, tokens, req, clocks>>

(* Registration: neither the domain nor its portal host is taken.  The     *)
(* unique indexes repeat the test.                                         *)
register_protected_domain(p) ==
    /\ At(p, "idle")
    /\ \E d \in Domains : /\ get_protected_domain_by_domain(d) = {}
                          /\ Ask(p, [pc |-> "register", d |-> d])
    /\ AdminOnly /\ UNCHANGED config

create_protected_domain(p) ==
    /\ At(p, "register")
    /\ \/ /\ get_protected_domain_by_domain(adm[p].d) = {}
          /\ \E r \in Rows : /\ row[r] = None
                             /\ row' = [row EXCEPT ![r] =
                                          [domain |-> adm[p].d, verification_status |-> "pending",
                                           verification_token |-> TRUE]]
       \/ get_protected_domain_by_domain(adm[p].d) # {} /\ UNCHANGED row
    /\ Done(p)
    /\ AdminOnly /\ UNCHANGED app

(* Verification: the row, the DNS answer, then the outcome.  A domain that *)
(* is verified already stays so without a look at DNS.                     *)
verify_protected_domain(p) ==
    /\ At(p, "idle")
    /\ \E r \in Rows : /\ Live(row[r])
                       /\ row[r].verification_status # "verified"
                       /\ row[r].verification_token
                       /\ Ask(p, [pc |-> "verify", r |-> r])
    /\ AdminOnly /\ UNCHANGED config

(* A DNS error counts as a record that is not there.                       *)
_resolve_txt == BOOLEAN

update_protected_domain(p) ==
    /\ At(p, "verify")
    /\ LET r == adm[p].r
       IN \/ ~Live(row[r]) /\ UNCHANGED row
          \/ /\ Live(row[r])
             /\ \E found \in _resolve_txt :
                  row' = [row EXCEPT ![r] =
                            IF found THEN [@ EXCEPT !.verification_status = "verified",
                                                    !.verification_token = FALSE]
                            ELSE [@ EXCEPT !.verification_status = "failed"]]
    /\ Done(p)
    /\ AdminOnly /\ UNCHANGED app

(* A domain goes with its apps, and an app with its grants.                *)
delete_protected_domain(p) ==
    /\ At(p, "idle")
    /\ \E r \in Rows :
        /\ Live(row[r])
        /\ row' = [row EXCEPT ![r] = Gone]
        /\ app' = [a \in Apps |-> IF a \in list_proxy_apps_for_domain(r) THEN Gone ELSE app[a]]
    /\ AdminOnly /\ UNCHANGED <<adm>>

_require_verified_domain(r) == Live(row[r]) /\ row[r].verification_status = "verified"
_validate_external_url(h, r) == DomainOf[h] = row[r].domain

create_proxy_app(p, Enabled) ==
    /\ At(p, "idle")
    /\ \E r \in Rows, h \in Hosts, all \in BOOLEAN, public \in BOOLEAN, enabled \in Enabled :
        /\ _require_verified_domain(r) /\ _validate_external_url(h, r)
        /\ Ask(p, [pc |-> "create", app |-> [row |-> r, host |-> h, available_to_all |-> all,
                                             public |-> public, enabled |-> enabled, grants |-> {}]])
    /\ AdminOnly /\ UNCHANGED config

InsertApp(p) ==
    /\ At(p, "create")
    /\ \/ /\ Live(row[adm[p].app.row])
          /\ \E a \in Apps : app[a] = None /\ app' = [app EXCEPT ![a] = adm[p].app]
       \/ ~Live(row[adm[p].app.row]) /\ UNCHANGED app
    /\ Done(p)
    /\ AdminOnly /\ UNCHANGED row

(* An update writes the fields it was given, whatever became of the others *)
(* since it read the row.                                                  *)
update_proxy_app(p, Updates) ==
    /\ At(p, "idle")
    /\ \E a \in Apps, upd \in Updates :
        /\ Live(app[a])
        /\ "host" \in DOMAIN upd => _validate_external_url(upd.host, app[a].row)
        /\ Ask(p, [pc |-> "update", a |-> a, upd |-> upd])
    /\ AdminOnly /\ UNCHANGED config

UpdateApp(p) ==
    /\ At(p, "update")
    /\ LET a == adm[p].a
           upd == adm[p].upd
       IN app' = IF ~Live(app[a]) THEN app
                 ELSE [app EXCEPT ![a] = [f \in DOMAIN @ |-> IF f \in DOMAIN upd THEN upd[f] ELSE @[f]]]
    /\ Done(p)
    /\ AdminOnly /\ UNCHANGED row

delete_proxy_app(p) ==
    /\ At(p, "idle")
    /\ \E a \in Apps : Live(app[a]) /\ app' = [app EXCEPT ![a] = Gone]
    /\ AdminOnly /\ UNCHANGED <<row, adm>>

add_proxy_app_grant(p) ==
    /\ At(p, "idle")
    /\ \E a \in Apps, g \in Groups : /\ Live(app[a]) /\ g \notin app[a].grants
                                     /\ Ask(p, [pc |-> "grant", a |-> a, g |-> g])
    /\ AdminOnly /\ UNCHANGED config

create_proxy_app_assignment(p) ==
    /\ At(p, "grant")
    /\ app' = IF Live(app[adm[p].a]) THEN [app EXCEPT ![adm[p].a].grants = @ \cup {adm[p].g}] ELSE app
    /\ Done(p)
    /\ AdminOnly /\ UNCHANGED row

remove_proxy_app_grant(p) ==
    /\ At(p, "idle")
    /\ \E a \in Apps : /\ Live(app[a])
                       /\ \E g \in app[a].grants : app' = [app EXCEPT ![a].grants = @ \ {g}]
    /\ AdminOnly /\ UNCHANGED <<row, adm>>

(* The pages write every field of an app and create it enabled; the API    *)
(* writes any one of them.                                                 *)
AllFields == [host : Hosts, available_to_all : BOOLEAN, public : BOOLEAN, enabled : BOOLEAN]
OneField == [host : Hosts] \cup [available_to_all : BOOLEAN] \cup [public : BOOLEAN] \cup [enabled : BOOLEAN]

add_proxy_app(p) == create_proxy_app(p, {TRUE})
edit_proxy_app(p) == update_proxy_app(p, AllFields)
api_create_proxy_app(p) == create_proxy_app(p, BOOLEAN)
api_update_proxy_app(p) == update_proxy_app(p, OneField)

(* The rest is the same in both.                                           *)
domain_pages(p) ==
    register_protected_domain(p) \/ verify_protected_domain(p) \/ delete_protected_domain(p)
api_domains(p) == domain_pages(p)
app_pages(p) == delete_proxy_app(p) \/ add_proxy_app_grant(p) \/ remove_proxy_app_grant(p)
api_apps(p) == app_pages(p)

AdminStep(p) ==
    \/ api_domains(p) \/ create_protected_domain(p) \/ update_protected_domain(p)
    \/ add_proxy_app(p) \/ api_create_proxy_app(p) \/ InsertApp(p)
    \/ edit_proxy_app(p) \/ api_update_proxy_app(p) \/ UpdateApp(p)
    \/ api_apps(p) \/ create_proxy_app_assignment(p)

-----------------------------------------------------------------------------
(* The handshake.  The reverse proxy asks at the portal host of the domain *)
(* and may or may not convey the host that was asked for; where it sends   *)
(* the browser, "rd" is a path without a host (None) or a URL at a host.   *)

Goto(b, n) == nav' = [nav EXCEPT ![b] = n]
Deny(b) == Goto(b, Home)
BrowserOnly == UNCHANGED <<config, people, req, adm, clocks>>

get_current_user(b) == IF session[b] \in active THEN session[b] ELSE None
read_forward_auth_cookie(b, d) == cookie[b][d]

(* Requests at the portal host of a verified domain, and no others.        *)
dispatch(d) == resolve_verified_portal_host(d)
_forward_auth_context(d) == dispatch(d)

_resolve_app(r, h) ==
    IF h # None THEN get_enabled_proxy_app_for_domain_and_host(r, h) ELSE SoleEnabled(r)

is_public_path(a, path) == app[a].public /\ path = "public"

(* Only a missing or expired cookie leads on; every other answer (too many *)
(* requests, no app, a public path, access or none) ends at the proxy.     *)
forward_auth_check(b) ==
    /\ nav[b] = Home
    /\ \E d \in Domains, h \in Hosts \cup {None}, path \in {"public", "other"} :
       \E r \in _forward_auth_context(d) : \E a \in _resolve_app(r, h) :
          /\ ~is_public_path(a, path)
          /\ read_forward_auth_cookie(b, d) = None
          /\ Goto(b, [pc |-> "start", d |-> d, rd |-> None])
    /\ BrowserOnly /\ UNCHANGED <<session, cookie, tokens>>

(* A proxy that redirects by itself names the host in "rd".                *)
ProxyRedirect(b) ==
    /\ nav[b] = Home
    /\ \E h \in Hosts : Goto(b, [pc |-> "start", d |-> DomainOf[h], rd |-> h])
    /\ BrowserOnly /\ UNCHANGED <<session, cookie, tokens>>

forward_auth_start(b) ==
    /\ nav[b].pc = "start"
    /\ \/ _forward_auth_context(nav[b].d) = {} /\ Deny(b)
       \/ _forward_auth_context(nav[b].d) # {} /\ Goto(b, [nav[b] EXCEPT !.pc = "authorize"])
    /\ BrowserOnly /\ UNCHANGED <<session, cookie, tokens>>

resolve_app_for_rd(r, rd) == _resolve_app(r, rd)
authorize_app_access(u, a) == user_can_access_app(u, a)

forward_auth_authorize(b) ==
    LET verified == _verified_domain_row(nav[b].d)
        user == get_current_user(b)
        apps == UNION {resolve_app_for_rd(r, nav[b].rd) : r \in verified}
    IN /\ nav[b].pc = "authorize"
       /\ \/ verified = {} /\ Deny(b)
          \/ verified # {} /\ user = None /\ Goto(b, [nav[b] EXCEPT !.pc = "login"])
          \/ verified # {} /\ user # None /\ apps = {} /\ Deny(b)
          \/ /\ verified # {} /\ user # None
             /\ \E a \in apps :
                  \/ ~authorize_app_access(user, a) /\ Deny(b)
                  \/ /\ authorize_app_access(user, a)
                     /\ Goto(b, [pc |-> "mint", d |-> nav[b].d, rd |-> nav[b].rd, app |-> a, sub |-> user])
       /\ BrowserOnly /\ UNCHANGED <<session, cookie, tokens>>

(* The nonce is recorded before the token is handed out.                   *)
issue_authorization_token(b) ==
    /\ nav[b].pc = "mint"
    /\ \E n \in Nonces :
        /\ token[n] = None
        /\ token' = [token EXCEPT ![n] = [sub |-> nav[b].sub, dom |-> nav[b].d, app |-> nav[b].app,
                                          rd |-> nav[b].rd, browser |-> b, left |-> TokenTTL]]
        /\ nonces' = nonces \cup {n}
    /\ Goto(b, Home)
    /\ BrowserOnly /\ UNCHANGED <<session, cookie, spent>>

(* The sign-in of SignIn; it returns to where the handshake waits.         *)
Login(b, u) ==
    /\ nav[b].pc \in {"home", "login"} /\ get_current_user(b) = None /\ u \in active
    /\ session' = [session EXCEPT ![b] = u]
    /\ Goto(b, IF nav[b].pc = "login" THEN [nav[b] EXCEPT !.pc = "authorize"] ELSE Home)
    /\ since' = [since EXCEPT ![b] = [v \in Users |-> IF v \in {u, session[b]} THEN 0 ELSE @[v]]]
    /\ UNCHANGED <<config, people, req, adm, cookie, tokens, idle>>

Logout(b) ==
    /\ session[b] # None
    /\ session' = [session EXCEPT ![b] = None]
    /\ since' = [since EXCEPT ![b][session[b]] = 0]
    /\ UNCHANGED <<config, people, nav, req, adm, cookie, tokens, idle>>

-----------------------------------------------------------------------------
(* The callback.  The link may be opened again, also while it is served.   *)

Wait(p, r) == req' = [req EXCEPT ![p] = r]
Refuse(p) == Wait(p, Idle)
CallbackOnly == UNCHANGED <<config, people, session, nav, adm, clocks, token>>

verify_authorization_token(n, d) == token[n].left >= 0 /\ token[n].dom = d

consume_nonce_Kept(n) ==
    IF n \in nonces /\ token[n].left > 0 THEN nonces' = nonces ELSE FALSE

consume_nonce(n) == n \in nonces /\ token[n].left > 0 /\ nonces' = nonces \ {n}

redeem_authorization_token(p) ==
    /\ req[p] = Idle
    /\ \E n \in Nonces : \E d \in Domains :
        /\ token[n] # None /\ _forward_auth_context(d) # {}
        /\ verify_authorization_token(n, d)
        /\ consume_nonce(n)
        /\ Wait(p, [pc |-> "app", n |-> n, d |-> d])
    /\ CallbackOnly /\ UNCHANGED <<cookie, spent>>

get_app_for_callback(p) ==
    LET a == token[req[p].n].app
    IN /\ req[p].pc = "app"
       /\ \/ Live(app[a]) /\ app[a].enabled /\ Wait(p, [req[p] EXCEPT !.pc = "identity"])
          \/ ~(Live(app[a]) /\ app[a].enabled) /\ Refuse(p)
       /\ CallbackOnly /\ UNCHANGED <<cookie, nonces, spent>>

build_forward_auth_identity_Any(u) == {u}

(* The subject of a cookie, unless the user is not active (any more).      *)
build_forward_auth_identity(u) == {u} \cap active

(* "rd" must be at the host of the app, which may have moved meanwhile.    *)
_safe_rd(rd, a) == rd # None => Live(app[a]) /\ app[a].host = rd

forward_auth_callback(p) ==
    LET t == token[req[p].n]
        identity == build_forward_auth_identity(t.sub)
        welcome == identity # {} /\ _safe_rd(t.rd, t.app)
    IN /\ req[p].pc = "identity"
       /\ \/ ~welcome /\ UNCHANGED <<cookie, spent>>
          \/ /\ welcome
             /\ \E u \in identity :
                  cookie' = [cookie EXCEPT ![t.browser][req[p].d] = [sub |-> u, left |-> CookieTTL]]
             /\ spent' = [spent EXCEPT ![req[p].n] = @ + 1]
       /\ Refuse(p)
       /\ CallbackOnly /\ UNCHANGED nonces

-----------------------------------------------------------------------------
(* The rest of the system.                                                 *)

Deactivate(u) ==
    /\ u \in active
    /\ active' = active \ {u}
    /\ UNCHANGED <<config, members, session, nav, cookie, tokens, req, adm, clocks>>

Reactivate(u) ==
    /\ u \notin active
    /\ active' = active \cup {u}
    /\ idle' = [idle EXCEPT ![u] = 0]
    /\ UNCHANGED <<config, members, session, nav, cookie, tokens, req, adm, since>>

(* Groups change.                                                          *)
Membership(u, g) ==
    /\ members' = IF <<u, g>> \in members THEN members \ {<<u, g>>} ELSE members \cup {<<u, g>>}
    /\ UNCHANGED <<config, active, session, nav, cookie, tokens, req, adm, clocks>>

(* The hourly job.                                                         *)
cleanup_expired_nonces ==
    /\ nonces' = {n \in nonces : token[n].left > 0}
    /\ nonces' # nonces
    /\ UNCHANGED <<config, people, session, nav, cookie, token, spent, req, adm, clocks>>

Older(t) == IF t = Limit THEN t ELSE t + 1

(* A tick is longer than a request; a cookie is dropped when it expires.   *)
Tick ==
    /\ \A p \in Callbacks : req[p] = Idle
    /\ \A b \in Browsers : nav[b].pc # "mint"
    /\ token' = [n \in Nonces |-> IF token[n] = None \/ token[n].left < 0 THEN token[n]
                                  ELSE [token[n] EXCEPT !.left = @ - 1]]
    /\ cookie' = [b \in Browsers |-> [d \in Domains |->
                    IF cookie[b][d] = None \/ cookie[b][d].left = 0 THEN None
                    ELSE [cookie[b][d] EXCEPT !.left = @ - 1]]]
    /\ since' = [b \in Browsers |-> [u \in Users |->
                    IF session[b] = u THEN 0 ELSE Older(since[b][u])]]
    /\ idle' = [u \in Users |-> IF u \in active THEN 0 ELSE Older(idle[u])]
    /\ UNCHANGED <<config, people, session, nav, nonces, spent, req, adm>>

Next ==
    \/ \E p \in Admins : AdminStep(p)
    \/ \E b \in Browsers :
        \/ forward_auth_check(b) \/ ProxyRedirect(b) \/ forward_auth_start(b)
        \/ forward_auth_authorize(b) \/ issue_authorization_token(b) \/ Logout(b)
        \/ \E u \in Users : Login(b, u)
    \/ \E p \in Callbacks :
        redeem_authorization_token(p) \/ get_app_for_callback(p) \/ forward_auth_callback(p)
    \/ \E u \in Users :
        Deactivate(u) \/ Reactivate(u) \/ \E g \in Groups : Membership(u, g)
    \/ cleanup_expired_nonces
    \/ Tick

Spec == Init /\ [][Next]_vars

-----------------------------------------------------------------------------
(* "The single-use guarantee": of the callbacks that open one link, at     *)
(* once or later, one sets a cookie (consume_nonce).                       *)
TokenSpentOnce == \A n \in Nonces : spent[n] <= 1

(* A cookie outlives the central session it came from by no more than its  *)
(* own lifetime and that of the token, and an account's deactivation by no *)
(* more than its own lifetime: a token in hand when the session ends can   *)
(* still be redeemed, one of a deactivated user cannot                     *)
(* (verify_authorization_token, build_forward_auth_identity,               *)
(* read_forward_auth_cookie).                                              *)
StaleAccessBounded ==
    \A b \in Browsers, d \in Domains :
       LET c == cookie[b][d]
       IN c # None => /\ session[b] = c.sub \/ since[b][c.sub] < CookieTTL + TokenTTL
                      /\ c.sub \in active \/ idle[c.sub] <= CookieTTL

=============================================================================
