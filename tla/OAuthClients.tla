---------------------------- MODULE OAuthClients ----------------------------
(***************************************************************************)
(* The rows of oauth2_clients: applications and service accounts an        *)
(* administrator keeps, and applications that register themselves (RFC     *)
(* 7591) and later replace their own metadata (RFC 7592) with a            *)
(* registration access token that every update rotates.                    *)
(*                                                                         *)
(* A handler reads the row, checks its input against what it read, and     *)
(* writes with one UPDATE: Read begins a request and its write is an       *)
(* action of its own, so that another request may write in between.  A     *)
(* refused input changes nothing and is left out.  URIs are abstracted to  *)
(* the host they name; a redirect URI list is the set of its hosts.        *)
(***************************************************************************)
EXTENDS Naturals, FiniteSets

CONSTANTS
    Clients,     \* rows the model may hold
    Hosts,       \* hosts of the URIs applications give
    Tokens,      \* initial access tokens
    Groups,      \* groups an application may be assigned to
    Requests,    \* requests under way at the same time
    Operations,  \* names of the requests that may begin
    MaxRat,      \* bound on the rotations of a registration access token
    None,        \* no such row, no value
    Gone         \* the row was deleted (client ids are never used again)

VARIABLES
    settings,    \* the row of oauth2_registration_settings
    initial,     \* state of each initial access token
    clients,     \* row of each client, None before it exists, Gone after
    req          \* request under way in each slot, None when there is none

vars == <<settings, initial, clients, req>>

AllOperations == {"register", "update_configuration", "delete_configuration", "update_client",
                  "authentication", "subject", "oidc", "secret", "introspection", "role",
                  "switch", "delete", "groups", "reset_token"}

(* What a client asks for: how it authenticates ("secret" for both secret  *)
(* methods), its grants, and the settings the checks below relate.         *)
Metadata == [family : {"secret", "keys", "none"}, code : BOOLEAN, device : BOOLEAN,
             par : BOOLEAN, pairwise : BOOLEAN, sector : BOOLEAN, keys : BOOLEAN,
             hosts : SUBSET Hosts, front : Hosts \cup {None}]

(* registration_metadata keeps what the client asked for itself.           *)
Asked == [family : {"secret", "keys", "none"}, code : BOOLEAN, par : BOOLEAN,
          pairwise : BOOLEAN]

Row == [kind : {"normal", "public", "b2b"}, asked : Asked \cup {None}, rat : 0..MaxRat,
        active : BOOLEAN, keyed : BOOLEAN, keys : BOOLEAN, shown : BOOLEAN, device : BOOLEAN,
        par : BOOLEAN, pairwise : BOOLEAN, sector : BOOLEAN, hosts : SUBSET Hosts,
        front : Hosts \cup {None}, oidc : BOOLEAN, all : BOOLEAN, introspect : BOOLEAN,
        admin : BOOLEAN, groups : SUBSET Groups, tokens : BOOLEAN]

Settings == [policy : {"off", "token_required", "open"}, all : BOOLEAN]

TypeOK ==
    /\ settings \in Settings
    /\ initial \in [Tokens -> {"unused", "active", "revoked", "expired"}]
    /\ clients \in [Clients -> Row \cup {None, Gone}]
    /\ req \in [Requests -> [op : Operations, c : Clients, old : Row] \cup
                            [op : Operations, old : Settings] \cup [op : {"register"}] \cup {None}]

Init ==
    /\ settings = [policy |-> "off", all |-> FALSE]
    /\ initial = [t \in Tokens |-> "unused"]
    /\ clients = [c \in Clients |-> None]
    /\ req = [p \in Requests |-> None]

Exists(c) == clients[c] \notin {None, Gone}

Registered(c) == Exists(c) /\ clients[c].asked # None

(* get_client_by_client_id at the start of a handler.                      *)
Read(p, op, c) ==
    /\ req[p] = None
    /\ op \in Operations
    /\ Exists(c)
    /\ req' = [req EXCEPT ![p] = [op |-> op, c |-> c, old |-> clients[c]]]
    /\ UNCHANGED <<settings, initial, clients>>

At(p, op) == req[p] # None /\ req[p].op = op

Done(p) == req' = [req EXCEPT ![p] = None]

(* UPDATE ... WHERE client_id = ...: a row deleted meanwhile is not        *)
(* written.                                                                *)
Write(p, row) ==
    /\ clients' = [clients EXCEPT ![req[p].c] = IF @ = Gone THEN Gone ELSE row]
    /\ Done(p)
    /\ UNCHANGED <<settings, initial>>

-----------------------------------------------------------------------------
(* services/oidc/subject.py                                                *)

(* The sector of a pairwise client: the sector identifier's host, or the   *)
(* one host of its redirect URIs.                                          *)
sector_host(row) == row.sector \/ Cardinality(row.hosts) = 1

validate_subject_settings(pairwise, sector, hosts) ==
    IF pairwise THEN sector \/ Cardinality(hosts) = 1 ELSE ~sector

(* services/oauth2.py: the front-channel URI is at a redirect URI's        *)
(* origin.                                                                 *)
validate_frontchannel_logout_uri(front, hosts) == front = None \/ front \in hosts

validate_client_metadata(m) ==
    /\ m.code \/ m.device
    /\ m.family = "none" => ~m.code
    /\ m.code <=> m.hosts # {}
    /\ m.family = "keys" => m.keys
    /\ validate_frontchannel_logout_uri(m.front, m.hosts)
    /\ m.par => m.code /\ m.family # "none"
    /\ validate_subject_settings(m.pairwise, m.sector, m.hosts)
    /\ m.pairwise /\ m.device => m.sector

auth_method_family(m) == m.family

(* The members of registration_metadata that later updates read.           *)
Extra(m) == [family |-> m.family, code |-> m.code, par |-> m.par, pairwise |-> m.pairwise]

-----------------------------------------------------------------------------
(* database/oauth2/clients.py: what each statement leaves in the row       *)

(* The secret of a public client is shown to nobody.                       *)
NormalClient(public, hosts, front, device) ==
    [kind |-> IF public THEN "public" ELSE "normal", asked |-> None, rat |-> 0,
     active |-> TRUE, keyed |-> FALSE, keys |-> FALSE, shown |-> ~public, device |-> device,
     par |-> FALSE, pairwise |-> FALSE, sector |-> FALSE, hosts |-> hosts, front |-> front,
     oidc |-> FALSE, all |-> FALSE, introspect |-> FALSE, admin |-> FALSE, groups |-> {},
     tokens |-> FALSE]

(* A service account: the client and the user it acts as.                  *)
ServiceClient(admin) ==
    [NormalClient(FALSE, {}, None, FALSE) EXCEPT !.kind = "b2b", !.admin = admin]

WithSecret(row) == [row EXCEPT !.shown = TRUE]

(* None leaves a column alone; front is wrapped, since it may be cleared.  *)
WithColumns(row, hosts, front, device, par) ==
    [row EXCEPT !.hosts = IF hosts = None THEN @ ELSE hosts,
                !.front = IF front = None THEN @ ELSE front[1],
                !.device = IF device = None THEN @ ELSE device,
                !.par = IF par = None THEN @ ELSE par]

WithOidcSettings(row, oidc, all) ==
    [row EXCEPT !.oidc = IF oidc = None THEN @ ELSE oidc,
                !.all = IF all = None THEN @ ELSE all]

(* A new secret, when one is given, is returned (TRUE) or seen by nobody.  *)
WithAuthentication(row, keyed, keys, secret) ==
    [row EXCEPT !.keyed = keyed, !.keys = keys, !.shown = IF secret = None THEN @ ELSE secret]

(* The client's own request for pairwise subjects leaves its metadata.     *)
WithSubjectType(row, pairwise, sector) ==
    [row EXCEPT !.pairwise = pairwise, !.sector = sector,
                !.asked = IF @ = None THEN None ELSE [@ EXCEPT !.pairwise = FALSE]]

-----------------------------------------------------------------------------
(* services/oauth2_registration.py: policy and initial access tokens       *)

(* Reads both columns, merges the one given, and writes both.              *)
update_registration_settings_Read(p) ==
    /\ req[p] = None
    /\ "settings" \in Operations
    /\ req' = [req EXCEPT ![p] = [op |-> "settings", old |-> settings]]
    /\ UNCHANGED <<settings, initial, clients>>

update_registration_settings(p) ==
    /\ At(p, "settings")
    /\ \/ \E policy \in {"off", "token_required", "open"} :
            settings' = [req[p].old EXCEPT !.policy = policy]
       \/ \E all \in BOOLEAN : settings' = [req[p].old EXCEPT !.all = all]
    /\ Done(p)
    /\ UNCHANGED <<initial, clients>>

create_initial_access_token(t) ==
    /\ "settings" \in Operations
    /\ initial[t] = "unused"
    /\ initial' = [initial EXCEPT ![t] = "active"]
    /\ UNCHANGED <<settings, clients, req>>

revoke_initial_access_token(t) ==
    /\ initial[t] \in {"active", "expired"}
    /\ initial' = [initial EXCEPT ![t] = "revoked"]
    /\ UNCHANGED <<settings, clients, req>>

(* The date in expires_at passes.                                          *)
Expire(t) ==
    /\ initial[t] = "active"
    /\ initial' = [initial EXCEPT ![t] = "expired"]
    /\ UNCHANGED <<settings, clients, req>>

-----------------------------------------------------------------------------
(* services/oauth2_registration.py: registration                           *)

(* A token that is presented must be good even when none is needed.        *)
_authorize_registration(p, t) ==
    /\ req[p] = None
    /\ "register" \in Operations
    /\ settings.policy # "off"
    /\ IF t = None THEN settings.policy = "open" ELSE initial[t] = "active"
    /\ req' = [req EXCEPT ![p] = [op |-> "register"]]
    /\ UNCHANGED <<settings, initial, clients>>

(* create_registered_client: the secret of a public or a private_key_jwt   *)
(* client is shown to nobody.                                              *)
create_registered_client(m) ==
    [kind |-> IF m.family = "none" THEN "public" ELSE "normal", asked |-> Extra(m), rat |-> 1,
     active |-> TRUE, keyed |-> m.family = "keys", keys |-> m.keys,
     shown |-> m.family = "secret", device |-> m.device, par |-> m.par,
     pairwise |-> m.pairwise, sector |-> m.sector, hosts |-> m.hosts, front |-> m.front,
     oidc |-> TRUE, all |-> settings.all, introspect |-> FALSE, admin |-> FALSE,
     groups |-> {}, tokens |-> FALSE]

register_client(p, c, m) ==
    /\ At(p, "register")
    /\ clients[c] = None
    /\ validate_client_metadata(m)
    /\ clients' = [clients EXCEPT ![c] = create_registered_client(m)]
    /\ Done(p)
    /\ UNCHANGED <<settings, initial>>

(* The row is read with the token hash the request presented.              *)
authenticate_registration(p, op, c) ==
    /\ Registered(c)
    /\ clients[c].active
    /\ clients[c].rat < MaxRat
    /\ Read(p, op, c)

(* What an update may ask for, given the row read on authentication.       *)
Allowed(old, m) ==
    /\ validate_client_metadata(m)
    /\ auth_method_family(m) = auth_method_family(old.asked)
    /\ m.device => old.device
    /\ old.pairwise /\ ~old.asked.pairwise
         => validate_subject_settings(TRUE, old.sector, m.hosts)

(* The row an update leaves, computed from the row read: PAR and pairwise  *)
(* subjects that an administrator imposed stay.                            *)
Replaced(old, m) ==
    LET imposedPar == old.par /\ ~old.asked.par
        imposedSubject == old.pairwise /\ ~old.asked.pairwise
    IN  [m EXCEPT !.par = m.par \/ (imposedPar /\ m.code),
                  !.pairwise = m.pairwise \/ imposedSubject,
                  !.sector = IF imposedSubject THEN old.sector ELSE m.sector]

(* UPDATE of the named columns; the others keep what the row holds.        *)
Merge(row, new, m, imposed) ==
    [row EXCEPT !.asked = [Extra(m) EXCEPT !.pairwise = m.pairwise /\ ~imposed],
                !.rat = @ + 1, !.keys = new.keys, !.device = new.device, !.par = new.par,
                !.pairwise = new.pairwise, !.sector = new.sector, !.hosts = new.hosts,
                !.front = new.front]

(* One statement: nothing is written unless the token is still the one     *)
(* presented; the caller is then refused.                                  *)
replace_registered_client(p, m) ==
    LET old == req[p].old
    IN  IF ~Registered(req[p].c) \/ clients[req[p].c].rat # old.rat
        THEN Done(p) /\ UNCHANGED <<settings, initial, clients>>
        ELSE Write(p, Merge(clients[req[p].c], Replaced(old, m), m,
                            old.pairwise /\ ~old.asked.pairwise))

update_client_configuration(p, m) ==
    /\ At(p, "update_configuration")
    /\ Allowed(req[p].old, m)
    /\ replace_registered_client(p, m)

delete_client_configuration(p) ==
    /\ At(p, "delete_configuration")
    /\ clients' = [clients EXCEPT ![req[p].c] = Gone]
    /\ Done(p)
    /\ UNCHANGED <<settings, initial>>

(* set_registration_access_token: whatever the token was.                  *)
reset_registration_access_token(p) ==
    /\ At(p, "reset_token")
    /\ req[p].old.asked # None
    /\ Exists(req[p].c) => clients[req[p].c].rat < MaxRat
    /\ IF Registered(req[p].c)
       THEN Write(p, [clients[req[p].c] EXCEPT !.rat = @ + 1])
       ELSE Done(p) /\ UNCHANGED <<settings, initial, clients>>

-----------------------------------------------------------------------------
(* services/oauth2.py: administration                                      *)

(* public: the device grant only, no browser settings, no secret.          *)
create_normal_client(c, public, hosts, front, device) ==
    /\ "create" \in Operations
    /\ clients[c] = None
    /\ IF public THEN hosts = {} /\ front = None /\ device ELSE hosts # {}
    /\ validate_frontchannel_logout_uri(front, hosts)
    /\ clients' = [clients EXCEPT ![c] = NormalClient(public, hosts, front, device)]
    /\ UNCHANGED <<settings, initial, req>>

create_b2b_client(c, admin) ==
    /\ "create" \in Operations
    /\ clients[c] = None
    /\ clients' = [clients EXCEPT ![c] = ServiceClient(admin)]
    /\ UNCHANGED <<settings, initial, req>>

delete_client(p) ==
    /\ At(p, "delete")
    /\ clients' = [clients EXCEPT ![req[p].c] = Gone]
    /\ Done(p)
    /\ UNCHANGED <<settings, initial>>

(* Refused on the row read, and again by the statement's WHERE.            *)
regenerate_client_secret(p) ==
    /\ At(p, "secret")
    /\ req[p].old.kind # "public" /\ ~req[p].old.keyed
    /\ IF Exists(req[p].c) /\ clients[req[p].c].keyed
       THEN Done(p) /\ UNCHANGED <<settings, initial, clients>>
       ELSE Write(p, WithSecret(clients[req[p].c]))

update_client_Unchecked(p, hosts, front, device, par) ==
    LET old == req[p].old
    IN  /\ At(p, "update_client")
        /\ old.kind = "normal"
        /\ Write(p, WithColumns(clients[req[p].c], hosts, front, device, par))

(* The checks use the row read; the statement names only given columns.    *)
update_client(p, hosts, front, device, par) ==
    LET old == req[p].old
        redirects == IF hosts = None THEN old.hosts ELSE hosts
        frontchannel == IF front = None THEN old.front ELSE front[1]
    IN  /\ At(p, "update_client")
        /\ old.kind # "normal" => hosts = None /\ front = None /\ par # TRUE
        /\ old.kind = "b2b" => device # TRUE
        /\ old.kind = "public" => device # FALSE
        /\ hosts # None /\ old.pairwise => validate_subject_settings(TRUE, old.sector, hosts)
        /\ front # None \/ hosts # None
             => validate_frontchannel_logout_uri(frontchannel, redirects)
        /\ Write(p, WithColumns(clients[req[p].c], hosts, front, device, par))

update_b2b_client_role(p, admin) ==
    /\ At(p, "role")
    /\ req[p].old.kind = "b2b"
    /\ Write(p, [clients[req[p].c] EXCEPT !.admin = admin])

(* Deactivation also deletes the tokens and consents.                      *)
deactivate_client(p) ==
    /\ At(p, "switch")
    /\ Write(p, [clients[req[p].c] EXCEPT !.active = FALSE, !.tokens = FALSE])

reactivate_client(p) ==
    /\ At(p, "switch")
    /\ Write(p, [clients[req[p].c] EXCEPT !.active = TRUE])

set_tenant_introspection(p, enabled) ==
    /\ At(p, "introspection")
    /\ enabled => req[p].old.kind # "public"
    /\ Write(p, [clients[req[p].c] EXCEPT !.introspect = enabled])

(* Switching replaces the secret: with one returned once, or with one      *)
(* nobody sees.  Whether it is a switch is decided on the row read.        *)
set_client_authentication(p, keyed, keys) ==
    /\ At(p, "authentication")
    /\ req[p].old.kind # "public"
    /\ keyed => keys
    /\ Write(p, WithAuthentication(clients[req[p].c], keyed, keys,
                                   IF keyed # req[p].old.keyed THEN ~keyed ELSE None))

(* Validated against the redirect URIs read.                               *)
set_client_subject_type(p, pairwise, sector) ==
    LET old == req[p].old
    IN  /\ At(p, "subject")
        /\ old.kind # "b2b"
        /\ validate_subject_settings(pairwise, sector, old.hosts)
        /\ IF pairwise = old.pairwise /\ sector = old.sector
           THEN Done(p) /\ UNCHANGED <<settings, initial, clients>>
           ELSE Write(p, WithSubjectType(clients[req[p].c], pairwise, sector))

-----------------------------------------------------------------------------
(* services/oidc/clients.py                                                *)

(* Narrowing an OpenID Connect application to its groups deletes its       *)
(* tokens.                                                                 *)
set_oidc_settings(p, oidc, all) ==
    LET new == WithOidcSettings(clients[req[p].c], oidc, all)
    IN  /\ At(p, "oidc")
        /\ req[p].old.kind # "b2b"
        /\ IF ~Exists(req[p].c)
           THEN Done(p) /\ UNCHANGED <<settings, initial, clients>>
           ELSE Write(p, [new EXCEPT
                            !.tokens = @ /\ ~(new.oidc /\ all = FALSE /\ req[p].old.all)])

assign_client_to_group(p, gs) ==
    /\ At(p, "groups")
    /\ req[p].old.kind # "b2b"
    /\ Write(p, [clients[req[p].c] EXCEPT !.groups = @ \cup gs])

remove_client_group_assignment(p, g) ==
    LET old == req[p].old
    IN  /\ At(p, "groups")
        /\ old.kind # "b2b"
        /\ Exists(req[p].c) => g \in clients[req[p].c].groups
        /\ Write(p, [clients[req[p].c] EXCEPT
                       !.groups = @ \ {g}, !.tokens = @ /\ ~(old.oidc /\ ~old.all)])

(* A token is issued to a user who may use the application.                *)
Issue(c) ==
    /\ "issue" \in Operations
    /\ Exists(c)
    /\ clients[c].active
    /\ clients[c].oidc => clients[c].all \/ clients[c].groups # {}
    /\ clients' = [clients EXCEPT ![c].tokens = TRUE]
    /\ UNCHANGED <<settings, initial, req>>

-----------------------------------------------------------------------------
(* Endpoints.  The pages and the API call the same services; the pages     *)
(* post whole forms where the API patches single columns.                  *)

Maybe(S) == S \cup {None}
Accepted == {m \in Metadata : validate_client_metadata(m)}
MaybeFront == {<<h>> : h \in Hosts \cup {None}} \cup {None}

(* routers/integrations.py                                                 *)
apps_create(c) ==
    \/ create_normal_client(c, TRUE, {}, None, TRUE)
    \/ \E hosts \in SUBSET Hosts : create_normal_client(c, FALSE, hosts, None, FALSE)

b2b_create(c) == \E admin \in BOOLEAN : create_b2b_client(c, admin)

(* The edit form carries the redirect URIs and both switches, as shown     *)
(* when the page was loaded; the logout form carries the logout URIs.      *)
app_edit(p) ==
    \/ \E hosts \in (SUBSET Hosts) \ {{}}, device, par \in BOOLEAN :
         update_client(p, hosts, None, device, par)
    \/ \E front \in MaybeFront \ {None} : update_client(p, None, front, None, None)

app_set_authentication(p) ==
    \/ \E keyed, keys \in BOOLEAN : set_client_authentication(p, keyed, keys)
    \/ \E pairwise, sector \in BOOLEAN :
         (~pairwise => ~sector) /\ set_client_subject_type(p, pairwise, sector)

app_credentials(p) ==
    \/ \E enabled \in BOOLEAN : set_tenant_introspection(p, enabled)
    \/ regenerate_client_secret(p)
    \/ reset_registration_access_token(p)

app_switch(p) ==
    \/ deactivate_client(p)
    \/ reactivate_client(p)
    \/ \E on \in BOOLEAN : set_oidc_settings(p, on, None) \/ set_oidc_settings(p, None, on)

app_groups(p) ==
    \E g \in Groups : assign_client_to_group(p, {g}) \/ remove_client_group_assignment(p, g)

b2b_edit(p) ==
    \/ \E enabled \in BOOLEAN : set_tenant_introspection(p, enabled)
    \/ \E keyed, keys \in BOOLEAN : set_client_authentication(p, keyed, keys)
    \/ \E admin \in BOOLEAN : update_b2b_client_role(p, admin)

b2b_switch(p) == regenerate_client_secret(p) \/ deactivate_client(p) \/ reactivate_client(p)

client_registration_settings(p) ==
    \/ update_registration_settings_Read(p)
    \/ update_registration_settings(p)
    \/ \E t \in Tokens : create_initial_access_token(t) \/ revoke_initial_access_token(t)

(* routers/api/v1/oauth2_registration.py                                   *)
api_client_registration(p) == client_registration_settings(p)

(* routers/oauth2_registration.py                                          *)
register(p) ==
    \/ \E t \in Maybe(Tokens) : _authorize_registration(p, t)
    \/ At(p, "register") /\ \E c \in Clients, m \in Accepted : register_client(p, c, m)

update_configuration(p) ==
    \/ \E c \in Clients : authenticate_registration(p, "update_configuration", c)
    \/ At(p, "update_configuration") /\ \E m \in Accepted : update_client_configuration(p, m)

delete_configuration(p) ==
    \/ \E c \in Clients : authenticate_registration(p, "delete_configuration", c)
    \/ delete_client_configuration(p)

(* routers/api/v1/oauth2_clients.py                                        *)
api_create(c) ==
    \/ \E hosts \in SUBSET Hosts, front \in Maybe(Hosts), device \in BOOLEAN :
         create_normal_client(c, FALSE, hosts, front, device)
    \/ apps_create(c)
    \/ b2b_create(c)

api_credentials(p) == delete_client(p) \/ app_credentials(p) \/ app_set_authentication(p)

(* A patch may leave any column alone; the checks on the URIs and those on *)
(* the switches do not meet, so that one of each is enough.                *)
api_update(p) ==
    \/ \E hosts \in Maybe((SUBSET Hosts) \ {{}}), front \in MaybeFront :
         update_client(p, hosts, front, None, None)
    \/ \E device, par \in Maybe(BOOLEAN) : update_client(p, None, None, device, par)

api_switch(p) == (\E admin \in BOOLEAN : update_b2b_client_role(p, admin)) \/ app_switch(p)

api_oidc(p) ==
    \E oidc, all \in Maybe(BOOLEAN) : (oidc # None \/ all # None) /\ set_oidc_settings(p, oidc, all)

api_groups(p) ==
    \/ \E gs \in (SUBSET Groups) \ {{}} : assign_client_to_group(p, gs)
    \/ \E g \in Groups : remove_client_group_assignment(p, g)

(* The request ends in an error before it writes.                          *)
Refuse(p) == req[p] # None /\ Done(p) /\ UNCHANGED <<settings, initial, clients>>

AdminOperations == AllOperations \ {"register", "update_configuration", "delete_configuration"}

Next ==
    \/ \E c \in Clients : api_create(c) \/ Issue(c)
    \/ \E t \in Tokens : Expire(t)
    \/ \E p \in Requests :
         \/ \E c \in Clients, op \in AdminOperations : Read(p, op, c)
         \/ api_client_registration(p)
         \/ register(p)
         \/ update_configuration(p)
         \/ delete_configuration(p)
         \/ api_credentials(p)
         \/ api_update(p)
         \/ app_edit(p) \/ app_groups(p) \/ b2b_edit(p) \/ b2b_switch(p)
         \/ api_switch(p)
         \/ api_oidc(p)
         \/ api_groups(p)
         \/ Refuse(p)

Spec == Init /\ [][Next]_vars

-----------------------------------------------------------------------------

(* A pairwise client always has a sector, which subject_for relies on when *)
(* it issues a token, and the front-channel logout URI is at the origin of *)
(* a redirect URI: true while requests follow one another, whoever edits   *)
(* the redirect URIs, the subject type or the client's own metadata.       *)
UrisFit ==
    \A c \in Clients : Exists(c) =>
       /\ clients[c].pairwise => sector_host(clients[c])
       /\ validate_frontchannel_logout_uri(clients[c].front, clients[c].hosts)

(* A private_key_jwt client has keys (client_keys_required).               *)
KeyedHasKeys == \A c \in Clients : Exists(c) /\ clients[c].keyed => clients[c].keys
=============================================================================
