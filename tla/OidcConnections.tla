-------------------------- MODULE OidcConnections --------------------------
(***************************************************************************)
(* The upstream OIDC connections of a tenant: creating, editing, testing   *)
(* and deleting them (services/oidc_upstream/connections.py and its admin  *)
(* and API routes), the presets, and the discovery of the endpoints, which *)
(* a sign-in repeats when the last one is old (discovery.py).              *)
(*                                                                         *)
(* A column that holds an endpoint holds where it came from: HandSet, or   *)
(* the URL of the discovery document.  Every statement is a transaction of *)
(* its own; an UPDATE writes the columns of its patch and no others.       *)
(***************************************************************************)
EXTENDS FiniteSets

CONSTANTS
    Connections,  \* ids of connections
    Names,        \* names of connections
    Issuers,      \* issuers; an issuer also names its well-known document
    Mirrors,      \* other URLs that serve a discovery document
    IssuerOf,     \* Mirrors -> Issuers: the issuer a mirrored document states
    Preset,       \* the issuer of every preset that has one
    Shared,       \* Entra's multi-tenant authority
    Requests,     \* HTTP requests in progress
    HandSet,      \* an endpoint an administrator typed
    None          \* a null column, or no row

Urls == Issuers \cup Mirrors \cup {Preset}
DocumentIssuer(url) == IF url \in Mirrors THEN IssuerOf[url] ELSE url

(* fixed: the adapter has the endpoints, there is no discovery.            *)
OIDCPreset(issuer, fixed, trusted, overridable) ==
    [issuer |-> issuer, fixed |-> fixed, trusted |-> trusted, overridable |-> overridable]

_PRESETS ==
    [generic  |-> OIDCPreset(None, FALSE, TRUE, FALSE),
     entra    |-> OIDCPreset(None, FALSE, TRUE, FALSE),
     google   |-> OIDCPreset(Preset, FALSE, TRUE, FALSE),
     microsoft |-> OIDCPreset(Preset, FALSE, FALSE, FALSE),
     gitlab   |-> OIDCPreset(Preset, FALSE, TRUE, TRUE),
     apple    |-> OIDCPreset(Preset, FALSE, TRUE, FALSE),
     github   |-> OIDCPreset(Preset, TRUE, TRUE, FALSE),
     facebook |-> OIDCPreset(Preset, TRUE, FALSE, FALSE)]

Types == DOMAIN _PRESETS
uses_discovery(type) == ~_PRESETS[type].fixed
email_linking_trusted(type) == _PRESETS[type].trusted

(* Two of the endpoints, enough for some to be missing or typed by hand.   *)
_REQUIRED_ENDPOINT_FIELDS == {"authorization_endpoint", "jwks_uri"}
_MANUAL_ENDPOINT_FIELDS == _REQUIRED_ENDPOINT_FIELDS

ASSUME ConnectionConstants ==
    /\ IssuerOf \in [Mirrors -> Issuers]
    /\ Preset \notin Issuers \cup Mirrors /\ Issuers \cap Mirrors = {}
    /\ HandSet \notin Urls /\ None \notin Urls \cup Names /\ Shared \notin Urls

VARIABLES
    conn,         \* Connections -> row of oidc_idp_connections, or None
    groups,       \* Connections -> names of the groups that belong to the connection
    req           \* Requests -> what the request does next, and what it has read

vars == <<conn, groups, req>>

(* details: the credentials, claim mapping, group claim, restrictions and  *)
(* other columns that no rule below reads.                                 *)
Row == [type : Types, name : Names, issuer : Urls, discovery_url : Urls \cup {None},
        authorization_endpoint : Urls \cup {HandSet, None}, jwks_uri : Urls \cup {HandSet, None},
        discovery_fetched_at : {"fresh", "stale", None}, details : {"first", "edited"},
        allow_email_linking : BOOLEAN, is_enabled : BOOLEAN, is_default : BOOLEAN]

(* The columns a request goes by after it has read the row.                *)
Source == {"type", "name", "issuer", "discovery_url", "discovery_fetched_at"}
Marks == {"is_enabled", "is_default"}
Keep(row, columns) == [f \in columns |-> row[f]]

Idle == [pc |-> "idle", c |-> None, row |-> None, patch |-> None]

TypeOK ==
    /\ \A c \in Connections : conn[c] = None \/ conn[c] \in Row
    /\ groups \in [Connections -> SUBSET Names]
    /\ \A p \in Requests : req[p].c \in Connections \cup {None}

Init ==
    /\ conn = [c \in Connections |-> None]
    /\ groups = [c \in Connections |-> {}]
    /\ req = [p \in Requests |-> Idle]

At(p, step) == req[p].pc = step
Goto(p, step) == req' = [req EXCEPT ![p].pc = step]
Done(p) == req' = [req EXCEPT ![p] = Idle]
Exists(c) == conn[c] # None

(* A patch is the columns an UPDATE sets.                                  *)
Patch(f, value) == [x \in {f} |-> value]
And(one, other) == [f \in DOMAIN one \cup DOMAIN other |->
                      IF f \in DOMAIN other THEN other[f] ELSE one[f]]
Has(patch, f) == f \in DOMAIN patch
Nothing == [f \in {} |-> None]

(* UPDATE oidc_idp_connections SET the columns of the patch.               *)
update_columns(c, patch) == conn' = [conn EXCEPT ![c] = And(@, patch)]

-----------------------------------------------------------------------------
(* Creating a connection.                                                  *)

(* Without an issuer of its own a connection gets that of its preset, and  *)
(* then the discovery URL of the preset too.                               *)
_apply_preset_defaults(type, data) ==
    LET preset == _PRESETS[type].issuer
        issuer == IF data.issuer # None THEN data.issuer ELSE preset
        url == IF data.discovery_url = None /\ uses_discovery(type) /\ issuer = preset
               THEN preset ELSE data.discovery_url
    IN CASE type = "entra" /\ issuer = None ->
              [data EXCEPT !.issuer = data.tenant,
                           !.discovery_url = IF url = None THEN data.tenant ELSE url]
         [] OTHER -> [data EXCEPT !.issuer = issuer, !.discovery_url = url]

(* The settings a fixed provider does not have must be left blank.         *)
_validate_fixed_endpoint_fields(type, data) ==
    uses_discovery(type) \/ /\ \A f \in DOMAIN data \cap ({"discovery_url", "tenant"} \cup _MANUAL_ENDPOINT_FIELDS) :
                                 data[f] = None
                            /\ "issuer" \in DOMAIN data => data.issuer \in {None, Preset}

_validate_single_tenant_authority(type, data) ==
    /\ "issuer" \in DOMAIN data => data.issuer # Shared
    /\ type = "entra" /\ "tenant" \in DOMAIN data => data.tenant # Shared

_validate_email_linking(type, linking) == linking => email_linking_trusted(type)

create_connection_row(type, name, data, linking, enabled, default) ==
    [type |-> type, name |-> name, issuer |-> data.issuer, discovery_url |-> data.discovery_url,
     authorization_endpoint |-> data.authorization_endpoint, jwks_uri |-> data.jwks_uri,
     discovery_fetched_at |-> None, details |-> "first", allow_email_linking |-> linking,
     is_enabled |-> enabled, is_default |-> default]

(* A trigger takes the mark from the other rows.                           *)
ensure_single_default_oidc_connection(rows, c) ==
    [d \in Connections |-> IF d # c /\ rows[d] # None /\ rows[c].is_default
                           THEN [rows[d] EXCEPT !.is_default = FALSE] ELSE rows[d]]

Form(issuer, tenant, url, endpoint) ==
    [issuer |-> issuer, tenant |-> tenant, discovery_url |-> url,
     authorization_endpoint |-> endpoint, jwks_uri |-> None]

CreateForms ==
    {Form(i, None, None, None) : i \in Issuers \cup {Preset, Shared, None}}
      \cup {Form(None, t, None, None) : t \in Issuers \cup {Shared}}
      \cup {Form(i, None, u, e) : i \in Issuers, u \in Mirrors, e \in {HandSet, None}}

create_connection(p, c, type, name, form, linking, enabled, default) ==
    /\ req[p] = Idle /\ ~Exists(c)
    /\ _validate_fixed_endpoint_fields(type, form)
    /\ LET data == _apply_preset_defaults(type, form)
           row == create_connection_row(type, name, data, linking, enabled, default)
       IN /\ data.issuer # None
          /\ _validate_single_tenant_authority(type, data)
          /\ _validate_email_linking(type, linking)
          /\ conn' = ensure_single_default_oidc_connection([conn EXCEPT ![c] = row], c)
          /\ req' = [req EXCEPT ![p] = [Idle EXCEPT !.pc = "base_group",
                                                    !.c = c, !.row = Keep(row, {"name"})]]
    /\ UNCHANGED groups

(* A group of that name may be there: a sign-in may have come first.       *)
create_idp_base_group(p) ==
    /\ At(p, "base_group")
    /\ groups' = [groups EXCEPT ![req[p].c] = IF Exists(req[p].c) THEN @ \cup {req[p].row.name} ELSE @]
    /\ Done(p)
    /\ UNCHANGED conn

-----------------------------------------------------------------------------
(* Editing.                                                                *)

Read(p, op, c, columns, patch) ==
    /\ req[p] = Idle /\ Exists(c)
    /\ req' = [req EXCEPT ![p] = [pc |-> op, c |-> c, row |-> Keep(conn[c], columns), patch |-> patch]]
    /\ UNCHANGED <<conn, groups>>

(* An Entra tenant id brings its authority; the issuer of a self-managed   *)
(* GitLab its discovery URL, unless the same form says one.                *)
Composed(type, patch) ==
    CASE type = "entra" /\ Has(patch, "tenant") /\ ~Has(patch, "issuer") ->
           And(Patch("discovery_url", patch.tenant), And(Patch("issuer", patch.tenant), patch))
      [] _PRESETS[type].overridable /\ Has(patch, "issuer") /\ ~Has(patch, "discovery_url") ->
           And(patch, Patch("discovery_url", IF patch.issuer = Preset THEN Preset ELSE None))
      [] OTHER -> patch

_discovery_source_changed_Issuer(row, patch) == Has(patch, "issuer") /\ patch.issuer # row.issuer

_discovery_source_changed(row, patch) ==
    \E f \in {"issuer", "discovery_url"} : Has(patch, f) /\ patch[f] # row[f]

(* Hand-set endpoints end the refreshes; a new source drops what the old   *)
(* one had.                                                                *)
Rediscovering(row, patch) ==
    CASE DOMAIN patch \cap _MANUAL_ENDPOINT_FIELDS # {} ->
           And(patch, Patch("discovery_fetched_at", None))
      [] DOMAIN patch \cap _MANUAL_ENDPOINT_FIELDS = {}
           /\ row.discovery_fetched_at # None /\ _discovery_source_changed(row, patch) ->
           And(patch, [f \in _MANUAL_ENDPOINT_FIELDS \cup {"discovery_fetched_at"} |-> None])
      [] OTHER -> patch

ValidUpdate(type, patch) ==
    /\ _validate_fixed_endpoint_fields(type, patch)
    /\ _validate_single_tenant_authority(type, patch)
    /\ Has(patch, "allow_email_linking") => _validate_email_linking(type, patch.allow_email_linking)

update_connection(p) ==
    /\ At(p, "update")
    /\ LET row == req[p].row
           patch == Rediscovering(row, Composed(row.type, req[p].patch))
           columns == [f \in DOMAIN patch \ {"tenant"} |-> patch[f]]
       IN IF ~ValidUpdate(row.type, req[p].patch) \/ columns = Nothing \/ ~Exists(req[p].c)
          THEN Done(p) /\ UNCHANGED conn
          ELSE /\ update_columns(req[p].c, columns)
               /\ IF Has(columns, "name") /\ columns.name # row.name
                  THEN req' = [req EXCEPT ![p].pc = "rename", ![p].patch = columns]
                  ELSE Done(p)
    /\ UNCHANGED groups

(* The group is found by the name the row had when it was read.            *)
rename_idp_base_group(p) ==
    /\ At(p, "rename")
    /\ LET g == groups[req[p].c]
           old == req[p].row.name
           new == req[p].patch.name
       IN groups' = [groups EXCEPT ![req[p].c] =
                       IF old \in g /\ new \notin g THEN (g \ {old}) \cup {new} ELSE g]
    /\ Done(p)
    /\ UNCHANGED conn

-----------------------------------------------------------------------------
(* Discovery.                                                              *)

_resolve_discovery_url(row) ==
    IF row.discovery_url # None THEN row.discovery_url ELSE row.issuer

has_endpoints(row) == \A f \in _REQUIRED_ENDPOINT_FIELDS : row[f] # None

(* Whether a sign-in runs the discovery: it is old, or it never ran and    *)
(* endpoints are missing.                                                  *)
refresh_for_login(row) ==
    \/ row.discovery_fetched_at = "stale"
    \/ row.discovery_fetched_at = None /\ ~has_endpoints(row)

(* run_discovery reads the row itself, again.                              *)
run_discovery(p) ==
    /\ At(p, "discover")
    /\ IF Exists(req[p].c)
       THEN req' = [req EXCEPT ![p].pc = "fetch", ![p].row = Keep(conn[req[p].c], Source)]
       ELSE Done(p)
    /\ UNCHANGED <<conn, groups>>

(* The document must state the issuer the row had when it was read.        *)
_validate_discovery_document(row) == DocumentIssuer(_resolve_discovery_url(row)) = row.issuer

store_discovery(p) ==
    /\ At(p, "fetch") /\ Exists(req[p].c)
    /\ _validate_discovery_document(req[p].row)
    /\ update_columns(req[p].c,
         And([f \in _MANUAL_ENDPOINT_FIELDS |-> _resolve_discovery_url(req[p].row)],
             Patch("discovery_fetched_at", "fresh")))
    /\ Done(p)
    /\ UNCHANGED groups

(* Unreachable or refused: the message is noted and nothing else changes.  *)
discovery_failed(p) ==
    /\ At(p, "fetch")
    /\ Done(p)
    /\ UNCHANGED <<conn, groups>>

(* A sign-in begins at an enabled connection; a fixed provider needs no    *)
(* preparation.                                                            *)
prepare(p, c) ==
    /\ Exists(c) /\ conn[c].is_enabled
    /\ uses_discovery(conn[c].type) /\ refresh_for_login(conn[c])
    /\ Read(p, "discover", c, {}, None)

(* Test Connection always discovers; a fixed provider has its credentials  *)
(* tried and its row left alone.                                           *)
test_connection(p, c) ==
    /\ Exists(c)
    /\ uses_discovery(conn[c].type)
    /\ Read(p, "discover", c, {}, None)

(* An hour passes since the last discovery.                                *)
TTL(c) ==
    /\ Exists(c) /\ conn[c].discovery_fetched_at = "fresh"
    /\ update_columns(c, Patch("discovery_fetched_at", "stale"))
    /\ UNCHANGED <<groups, req>>

-----------------------------------------------------------------------------
(* Switching, and deleting a connection nobody is linked to.               *)

set_connection_enabled(c, enabled) ==
    /\ Exists(c)
    /\ update_columns(c, Patch("is_enabled", enabled))
    /\ UNCHANGED <<groups, req>>

set_connection_default(c) ==
    /\ Exists(c)
    /\ conn' = ensure_single_default_oidc_connection([conn EXCEPT ![c].is_default = TRUE], c)
    /\ UNCHANGED <<groups, req>>

clear_connection_default(c) ==
    /\ Exists(c) /\ conn[c].is_default
    /\ update_columns(c, Patch("is_default", FALSE))
    /\ UNCHANGED <<groups, req>>

delete_connection(p, c) ==
    /\ Exists(c) /\ ~conn[c].is_enabled
    /\ Read(p, "invalidate", c, {}, None)

invalidate_idp_groups(p) ==
    /\ At(p, "invalidate")
    /\ groups' = [groups EXCEPT ![req[p].c] = {}]
    /\ Goto(p, "delete")
    /\ UNCHANGED conn

delete_connection_row(p) ==
    /\ At(p, "delete")
    /\ conn' = [conn EXCEPT ![req[p].c] = None]
    /\ groups' = [groups EXCEPT ![req[p].c] = {}]
    /\ Done(p)

-----------------------------------------------------------------------------
(* The forms of the administration pages, one per route.                   *)

edit_claim_mapping(p, c) == Read(p, "update", c, Source, Patch("details", "edited"))

edit_group_claim(p, c) == Read(p, "update", c, Source, Patch("details", "edited"))

edit_connection_name(p, c) ==
    \E name \in Names : Read(p, "update", c, Source, Patch("name", name))

(* A blank field is left out of the patch.                                 *)
edit_connection_endpoints(p, c) ==
    \E fs \in SUBSET _MANUAL_ENDPOINT_FIELDS :
        Read(p, "update", c, Source, [f \in fs |-> HandSet])

edit_connection_credentials(p, c) ==
    \/ Read(p, "update", c, Source, Patch("details", "edited"))
    \/ \E i \in Issuers \cup {Preset, Shared} : Read(p, "update", c, Source, Patch("issuer", i))
    \/ \E t \in Issuers \cup {Shared} : Read(p, "update", c, Source, Patch("tenant", t))
    \/ \E u \in Mirrors : Read(p, "update", c, Source, Patch("discovery_url", u))
    \/ \E i \in Issuers, u \in Mirrors :
         Read(p, "update", c, Source, And(Patch("issuer", i), Patch("discovery_url", u)))

(* One form, up to three statements: the two marks, then the rest.         *)
edit_connection_settings(p, c) ==
    \E patch \in [Marks \cup {"allow_email_linking"} -> BOOLEAN] : Read(p, "settings", c, Marks, patch)

settings_enabled(p) ==
    /\ At(p, "settings")
    /\ IF req[p].patch.is_enabled # req[p].row.is_enabled /\ Exists(req[p].c)
       THEN update_columns(req[p].c, Patch("is_enabled", req[p].patch.is_enabled))
       ELSE UNCHANGED conn
    /\ IF Exists(req[p].c) THEN Goto(p, "settings_default") ELSE Done(p)
    /\ UNCHANGED groups

settings_default(p) ==
    /\ At(p, "settings_default")
    /\ LET c == req[p].c
           default == req[p].patch.is_default
       IN CASE Exists(c) /\ default /\ ~req[p].row.is_default ->
                 conn' = ensure_single_default_oidc_connection([conn EXCEPT ![c].is_default = TRUE], c)
            [] Exists(c) /\ ~default /\ req[p].row.is_default ->
                 update_columns(c, Patch("is_default", FALSE))
            [] OTHER -> UNCHANGED conn
    /\ IF Exists(req[p].c)
       THEN req' = [req EXCEPT ![p] = [@ EXCEPT !.pc = "update", !.row = Keep(conn'[req[p].c], Source),
                                                !.patch = Keep(@, {"allow_email_linking"})]]
       ELSE Done(p)
    /\ UNCHANGED groups

edit_apple_key(p, c) ==
    /\ Exists(c) /\ conn[c].type = "apple"
    /\ Read(p, "update", c, Source, Patch("details", "edited"))

edit_github_allowed_orgs(p, c) ==
    /\ Exists(c) /\ conn[c].type = "github"
    /\ Read(p, "update", c, Source, Patch("details", "edited"))

(* The button sends no value: the request turns over what it has read.     *)
toggle_connection(p, c) == Read(p, "toggle", c, Marks, None)

toggle_write(p) ==
    /\ At(p, "toggle")
    /\ IF Exists(req[p].c)
       THEN update_columns(req[p].c, Patch("is_enabled", ~req[p].row.is_enabled))
       ELSE UNCHANGED conn
    /\ Done(p)
    /\ UNCHANGED groups

admin_actions(p, c) ==
    \/ toggle_connection(p, c)
    \/ set_connection_default(c)
    \/ delete_connection(p, c)
    \/ test_connection(p, c)

admin_create(p, c) ==
    /\ req[p] = Idle /\ ~Exists(c)
    /\ \E type \in Types, name \in Names, form \in CreateForms, linking \in BOOLEAN :
        create_connection(p, c, type, name, form, linking, FALSE, FALSE)

(* The API creates a connection switched on at once, edits any columns,    *)
(* and says which way it switches.                                         *)
api_create(p, c) ==
    /\ req[p] = Idle /\ ~Exists(c)
    /\ \E type \in Types, name \in Names, form \in CreateForms, default \in BOOLEAN :
        create_connection(p, c, type, name, form, FALSE, TRUE, default)

(* PATCH takes any columns in one go.                                      *)
api_update(p, c) ==
    \E i \in Issuers, f \in _MANUAL_ENDPOINT_FIELDS :
        Read(p, "update", c, Source, And(Patch("issuer", i), Patch(f, HandSet)))

api_switch(p, c) ==
    \/ delete_connection(p, c)
    \/ \E enabled \in BOOLEAN : set_connection_enabled(c, enabled)
    \/ test_connection(p, c)

api_claim_mapping(p, c) == edit_claim_mapping(p, c)

api_default(c) == set_connection_default(c) \/ clear_connection_default(c)

-----------------------------------------------------------------------------
Begin(p, c) ==
    \/ admin_create(p, c) \/ api_create(p, c)
    \/ edit_claim_mapping(p, c) \/ edit_group_claim(p, c) \/ edit_connection_name(p, c)
    \/ edit_connection_endpoints(p, c) \/ edit_connection_credentials(p, c)
    \/ edit_connection_settings(p, c) \/ edit_apple_key(p, c) \/ edit_github_allowed_orgs(p, c)
    \/ admin_actions(p, c) \/ api_update(p, c) \/ api_switch(p, c) \/ api_claim_mapping(p, c)
    \/ api_default(c)
    \/ prepare(p, c)

Continue(p) ==
    \/ create_idp_base_group(p) \/ update_connection(p) \/ rename_idp_base_group(p)
    \/ run_discovery(p) \/ store_discovery(p)
    \/ discovery_failed(p)
    \/ settings_enabled(p) \/ settings_default(p) \/ toggle_write(p)
    \/ invalidate_idp_groups(p) \/ delete_connection_row(p)

Next ==
    \/ \E p \in Requests : Continue(p) \/ \E c \in Connections : Begin(p, c)
    \/ \E c \in Connections : TTL(c)

Spec == Init /\ [][Next]_vars

(* An edit of where a connection is discovered, or of its endpoints.       *)
SourceEdit(p) ==
    /\ At(p, "update")
    /\ DOMAIN req[p].patch \cap ({"issuer", "tenant", "discovery_url"} \cup _MANUAL_ENDPOINT_FIELDS) # {}

Discovering(p) == req[p].pc \in {"discover", "fetch"}

(* Such an edit and a discovery of the same connection do not overlap.     *)
Apart ==
    \A p, q \in Requests : SourceEdit(p) /\ Discovering(q) => req[p].c # req[q].c

-----------------------------------------------------------------------------
(* "When the issuer or discovery URL changes, WeftID drops the endpoints   *)
(* it discovered from the old one": a connection under discovery never     *)
(* has an endpoint of another document than the one it names, through      *)
(* discoveries that overlap each other and every other edit, as long as no *)
(* edit of the source itself falls into a discovery.                       *)
EndpointsOfSource ==
    \A c \in Connections : Exists(c) /\ conn[c].discovery_fetched_at # None =>
        \A f \in _MANUAL_ENDPOINT_FIELDS :
            conn[c][f] \in {None, _resolve_discovery_url(conn[c])}

(* The same of a connection with some endpoints typed in by hand: what was *)
(* discovered and is still there comes from the document the row names.    *)
DroppedWithSource ==
    \A c \in Connections : Exists(c) => \A f \in _MANUAL_ENDPOINT_FIELDS :
        conn[c][f] \in {None, HandSet, _resolve_discovery_url(conn[c])}

=============================================================================
