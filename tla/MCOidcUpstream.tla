--------------------------- MODULE MCOidcUpstream ---------------------------
(***************************************************************************)
(* Small instances of the upstream OIDC connections (OidcConnections), in  *)
(* three scenarios, and of the sign-ins through them (OidcSignIn), in five *)
(* others.  One side moves while the other is in its initial state.        *)
(***************************************************************************)
EXTENDS OidcConnections, TLC

CONSTANTS i1, i2, m1, c1, n1, n2, p1, p2,
          fb, idp, ap, gh, ds, gx, gr, dx, sx, sy, tx, ty, tz, ax,
          u1, u2, u3, x, y, s1, s2, k1, k2, t1, Gone

VARIABLES scenario, users, link, enabled, mfa, store, posted, code, cookie, browsing,
          session, idp_session, jwks, refetched, jti, ending, applied

Mirrored == [m \in Mirrors |-> i1]

At_ == (fb :> {sx, sy}) @@ (idp :> {tx, ty, tz}) @@ (ap :> {ax}) @@ (gh :> {gx, gr}) @@ (ds :> {dx})

SignIns == INSTANCE OidcSignIn
    WITH Connections <- DOMAIN At_,
         TypeOf <- (fb :> "facebook") @@ (idp :> "generic") @@ (ap :> "apple")
                     @@ (gh :> "github") @@ (ds :> "discord"),
         Linking <- {idp}, Provisioning <- {fb, idp, ap, gh},
         Subs <- UNION {At_[c] : c \in DOMAIN At_},
         AtOf <- [sub \in UNION {At_[c] : c \in DOMAIN At_} |-> CHOOSE c \in DOMAIN At_ : sub \in At_[c]],
         Users <- {u1, u2, u3},
         AddressOf <- [sub \in {sx, sy, ty} |-> u1] @@ [sub \in {tx, tz, gx, gr} |-> u2]
                        @@ (ax :> u3) @@ (dx :> None),
         Refused <- {gr}, Browsers <- {x, y},
         HolderOf <- [sub \in {sy, ty, tz} |-> y] @@ [sub \in {sx, tx, ax, gx, gr, dx} |-> x],
         Reads <- (x :> {u2, u3}) @@ (y :> {u1, u2}),
         States <- {s1, s2}, Sids <- {k1, k2}, Tokens <- {t1}, TokenOf <- (t1 :> tx),
         req <- browsing

ASSUME SignIns!SignInConstants

signInVars == <<users, link, enabled, mfa, store, posted, code, cookie, browsing, session,
                idp_session, jwks, refetched, jti, ending, applied>>

-----------------------------------------------------------------------------
(* Connections: where they are discovered; their settings, with a deletion *)
(* in between; two requests about the name.                                *)
Undiscovered(row) ==
    /\ row.discovery_fetched_at = None /\ row.jwks_uri = None /\ row.authorization_endpoint = None
    /\ row.issuer \in {i1, Preset} /\ row.discovery_url \in {None, Preset}

Sources(p, c) ==
    /\ conn'[c] # None =>
         /\ conn'[c].name = n1 /\ conn'[c].is_enabled /\ ~conn'[c].is_default
         /\ ~conn'[c].allow_email_linking /\ conn'[c].details = "first"
         /\ conn'[c].type \in {"generic", "gitlab", "entra"}
    /\ req'[p].patch # None =>
         p = p1 /\ DOMAIN req'[p].patch \subseteq {"issuer", "tenant", "discovery_url"} \cup _MANUAL_ENDPOINT_FIELDS

Settings(p, c) ==
    /\ p = p1 \/ req'[p].pc \in {"idle", "invalidate", "delete"}
    /\ req'[p2].pc # "idle" => req'[p1].pc \notin {"update", "idle"}
    /\ conn'[c] # None => /\ Undiscovered(conn'[c]) /\ conn'[c].name = n1
                          /\ conn'[c].type \in {"generic", "apple", "github"}

Pair(p, c) ==
    /\ conn'[c] # None => /\ Undiscovered(conn'[c]) /\ conn'[c].type = "generic" /\ ~conn'[c].is_default
                          /\ ~conn'[c].allow_email_linking /\ conn'[c].details = "first"
    /\ req'[p].patch # None => DOMAIN req'[p].patch = {"name"}

ConnectionScenario(p, c) ==
    CASE scenario = "sources" -> Sources(p, c)
      [] scenario = "settings" -> Settings(p, c)
      [] OTHER -> Pair(p, c)

-----------------------------------------------------------------------------
(* Sign-ins.  Except in the last two scenarios no connection is switched   *)
(* off, no login state expires and no account is deactivated but by its    *)
(* last unlink.                                                            *)
Quiet ==
    /\ enabled' = enabled /\ jwks \subseteq jwks'
    /\ \A s \in {s1, s2} : store'[s] = Gone => store[s] = Gone \/ cookie' # cookie
    /\ \A u \in {u1, u2, u3} : users[u] # None /\ users[u].active /\ ~users'[u].active => link' # link
    /\ \A u \in {u1, u2, u3} : users'[u] # None => ~users'[u].saml

NoLoginAt(connections) == \A b \in {x, y}, c \in connections : cookie'[b].state[c] = None
OneBrowser == browsing'[y] = SignIns!Idle /\ cookie'[y] = SignIns!Fresh

(* Two people and one address, at providers trusted and not.               *)
Address ==
    /\ Quiet /\ NoLoginAt({ap, gh, ds}) /\ jti' = {}
    /\ users'[u2] = None /\ users'[u3] = None /\ session'[k2] = None

(* One browser and two accounts, with logouts from the provider.           *)
Sessions == Quiet /\ OneBrowser /\ NoLoginAt({gh, ds}) /\ users'[u1] = None

(* Two of the provider's accounts with the same address.                   *)
Conflict ==
    /\ Quiet /\ NoLoginAt({gh, ds}) /\ jti' = {}
    /\ users'[u1] = None /\ users'[u3] = None /\ session'[k2] = None

Switches ==
    /\ OneBrowser /\ NoLoginAt({ap, gh, ds}) /\ jti' = {}
    /\ users'[u1] = None /\ session'[k2] = None /\ (store'[s2] # None => store[s1] # None)

Providers ==
    /\ OneBrowser /\ NoLoginAt({idp}) /\ jti' = {} /\ enabled' = enabled
    /\ users'[u1] = None /\ store'[s2] = None /\ session'[k2] = None

SignInScenario ==
    CASE scenario = "address" -> Address
      [] scenario = "sessions" -> Sessions
      [] scenario = "conflict" -> Conflict
      [] scenario = "switches" -> Switches
      [] OTHER -> Providers

OfConnections == {"sources", "settings", "pair"}

MCInit ==
    /\ Init /\ SignIns!Init
    /\ scenario \in {"sources", "settings", "pair", "address", "sessions", "conflict", "switches", "providers"}
    /\ mfa \in IF scenario = "address" THEN {{}, {fb}} ELSE {{ap}}
    /\ IF scenario = "address" THEN users[u2] = None /\ users[u3] = None
       ELSE users = [u \in {u1, u2, u3} |-> None]

MCNext ==
    \/ /\ scenario \in OfConnections
       /\ Next /\ Apart' /\ (\A p \in Requests, c \in Connections : ConnectionScenario(p, c))
       /\ UNCHANGED <<signInVars, scenario>>
    \/ /\ scenario \notin OfConnections
       /\ SignIns!Next /\ SignIns!Apart /\ SignInScenario
       /\ UNCHANGED <<vars, scenario>>

MCSpec == MCInit /\ [][MCNext]_<<vars, signInVars, scenario>>

(* Whoever is signed in to an account reads its mailbox.                   *)
AddressHolderOnly == SignIns!AddressHolderOnly

(* A logout token is carried out once.                                     *)
LogoutAppliedOnce == SignIns!LogoutAppliedOnce

=============================================================================
