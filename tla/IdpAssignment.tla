--------------------------- MODULE IdpAssignment ---------------------------
(***************************************************************************)
(* Which upstream identity provider a user signs in through: SAML IdPs and *)
(* OIDC connections, the domains bound to them, users.saml_idp_id, the     *)
(* OIDC links, the base groups of the SAML IdPs, and what happens to all   *)
(* of it when a user is removed or a provider deleted (services/saml/,     *)
(* services/oidc_upstream/, services/groups/idp.py).                       *)
(*                                                                         *)
(* A request runs one database call per step, each a transaction of its    *)
(* own.  Reads that directly follow one another are one step.              *)
(***************************************************************************)
EXTENDS Naturals

CONSTANTS
    Users,        \* users of the tenant
    Domains,      \* privileged domains
    DomainOf,     \* Users -> Domains: the domain of the user's address
    Idps,         \* ids of SAML identity providers
    Connections,  \* ids of OIDC connections
    Requests,     \* HTTP requests and job items in progress
    Operations,   \* the operations the requests perform
    CrashPoints,  \* statements before which a request may end
    MaxSwitches,  \* bound on how often a provider is switched on or off
    None          \* no user, domain or provider

Providers == Idps \cup Connections

AllOperations == {"saml_domain", "oidc_domain", "assign", "saml_sign_in", "oidc_sign_in", "unlink",
                  "scim", "bulk", "reactivate", "provider"}

Statements == {"idle", "bind_users", "bulk_assign", "move", "leave", "base_group", "bind",
               "unverify", "inactivate", "update", "verify", "verify_only", "set_user_idp",
               "scim_set", "bulk_set", "count_users", "count_domains", "invalidate", "delete",
               "bind_connection", "oidc_verify", "create_link", "delete_link", "list_links",
               "delete_connection"}

ASSUME IdpConstants ==
    /\ DomainOf \in [Users -> Domains]
    /\ Idps \cap Connections = {}
    /\ None \notin Users \cup Domains \cup Providers
    /\ Operations \subseteq AllOperations
    /\ CrashPoints \subseteq Statements \ {"idle"}
    /\ MaxSwitches \in Nat

VARIABLES
    provider,     \* Providers -> "enabled", "disabled" or "gone"
    samlBinding,  \* Domains -> the IdP of saml_idp_domain_bindings
    oidcBinding,  \* Domains -> the connection of oidc_idp_domain_bindings
    saml_idp_id,  \* Users -> the IdP the user is assigned to
    links,        \* <<user, connection>> rows of oidc_idp_user_links
    active,       \* users that are not inactivated
    verified,     \* users whose address is verified
    members,      \* <<user, idp>>: members of the base group of an IdP
    switches,     \* how often a provider has been switched on or off
    req,          \* Requests -> the statement the request runs next, and on what
    bypassed,     \* history: users assigned by SCIM or a bulk job since the last assignment
    dropped       \* history: users whose last link was unlinked and who were not let in since

rowVars == <<provider, samlBinding, oidcBinding, saml_idp_id, links, active, verified, members,
             switches, bypassed, dropped>>
vars == <<rowVars, req>>

Request == [pc : Statements, op : AllOperations \cup {None}, u : Users \cup {None},
            d : Domains \cup {None}, i : Providers \cup {None}, old : Idps \cup {None},
            us : SUBSET Users, todo : SUBSET Users]

Idle == [pc |-> "idle", op |-> None, u |-> None, d |-> None, i |-> None, old |-> None,
         us |-> {}, todo |-> {}]

TypeOK ==
    /\ provider \in [Providers -> {"enabled", "disabled", "gone"}]
    /\ samlBinding \in [Domains -> Idps \cup {None}]
    /\ oidcBinding \in [Domains -> Connections \cup {None}]
    /\ saml_idp_id \in [Users -> Idps \cup {None}]
    /\ links \subseteq Users \X Connections
    /\ active \subseteq Users /\ verified \subseteq Users
    /\ members \subseteq Users \X Idps
    /\ switches \in 0..MaxSwitches
    /\ bypassed \subseteq Users /\ dropped \subseteq Users
    /\ req \in [Requests -> Request]

Init ==
    /\ provider = [i \in Providers |-> "enabled"]
    /\ samlBinding = [d \in Domains |-> None]
    /\ oidcBinding = [d \in Domains |-> None]
    /\ saml_idp_id = [u \in Users |-> None]
    /\ links = {} /\ members = {}
    /\ active = Users /\ verified = Users
    /\ switches = 0 /\ bypassed = {} /\ dropped = {}
    /\ req = [p \in Requests |-> Idle]

At(p, statement) == req[p].pc = statement
Goto(p, statement) == req' = [req EXCEPT ![p].pc = statement]
Done(p) == req' = [req EXCEPT ![p] = Idle]
Start(p, statement, op, u, d, i, old) ==
    /\ req[p] = Idle
    /\ op \in Operations
    /\ req' = [req EXCEPT ![p] = [pc |-> statement, op |-> op, u |-> u, d |-> d, i |-> i,
                                  old |-> old, us |-> {u} \ {None}, todo |-> {u} \ {None}]]
    /\ UNCHANGED rowVars

Exists(i) == provider[i] # "gone"
Enabled(i) == provider[i] = "enabled"
LinksOf(u) == {l \in links : l[1] = u}

(* A write that names a provider fails when the provider is gone (foreign  *)
(* key), and the request with it.                                          *)
Dangling(p) == req[p].i # None /\ ~Exists(req[p].i)
Refused(p) ==
    /\ req[p].pc \in {"bulk_assign", "move", "base_group", "bind", "update", "set_user_idp",
                      "scim_set", "bulk_set", "bind_connection", "create_link"}
    /\ Dangling(p)
    /\ Done(p)
    /\ UNCHANGED rowVars

-----------------------------------------------------------------------------
(* Binding a domain to a SAML IdP.                                         *)

get_users_by_email_domain(d) == {u \in verified : DomainOf[u] = d}

bind_domain_to_idp(p, d, i) ==
    /\ Exists(i)
    /\ oidcBinding[d] = None
    /\ Start(p, "bind_users", "saml_domain", None, d, i, None)

(* Users of the old IdP move with the domain.                              *)
rebind_domain_to_idp(p, d, i) ==
    /\ samlBinding[d] # None
    /\ Exists(i)
    /\ Start(p, "bind_users", "saml_domain", None, d, i, samlBinding[d])

(* Who is assigned: everyone of the domain who is not at the IdP already,  *)
(* or, when the domain moves from another IdP, everyone who is at that.    *)
bind_users(p) ==
    /\ At(p, "bind_users")
    /\ LET here == get_users_by_email_domain(req[p].d)
           us == IF req[p].old = None THEN {u \in here : saml_idp_id[u] # req[p].i}
                                      ELSE {u \in here : saml_idp_id[u] = req[p].old}
           next == IF us = {} THEN "bind"
                   ELSE IF req[p].old = None THEN "bulk_assign" ELSE "move"
       IN req' = [req EXCEPT ![p] = [req[p] EXCEPT !.us = us, !.todo = us, !.pc = next]]
    /\ UNCHANGED rowVars

Assigned(us, i) == saml_idp_id' = [u \in Users |-> IF u \in us THEN i ELSE saml_idp_id[u]]

bulk_assign_users_to_idp(p) ==
    /\ At(p, "bulk_assign") /\ ~Dangling(p)
    /\ Assigned(req[p].us, req[p].i)
    /\ bypassed' = bypassed \ req[p].us
    /\ Goto(p, "base_group")
    /\ UNCHANGED <<provider, samlBinding, oidcBinding, links, active, verified, members,
                   dropped, switches>>

(* The next of the users in hand; after the last one the request goes on.  *)
Following(p, u, next) ==
    LET r == req[p]
    IN req' = [req EXCEPT ![p] = IF r.todo # {u} THEN [r EXCEPT !.todo = r.todo \ {u}]
                                 ELSE IF next = "idle" THEN Idle
                                 ELSE [r EXCEPT !.pc = next, !.todo = r.us]]

update_user_saml_idp_moving(p, u) ==
    /\ At(p, "move") /\ ~Dangling(p)
    /\ u \in req[p].todo
    /\ Assigned({u}, req[p].i)
    /\ bypassed' = bypassed \ {u}
    /\ Following(p, u, "leave")
    /\ UNCHANGED <<provider, samlBinding, oidcBinding, links, active, verified, members,
                   dropped, switches>>

remove_user_from_all_idp_groups(p, u) ==
    /\ At(p, "leave")
    /\ u \in req[p].todo
    /\ members' = members \ {<<u, req[p].old>>}
    /\ Following(p, u, IF req[p].i = None THEN "idle" ELSE "base_group")
    /\ UNCHANGED <<provider, samlBinding, oidcBinding, saml_idp_id, links, active, verified,
                   bypassed, dropped, switches>>

ensure_user_in_base_group(p, u) ==
    /\ At(p, "base_group") /\ ~Dangling(p)
    /\ u \in req[p].todo
    /\ members' = members \cup {<<u, req[p].i>>}
    /\ Following(p, u, IF req[p].op = "saml_domain" THEN "bind" ELSE "idle")
    /\ UNCHANGED <<provider, samlBinding, oidcBinding, saml_idp_id, links, active, verified,
                   bypassed, dropped, switches>>

bind_domain(p) ==
    /\ At(p, "bind") /\ ~Dangling(p)
    /\ samlBinding' = [samlBinding EXCEPT ![req[p].d] = req[p].i]
    /\ Done(p)
    /\ UNCHANGED <<provider, oidcBinding, saml_idp_id, links, active, verified, members,
                   bypassed, dropped, switches>>

unbind_domain_from_idp(d) ==
    /\ "saml_domain" \in Operations
    /\ samlBinding[d] # None
    /\ samlBinding' = [samlBinding EXCEPT ![d] = None]
    /\ UNCHANGED <<provider, oidcBinding, saml_idp_id, links, active, verified, members,
                   bypassed, dropped, req, switches>>

-----------------------------------------------------------------------------
(* An administrator assigns a user to an IdP, or to none.                  *)

assign_user_idp(p, u, i) ==
    /\ i # None => Exists(i)
    /\ Start(p, IF saml_idp_id[u] # None /\ i = None THEN "unverify" ELSE "update",
             "assign", u, None, i, saml_idp_id[u])

unverify_user_emails(p) ==
    /\ At(p, "unverify")
    /\ verified' = verified \ {req[p].u}
    /\ Goto(p, "inactivate")
    /\ UNCHANGED <<provider, samlBinding, oidcBinding, saml_idp_id, links, active, members,
                   bypassed, dropped, switches>>

(* Removal from the IdP goes on to the assignment; an unlink is over.      *)
inactivate_user(p) ==
    /\ At(p, "inactivate")
    /\ active' = active \ {req[p].u}
    /\ IF req[p].op = "assign" THEN Goto(p, "update") ELSE Done(p)
    /\ UNCHANGED <<provider, samlBinding, oidcBinding, saml_idp_id, links, verified,
                   members, bypassed, dropped, switches>>

update_user_saml_idp_NoMove(p) ==
    /\ At(p, "update") /\ ~Dangling(p)
    /\ Assigned({req[p].u}, req[p].i)
    /\ bypassed' = IF req[p].i = req[p].old THEN bypassed ELSE bypassed \ {req[p].u}
    /\ IF req[p].old = None /\ req[p].i # None THEN Goto(p, "base_group") ELSE Done(p)
    /\ UNCHANGED <<provider, samlBinding, oidcBinding, links, active, verified, members,
                   dropped, switches>>

update_user_saml_idp(p) ==
    /\ At(p, "update") /\ ~Dangling(p)
    /\ Assigned({req[p].u}, req[p].i)
    /\ bypassed' = IF req[p].i = req[p].old THEN bypassed ELSE bypassed \ {req[p].u}
    /\ IF req[p].i = req[p].old THEN Done(p)
       ELSE Goto(p, IF req[p].old = None THEN "base_group" ELSE "leave")
    /\ UNCHANGED <<provider, samlBinding, oidcBinding, links, active, verified, members,
                   dropped, switches>>

-----------------------------------------------------------------------------
(* Sign-in through a SAML IdP of a user whose address is known: the        *)
(* assertion verifies the address, before the status is looked at.         *)

AfterLookup(u, i) == IF saml_idp_id[u] # i THEN "set_user_idp" ELSE "base_group"

authenticate_via_saml(p, u, i) ==
    /\ Enabled(i)
    /\ \/ u \in verified /\ u \in active
          /\ Start(p, AfterLookup(u, i), "saml_sign_in", u, None, i, saml_idp_id[u])
       \/ u \notin verified
          /\ Start(p, IF u \in active THEN "verify" ELSE "verify_only",
                   "saml_sign_in", u, None, i, saml_idp_id[u])

(* The row read at the start says whether the sign-in goes on.             *)
verify_email(p) ==
    /\ \/ At(p, "verify")
          /\ Goto(p, IF req[p].old # req[p].i THEN "set_user_idp" ELSE "base_group")
       \/ At(p, "verify_only") /\ Done(p)
    /\ verified' = verified \cup {req[p].u}
    /\ UNCHANGED <<provider, samlBinding, oidcBinding, saml_idp_id, links, active, members,
                   bypassed, dropped, switches>>

set_user_idp(p) ==
    /\ At(p, "set_user_idp") /\ ~Dangling(p)
    /\ Assigned({req[p].u}, req[p].i)
    /\ bypassed' = bypassed \ {req[p].u}
    /\ Goto(p, "base_group")
    /\ UNCHANGED <<provider, samlBinding, oidcBinding, links, active, verified, members,
                   dropped, switches>>

(* Inbound SCIM claims an existing user for the IdP of its credential.     *)
create_or_merge_user(p, u, i) ==
    /\ Exists(i) /\ saml_idp_id[u] # i
    /\ Start(p, "scim_set", "scim", u, None, i, saml_idp_id[u])

scim_set_user_idp(p) ==
    /\ At(p, "scim_set") /\ ~Dangling(p)
    /\ Assigned({req[p].u}, req[p].i)
    /\ bypassed' = bypassed \cup {req[p].u}
    /\ Done(p)
    /\ UNCHANGED <<provider, samlBinding, oidcBinding, links, active, verified, members,
                   dropped, switches>>

(* An item of the bulk email job: switch to the enabled IdP of the domain, *)
(* or remove the IdP the user had when the item began.                     *)
handle_bulk_primary_email_apply(p, u) ==
    \/ /\ samlBinding[DomainOf[u]] # None
       /\ Enabled(samlBinding[DomainOf[u]])
       /\ Start(p, "bulk_set", "bulk", u, None, samlBinding[DomainOf[u]], saml_idp_id[u])
    \/ /\ saml_idp_id[u] # None
       /\ Start(p, "bulk_set", "bulk", u, None, None, saml_idp_id[u])

bulk_set_user_idp(p) ==
    /\ At(p, "bulk_set") /\ ~Dangling(p)
    /\ Assigned({req[p].u}, req[p].i)
    /\ bypassed' = bypassed \cup {req[p].u}
    /\ Done(p)
    /\ UNCHANGED <<provider, samlBinding, oidcBinding, links, active, verified, members,
                   dropped, switches>>

reactivate_user(u) ==
    /\ "reactivate" \in Operations
    /\ u \notin active
    /\ active' = active \cup {u}
    /\ dropped' = dropped \ {u}
    /\ UNCHANGED <<provider, samlBinding, oidcBinding, saml_idp_id, links, verified,
                   members, bypassed, req, switches>>

-----------------------------------------------------------------------------
(* Switching a provider on and off, and deleting it.                       *)

set_idp_enabled(i) ==
    /\ "provider" \in Operations
    /\ Exists(i)
    /\ switches < MaxSwitches
    /\ switches' = switches + 1
    /\ provider' = [provider EXCEPT ![i] = IF @ = "enabled" THEN "disabled" ELSE "enabled"]
    /\ UNCHANGED <<samlBinding, oidcBinding, saml_idp_id, links, active, verified, members,
                   bypassed, dropped, req>>

delete_identity_provider(p, i) ==
    /\ provider[i] = "disabled"
    /\ Start(p, "count_users", "provider", None, None, i, None)

count_users_with_idp(p) ==
    /\ At(p, "count_users")
    /\ IF \E u \in Users : saml_idp_id[u] = req[p].i THEN Done(p) ELSE Goto(p, "count_domains")
    /\ UNCHANGED rowVars

count_domain_bindings_for_idp(p) ==
    /\ At(p, "count_domains")
    /\ IF \E d \in Domains : samlBinding[d] = req[p].i THEN Done(p) ELSE Goto(p, "invalidate")
    /\ UNCHANGED rowVars

invalidate_idp_groups(p) ==
    /\ At(p, "invalidate")
    /\ members' = {m \in members : m[2] # req[p].i}
    /\ Goto(p, "delete")
    /\ UNCHANGED <<provider, samlBinding, oidcBinding, saml_idp_id, links, active,
                   verified, bypassed, dropped, switches>>

(* Bindings and groups go with the row, and saml_idp_id becomes null.      *)
delete_idp_row(p) ==
    /\ At(p, "delete")
    /\ provider' = [provider EXCEPT ![req[p].i] = "gone"]
    /\ samlBinding' = [d \in Domains |-> IF samlBinding[d] = req[p].i THEN None ELSE samlBinding[d]]
    /\ saml_idp_id' = [u \in Users |-> IF saml_idp_id[u] = req[p].i THEN None ELSE saml_idp_id[u]]
    /\ members' = {m \in members : m[2] # req[p].i}
    /\ Done(p)
    /\ UNCHANGED <<oidcBinding, links, active, verified, bypassed, dropped, switches>>

(* A connection is refused while users are linked; its bindings and links  *)
(* go with the row.                                                        *)
delete_connection(p, c) ==
    /\ provider[c] = "disabled"
    /\ \A l \in links : l[2] # c
    /\ Start(p, "delete_connection", "provider", None, None, c, None)

delete_connection_row(p) ==
    /\ At(p, "delete_connection")
    /\ provider' = [provider EXCEPT ![req[p].i] = "gone"]
    /\ oidcBinding' = [d \in Domains |-> IF oidcBinding[d] = req[p].i THEN None ELSE oidcBinding[d]]
    /\ links' = {l \in links : l[2] # req[p].i}
    /\ Done(p)
    /\ UNCHANGED <<samlBinding, saml_idp_id, active, verified, members, bypassed, dropped,
                   switches>>

-----------------------------------------------------------------------------
(* OIDC: binding a domain, signing in, unlinking.                          *)

bind_domain_to_connection(p, d, c) ==
    /\ Exists(c)
    /\ samlBinding[d] = None
    /\ Start(p, "bind_connection", "oidc_domain", None, d, c, None)

rebind_domain_to_connection(p, d, c) ==
    /\ Exists(c)
    /\ oidcBinding[d] # None
    /\ Start(p, "bind_connection", "oidc_domain", None, d, c, None)

bind_connection(p) ==
    /\ At(p, "bind_connection") /\ ~Dangling(p)
    /\ oidcBinding' = [oidcBinding EXCEPT ![req[p].d] = req[p].i]
    /\ Done(p)
    /\ UNCHANGED <<provider, samlBinding, saml_idp_id, links, active, verified, members,
                   bypassed, dropped, switches>>

unbind_domain_from_connection(d) ==
    /\ "oidc_domain" \in Operations
    /\ oidcBinding[d] # None
    /\ oidcBinding' = [oidcBinding EXCEPT ![d] = None]
    /\ UNCHANGED <<provider, samlBinding, saml_idp_id, links, active, verified, members,
                   bypassed, dropped, req, switches>>

(* A sign-in with no link yet is linked by its email address.              *)
authenticate_via_oidc(p, u, c) ==
    /\ Enabled(c)
    /\ <<u, c>> \notin links
    /\ u \in active /\ saml_idp_id[u] = None
    /\ \/ u \in verified /\ Start(p, "create_link", "oidc_sign_in", u, None, c, None)
       \/ u \notin verified /\ LinksOf(u) = {}
          /\ Start(p, "oidc_verify", "oidc_sign_in", u, None, c, None)

oidc_verify_email(p) ==
    /\ At(p, "oidc_verify")
    /\ verified' = verified \cup {req[p].u}
    /\ Goto(p, "create_link")
    /\ UNCHANGED <<provider, samlBinding, oidcBinding, saml_idp_id, links, active, members,
                   bypassed, dropped, switches>>

create_link(p) ==
    /\ At(p, "create_link") /\ ~Dangling(p)
    /\ links' = links \cup {<<req[p].u, req[p].i>>}
    /\ dropped' = dropped \ {req[p].u}
    /\ Done(p)
    /\ UNCHANGED <<provider, samlBinding, oidcBinding, saml_idp_id, active, verified,
                   members, bypassed, switches>>

unlink_user_from_connection(p, u, c) ==
    /\ <<u, c>> \in links
    /\ Start(p, "delete_link", "unlink", u, None, c, None)

(* A link that another request has deleted is not deleted again.           *)
Unlinked(p) ==
    LET l == <<req[p].u, req[p].i>>
    IN /\ links' = links \ {l}
       /\ dropped' = IF LinksOf(req[p].u) = {l} THEN dropped \cup {req[p].u} ELSE dropped

delete_link_for_user_idp(p) ==
    /\ At(p, "delete_link")
    /\ Unlinked(p)
    /\ Goto(p, "list_links")
    /\ UNCHANGED <<provider, samlBinding, oidcBinding, saml_idp_id, active, verified,
                   members, bypassed, switches>>

list_links_for_user_OrIdp(p) ==
    /\ At(p, "list_links")
    /\ IF LinksOf(req[p].u) = {} /\ saml_idp_id[req[p].u] = None
       THEN Goto(p, "unverify") ELSE Done(p)
    /\ UNCHANGED rowVars

list_links_for_user(p) ==
    /\ At(p, "list_links")
    /\ IF LinksOf(req[p].u) = {} THEN Goto(p, "unverify") ELSE Done(p)
    /\ UNCHANGED rowVars

Crash(p) ==
    /\ req[p].pc \in CrashPoints
    /\ Done(p)
    /\ UNCHANGED rowVars

-----------------------------------------------------------------------------
Begin(p) ==
    \/ \E d \in Domains, i \in Idps : bind_domain_to_idp(p, d, i) \/ rebind_domain_to_idp(p, d, i)
    \/ \E d \in Domains, c \in Connections :
         bind_domain_to_connection(p, d, c) \/ rebind_domain_to_connection(p, d, c)
    \/ \E u \in Users :
         \/ \E i \in Idps \cup {None} : assign_user_idp(p, u, i)
         \/ \E i \in Idps : authenticate_via_saml(p, u, i) \/ create_or_merge_user(p, u, i)
         \/ \E c \in Connections : authenticate_via_oidc(p, u, c)
                                   \/ unlink_user_from_connection(p, u, c)
         \/ handle_bulk_primary_email_apply(p, u)
    \/ \E i \in Idps : delete_identity_provider(p, i)
    \/ \E c \in Connections : delete_connection(p, c)

Continue(p) ==
    \/ bind_users(p) \/ bulk_assign_users_to_idp(p) \/ bind_domain(p)
    \/ \E u \in Users : \/ update_user_saml_idp_moving(p, u)
                        \/ remove_user_from_all_idp_groups(p, u)
                        \/ ensure_user_in_base_group(p, u)
    \/ unverify_user_emails(p) \/ inactivate_user(p) \/ update_user_saml_idp(p)
    \/ verify_email(p) \/ set_user_idp(p) \/ scim_set_user_idp(p) \/ bulk_set_user_idp(p)
    \/ count_users_with_idp(p) \/ count_domain_bindings_for_idp(p) \/ invalidate_idp_groups(p)
    \/ delete_idp_row(p) \/ delete_connection_row(p)
    \/ bind_connection(p) \/ oidc_verify_email(p) \/ create_link(p)
    \/ delete_link_for_user_idp(p) \/ list_links_for_user(p)
    \/ Refused(p) \/ Crash(p)

(* Operations of one write.                                                *)
Instant ==
    \/ \E d \in Domains : unbind_domain_from_idp(d) \/ unbind_domain_from_connection(d)
    \/ \E u \in Users : reactivate_user(u)
    \/ \E i \in Providers : set_idp_enabled(i)

Next == (\E p \in Requests : Begin(p) \/ Continue(p)) \/ Instant

Spec == Init /\ [][Next]_vars

-----------------------------------------------------------------------------
(* What a request is about: its users and those of its domain, its domain  *)
(* and its providers.                                                      *)
Subjects(p) ==
    ({req[p].u, req[p].d, req[p].i, req[p].old} \ {None})
      \cup req[p].us \cup {u \in Users : DomainOf[u] = req[p].d}

Quiet == \A p \in Requests : req[p] = Idle

(* Requests about the same thing come one after the other, except that     *)
(* unlinks and OIDC sign-ins of a user may overlap, and so may the binding *)
(* and the deletion of a connection.                                       *)
Apart ==
    \A p, q \in Requests :
        \/ p = q \/ req[p] = Idle \/ req[q] = Idle
        \/ Subjects(p) \cap Subjects(q) = {}
        \/ {req[p].op, req[q].op} \subseteq {"unlink", "oidc_sign_in"}
        \/ {req[p].op, req[q].op} = {"oidc_domain", "provider"}

ApartNext ==
    \/ (\E p \in Requests : Begin(p) \/ Continue(p)) /\ Apart'
    \/ Quiet /\ Instant

ApartSpec == Init /\ [][ApartNext]_vars

-----------------------------------------------------------------------------
(* "A domain bound to a SAML IdP cannot also be bound to an OIDC           *)
(* connection, and the reverse": bindings, rebindings and unbindings one   *)
(* after the other keep the two tables disjoint, though no constraint      *)
(* spans them.                                                             *)
DomainBoundOnce == \A d \in Domains : samlBinding[d] = None \/ oidcBinding[d] = None

(* Unlinking the last link of a user deactivates the account, however many *)
(* unlinks and sign-ins of the user overlap: of several unlinks the last   *)
(* one to delete finds no link left.                                       *)
LastUnlinkDeactivates == Quiet => dropped \cap active = {}

(* Between requests an assigned user is a member of the base group of the  *)
(* IdP, through bindings, moves, removals, sign-ins and deletions, unless  *)
(* SCIM or the bulk job assigned the user last, and of no IdP's base group *)
(* that is gone.                                                           *)
AssignedInBaseGroup ==
    Quiet => /\ \A u \in Users \ bypassed :
                  saml_idp_id[u] # None => <<u, saml_idp_id[u]>> \in members
             /\ \A m \in members : Exists(m[2])

(* "Cannot delete if users are assigned or domains are bound" (or linked): *)
(* the delete and its cascades find nobody to take the provider from.      *)
DeletedUnused ==
    [][\A i \in Providers : Exists(i) /\ provider'[i] = "gone" =>
         /\ \A u \in Users : saml_idp_id[u] # i /\ <<u, i>> \notin links
         /\ \A d \in Domains : samlBinding[d] # i]_vars

(* The bulk email job included: "if an assigned user is later removed from *)
(* the IdP, their account is deactivated".                                 *)
EveryRemovalDeactivates ==
    [][\A u \in Users :
         saml_idp_id[u] # None /\ saml_idp_id'[u] = None => u \notin active]_vars

=============================================================================
