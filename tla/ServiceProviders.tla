-------------------------- MODULE ServiceProviders --------------------------
(***************************************************************************)
(* SAML service providers: registration, trust, settings, metadata and     *)
(* group assignments (services/service_providers, database/                *)
(* service_providers.py, routers/saml_idp/admin.py,                        *)
(* routers/api/v1/service_providers.py).                                   *)
(*                                                                         *)
(* Every operation reads, checks and writes in separate transactions; the  *)
(* steps of concurrent requests interleave at those boundaries.  Names,    *)
(* descriptions, URLs, attribute mappings and algorithms are left out;     *)
(* signing certificates are in CertRotation.                               *)
(***************************************************************************)
EXTENDS AppAccess

CONSTANTS
    Entities,  \* SAML entity ids
    Requests,  \* administrators' requests that may be in progress
    None,      \* nothing
    Gone       \* the row of a deleted provider (ids are never used again)

ASSUME SpConstants == None \notin Apps /\ None # Gone

VARIABLES
    sp,        \* Apps -> row of service_providers
    req        \* Requests -> where the request is and what it holds

spVars == <<sp, req, assigned, member>>

(* url: metadata_url is set.  slo: slo_url is set.  persistent: the NameID *)
(* format is persistent.  open: available_to_all.                          *)
Row == [entity : Entities \cup {None}, trust : BOOLEAN, enabled : BOOLEAN,
        url : BOOLEAN, slo : BOOLEAN, persistent : BOOLEAN, open : BOOLEAN]

(* What a metadata document says.                                          *)
Metadata == [entity : Entities, slo : BOOLEAN, persistent : BOOLEAN]

Idle == [at |-> "idle", s |-> None, x |-> None]

SpTypeOK ==
    /\ AccessTypeOK
    /\ sp \in [Apps -> Row \cup {None, Gone}]
    /\ \A p \in Requests : req[p].s \in Apps \cup {None}

SpInit ==
    /\ AccessInit
    /\ sp = [s \in Apps |-> None]
    /\ req = [p \in Requests |-> Idle]

Exists(s) == sp[s] \notin {None, Gone}

get_service_provider_by_entity_id(e) == {s \in Apps : Exists(s) /\ sp[s].entity = e}

At(p, at) == req[p].at = at

(* A service read and checked what it needs; its statement comes next.     *)
Begin(p, at, s, x) ==
    /\ At(p, "idle")
    /\ req' = [req EXCEPT ![p] = [at |-> at, s |-> s, x |-> x]]
    /\ UNCHANGED <<sp, assigned, member>>

Done(p) == req' = [req EXCEPT ![p] = Idle]

(* UPDATE ... WHERE id = s: no row, no change.                             *)
Updated(p, row) ==
    /\ sp' = IF Exists(req[p].s) THEN [sp EXCEPT ![req[p].s] = row] ELSE sp
    /\ Done(p)
    /\ UNCHANGED <<assigned, member>>

-----------------------------------------------------------------------------
(* Registration.  Two providers with one entity id: the check finds the    *)
(* first, and the unique index refuses the second when the check was early.*)
NoDuplicate(e) == get_service_provider_by_entity_id(e) = {}

create_service_provider(p, s, e, slo) ==
    /\ sp[s] = None /\ \A q \in Requests : req[q].s # s
    /\ e # None => NoDuplicate(e)
    /\ Begin(p, "insert", s,
             [entity |-> e, trust |-> e # None, enabled |-> TRUE, url |-> FALSE,
              slo |-> slo, persistent |-> FALSE, open |-> FALSE])

create_sp_from_parsed_metadata(p, s, md, url) ==
    /\ sp[s] = None /\ \A q \in Requests : req[q].s # s
    /\ NoDuplicate(md.entity)
    /\ Begin(p, "insert", s,
             [entity |-> md.entity, trust |-> TRUE, enabled |-> TRUE, url |-> url,
              slo |-> md.slo, persistent |-> md.persistent, open |-> FALSE])

import_sp_from_metadata_xml(p, s, md) == create_sp_from_parsed_metadata(p, s, md, FALSE)
import_sp_from_metadata_url(p, s, md) == create_sp_from_parsed_metadata(p, s, md, TRUE)

insert_service_provider(p) ==
    /\ At(p, "insert")
    /\ sp' = IF req[p].x.entity = None \/ NoDuplicate(req[p].x.entity)
             THEN [sp EXCEPT ![req[p].s] = req[p].x] ELSE sp
    /\ Done(p)
    /\ UNCHANGED <<assigned, member>>

(* Trust, from a document or by hand: only for a provider without it.      *)
do_establish_trust(p, s, md, url) ==
    /\ Exists(s) /\ ~sp[s].trust
    /\ NoDuplicate(md.entity)
    /\ Begin(p, "trust", s, [md |-> md, url |-> url])

establish_trust_from_metadata_url(p, s, md) == do_establish_trust(p, s, md, TRUE)
establish_trust_from_metadata_xml(p, s, md) == do_establish_trust(p, s, md, FALSE)
establish_trust_manually(p, s, e, slo) ==
    do_establish_trust(p, s, [entity |-> e, slo |-> slo, persistent |-> FALSE], FALSE)

Trusted(row, x) ==
    [row EXCEPT !.entity = x.md.entity, !.trust = TRUE, !.url = x.url,
                !.slo = x.md.slo, !.persistent = x.md.persistent]

(* UPDATE ... WHERE id = s AND trust_established = false.                  *)
establish_trust_AsRead(p) ==
    /\ At(p, "trust")
    /\ LET s == req[p].s  x == req[p].x IN
       sp' = IF Exists(s) /\ get_service_provider_by_entity_id(x.md.entity) \subseteq {s}
             THEN [sp EXCEPT ![s] = Trusted(sp[s], x)] ELSE sp
    /\ Done(p)
    /\ UNCHANGED <<assigned, member>>

establish_trust(p) ==
    /\ At(p, "trust")
    /\ LET s == req[p].s  x == req[p].x IN
       sp' = IF Exists(s) /\ ~sp[s].trust /\ NoDuplicate(x.md.entity)
             THEN [sp EXCEPT ![s] = Trusted(sp[s], x)] ELSE sp
    /\ Done(p)
    /\ UNCHANGED <<assigned, member>>

-----------------------------------------------------------------------------
(* Settings.  Only the fields named in the request are written.            *)
Change == {<<"slo", TRUE>>, <<"slo", FALSE>>, <<"persistent", TRUE>>,
           <<"persistent", FALSE>>, <<"open", TRUE>>, <<"open", FALSE>>}

update_service_provider(p, s, c) == Exists(s) /\ Begin(p, "update", s, c)

enable_service_provider(p, s) ==
    Exists(s) /\ sp[s].trust /\ ~sp[s].enabled /\ Begin(p, "update", s, <<"enabled", TRUE>>)

disable_service_provider(p, s) ==
    Exists(s) /\ sp[s].enabled /\ Begin(p, "update", s, <<"enabled", FALSE>>)

update_service_provider_row(p) ==
    /\ At(p, "update")
    /\ Updated(p, [sp[req[p].s] EXCEPT ![req[p].x[1]] = req[p].x[2]])

(* Metadata again, fetched or pasted: of the same entity as the row that   *)
(* was read.  The preview computes the same comparison and writes nothing. *)
parse_and_check_entity(s, md) == md.entity = sp[s].entity

apply_sp_metadata_refresh(p, s, md) ==
    /\ Exists(s) /\ sp[s].url
    /\ parse_and_check_entity(s, md)
    /\ Begin(p, "refresh", s, md)

apply_sp_metadata_reimport(p, s, md) ==
    Exists(s) /\ parse_and_check_entity(s, md) /\ Begin(p, "refresh", s, md)

refresh_sp_metadata_fields(p) ==
    /\ At(p, "refresh")
    /\ Updated(p, [sp[req[p].s] EXCEPT !.slo = req[p].x.slo, !.persistent = req[p].x.persistent])

(* Deletion, of a disabled provider; its assignments go with it.           *)
delete_service_provider(p, s) ==
    Exists(s) /\ ~sp[s].enabled /\ Begin(p, "delete", s, None)

delete_service_provider_row(p) ==
    /\ At(p, "delete")
    /\ sp' = IF Exists(req[p].s) THEN [sp EXCEPT ![req[p].s] = Gone] ELSE sp
    /\ Cascade(req[p].s)
    /\ Done(p)
    /\ UNCHANGED member

-----------------------------------------------------------------------------
(* Group assignments.  The insert fails when the provider is gone.         *)
assign_sp_to_group(p, s, g) == Exists(s) /\ Begin(p, "assign", s, g)

bulk_assign_sp_to_groups(p, s, gs) == Exists(s) /\ Begin(p, "bulk", s, gs)

insert_assignments(p) ==
    /\ At(p, "assign") \/ At(p, "bulk")
    /\ IF ~Exists(req[p].s) THEN UNCHANGED assigned
       ELSE IF At(p, "bulk") THEN bulk_create_assignments(req[p].s, req[p].x)
       ELSE create_assignment(req[p].s, req[p].x)
    /\ Done(p)
    /\ UNCHANGED <<sp, member>>

remove_sp_group_assignment(p, s, g) ==
    /\ At(p, "idle") /\ Exists(s)
    /\ delete_assignment(s, g)
    /\ UNCHANGED <<sp, req, member>>

-----------------------------------------------------------------------------
(* The pages of the administration.                                        *)
sp_create(p, s, md) ==
    \/ create_service_provider(p, s, None, FALSE)
    \/ import_sp_from_metadata_xml(p, s, md)
    \/ import_sp_from_metadata_url(p, s, md)

sp_establish_trust(p, s, md) ==
    \/ establish_trust_from_metadata_url(p, s, md)
    \/ establish_trust_from_metadata_xml(p, s, md)
    \/ establish_trust_manually(p, s, md.entity, md.slo)

sp_edit(p, s) == \E c \in Change : update_service_provider(p, s, c)

sp_metadata(p, s, md) ==
    apply_sp_metadata_refresh(p, s, md) \/ apply_sp_metadata_reimport(p, s, md)

sp_groups(p, s) ==
    \/ \E g \in Groups : assign_sp_to_group(p, s, g) \/ remove_sp_group_assignment(p, s, g)
    \/ bulk_assign_sp_to_groups(p, s, Groups)

sp_switch(p, s) ==
    enable_service_provider(p, s) \/ disable_service_provider(p, s) \/ delete_service_provider(p, s)

(* The REST API: what the pages do, and a creation that may establish      *)
(* trust at once.                                                          *)
api_create(p, s, md) ==
    create_service_provider(p, s, md.entity, md.slo) \/ sp_create(p, s, md)

api_update_switch(p, s) == sp_edit(p, s) \/ sp_switch(p, s)

api_establish_trust(p, s, md) == sp_establish_trust(p, s, md)

api_metadata(p, s, md) == sp_metadata(p, s, md)

api_groups(p, s) == sp_groups(p, s)

Statement(p) ==
    \/ insert_service_provider(p) \/ establish_trust(p)
    \/ update_service_provider_row(p) \/ refresh_sp_metadata_fields(p)
    \/ delete_service_provider_row(p) \/ insert_assignments(p)

SpNext ==
    \/ \E p \in Requests : Statement(p)
    \/ \E p \in Requests, s \in Apps :
          \/ api_update_switch(p, s) \/ api_groups(p, s)
          \/ \E md \in Metadata :
                api_create(p, s, md) \/ api_establish_trust(p, s, md) \/ api_metadata(p, s, md)
    \/ \E u \in Users, g \in Groups : MembershipChanges(u, g) /\ UNCHANGED <<sp, req>>

-----------------------------------------------------------------------------
(* Trust is established once: whatever requests overlap, a trusted         *)
(* provider keeps its entity id and its trust until it is deleted, although*)
(* every service decides on a row it read in an earlier transaction.       *)
TrustEstablishedOnce ==
    [][\A s \in Apps : Exists(s) /\ sp[s].trust /\ Exists(s)' =>
          sp'[s].trust /\ sp'[s].entity = sp[s].entity]_<<sp>>

=============================================================================
