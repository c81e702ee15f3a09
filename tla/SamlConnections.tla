--------------------------- MODULE SamlConnections ---------------------------
(***************************************************************************)
(* SAML identity providers as an administrator sets them up and as their   *)
(* metadata is kept up to date: creation in one or two steps, trust,       *)
(* switching on and off, metadata import, the daily refresh, and the       *)
(* certificates a sign-in is validated with (services/saml/providers.py,   *)
(* metadata.py, idp_certificates.py, and their HTML and API routes).       *)
(*                                                                         *)
(* A request runs one database call per step, each a transaction of its    *)
(* own.  The partners' side is part of the model: a partner publishes its  *)
(* signing keys in its metadata before it signs with them.                 *)
(***************************************************************************)
EXTENDS Naturals, FiniteSets

CONSTANTS
    Idps,      \* rows of saml_identity_providers
    Partners,  \* the identity providers out there, named by their entity ids
    Requests,  \* HTTP requests and items of the refresh job in progress
    MaxKeys,   \* bound on the keys a partner ever uses
    None       \* no row, no entity id, no metadata url, no certificate

(* A key of a partner, and its certificate.                                *)
Keys == Partners \X (1..MaxKeys)

Statements == {"idle", "insert", "trust", "fields", "list", "create", "delete",
               "update", "enable", "error", "drop"}

VARIABLES
    idp,     \* Idps -> the row, or None
    certs,   \* Idps -> the keys of its rows in idp_certificates
    listed,  \* <<row, url>> pairs the refresh job has still to do
    req,     \* Requests -> what the request runs next, and on what
    pub,     \* Partners -> the keys in the metadata the partner publishes
    sgn,     \* Partners -> the key the partner signs with
    known    \* history: Idps -> the keys of the last completed synchronisation

rowVars == <<idp, certs>>
partnerVars == <<pub, sgn>>
vars == <<idp, certs, listed, req, pub, sgn, known>>

Row == [entity : Partners \cup {None}, trust : BOOLEAN, enabled : BOOLEAN,
        url : Partners \cup {None}, cert : Keys \cup {None}]

Request == [pc : Statements, i : Idps \cup {None}, new : Row \cup {None},
            keys : SUBSET Keys, todo : SUBSET Keys, job : BOOLEAN]

Idle == [pc |-> "idle", i |-> None, new |-> None, keys |-> {}, todo |-> {}, job |-> FALSE]

TypeOK ==
    /\ idp \in [Idps -> Row \cup {None}]
    /\ certs \in [Idps -> SUBSET Keys]
    /\ listed \subseteq Idps \X Partners
    /\ req \in [Requests -> Request]
    /\ pub \in [Partners -> SUBSET Keys] /\ sgn \in [Partners -> Keys]
    /\ known \in [Idps -> SUBSET Keys]

Init ==
    /\ idp = [i \in Idps |-> None]
    /\ certs = [i \in Idps |-> {}]
    /\ listed = {}
    /\ req = [p \in Requests |-> Idle]
    /\ pub = [e \in Partners |-> {<<e, 1>>}] /\ sgn = [e \in Partners |-> <<e, 1>>]
    /\ known = [i \in Idps |-> {}]

Exists(i) == idp[i] # None
At(p, statement) == req[p].pc = statement
Done(p) == req' = [req EXCEPT ![p] = Idle]
Goto(p, statement) == req' = [req EXCEPT ![p].pc = statement]
Start(p, r) == req[p] = Idle /\ req' = [req EXCEPT ![p] = r]

(* UNIQUE (tenant_id, entity_id): a write of an entity id that another row *)
(* has fails.                                                              *)
EntityTaken(i, e) == e # None /\ \E j \in Idps \ {i} : Exists(j) /\ idp[j].entity = e

Blank == [entity |-> None, trust |-> FALSE, enabled |-> FALSE, url |-> None, cert |-> None]

-----------------------------------------------------------------------------
(* The metadata of partner e as fetched from its url or pasted: its entity *)
(* id, one of its certificates as the main one, and all of them.           *)
parse_idp_metadata_xml_to_schema(e) ==
    {[entity |-> e, cert |-> k, keys |-> pub[e]] : k \in pub[e]}
fetch_and_parse_idp_metadata(url) == parse_idp_metadata_xml_to_schema(url)

(* Creation: by name alone, by hand, or from metadata.  The check for the  *)
(* entity id and the insert are separate statements.  The certificate of   *)
(* the row's own and its base group, which follow the insert, are          *)
(* CertRotation's and IdpAssignment's.                                     *)
create_identity_provider(p, i, row, keys) ==
    /\ ~Exists(i) /\ \A q \in Requests : req[q].i # i
    /\ ~EntityTaken(i, row.entity)
    /\ Start(p, [Idle EXCEPT !.pc = "insert", !.i = i, !.keys = keys,
                             !.new = [row EXCEPT !.trust = row.entity # None]])
    /\ UNCHANGED <<rowVars, listed, partnerVars, known>>

insert_identity_provider(p) ==
    /\ At(p, "insert")
    /\ IF EntityTaken(req[p].i, req[p].new.entity) THEN Done(p) /\ UNCHANGED <<idp, certs>>
       ELSE /\ idp' = [idp EXCEPT ![req[p].i] = req[p].new]
            /\ certs' = [certs EXCEPT ![req[p].i] = {}]
            /\ IF req[p].keys = {} THEN Done(p) ELSE Goto(p, "list")
    /\ UNCHANGED <<listed, partnerVars, known>>

import_idp_from_metadata_url(p, i, e) ==
    \E m \in fetch_and_parse_idp_metadata(e) :
        create_identity_provider(p, i, [Blank EXCEPT !.entity = e, !.url = e, !.cert = m.cert], m.keys)

import_idp_from_metadata_xml(p, i, e) ==
    \E m \in parse_idp_metadata_xml_to_schema(e) :
        create_identity_provider(p, i, [Blank EXCEPT !.entity = e, !.cert = m.cert], m.keys)

-----------------------------------------------------------------------------
(* Trust: the second step of a creation by name.                           *)
establish_idp_trust(p, i, e, url, cert, keys) ==
    /\ Exists(i)
    /\ Start(p, [Idle EXCEPT !.pc = "trust", !.i = i, !.keys = keys,
                             !.new = [Blank EXCEPT !.entity = e, !.url = url, !.cert = cert]])
    /\ UNCHANGED <<rowVars, listed, partnerVars, known>>

set_idp_trust_established(p) ==
    LET i == req[p].i
        new == req[p].new
    IN /\ At(p, "trust")
       /\ IF ~Exists(i) \/ EntityTaken(i, new.entity) THEN Done(p) /\ UNCHANGED idp
          ELSE /\ idp' = [idp EXCEPT ![i].entity = new.entity, ![i].url = new.url,
                                     ![i].cert = new.cert, ![i].trust = TRUE]
               /\ IF req[p].keys = {} THEN Done(p) ELSE Goto(p, "list")
       /\ UNCHANGED <<certs, listed, partnerVars, known>>

establish_trust_from(p, i, e, url) ==
    \E m \in parse_idp_metadata_xml_to_schema(e) :
        establish_idp_trust(p, i, e, url, m.cert, m.keys)

-----------------------------------------------------------------------------
(* Settings of an existing connection.                                     *)
update_identity_provider(p, i, cert, url) ==
    /\ Exists(i)
    /\ Start(p, [Idle EXCEPT !.pc = "update", !.i = i,
                             !.new = [Blank EXCEPT !.cert = cert, !.url = url]])
    /\ UNCHANGED <<rowVars, listed, partnerVars, known>>

update_identity_provider_row(p) ==
    LET i == req[p].i
        new == req[p].new
    IN /\ At(p, "update")
       /\ idp' = IF ~Exists(i) THEN idp
                 ELSE [idp EXCEPT ![i].cert = IF new.cert = None THEN @ ELSE new.cert,
                                  ![i].url = IF new.url = None THEN @ ELSE new.url]
       /\ Done(p)
       /\ UNCHANGED <<certs, listed, partnerVars, known>>

(* Re-import takes the main certificate of the pasted XML, and no other.   *)
reimport_idp_metadata(p, i, e) ==
    \E m \in parse_idp_metadata_xml_to_schema(e) : update_identity_provider(p, i, m.cert, None)

set_idp_enabled(p, i, on) ==
    /\ Exists(i)
    /\ on => idp[i].trust
    /\ Start(p, [Idle EXCEPT !.pc = "enable", !.i = i, !.new = [Blank EXCEPT !.enabled = on]])
    /\ UNCHANGED <<rowVars, listed, partnerVars, known>>

set_idp_enabled_row(p) ==
    /\ At(p, "enable")
    /\ idp' = IF Exists(req[p].i) THEN [idp EXCEPT ![req[p].i].enabled = req[p].new.enabled] ELSE idp
    /\ Done(p)
    /\ UNCHANGED <<certs, listed, partnerVars, known>>

(* Users and domains still on the provider are IdpAssignment's matter.     *)
delete_identity_provider(p, i) ==
    /\ Exists(i) /\ ~idp[i].enabled
    /\ Start(p, [Idle EXCEPT !.pc = "drop", !.i = i])
    /\ UNCHANGED <<rowVars, listed, partnerVars, known>>

delete_identity_provider_row(p) ==
    /\ At(p, "drop")
    /\ idp' = [idp EXCEPT ![req[p].i] = None]
    /\ certs' = [certs EXCEPT ![req[p].i] = {}]
    /\ known' = [known EXCEPT ![req[p].i] = {}]
    /\ Done(p)
    /\ UNCHANGED <<listed, partnerVars>>

-----------------------------------------------------------------------------
(* Refresh: one fetch, the row, then the certificates.                     *)
Fetched(p, i, url, job) ==
    \E m \in fetch_and_parse_idp_metadata(url) :
        Start(p, [Idle EXCEPT !.pc = "fields", !.i = i, !.job = job, !.keys = m.keys,
                              !.new = [Blank EXCEPT !.entity = m.entity, !.cert = m.cert]])

refresh_idp_from_metadata(p, i) ==
    /\ Exists(i) /\ idp[i].url # None
    /\ Fetched(p, i, idp[i].url, FALSE)
    /\ UNCHANGED <<rowVars, listed, partnerVars, known>>

(* The job lists every row with a url, and works through the list.         *)
get_idps_with_metadata_url ==
    /\ listed = {}
    /\ listed' = {<<i, idp[i].url>> : i \in {j \in Idps : Exists(j) /\ idp[j].url # None}}
    /\ listed' # {}
    /\ UNCHANGED <<rowVars, req, partnerVars, known>>

refresh_all_idp_metadata(p) ==
    /\ \A q \in Requests : ~req[q].job
    /\ \E item \in listed :
         /\ listed' = listed \ {item}
         /\ \/ Exists(item[1]) /\ Fetched(p, item[1], item[2], TRUE)
            \/ Start(p, [Idle EXCEPT !.pc = "error", !.i = item[1], !.job = TRUE])
    /\ UNCHANGED <<rowVars, partnerVars, known>>

(* A fetch or a row that fails is noted on the row, for display, and the   *)
(* job goes on.                                                            *)
set_idp_metadata_error(p) ==
    /\ At(p, "error")
    /\ Done(p)
    /\ UNCHANGED <<rowVars, listed, partnerVars, known>>

update_idp_metadata_fields(p) ==
    LET i == req[p].i
        new == req[p].new
    IN /\ At(p, "fields")
       /\ IF Exists(i) /\ ~EntityTaken(i, new.entity)
          THEN /\ idp' = [idp EXCEPT ![i].entity = new.entity, ![i].cert = new.cert]
               /\ Goto(p, "list")
          ELSE /\ UNCHANGED idp
               /\ IF ~req[p].job THEN Done(p) ELSE Goto(p, IF Exists(i) THEN "error" ELSE "list")
       /\ UNCHANGED <<certs, listed, partnerVars, known>>

(* The synchronisation adds what is new, then deletes what the list read   *)
(* at the start has and the metadata has not.                              *)
Finished(p) ==
    /\ Done(p)
    /\ known' = IF Exists(req[p].i) THEN [known EXCEPT ![req[p].i] = req[p].keys] ELSE known

sync_certificates_from_metadata_Replaces(p) ==
    /\ At(p, "list")
    /\ certs' = [certs EXCEPT ![req[p].i] = {}]
    /\ req' = [req EXCEPT ![p].pc = "create"]
    /\ UNCHANGED <<idp, listed, partnerVars, known>>

sync_certificates_from_metadata(p) ==
    /\ At(p, "list")
    /\ req' = [req EXCEPT ![p].pc = "create", ![p].todo = certs[req[p].i] \ req[p].keys]
    /\ UNCHANGED <<rowVars, listed, partnerVars, known>>

(* A row that is there already, or whose provider is gone, is not created; *)
(* the failure is swallowed.                                               *)
create_idp_certificate(p) ==
    LET missing == req[p].keys \ certs[req[p].i]
    IN /\ At(p, "create")
       /\ IF missing = {} \/ ~Exists(req[p].i)
          THEN Goto(p, "delete") /\ UNCHANGED certs
          ELSE /\ \E k \in missing : certs' = [certs EXCEPT ![req[p].i] = @ \cup {k}]
               /\ UNCHANGED req
       /\ UNCHANGED <<idp, listed, partnerVars, known>>

delete_idp_certificate(p) ==
    /\ At(p, "delete")
    /\ IF req[p].todo = {} THEN Finished(p) /\ UNCHANGED certs
       ELSE \E k \in req[p].todo :
              /\ certs' = [certs EXCEPT ![req[p].i] = @ \ {k}]
              /\ req' = [req EXCEPT ![p].todo = @ \ {k}]
              /\ UNCHANGED known
    /\ UNCHANGED <<idp, listed, partnerVars>>

-----------------------------------------------------------------------------
(* The routes.                                                             *)
html_create(p, i, e) ==
    \/ create_identity_provider(p, i, Blank, {})
    \/ import_idp_from_metadata_url(p, i, e)
    \/ import_idp_from_metadata_xml(p, i, e)

(* The API creates in one step and may switch the connection on at once.   *)
api_create(p, i, e) ==
    \E on \in BOOLEAN, url \in {e, None}, k \in pub[e] :
        \/ create_identity_provider(p, i, [Blank EXCEPT !.entity = e, !.cert = k, !.url = url,
                                                        !.enabled = on], {})
        \/ create_identity_provider(p, i, [Blank EXCEPT !.enabled = on], {})

api_import(p, i, e) ==
    import_idp_from_metadata_url(p, i, e) \/ import_idp_from_metadata_xml(p, i, e)

html_trust(p, i, e) ==
    \/ establish_trust_from(p, i, e, e)
    \/ establish_trust_from(p, i, e, None)
    \/ \E k \in pub[e] : establish_idp_trust(p, i, e, None, k, {})

api_trust(p, i, e) ==
    \/ \E k \in pub[e], url \in {e, None} : establish_idp_trust(p, i, e, url, k, {})
    \/ establish_trust_from(p, i, e, e)
    \/ establish_trust_from(p, i, e, None)

html_reimport(p, i, e) == reimport_idp_metadata(p, i, e)

html_switches(p, i) ==
    \/ \E on \in BOOLEAN : set_idp_enabled(p, i, on)
    \/ refresh_idp_from_metadata(p, i)
    \/ delete_identity_provider(p, i)

api_update(p, i, e) ==
    \E k \in pub[e] \cup {None}, url \in {e, None} : update_identity_provider(p, i, k, url)

api_switches(p, i) == \E on \in BOOLEAN : set_idp_enabled(p, i, on)

api_delete(p, i) == delete_identity_provider(p, i)

api_reimport_refresh(p, i, e) == reimport_idp_metadata(p, i, e) \/ refresh_idp_from_metadata(p, i)

-----------------------------------------------------------------------------
(* The partner: a new key goes into the metadata; the partner signs with   *)
(* it once every connection of its own has synchronised it; the old key is *)
(* taken out of the metadata when it no longer signs.                      *)
Publish(e) ==
    LET n == Cardinality({k \in Keys : k[1] = e /\ \E j \in pub[e] : k[2] <= j[2]})
    IN /\ n < MaxKeys
       /\ pub' = [pub EXCEPT ![e] = @ \cup {<<e, n + 1>>}]
       /\ UNCHANGED <<rowVars, listed, req, sgn, known>>

SignWith(e, k) ==
    /\ k \in pub[e] /\ k[2] > sgn[e][2]
    /\ \A i \in Idps : Exists(i) /\ idp[i].entity = e => k \in known[i]
    /\ sgn' = [sgn EXCEPT ![e] = k]
    /\ UNCHANGED <<rowVars, listed, req, pub, known>>

Retire(e) ==
    /\ \E k \in pub[e] : k[2] < sgn[e][2]
    /\ pub' = [pub EXCEPT ![e] = {k \in @ : k[2] >= sgn[e][2]}]
    /\ UNCHANGED <<rowVars, listed, req, sgn, known>>

-----------------------------------------------------------------------------
Begin(p) ==
    \E i \in Idps :
        \/ html_switches(p, i) \/ api_switches(p, i) \/ api_delete(p, i)
        \/ \E e \in Partners : \/ html_create(p, i, e) \/ api_create(p, i, e) \/ api_import(p, i, e)
                               \/ html_trust(p, i, e) \/ api_trust(p, i, e)
                               \/ html_reimport(p, i, e) \/ api_update(p, i, e)
                               \/ api_reimport_refresh(p, i, e)

Continue(p) ==
    \/ insert_identity_provider(p)
    \/ set_idp_trust_established(p)
    \/ update_identity_provider_row(p) \/ set_idp_enabled_row(p) \/ delete_identity_provider_row(p)
    \/ update_idp_metadata_fields(p) \/ set_idp_metadata_error(p)
    \/ sync_certificates_from_metadata(p) \/ create_idp_certificate(p) \/ delete_idp_certificate(p)

Next ==
    \/ \E p \in Requests : Begin(p) \/ Continue(p) \/ refresh_all_idp_metadata(p)
    \/ get_idps_with_metadata_url
    \/ \E e \in Partners : Publish(e) \/ Retire(e) \/ \E k \in Keys : SignWith(e, k)

Spec == Init /\ [][Next]_vars

-----------------------------------------------------------------------------
(* The certificates a SAML response for row i is validated with.           *)
get_certificates_for_validation(i) == certs[i]

prepare_saml_auth(i) ==
    IF get_certificates_for_validation(i) # {} THEN certs[i] ELSE {idp[i].cert} \ {None}

(* A partner that publishes a key, waits until the connections have it and *)
(* then signs with it is never locked out: the key it signs with stays     *)
(* accepted at every step of every import, refresh and re-import, with the *)
(* job's list of urls as stale as it may be.                               *)
SigningKeyAccepted ==
    \A i \in Idps :
        Exists(i) /\ idp[i].entity # None /\ sgn[idp[i].entity] \in known[i] =>
            sgn[idp[i].entity] \in prepare_saml_auth(i)

(* "Use this when an IdP rotates its certificate and does not expose a     *)
(* metadata URL" (routers/api/v1/saml.py, reimport): the certificate of    *)
(* the pasted metadata is accepted when the re-import is over.             *)
ReimportTakesEffect ==
    [][\A p \in Requests, i \in Idps :
         At(p, "update") /\ req'[p] = Idle /\ req[p].i = i /\ req[p].new.cert # None /\ Exists(i) =>
            req[p].new.cert \in prepare_saml_auth(i)']_vars

=============================================================================
