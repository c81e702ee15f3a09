------------------------------ MODULE SamlSso ------------------------------
(***************************************************************************)
(* Signing in to SAML service providers and out of them                    *)
(* (routers/saml_idp/sso.py, slo.py, routers/auth/logout.py,               *)
(* services/service_providers/sso.py, slo.py, nameid.py), while            *)
(* administrators work on the providers (ServiceProviders).                *)
(*                                                                         *)
(* The session is a signed cookie: a request works on the copy it came     *)
(* with, and its response replaces the browser's cookie as a whole.        *)
(***************************************************************************)
EXTENDS ServiceProviders, Naturals

CONSTANTS
    Browsers,  \* browsers, each with one session cookie
    Tabs,      \* browser requests that may be in progress
    OneAtATime, \* a browser waits for an answer before its next request
    MaxNames   \* bound on persistent NameIDs generated

ASSUME SsoConstants == None \notin Browsers

VARIABLES
    cookie,    \* Browsers -> session
    tab,       \* Tabs -> where the request is and what it holds
    nameid,    \* Users \X Apps -> sp_nameid_mappings.nameid_value, or None
    minted,    \* how many NameIDs were generated
    asserted,  \* persistent assertions so far: who, to which provider, which NameID
    accessed   \* Browsers -> providers that got an assertion since the sign-in

ssoVars == <<cookie, tab, nameid, minted, asserted, accessed>>
vars == <<ssoVars, spVars>>

Pending == [s : Apps, e : Entities, bound : Users \cup {None}]

Session == [user : Users \cup {None}, pending : Pending \cup {None}, active : SUBSET Apps]

NoSession == [user |-> None, pending |-> None, active |-> {}]

Free == [at |-> "idle", b |-> None, c |-> NoSession, pend |-> None, s |-> None,
         name |-> None, out |-> {}, told |-> {}, owed |-> {}]

TypeOK ==
    /\ SpTypeOK
    /\ cookie \in [Browsers -> Session]
    /\ nameid \in [Users \X Apps -> 1..MaxNames \cup {None}]
    /\ minted \in 0..MaxNames
    /\ \A t \in Tabs : tab[t].c \in Session /\ tab[t].out \subseteq Apps

Init ==
    /\ SpInit
    /\ cookie = [b \in Browsers |-> NoSession]
    /\ tab = [t \in Tabs |-> Free]
    /\ nameid = [k \in Users \X Apps |-> None]
    /\ minted = 0
    /\ asserted = {}
    /\ accessed = [b \in Browsers |-> {}]

Working(t, at) == tab[t].at = at
Quiet(b) == OneAtATime => \A t \in Tabs : tab[t].b # b

Open == {s \in Apps : Exists(s) /\ sp[s].open}

check_user_sp_access(u, s) == user_can_access_app(u, s, Open)

(* The requests below read what they check and answer at once.             *)
SetCookie(b, c) ==
    /\ Quiet(b)
    /\ cookie' = [cookie EXCEPT ![b] = c]
    /\ UNCHANGED <<tab, nameid, minted, asserted, spVars>>

-----------------------------------------------------------------------------
(* Signing in keeps the pending SSO request and nothing else.              *)
complete_authenticated_login(b, u) ==
    /\ LET pend == cookie[b].pending IN
       SetCookie(b, [user |-> u, active |-> {},
                     pending |-> IF pend = None THEN None ELSE [pend EXCEPT !.bound = u]])
    /\ accessed' = [accessed EXCEPT ![b] = {}]

Usable(s) == Exists(s) /\ sp[s].trust /\ sp[s].enabled

(* An AuthnRequest of the provider arrives with the browser.               *)
handle_sso_request(b, s) ==
    /\ Usable(s)
    /\ LET c == cookie[b] IN
       SetCookie(b, [c EXCEPT !.pending = [s |-> s, e |-> sp[s].entity, bound |-> c.user]])
    /\ UNCHANGED accessed

idp_initiated_launch(b, s) ==
    /\ cookie[b].user # None
    /\ Usable(s) /\ check_user_sp_access(cookie[b].user, s)
    /\ SetCookie(b, [cookie[b] EXCEPT
                       !.pending = [s |-> s, e |-> sp[s].entity, bound |-> cookie[b].user]])
    /\ UNCHANGED accessed

(* The page on which the user decides; it is shown only with access.       *)
consent_page(c) ==
    /\ c.user # None /\ c.pending # None
    /\ c.pending.bound \in {None, c.user}
    /\ check_user_sp_access(c.user, c.pending.s)

consent_switch_account(b) ==
    /\ consent_page(cookie[b])
    /\ LET pend == cookie[b].pending IN
       SetCookie(b, [NoSession EXCEPT !.pending = [pend EXCEPT !.bound = None]])
    /\ accessed' = [accessed EXCEPT ![b] = {}]

consent_cancel(b) ==
    /\ consent_page(cookie[b])
    /\ SetCookie(b, [cookie[b] EXCEPT !.pending = None])
    /\ UNCHANGED accessed

-----------------------------------------------------------------------------
(* The user agrees: the pending request leaves the session, the assertion  *)
(* is built from several reads, and the provider is added to the session.  *)
consent_respond(t, b) ==
    /\ Working(t, "idle") /\ Quiet(b)
    /\ consent_page(cookie[b])
    /\ tab' = [tab EXCEPT ![t] = [Free EXCEPT !.at = "row", !.b = b, !.pend = cookie[b].pending,
                                  !.c = [cookie[b] EXCEPT !.pending = None]]]
    /\ UNCHANGED <<cookie, nameid, minted, asserted, accessed, spVars>>

(* An exception on the way is answered with an error page.                 *)
Failed(t) ==
    /\ tab' = [tab EXCEPT ![t] = Free]
    /\ cookie' = [cookie EXCEPT ![tab[t].b] = tab[t].c]

build_sso_response(t) ==
    /\ Working(t, "row")
    /\ LET rows == get_service_provider_by_entity_id(tab[t].pend.e) IN
       IF \E s \in rows : sp[s].trust
       THEN /\ \E s \in rows :
                 tab' = [tab EXCEPT ![t].s = s,
                                    ![t].at = IF sp[s].persistent THEN "insert" ELSE "end"]
            /\ UNCHANGED cookie
       ELSE Failed(t)
    /\ UNCHANGED <<nameid, minted, asserted, accessed, spVars>>

Key(t) == <<tab[t].c.user, tab[t].s>>

(* INSERT ... ON CONFLICT DO NOTHING, then read whichever row is there.    *)
insert_nameid_mapping(t) ==
    /\ Working(t, "insert")
    /\ minted < MaxNames
    /\ minted' = minted + 1
    /\ IF Exists(tab[t].s)
       THEN /\ nameid' = IF nameid[Key(t)] = None THEN [nameid EXCEPT ![Key(t)] = minted'] ELSE nameid
            /\ tab' = [tab EXCEPT ![t].at = "read", ![t].name = minted']
            /\ UNCHANGED cookie
       ELSE UNCHANGED nameid /\ Failed(t)
    /\ UNCHANGED <<asserted, accessed, spVars>>

(* An administrator's preview of an assertion resolves the NameID the same *)
(* way: a first preview leaves a mapping behind.                           *)
preview_assertion(u, s) ==
    /\ Exists(s) /\ sp[s].persistent /\ nameid[<<u, s>>] = None
    /\ minted < MaxNames
    /\ minted' = minted + 1
    /\ nameid' = [nameid EXCEPT ![<<u, s>>] = minted']
    /\ UNCHANGED <<cookie, tab, asserted, accessed, spVars>>

get_nameid_mapping_Generated(t) ==
    /\ Working(t, "read")
    /\ tab' = [tab EXCEPT ![t].at = "end"]
    /\ UNCHANGED <<cookie, nameid, minted, asserted, accessed, spVars>>

get_nameid_mapping(t) ==
    /\ Working(t, "read")
    /\ IF nameid[Key(t)] # None
       THEN tab' = [tab EXCEPT ![t].at = "end", ![t].name = nameid[Key(t)]] /\ UNCHANGED cookie
       ELSE Failed(t)
    /\ UNCHANGED <<nameid, minted, asserted, accessed, spVars>>

(* The answer: the assertion goes out, and the session names the provider  *)
(* that was pending.                                                       *)
Answer(t, c) ==
    /\ Working(t, "end")
    /\ asserted' = IF tab[t].name = None THEN asserted
                   ELSE asserted \cup {[u |-> tab[t].c.user, s |-> tab[t].s, name |-> tab[t].name]}
    /\ accessed' = [accessed EXCEPT ![tab[t].b] =
                      @ \cup {[s |-> tab[t].s, asked |-> tab[t].pend.s]}]
    /\ cookie' = [cookie EXCEPT ![tab[t].b] = c]
    /\ tab' = [tab EXCEPT ![t] = Free]
    /\ UNCHANGED <<nameid, minted, spVars>>

consent_answered_LatestOnly(t) == Answer(t, [tab[t].c EXCEPT !.active = {tab[t].pend.s}])

consent_answered(t) == Answer(t, [tab[t].c EXCEPT !.active = @ \cup {tab[t].pend.s}])

-----------------------------------------------------------------------------
(* Signing out: the session's providers are told one after the other, and  *)
(* the response empties the cookie.                                        *)
terminate_session(t, b) ==
    /\ Working(t, "idle") /\ Quiet(b)
    /\ cookie[b].user # None
    /\ tab' = [tab EXCEPT ![t] = [Free EXCEPT !.at = "slo", !.b = b, !.out = cookie[b].active,
                                              !.owed = accessed[b]]]
    /\ UNCHANGED <<cookie, nameid, minted, asserted, accessed, spVars>>

(* A provider without a row or an SLO URL is skipped; one that cannot be   *)
(* reached or refuses is not asked again.                                  *)
propagate_logout_to_sps(t, s) ==
    /\ Working(t, "slo")
    /\ s \in tab[t].out
    /\ tab' = [tab EXCEPT ![t].out = @ \ {s}, ![t].told = @ \cup {s}]
    /\ UNCHANGED <<cookie, nameid, minted, asserted, accessed, spVars>>

logout(t) ==
    /\ Working(t, "slo") /\ tab[t].out = {}
    /\ cookie' = [cookie EXCEPT ![tab[t].b] = NoSession]
    /\ accessed' = [accessed EXCEPT ![tab[t].b] = {}]
    /\ tab' = [tab EXCEPT ![t] = Free]
    /\ UNCHANGED <<nameid, minted, asserted, spVars>>

(* A provider signs the user out of WeftID.                                *)
process_sp_logout_request(s) == Exists(s) /\ sp[s].enabled /\ sp[s].slo

handle_slo_request(b, s) ==
    /\ process_sp_logout_request(s)
    /\ SetCookie(b, NoSession)
    /\ accessed' = [accessed EXCEPT ![b] = {}]

-----------------------------------------------------------------------------
(* Mappings go with the provider's row.                                    *)
SpStep ==
    /\ SpNext
    /\ nameid' = [k \in Users \X Apps |-> IF sp'[k[2]] = Gone THEN None ELSE nameid[k]]
    /\ UNCHANGED <<cookie, tab, minted, asserted, accessed>>

Next ==
    \/ SpStep
    \/ \E u \in Users, s \in Apps : preview_assertion(u, s)
    \/ \E b \in Browsers : \/ \E u \in Users : complete_authenticated_login(b, u)
                           \/ \E s \in Apps : \/ handle_sso_request(b, s) \/ idp_initiated_launch(b, s)
                                              \/ handle_slo_request(b, s)
                           \/ consent_switch_account(b) \/ consent_cancel(b)
                           \/ \E t \in Tabs : consent_respond(t, b) \/ terminate_session(t, b)
    \/ \E t \in Tabs : \/ build_sso_response(t) \/ insert_nameid_mapping(t)
                       \/ get_nameid_mapping(t) \/ consent_answered(t) \/ logout(t)
                       \/ \E s \in Apps : propagate_logout_to_sps(t, s)

Spec == Init /\ [][Next]_vars

-----------------------------------------------------------------------------
(* A persistent NameID never changes: all persistent assertions about a    *)
(* user to one provider carry the same value, also when the first ones are *)
(* built at the same time.                                                 *)
NameIdStable ==
    \A x, y \in asserted : x.u = y.u /\ x.s = y.s => x.name = y.name

(* Signing out reaches every provider that got an assertion since the      *)
(* sign-in, unless it was deleted and registered anew while the user was   *)
(* deciding.                                                               *)
LogoutTellsEveryApp ==
    \A t \in Tabs : Working(t, "slo") =>
        \A x \in tab[t].owed : x.s = x.asked => x.s \in tab[t].out \cup tab[t].told

(* "WeftID sends a LogoutRequest to each application the user accessed     *)
(* during the session" (docs/admin-guide/service-providers/slo.md): no     *)
(* provider is left out.                                                   *)
EveryAppTold ==
    \A t \in Tabs : Working(t, "slo") =>
        \A x \in tab[t].owed : x.s \in tab[t].out \cup tab[t].told

=============================================================================
