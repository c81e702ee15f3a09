--------------------------- MODULE SamlSso_proofs ---------------------------
(***************************************************************************)
(* What the service providers and the sign-ins to them guarantee for any   *)
(* number of providers, users, browsers and overlapping requests.          *)
(***************************************************************************)
EXTENDS SamlSso, TLAPS

-----------------------------------------------------------------------------
(* Administrators' requests.                                               *)

(* What a request holds between its checks and its statement.              *)
RequestState ==
    {Idle}
      \cup [at : {"insert"}, s : Apps, x : Row]
      \cup [at : {"trust"}, s : Apps, x : [md : Metadata, url : BOOLEAN]]
      \cup [at : {"update"}, s : Apps, x : {"slo", "persistent", "open", "enabled"} \X BOOLEAN]
      \cup [at : {"refresh"}, s : Apps, x : Metadata]
      \cup [at : {"delete"}, s : Apps, x : {None}]
      \cup [at : {"assign"}, s : Apps, x : Groups]
      \cup [at : {"bulk"}, s : Apps, x : SUBSET Groups]

(* The id of a registration in progress is new and belongs to it alone, so *)
(* that an insert never replaces a row.                                    *)
SpInv ==
    /\ sp \in [Apps -> Row \cup {None, Gone}]
    /\ req \in [Requests -> RequestState]
    /\ \A p \in Requests : At(p, "insert") =>
         sp[req[p].s] = None /\ \A q \in Requests : req[q].s = req[p].s => q = p

(* What a step of an administrator's request does to the providers.        *)
SpFacts ==
    /\ SpInv'
    /\ \A s \in Apps : sp[s] = Gone => sp'[s] = Gone
    /\ \A s \in Apps : Exists(s) /\ sp[s].trust /\ Exists(s)' =>
         sp'[s].trust /\ sp'[s].entity = sp[s].entity

(* Writing a setting keeps the shape of the row, its trust and its entity. *)
LEMMA SettingKeeps ==
  ASSUME NEW row \in Row, NEW f \in {"slo", "persistent", "open", "enabled"}, NEW b \in BOOLEAN
  PROVE  LET new == [row EXCEPT ![f] = b]
         IN  new \in Row /\ new.trust = row.trust /\ new.entity = row.entity
  BY Zenon DEF Row

(* A request by its position.                                              *)
LEMMA Holds ==
  ASSUME SpInv, NEW p \in Requests
  PROVE  /\ ~At(p, "idle") => req[p].s \in Apps
         /\ At(p, "insert") => req[p].x \in Row
         /\ At(p, "trust") => req[p].x \in [md : Metadata, url : BOOLEAN]
         /\ At(p, "update") => req[p].x \in {"slo", "persistent", "open", "enabled"} \X BOOLEAN
         /\ At(p, "refresh") => req[p].x \in Metadata
<1>1. req[p] \in RequestState
  BY Zenon DEF SpInv
<1> QED
  BY <1>1 DEF RequestState, At, Idle

(* A service that has read and checked: a registration takes a new id, and *)
(* everything else is about a provider that exists.                        *)
LEMMA BeginKeeps ==
  ASSUME SpInv, NEW p \in Requests, NEW at, NEW s \in Apps, NEW x, Begin(p, at, s, x),
         [at |-> at, s |-> s, x |-> x] \in RequestState,
         IF at = "insert" THEN sp[s] = None /\ \A q \in Requests : req[q].s # s ELSE Exists(s)
  PROVE  SpFacts
<1> DEFINE new == [at |-> at, s |-> s, x |-> x]
<1>1. new \in RequestState /\ new.at = at /\ new.s = s
  BY Zenon
<1>2. req' = [req EXCEPT ![p] = new] /\ sp' = sp
  BY Zenon DEF Begin
<1> HIDE DEF new
<1>3. /\ req' \in [Requests -> RequestState]
      /\ req'[p].at = at /\ req'[p].s = s
      /\ \A q \in Requests : q # p => req'[q] = req[q]
  BY Zenon, <1>1, <1>2 DEF SpInv
<1>4. ASSUME NEW r \in Requests, req'[r].at = "insert"
      PROVE  sp'[req'[r].s] = None /\ \A q \in Requests : req'[q].s = req'[r].s => q = r
  BY Zenon, <1>2, <1>3, <1>4 DEF SpInv, At, Exists
<1>5. SpInv'
  BY Zenon, <1>2, <1>3, <1>4 DEF SpInv, At
<1> QED
  BY Zenon, <1>2, <1>5 DEF SpFacts, Exists

(* A statement about provider s that ends its request: s is the request's  *)
(* own, and no other registration is about it.                             *)
LEMMA StatementKeeps ==
  ASSUME SpInv, NEW p \in Requests, ~At(p, "idle"), Done(p),
         NEW row \in Row \cup {None, Gone},
         sp' \in {sp, [sp EXCEPT ![req[p].s] = row]},
         sp' # sp => At(p, "insert") \/ Exists(req[p].s)
  PROVE  /\ SpInv'
         /\ \A s \in Apps : sp[s] = Gone => sp'[s] = Gone
         /\ \A s \in Apps : sp'[s] # sp[s] => s = req[p].s /\ sp'[s] = row
<1>1. req[p].s \in Apps
  BY Zenon, Holds
<1>2. Idle \in RequestState /\ Idle.at = "idle" /\ Idle.s = None
  BY Zenon DEF Idle, RequestState
<1> HIDE DEF Idle, RequestState
<1>3. /\ req' \in [Requests -> RequestState]
      /\ req'[p].at = "idle" /\ req'[p].s = None
      /\ \A q \in Requests : q # p => req'[q] = req[q]
  BY Zenon, <1>2 DEF SpInv, Done
<1>4. sp' \in [Apps -> Row \cup {None, Gone}]
  BY Zenon, <1>1 DEF SpInv
<1>5. \A s \in Apps : sp'[s] # sp[s] => s = req[p].s /\ sp'[s] = row /\ sp' # sp
  BY Zenon, <1>1 DEF SpInv
<1>6. ASSUME NEW r \in Requests, req'[r].at = "insert"
      PROVE  sp'[req'[r].s] = None /\ \A q \in Requests : req'[q].s = req'[r].s => q = r
  <2>1. r # p /\ req'[r] = req[r] /\ At(r, "insert")
    BY Zenon, <1>3, <1>6 DEF At
  <2>2. req[r].s \in Apps /\ sp[req[r].s] = None /\ \A q \in Requests : req[q].s = req[r].s => q = r
    BY Zenon, <2>1, Holds DEF SpInv, At
  <2>3. req[r].s # req[p].s
    BY Zenon, <2>1, <2>2
  <2> QED
    BY <1>3, <1>5, <2>1, <2>2, <2>3, SpConstants
<1>7. ASSUME NEW s \in Apps, sp[s] = Gone
      PROVE  sp'[s] = Gone
  <2>1. CASE sp' # sp /\ s = req[p].s
    BY Zenon, <1>7, <2>1, SpConstants DEF SpInv, At, Exists
  <2> QED
    BY Zenon, <1>5, <1>7, <2>1
<1>8. SpInv'
  BY Zenon, <1>3, <1>4, <1>6 DEF SpInv, At
<1> QED
  BY Zenon, <1>5, <1>7, <1>8

(* Every statement of a service: the guards of its WHERE clause protect    *)
(* what has changed since the service checked.                             *)
LEMMA StatementStep ==
  ASSUME SpInv, NEW p \in Requests, Statement(p)
  PROVE  SpFacts
<1> USE DEF SpFacts
<1>1. CASE insert_service_provider(p)
  <2>1. /\ At(p, "insert") /\ ~At(p, "idle") /\ Done(p) /\ req[p].x \in Row
        /\ sp' \in {sp, [sp EXCEPT ![req[p].s] = req[p].x]}
        /\ sp[req[p].s] = None
    BY Zenon, <1>1, Holds DEF insert_service_provider, At, SpInv
  <2>2. /\ SpInv' /\ \A s \in Apps : sp[s] = Gone => sp'[s] = Gone
        /\ \A s \in Apps : sp'[s] # sp[s] => s = req[p].s /\ sp'[s] = req[p].x
    BY Zenon, <2>1, StatementKeeps
  <2> QED
    BY Zenon, <2>1, <2>2 DEF Exists
<1>2. CASE establish_trust(p)
  <2> DEFINE row == Trusted(sp[req[p].s], req[p].x)
  <2>1. /\ At(p, "trust") /\ ~At(p, "idle") /\ Done(p)
        /\ req[p].s \in Apps /\ req[p].x \in [md : Metadata, url : BOOLEAN]
    BY Zenon, <1>2, Holds DEF establish_trust, At
  <2>2. CASE sp' = sp
    <3>1. /\ SpInv' /\ \A s \in Apps : sp[s] = Gone => sp'[s] = Gone
      BY Zenon, <2>1, <2>2, StatementKeeps
    <3> QED
      BY Zenon, <2>2, <3>1 DEF Exists
  <2>3. CASE sp' # sp
    <3>1. Exists(req[p].s) /\ ~sp[req[p].s].trust /\ sp' = [sp EXCEPT ![req[p].s] = row]
      BY Zenon, <1>2, <2>3 DEF establish_trust
    <3>2. sp[req[p].s] \in Row
      BY Zenon, <2>1, <3>1 DEF Exists, SpInv
    <3>3. row \in Row
      BY Zenon, <2>1, <3>2 DEF Trusted, Row, Metadata
    <3> HIDE DEF row
    <3>4. /\ SpInv' /\ \A s \in Apps : sp[s] = Gone => sp'[s] = Gone
          /\ \A s \in Apps : sp'[s] # sp[s] => s = req[p].s /\ sp'[s] = row
      BY Zenon, <2>1, <3>1, <3>3, StatementKeeps
    <3> QED
      BY Zenon, <3>1, <3>4 DEF Exists
  <2> QED
    BY Zenon, <2>2, <2>3
<1>3. ASSUME NEW row, Updated(p, row), ~At(p, "idle"),
             Exists(req[p].s) => /\ row \in Row
                                 /\ row.trust = sp[req[p].s].trust
                                 /\ row.entity = sp[req[p].s].entity
      PROVE  SpFacts
  <2>1. Done(p) /\ req[p].s \in Apps
    BY Zenon, <1>3, Holds DEF Updated
  <2>2. CASE ~Exists(req[p].s)
    <3>1. sp' = sp
      BY Zenon, <1>3, <2>2 DEF Updated
    <3>2. SpInv' /\ \A s \in Apps : sp[s] = Gone => sp'[s] = Gone
      BY Zenon, <1>3, <2>1, <3>1, StatementKeeps
    <3> QED
      BY Zenon, <3>1, <3>2 DEF Exists
  <2>3. CASE Exists(req[p].s)
    <3>1. sp' = [sp EXCEPT ![req[p].s] = row] /\ row \in Row
      BY Zenon, <1>3, <2>3 DEF Updated
    <3>2. /\ SpInv' /\ \A s \in Apps : sp[s] = Gone => sp'[s] = Gone
          /\ \A s \in Apps : sp'[s] # sp[s] => s = req[p].s /\ sp'[s] = row
      BY Zenon, <1>3, <2>1, <2>3, <3>1, StatementKeeps
    <3> QED
      BY Zenon, <1>3, <2>3, <3>2 DEF Exists
  <2> QED
    BY Zenon, <2>2, <2>3
<1>4. CASE update_service_provider_row(p)
  <2> DEFINE row == [sp[req[p].s] EXCEPT ![req[p].x[1]] = req[p].x[2]]
  <2>1. /\ ~At(p, "idle") /\ req[p].s \in Apps /\ Updated(p, row)
        /\ req[p].x[1] \in {"slo", "persistent", "open", "enabled"} /\ req[p].x[2] \in BOOLEAN
    BY Zenon, <1>4, Holds DEF update_service_provider_row, At
  <2>2. ASSUME Exists(req[p].s)
        PROVE  /\ row \in Row /\ row.trust = sp[req[p].s].trust
               /\ row.entity = sp[req[p].s].entity
    <3>1. sp[req[p].s] \in Row
      BY Zenon, <2>1, <2>2 DEF Exists, SpInv
    <3> QED
      BY <2>1, <3>1, SettingKeeps
  <2> HIDE DEF row
  <2> QED
    BY Zenon, <1>3, <2>1, <2>2
<1>5. CASE refresh_sp_metadata_fields(p)
  <2> DEFINE row == [sp[req[p].s] EXCEPT !.slo = req[p].x.slo, !.persistent = req[p].x.persistent]
  <2>1. /\ ~At(p, "idle") /\ req[p].s \in Apps /\ Updated(p, row) /\ req[p].x \in Metadata
    BY Zenon, <1>5, Holds DEF refresh_sp_metadata_fields, At
  <2>2. ASSUME Exists(req[p].s)
        PROVE  /\ row \in Row /\ row.trust = sp[req[p].s].trust
               /\ row.entity = sp[req[p].s].entity
    <3>1. sp[req[p].s] \in Row
      BY Zenon, <2>1, <2>2 DEF Exists, SpInv
    <3> QED
      BY Zenon, <2>1, <3>1 DEF Row, Metadata
  <2> HIDE DEF row
  <2> QED
    BY Zenon, <1>3, <2>1, <2>2
<1>6. CASE delete_service_provider_row(p)
  <2>1. /\ ~At(p, "idle") /\ Done(p)
        /\ sp' \in {sp, [sp EXCEPT ![req[p].s] = Gone]}
        /\ sp' # sp => Exists(req[p].s)
    BY Zenon, <1>6 DEF delete_service_provider_row, At
  <2>2. /\ SpInv' /\ \A s \in Apps : sp[s] = Gone => sp'[s] = Gone
        /\ \A s \in Apps : sp'[s] # sp[s] => s = req[p].s /\ sp'[s] = Gone
    BY Zenon, <2>1, StatementKeeps
  <2> QED
    BY Zenon, <2>2 DEF Exists
<1>7. CASE insert_assignments(p)
  <2>1. ~At(p, "idle") /\ Done(p) /\ sp' = sp
    BY Zenon, <1>7 DEF insert_assignments, At
  <2>2. SpInv' /\ \A s \in Apps : sp[s] = Gone => sp'[s] = Gone
    BY Zenon, <2>1, StatementKeeps
  <2> QED
    BY Zenon, <2>1, <2>2 DEF Exists
<1> QED
  BY Zenon, <1>1, <1>2, <1>4, <1>5, <1>6, <1>7 DEF Statement

(* Registrations and trust begin on what the metadata or the form says.    *)
LEMMA RegistrationStep ==
  ASSUME SpInv, NEW p \in Requests, NEW s \in Apps, NEW md \in Metadata,
         api_create(p, s, md) \/ api_establish_trust(p, s, md)
  PROVE  SpFacts
<1>1. ASSUME NEW e \in Entities \cup {None}, NEW slo \in BOOLEAN, create_service_provider(p, s, e, slo)
      PROVE  SpFacts
  <2> DEFINE x == [entity |-> e, trust |-> e # None, enabled |-> TRUE, url |-> FALSE,
                   slo |-> slo, persistent |-> FALSE, open |-> FALSE]
  <2>1. x \in Row
    BY Zenon DEF Row
  <2>2. Begin(p, "insert", s, x) /\ sp[s] = None /\ \A q \in Requests : req[q].s # s
    BY Zenon, <1>1 DEF create_service_provider
  <2> HIDE DEF x
  <2>3. [at |-> "insert", s |-> s, x |-> x] \in RequestState
    BY Zenon, <2>1 DEF RequestState
  <2> QED
    BY Zenon, <2>2, <2>3, BeginKeeps
<1>2. ASSUME NEW url \in BOOLEAN, create_sp_from_parsed_metadata(p, s, md, url)
      PROVE  SpFacts
  <2> DEFINE x == [entity |-> md.entity, trust |-> TRUE, enabled |-> TRUE, url |-> url,
                   slo |-> md.slo, persistent |-> md.persistent, open |-> FALSE]
  <2>1. x \in Row
    BY Zenon DEF Row, Metadata
  <2>2. Begin(p, "insert", s, x) /\ sp[s] = None /\ \A q \in Requests : req[q].s # s
    BY Zenon, <1>2 DEF create_sp_from_parsed_metadata
  <2> HIDE DEF x
  <2>3. [at |-> "insert", s |-> s, x |-> x] \in RequestState
    BY Zenon, <2>1 DEF RequestState
  <2> QED
    BY Zenon, <2>2, <2>3, BeginKeeps
<1>3. ASSUME NEW m \in Metadata, NEW url \in BOOLEAN, do_establish_trust(p, s, m, url)
      PROVE  SpFacts
  <2>1. [at |-> "trust", s |-> s, x |-> [md |-> m, url |-> url]] \in RequestState
    BY Zenon DEF RequestState
  <2>2. Begin(p, "trust", s, [md |-> m, url |-> url]) /\ Exists(s)
    BY Zenon, <1>3 DEF do_establish_trust
  <2> QED
    BY Zenon, <2>1, <2>2, BeginKeeps
<1>4. /\ md.entity \in Entities /\ md.slo \in BOOLEAN
      /\ [entity |-> md.entity, slo |-> md.slo, persistent |-> FALSE] \in Metadata
  BY Zenon DEF Metadata
<1>5. CASE api_create(p, s, md)
  BY Zenon, <1>1, <1>2, <1>4, <1>5 DEF api_create, sp_create, import_sp_from_metadata_xml,
      import_sp_from_metadata_url
<1>6. CASE api_establish_trust(p, s, md)
  BY Zenon, <1>3, <1>4, <1>6 DEF api_establish_trust, sp_establish_trust,
      establish_trust_from_metadata_url, establish_trust_from_metadata_xml, establish_trust_manually
<1> QED
  BY Zenon, <1>5, <1>6

(* Every step of the administration.                                       *)
LEMMA SpPreserved ==
  ASSUME SpInv, SpNext
  PROVE  SpFacts
<1>1. ASSUME sp' = sp, req' = req
      PROVE  SpFacts
  BY Zenon, <1>1 DEF SpFacts, SpInv, At, Exists
<1>2. ASSUME NEW p \in Requests, NEW s \in Apps, api_update_switch(p, s)
      PROVE  SpFacts
  <2>1. ASSUME NEW x \in {"slo", "persistent", "open", "enabled"} \X BOOLEAN, Exists(s),
               Begin(p, "update", s, x)
        PROVE  SpFacts
    <3>1. [at |-> "update", s |-> s, x |-> x] \in RequestState
      BY Zenon DEF RequestState
    <3> QED
      BY Zenon, <2>1, <3>1, BeginKeeps
  <2>2. ASSUME Exists(s), Begin(p, "delete", s, None)
        PROVE  SpFacts
    <3>1. [at |-> "delete", s |-> s, x |-> None] \in RequestState
      BY Zenon DEF RequestState
    <3> QED
      BY Zenon, <2>2, <3>1, BeginKeeps
  <2>3. \A f \in {"slo", "persistent", "open", "enabled"}, b \in BOOLEAN :
          <<f, b>> \in {"slo", "persistent", "open", "enabled"} \X BOOLEAN
    BY Zenon
  <2>4. Change \subseteq {"slo", "persistent", "open", "enabled"} \X BOOLEAN
    BY <2>3, Zenon DEF Change
  <2> QED
    BY Zenon, <1>2, <2>1, <2>2, <2>3, <2>4 DEF api_update_switch, sp_edit, sp_switch, update_service_provider,
        enable_service_provider, disable_service_provider, delete_service_provider
<1>3. ASSUME NEW p \in Requests, NEW s \in Apps, api_groups(p, s)
      PROVE  SpFacts
  <2>1. ASSUME NEW g \in Groups, assign_sp_to_group(p, s, g)
        PROVE  SpFacts
    <3>1. [at |-> "assign", s |-> s, x |-> g] \in RequestState
      BY Zenon DEF RequestState
    <3> QED
      BY Zenon, <2>1, <3>1, BeginKeeps DEF assign_sp_to_group
  <2>2. ASSUME bulk_assign_sp_to_groups(p, s, Groups)
        PROVE  SpFacts
    <3>1. [at |-> "bulk", s |-> s, x |-> Groups] \in RequestState
      BY Zenon DEF RequestState
    <3> QED
      BY Zenon, <2>2, <3>1, BeginKeeps DEF bulk_assign_sp_to_groups
  <2>3. ASSUME NEW g \in Groups, remove_sp_group_assignment(p, s, g)
        PROVE  SpFacts
    BY Zenon, <1>1, <2>3 DEF remove_sp_group_assignment
  <2> QED
    BY Zenon, <1>3, <2>1, <2>2, <2>3 DEF api_groups, sp_groups
<1>4. ASSUME NEW p \in Requests, NEW s \in Apps, NEW md \in Metadata, api_metadata(p, s, md)
      PROVE  SpFacts
  <2>1. [at |-> "refresh", s |-> s, x |-> md] \in RequestState
    BY Zenon DEF RequestState
  <2>2. Exists(s) /\ Begin(p, "refresh", s, md)
    BY Zenon, <1>4 DEF api_metadata, sp_metadata, apply_sp_metadata_refresh, apply_sp_metadata_reimport
  <2> QED
    BY Zenon, <2>1, <2>2, BeginKeeps
<1>5. ASSUME NEW u \in Users, NEW g \in Groups, MembershipChanges(u, g) /\ UNCHANGED <<sp, req>>
      PROVE  SpFacts
  BY Zenon, <1>1, <1>5
<1> QED
  BY Zenon, <1>2, <1>3, <1>4, <1>5, StatementStep, RegistrationStep DEF SpNext

(* Sign-ins and logouts leave the providers alone.                         *)
LEMMA SpOrUnchanged ==
  ASSUME [Next]_vars
  PROVE  SpStep \/ UNCHANGED spVars
  BY ZenonT(60) DEF Next, vars, preview_assertion, complete_authenticated_login, handle_sso_request,
      idp_initiated_launch, handle_slo_request, consent_switch_account, consent_cancel,
      consent_respond, terminate_session, build_sso_response, insert_nameid_mapping,
      get_nameid_mapping, consent_answered, Answer, logout, propagate_logout_to_sps, SetCookie

(* The administrators' invariant holds initially.                          *)
LEMMA SpInitial ==
  ASSUME Init
  PROVE  SpInv
<1>1. Idle \in RequestState /\ Idle.at # "insert"
  BY Zenon DEF Idle, RequestState
<1> HIDE DEF Idle, RequestState
<1> QED
  BY Zenon, <1>1 DEF Init, SpInit, SpInv, At

(* Every step of the system keeps it.                                      *)
LEMMA SpInductive ==
  ASSUME SpInv, [Next]_vars
  PROVE  SpFacts
<1>1. CASE SpStep
  BY Zenon, <1>1, SpPreserved DEF SpStep
<1>2. CASE UNCHANGED spVars
  BY Zenon, <1>2 DEF spVars, SpFacts, SpInv, At, Exists
<1> QED
  BY Zenon, <1>1, <1>2, SpOrUnchanged

(* Whatever requests overlap, a trusted provider keeps its entity id and   *)
(* its trust until it is deleted: the WHERE clause of establish_trust and  *)
(* the settings an update may name are enough, although every service      *)
(* decides on a row it read in an earlier transaction.                     *)
THEOREM TrustStays == Spec => TrustEstablishedOnce
<1>1. Init => SpInv
  BY Zenon, SpInitial
<1>2. SpInv /\ [Next]_vars => SpInv'
  BY Zenon, SpInductive DEF SpFacts
<1>3. SpInv /\ [Next]_vars =>
        [\A s \in Apps : Exists(s) /\ sp[s].trust /\ Exists(s)' =>
           sp'[s].trust /\ sp'[s].entity = sp[s].entity]_<<sp>>
  BY Zenon, SpInductive DEF SpFacts
<1> QED
  BY <1>1, <1>2, <1>3, PTL DEF Spec, TrustEstablishedOnce

-----------------------------------------------------------------------------
(* Browsers' requests.                                                     *)

Accesses == SUBSET [s : Apps, asked : Apps]

PendingState == [s : Apps, e : Entities \cup {None}, bound : Users \cup {None}]

SessionState == [user : Users \cup {None}, pending : PendingState \cup {None}, active : SUBSET Apps]

(* A request that builds an assertion; s is the provider it has found.     *)
Building(ats, providers, names) ==
    [at : ats, b : Browsers, c : [user : Users, pending : {None}, active : SUBSET Apps],
     pend : PendingState, s : providers, name : names,
     out : {{}}, told : {{}}, owed : {{}}]

SigningOut ==
    [at : {"slo"}, b : Browsers, c : {NoSession}, pend : {None}, s : {None}, name : {None},
     out : SUBSET Apps, told : SUBSET Apps, owed : Accesses]

TabState ==
    {Free} \cup Building({"row"}, {None}, {None})
      \cup Building({"insert", "read", "end"}, Apps, Nat \cup {None})
      \cup SigningOut

SsoTypes ==
    /\ cookie \in [Browsers -> SessionState]
    /\ tab \in [Tabs -> TabState]
    /\ nameid \in [Users \X Apps -> Nat \cup {None}]
    /\ minted \in Nat
    /\ accessed \in [Browsers -> Accesses]

(* A browser's request by its position.                                    *)
LEMMA TabHolds ==
  ASSUME SsoTypes, NEW t \in Tabs
  PROVE  /\ tab[t].at \in {"row", "insert", "read", "end"} =>
              /\ tab[t].b \in Browsers /\ tab[t].c \in SessionState
              /\ tab[t].c.user \in Users /\ tab[t].c.active \subseteq Apps
              /\ tab[t].pend \in PendingState
         /\ tab[t].at \in {"insert", "read", "end"} =>
              tab[t] \in Building({"insert", "read", "end"}, Apps, Nat \cup {None}) /\ tab[t].s \in Apps
         /\ tab[t].at = "row" => tab[t] \in Building({"row"}, {None}, {None})
         /\ tab[t].at = "end" => tab[t].name \in Nat \cup {None}
         /\ tab[t].at = "slo" => tab[t] \in SigningOut
         /\ tab[t].at = "idle" => tab[t] = Free
<1>1. tab[t] \in TabState
  BY Zenon DEF SsoTypes
<1>2. Free.at = "idle"
  BY Zenon DEF Free
<1>3. CASE tab[t] \in Building({"row"}, {None}, {None})
  BY Zenon, <1>3 DEF Building, SessionState
<1>4. CASE tab[t] \in Building({"insert", "read", "end"}, Apps, Nat \cup {None})
  BY Zenon, <1>4 DEF Building, SessionState
<1>5. CASE tab[t] \in SigningOut
  BY Zenon, <1>5 DEF SigningOut
<1> QED
  BY Zenon, <1>1, <1>2, <1>3, <1>4, <1>5 DEF TabState

(* What a request does to its own record, and that it does nothing to the  *)
(* records of other requests.                                              *)
LEMMA TabMoves ==
  ASSUME SsoTypes, NEW t \in Tabs, NEW new \in TabState, tab' = [tab EXCEPT ![t] = new]
  PROVE  /\ tab' \in [Tabs -> TabState] /\ tab'[t] = new
         /\ \A u \in Tabs : u # t => tab'[u] = tab[u]
  BY Zenon DEF SsoTypes

(* A request that ends leaves nothing behind.                              *)
LEMMA TabEnds ==
  ASSUME SsoTypes, NEW t \in Tabs, tab' = [tab EXCEPT ![t] = Free]
  PROVE  /\ tab' \in [Tabs -> TabState] /\ tab'[t] = Free
         /\ \A u \in Tabs : u # t => tab'[u] = tab[u]
<1>1. Free \in TabState
  BY Zenon DEF TabState
<1> QED
  BY Zenon, <1>1, TabMoves

OnlyTab(t) == /\ tab' \in [Tabs -> TabState]
              /\ \A u \in Tabs : u # t => tab'[u] = tab[u]

(* Agreeing takes the session's copy along.                                *)
LEMMA RespondEffect ==
  ASSUME SsoTypes, NEW t \in Tabs, NEW b \in Browsers, consent_respond(t, b)
  PROVE  /\ OnlyTab(t) /\ tab[t] = Free
         /\ tab'[t].at = "row" /\ tab'[t].b = b /\ tab'[t].c.active = cookie[b].active
<1> DEFINE c == [cookie[b] EXCEPT !.pending = None]
           new == [Free EXCEPT !.at = "row", !.b = b, !.pend = cookie[b].pending, !.c = c]
<1>1. /\ cookie[b].user \in Users /\ cookie[b].pending \in PendingState
      /\ cookie[b].active \subseteq Apps /\ cookie[b] \in SessionState
  BY Zenon DEF consent_respond, consent_page, SsoTypes, SessionState
<1>2. c \in [user : Users, pending : {None}, active : SUBSET Apps] /\ c.active = cookie[b].active
  BY Zenon, <1>1 DEF SessionState
<1> HIDE DEF c
<1>3. new \in Building({"row"}, {None}, {None}) /\ new.at = "row" /\ new.b = b /\ new.c = c
  BY Zenon, <1>1, <1>2 DEF Building, Free
<1>4. tab' = [tab EXCEPT ![t] = new] /\ Working(t, "idle")
  BY Zenon DEF consent_respond, c
<1> HIDE DEF new
<1>5. new \in TabState
  BY Zenon, <1>3 DEF TabState
<1> QED
  BY Zenon, <1>2, <1>3, <1>4, <1>5, TabMoves, TabHolds DEF OnlyTab, Working

(* An error answers with the copy of the session the request came with.    *)
LEMMA FailedEffect ==
  ASSUME SsoTypes, NEW t \in Tabs, tab[t].at \in {"row", "insert", "read"}, Failed(t)
  PROVE  /\ OnlyTab(t) /\ tab'[t] = Free
         /\ cookie' = [cookie EXCEPT ![tab[t].b] = tab[t].c]
         /\ cookie' \in [Browsers -> SessionState]
<1>1. tab[t].b \in Browsers /\ tab[t].c \in SessionState
  BY Zenon, TabHolds
<1> QED
  BY Zenon, <1>1, TabEnds DEF Failed, OnlyTab, SsoTypes

(* The provider is looked up by the entity id that asked.                  *)
LEMMA BuildEffect ==
  ASSUME SsoTypes, NEW t \in Tabs, build_sso_response(t)
  PROVE  /\ tab[t].at = "row"
         /\ \/ Failed(t)
            \/ /\ OnlyTab(t) /\ cookie' = cookie
               /\ tab'[t].at \in {"insert", "end"}
               /\ tab'[t].b = tab[t].b /\ tab'[t].c = tab[t].c
               /\ tab'[t].name = None
<1>1. tab[t].at = "row"
  BY Zenon DEF build_sso_response, Working
<1>2. CASE ~Failed(t)
  <2>1. PICK s \in Apps :
           /\ tab' = [tab EXCEPT ![t].s = s, ![t].at = IF sp[s].persistent THEN "insert" ELSE "end"]
           /\ cookie' = cookie
    BY Zenon, <1>2 DEF build_sso_response, get_service_provider_by_entity_id
  <2> DEFINE at == IF sp[s].persistent THEN "insert" ELSE "end"
             new == [tab[t] EXCEPT !.s = s, !.at = at]
  <2>2. tab[t] \in Building({"row"}, {None}, {None})
    BY Zenon, <1>1, TabHolds
  <2>3. at \in {"insert", "end"}
    BY Zenon
  <2>4. tab' = [tab EXCEPT ![t] = new]
    BY Zenon, <2>1 DEF SsoTypes
  <2> HIDE DEF at
  <2>5. /\ new \in Building({"insert", "read", "end"}, Apps, Nat \cup {None}) /\ new.at = at /\ new.s = s
        /\ new.b = tab[t].b /\ new.c = tab[t].c /\ new.name = None
    BY Zenon, <2>2, <2>3 DEF Building
  <2> HIDE DEF new
  <2>6. new \in TabState
    BY Zenon, <2>5 DEF TabState
  <2> QED
    BY Zenon, <1>1, <2>1, <2>3, <2>4, <2>5, <2>6, TabMoves DEF OnlyTab
<1> QED
  BY Zenon, <1>1, <1>2

(* The NameID: insert or find the mapping, then read it.                   *)
LEMMA InsertEffect ==
  ASSUME SsoTypes, NEW t \in Tabs, insert_nameid_mapping(t)
  PROVE  /\ tab[t].at = "insert" /\ minted' = minted + 1 /\ minted' \in Nat
         /\ \/ Failed(t) /\ nameid' = nameid
            \/ /\ OnlyTab(t) /\ cookie' = cookie /\ Exists(tab[t].s)
               /\ tab'[t].at = "read" /\ tab'[t].b = tab[t].b /\ tab'[t].c = tab[t].c
               /\ nameid' = IF nameid[Key(t)] = None THEN [nameid EXCEPT ![Key(t)] = minted']
                                                     ELSE nameid
<1>1. tab[t].at = "insert" /\ minted' = minted + 1
  BY Zenon DEF insert_nameid_mapping, Working
<1>2. minted' \in Nat
  BY <1>1 DEF SsoTypes
<1>3. CASE Exists(tab[t].s)
  <2> DEFINE new == [tab[t] EXCEPT !.at = "read", !.name = minted']
  <2>1. tab' = [tab EXCEPT ![t].at = "read", ![t].name = minted']
    BY Zenon, <1>3 DEF insert_nameid_mapping
  <2>2. tab' = [tab EXCEPT ![t] = new]
    BY Zenon, <2>1 DEF SsoTypes
  <2>3. tab[t] \in Building({"insert", "read", "end"}, Apps, Nat \cup {None})
    BY Zenon, <1>1, TabHolds
  <2>4. /\ new \in Building({"insert", "read", "end"}, Apps, Nat \cup {None})
        /\ new.at = "read" /\ new.b = tab[t].b /\ new.c = tab[t].c
    BY Zenon, <1>2, <2>3 DEF Building
  <2> HIDE DEF new
  <2>5. new \in TabState
    BY Zenon, <2>4 DEF TabState
  <2> QED
    BY Zenon, <1>1, <1>2, <1>3, <2>2, <2>4, <2>5, TabMoves DEF OnlyTab, insert_nameid_mapping
<1> QED
  BY Zenon, <1>1, <1>2, <1>3 DEF insert_nameid_mapping

(* Whatever the request has generated, it goes on with the row's value.    *)
LEMMA ReadEffect ==
  ASSUME SsoTypes, NEW t \in Tabs, get_nameid_mapping(t)
  PROVE  /\ tab[t].at = "read"
         /\ \/ Failed(t)
            \/ /\ OnlyTab(t) /\ cookie' = cookie
               /\ tab'[t].at = "end" /\ tab'[t].b = tab[t].b /\ tab'[t].c = tab[t].c
               /\ tab'[t].s = tab[t].s /\ tab'[t].name = nameid[Key(t)]
<1>1. tab[t].at = "read"
  BY Zenon DEF get_nameid_mapping, Working
<1>2. CASE nameid[Key(t)] # None
  <2> DEFINE name == nameid[Key(t)]
             new == [tab[t] EXCEPT !.at = "end", !.name = name]
  <2>1. tab' = [tab EXCEPT ![t].at = "end", ![t].name = name] /\ cookie' = cookie
    BY Zenon, <1>2 DEF get_nameid_mapping
  <2>2. tab' = [tab EXCEPT ![t] = new]
    BY Zenon, <2>1 DEF SsoTypes
  <2>3. tab[t] \in Building({"insert", "read", "end"}, Apps, Nat \cup {None})
    BY Zenon, <1>1, TabHolds
  <2>4. name \in Nat \cup {None}
    <3>1. Key(t) \in Users \X Apps
      BY Zenon, <1>1, TabHolds DEF Key
    <3> QED
      BY Zenon, <3>1 DEF SsoTypes
  <2> HIDE DEF name
  <2>5. /\ new \in Building({"insert", "read", "end"}, Apps, Nat \cup {None})
        /\ new.at = "end" /\ new.b = tab[t].b /\ new.c = tab[t].c /\ new.s = tab[t].s
        /\ new.name = name
    BY Zenon, <2>3, <2>4 DEF Building
  <2> HIDE DEF new
  <2>6. new \in TabState
    BY Zenon, <2>5 DEF TabState
  <2> QED
    BY Zenon, <1>1, <2>1, <2>2, <2>5, <2>6, TabMoves DEF OnlyTab, name
<1> QED
  BY Zenon, <1>1, <1>2 DEF get_nameid_mapping

(* The answer writes the copy of the session, with the provider that asked.*)
LEMMA AnswerEffect ==
  ASSUME SsoTypes, NEW t \in Tabs, consent_answered(t)
  PROVE  /\ tab[t].at = "end" /\ OnlyTab(t) /\ tab'[t] = Free
         /\ tab[t].b \in Browsers
         /\ cookie' \in [Browsers -> SessionState]
         /\ cookie'[tab[t].b].active = tab[t].c.active \cup {tab[t].pend.s}
         /\ accessed' \in [Browsers -> Accesses]
         /\ accessed'[tab[t].b] = accessed[tab[t].b] \cup {[s |-> tab[t].s, asked |-> tab[t].pend.s]}
         /\ \A b \in Browsers : b # tab[t].b => cookie'[b] = cookie[b] /\ accessed'[b] = accessed[b]
<1> DEFINE c == [tab[t].c EXCEPT !.active = @ \cup {tab[t].pend.s}]
           x == [s |-> tab[t].s, asked |-> tab[t].pend.s]
<1>1. /\ tab[t].at = "end" /\ tab' = [tab EXCEPT ![t] = Free]
      /\ cookie' = [cookie EXCEPT ![tab[t].b] = c]
      /\ accessed' = [accessed EXCEPT ![tab[t].b] = @ \cup {x}]
  BY Zenon DEF consent_answered, Answer, Working
<1>2. /\ tab[t].b \in Browsers /\ tab[t].c \in SessionState /\ tab[t].s \in Apps
      /\ tab[t].pend \in PendingState
  BY Zenon, <1>1, TabHolds
<1>3. c \in SessionState /\ c.active = tab[t].c.active \cup {tab[t].pend.s}
  BY Zenon, <1>2 DEF SessionState, PendingState
<1>4. x \in [s : Apps, asked : Apps]
  BY Zenon, <1>2 DEF PendingState
<1> HIDE DEF c
<1>5. accessed[tab[t].b] \cup {x} \in Accesses
  BY Zenon, <1>2, <1>4 DEF SsoTypes, Accesses
<1> QED
  BY Zenon, <1>1, <1>2, <1>3, <1>5, TabEnds DEF OnlyTab, SsoTypes

(* A logout takes the session's providers along, and what it owes.         *)
LEMMA TerminateEffect ==
  ASSUME SsoTypes, NEW t \in Tabs, NEW b \in Browsers, terminate_session(t, b)
  PROVE  /\ OnlyTab(t) /\ tab[t] = Free
         /\ tab'[t].at = "slo" /\ tab'[t].b = b
         /\ tab'[t].out = cookie[b].active /\ tab'[t].owed = accessed[b]
<1> DEFINE new == [Free EXCEPT !.at = "slo", !.b = b, !.out = cookie[b].active, !.owed = accessed[b]]
<1>1. cookie[b].active \subseteq Apps /\ accessed[b] \in Accesses
  BY Zenon DEF SsoTypes, SessionState
<1>2. /\ new \in SigningOut /\ new.at = "slo" /\ new.b = b
      /\ new.out = cookie[b].active /\ new.owed = accessed[b]
  BY Zenon, <1>1 DEF SigningOut, Free
<1>3. tab' = [tab EXCEPT ![t] = new] /\ Working(t, "idle")
  BY Zenon DEF terminate_session
<1> HIDE DEF new
<1>4. new \in TabState
  BY Zenon, <1>2 DEF TabState
<1> QED
  BY Zenon, <1>2, <1>3, <1>4, TabMoves, TabHolds DEF OnlyTab, Working

(* Providers are told one by one.                                          *)
LEMMA PropagateEffect ==
  ASSUME SsoTypes, NEW t \in Tabs, NEW s \in Apps, propagate_logout_to_sps(t, s)
  PROVE  /\ OnlyTab(t) /\ tab[t].at = "slo" /\ tab'[t].at = "slo"
         /\ tab'[t].b = tab[t].b /\ tab'[t].owed = tab[t].owed
         /\ tab'[t].out \cup tab'[t].told = tab[t].out \cup tab[t].told
<1> DEFINE new == [tab[t] EXCEPT !.out = @ \ {s}, !.told = @ \cup {s}]
<1>1. /\ tab' = [tab EXCEPT ![t].out = @ \ {s}, ![t].told = @ \cup {s}]
      /\ tab[t].at = "slo" /\ s \in tab[t].out
  BY Zenon DEF propagate_logout_to_sps, Working
<1>2. tab' = [tab EXCEPT ![t] = new]
  BY Zenon, <1>1 DEF SsoTypes
<1>3. tab[t] \in SigningOut
  BY Zenon, <1>1, TabHolds
<1>4. /\ new \in SigningOut /\ new.at = "slo" /\ new.b = tab[t].b /\ new.owed = tab[t].owed
      /\ new.out = tab[t].out \ {s} /\ new.told = tab[t].told \cup {s}
  BY Zenon, <1>3 DEF SigningOut
<1> HIDE DEF new
<1>5. new \in TabState
  BY Zenon, <1>4 DEF TabState
<1>6. (tab[t].out \ {s}) \cup (tab[t].told \cup {s}) = tab[t].out \cup tab[t].told
  BY Zenon, <1>1
<1>7. OnlyTab(t) /\ tab'[t] = new
  BY Zenon, <1>2, <1>5, TabMoves DEF OnlyTab
<1> QED
  BY Zenon, <1>1, <1>4, <1>6, <1>7

(* The response of the logout empties the session.                         *)
LEMMA LogoutEffect ==
  ASSUME SsoTypes, NEW t \in Tabs, logout(t)
  PROVE  /\ OnlyTab(t) /\ tab'[t] = Free /\ tab[t].b \in Browsers
         /\ cookie' \in [Browsers -> SessionState] /\ accessed' \in [Browsers -> Accesses]
         /\ accessed'[tab[t].b] = {}
         /\ \A b \in Browsers : b # tab[t].b => cookie'[b] = cookie[b] /\ accessed'[b] = accessed[b]
<1>1. /\ tab[t].at = "slo" /\ tab' = [tab EXCEPT ![t] = Free]
      /\ cookie' = [cookie EXCEPT ![tab[t].b] = NoSession]
      /\ accessed' = [accessed EXCEPT ![tab[t].b] = {}]
  BY Zenon DEF logout, Working
<1>2. tab[t].b \in Browsers
  BY Zenon, <1>1, TabHolds DEF SigningOut
<1>3. NoSession \in SessionState /\ {} \in Accesses
  BY Zenon DEF NoSession, SessionState, Accesses
<1> QED
  BY Zenon, <1>1, <1>2, <1>3, TabEnds DEF OnlyTab, SsoTypes

(* The requests that answer at once change one session: either the signed- *)
(* in part of it is kept, or nothing has been accessed since.              *)
SessionStep(b) ==
    \/ \E u \in Users : complete_authenticated_login(b, u)
    \/ \E s \in Apps : \/ handle_sso_request(b, s) \/ idp_initiated_launch(b, s)
                       \/ handle_slo_request(b, s)
    \/ consent_switch_account(b) \/ consent_cancel(b)

(* What such a request does.                                               *)
LEMMA SessionEffect ==
  ASSUME SsoTypes, SpInv, NEW b \in Browsers, SessionStep(b)
  PROVE  /\ Quiet(b) /\ UNCHANGED <<tab, nameid, minted, asserted, spVars>>
         /\ cookie' \in [Browsers -> SessionState] /\ accessed' \in [Browsers -> Accesses]
         /\ \/ accessed'[b] = {}
            \/ accessed'[b] = accessed[b] /\ cookie'[b].active = cookie[b].active
         /\ \A a \in Browsers : a # b => cookie'[a] = cookie[a] /\ accessed'[a] = accessed[a]
<1> DEFINE Goal == /\ Quiet(b) /\ UNCHANGED <<tab, nameid, minted, asserted, spVars>>
                   /\ cookie' \in [Browsers -> SessionState] /\ accessed' \in [Browsers -> Accesses]
                   /\ \/ accessed'[b] = {}
                      \/ accessed'[b] = accessed[b] /\ cookie'[b].active = cookie[b].active
                   /\ \A a \in Browsers : a # b => cookie'[a] = cookie[a] /\ accessed'[a] = accessed[a]
<1>1. ASSUME NEW c \in SessionState, SetCookie(b, c), accessed' = [accessed EXCEPT ![b] = {}]
      PROVE  Goal
  BY Zenon, <1>1 DEF SetCookie, SsoTypes, Accesses
<1>2. ASSUME NEW c \in SessionState, SetCookie(b, c), UNCHANGED accessed,
             c.active = cookie[b].active
      PROVE  Goal
  BY Zenon, <1>2 DEF SetCookie, SsoTypes
<1> HIDE DEF Goal
<1>3. cookie[b] \in SessionState
  BY Zenon DEF SsoTypes
<1>4. NoSession \in SessionState
  BY Zenon DEF NoSession, SessionState
<1>5. ASSUME NEW s \in Apps, Exists(s) PROVE sp[s].entity \in Entities \cup {None}
  BY Zenon, <1>5 DEF SpInv, Exists, Row
<1>6. ASSUME NEW pend \in PendingState \cup {None}
      PROVE  [cookie[b] EXCEPT !.pending = pend] \in SessionState
             /\ [cookie[b] EXCEPT !.pending = pend].active = cookie[b].active
  BY Zenon, <1>3 DEF SessionState
<1>7. ASSUME NEW u \in Users, complete_authenticated_login(b, u)
      PROVE  Goal
  <2> DEFINE pend == cookie[b].pending
             new == IF pend = None THEN None ELSE [pend EXCEPT !.bound = u]
  <2>1. new \in PendingState \cup {None}
    BY Zenon, <1>3 DEF SessionState, PendingState
  <2>2. SetCookie(b, [user |-> u, active |-> {}, pending |-> new])
        /\ accessed' = [accessed EXCEPT ![b] = {}]
    BY Zenon, <1>7 DEF complete_authenticated_login
  <2> HIDE DEF new
  <2>3. [user |-> u, active |-> {}, pending |-> new] \in SessionState
    BY Zenon, <2>1 DEF SessionState
  <2> QED
    BY Zenon, <1>1, <2>2, <2>3
<1>8. ASSUME NEW s \in Apps, handle_sso_request(b, s) \/ idp_initiated_launch(b, s)
      PROVE  Goal
  <2> DEFINE pend == [s |-> s, e |-> sp[s].entity, bound |-> cookie[b].user]
  <2>1. pend \in PendingState
    BY Zenon, <1>3, <1>5, <1>8 DEF handle_sso_request, idp_initiated_launch, Usable, PendingState,
        SessionState
  <2>2. SetCookie(b, [cookie[b] EXCEPT !.pending = pend]) /\ UNCHANGED accessed
    BY Zenon, <1>8 DEF handle_sso_request, idp_initiated_launch
  <2> HIDE DEF pend
  <2> QED
    BY Zenon, <1>2, <1>6, <2>1, <2>2
<1>9. ASSUME NEW s \in Apps, handle_slo_request(b, s)
      PROVE  Goal
  BY Zenon, <1>1, <1>4, <1>9 DEF handle_slo_request
<1>10. ASSUME consent_switch_account(b)
       PROVE  Goal
  <2> DEFINE pend == [cookie[b].pending EXCEPT !.bound = None]
  <2>1. pend \in PendingState
    BY Zenon, <1>3, <1>10 DEF consent_switch_account, consent_page, SessionState, PendingState
  <2>2. SetCookie(b, [NoSession EXCEPT !.pending = pend])
        /\ accessed' = [accessed EXCEPT ![b] = {}]
    BY Zenon, <1>10 DEF consent_switch_account
  <2> HIDE DEF pend
  <2>3. [NoSession EXCEPT !.pending = pend] \in SessionState
    BY Zenon, <2>1 DEF NoSession, SessionState
  <2> QED
    BY Zenon, <1>1, <2>2, <2>3
<1>11. ASSUME consent_cancel(b)
       PROVE  Goal
  BY Zenon, <1>2, <1>6, <1>11 DEF consent_cancel
<1>12. Goal
  BY Zenon, <1>7, <1>8, <1>9, <1>10, <1>11 DEF SessionStep
<1> QED
  BY Zenon, <1>12 DEF Goal

(* The records of sessions and requests keep their shape.                  *)
LEMMA TypesKeep ==
  ASSUME SsoTypes, SpInv, [Next]_vars
  PROVE  SsoTypes'
<1>1. ASSUME SpStep PROVE SsoTypes'
  <2>1. /\ nameid' = [k \in Users \X Apps |-> IF sp'[k[2]] = Gone THEN None ELSE nameid[k]]
        /\ UNCHANGED <<cookie, tab, minted, accessed>>
    BY Zenon, <1>1 DEF SpStep
  <2>2. nameid' \in [Users \X Apps -> Nat \cup {None}]
    BY Zenon, <2>1 DEF SsoTypes
  <2> QED
    BY Zenon, <2>1, <2>2 DEF SsoTypes
<1>2. ASSUME NEW u \in Users, NEW s \in Apps, preview_assertion(u, s) PROVE SsoTypes'
  <2>1. <<u, s>> \in Users \X Apps /\ minted' \in Nat
    BY <1>2 DEF preview_assertion, SsoTypes
  <2> QED
    BY Zenon, <1>2, <2>1 DEF preview_assertion, SsoTypes
<1>3. ASSUME NEW b \in Browsers, SessionStep(b) PROVE SsoTypes'
  BY Zenon, <1>3, SessionEffect DEF SsoTypes
<1>4. ASSUME NEW t \in Tabs, NEW b \in Browsers, consent_respond(t, b) \/ terminate_session(t, b)
      PROVE  SsoTypes'
  <2>1. OnlyTab(t)
    BY Zenon, <1>4, RespondEffect, TerminateEffect
  <2> QED
    BY Zenon, <1>4, <2>1 DEF consent_respond, terminate_session, OnlyTab, SsoTypes
<1>5. ASSUME NEW t \in Tabs, build_sso_response(t) \/ get_nameid_mapping(t)
      PROVE  SsoTypes'
  <2>1. OnlyTab(t) /\ cookie' \in [Browsers -> SessionState]
    BY Zenon, <1>5, BuildEffect, ReadEffect, FailedEffect DEF SsoTypes
  <2> QED
    BY Zenon, <1>5, <2>1 DEF build_sso_response, get_nameid_mapping, OnlyTab, SsoTypes
<1>6. ASSUME NEW t \in Tabs, insert_nameid_mapping(t)
      PROVE  SsoTypes'
  <2>1. OnlyTab(t) /\ cookie' \in [Browsers -> SessionState] /\ minted' \in Nat
    BY Zenon, <1>6, InsertEffect, FailedEffect DEF SsoTypes
  <2>2. Key(t) \in Users \X Apps
    BY Zenon, <1>6, InsertEffect, TabHolds DEF Key
  <2>3. nameid' \in [Users \X Apps -> Nat \cup {None}]
    BY Zenon, <1>6, <2>1, <2>2 DEF insert_nameid_mapping, SsoTypes
  <2> QED
    BY Zenon, <1>6, <2>1, <2>3 DEF insert_nameid_mapping, OnlyTab, SsoTypes
<1>7. ASSUME NEW t \in Tabs, consent_answered(t) PROVE SsoTypes'
  BY Zenon, <1>7, AnswerEffect DEF consent_answered, Answer, OnlyTab, SsoTypes
<1>8. ASSUME NEW t \in Tabs, logout(t) PROVE SsoTypes'
  BY Zenon, <1>8, LogoutEffect DEF logout, OnlyTab, SsoTypes
<1>9. ASSUME NEW t \in Tabs, NEW s \in Apps, propagate_logout_to_sps(t, s) PROVE SsoTypes'
  BY Zenon, <1>9, PropagateEffect DEF propagate_logout_to_sps, OnlyTab, SsoTypes
<1>10. CASE UNCHANGED vars
  BY Zenon, <1>10 DEF vars, ssoVars, SsoTypes
<1> QED
  BY Zenon, <1>1, <1>2, <1>3, <1>4, <1>5, <1>6, <1>7, <1>8, <1>9, <1>10 DEF Next, SessionStep

-----------------------------------------------------------------------------
(* NameIDs.                                                                *)

(* Value n has gone out about user u to provider s, or is about to.        *)
Given(u, s, n) ==
    /\ n # None
    /\ \/ [u |-> u, s |-> s, name |-> n] \in asserted
       \/ \E t \in Tabs : /\ tab[t].at = "end" /\ tab[t].c.user = u
                          /\ tab[t].s = s /\ tab[t].name = n

(* A value given is the one of the mapping as long as the provider exists; *)
(* the mapping goes with the provider, whose id is never used again, so    *)
(* that a value read before cannot meet another one afterwards.            *)
NameInv ==
    /\ asserted \subseteq [u : Users, s : Apps, name : Nat \cup {None}]
    /\ \A x \in asserted : x.name # None
    /\ \A u \in Users, s \in Apps : nameid[<<u, s>>] # None => sp[s] # Gone
    /\ \A u \in Users, s \in Apps, n \in Nat \cup {None} :
         Given(u, s, n) => nameid[<<u, s>>] = n \/ sp[s] = Gone
    /\ \A u \in Users, s \in Apps, n, m \in Nat \cup {None} :
         Given(u, s, n) /\ Given(u, s, m) => n = m

(* A step keeps it when it gives nothing but the mapping's value, and when *)
(* mappings change only from none, or to none with the provider.           *)
LEMMA NameKeeps ==
  ASSUME NameInv,
         asserted' \subseteq [u : Users, s : Apps, name : Nat \cup {None}],
         \A x \in asserted' : x.name # None,
         \A s \in Apps : sp[s] = Gone => sp'[s] = Gone,
         \A u \in Users, s \in Apps : nameid'[<<u, s>>] # None => sp'[s] # Gone,
         \A u \in Users, s \in Apps :
            nameid[<<u, s>>] # None => nameid'[<<u, s>>] = nameid[<<u, s>>] \/ sp'[s] = Gone,
         \A u \in Users, s \in Apps, n \in Nat \cup {None} :
            Given(u, s, n)' => n # None /\ (Given(u, s, n) \/ nameid[<<u, s>>] = n)
  PROVE  NameInv'
<1>1. ASSUME NEW u \in Users, NEW s \in Apps, NEW n \in Nat \cup {None}, Given(u, s, n)'
      PROVE  nameid'[<<u, s>>] = n \/ sp'[s] = Gone
  <2>1. n # None /\ (nameid[<<u, s>>] = n \/ sp[s] = Gone)
    BY ZenonT(60), <1>1 DEF NameInv
  <2> QED
    BY Zenon, <2>1
<1>2. ASSUME NEW u \in Users, NEW s \in Apps, NEW n \in Nat \cup {None}, NEW m \in Nat \cup {None},
             Given(u, s, n)', Given(u, s, m)'
      PROVE  n = m
  <2>1. /\ n # None /\ (Given(u, s, n) \/ nameid[<<u, s>>] = n)
        /\ m # None /\ (Given(u, s, m) \/ nameid[<<u, s>>] = m)
    BY Zenon, <1>2
  <2> QED
    BY <2>1 DEF NameInv
<1> QED
  BY Zenon, <1>1, <1>2 DEF NameInv

(* Requests that do not answer and do not come to the answer give nothing. *)
LEMMA NothingGiven ==
  ASSUME NEW t \in Tabs, OnlyTab(t), asserted' = asserted,
         tab'[t].at # "end" \/ tab'[t].name = None,
         NEW u, NEW s, NEW n, Given(u, s, n)'
  PROVE  n # None /\ Given(u, s, n)
  BY Zenon DEF Given, OnlyTab

(* Steps that leave providers and mappings alone and give nothing.         *)
LEMMA NameKeepsQuiet ==
  ASSUME NameInv, NEW t \in Tabs, OnlyTab(t), UNCHANGED <<asserted, nameid, spVars>>,
         tab'[t].at # "end" \/ tab'[t].name = None
  PROVE  NameInv'
<1>1. sp' = sp /\ nameid' = nameid /\ asserted' = asserted
  BY Zenon DEF spVars
<1>2. \A u \in Users, s \in Apps, n \in Nat \cup {None} :
         Given(u, s, n)' => n # None /\ Given(u, s, n)
  BY Zenon, <1>1, NothingGiven
<1>3. \A u \in Users, s \in Apps : nameid[<<u, s>>] # None => sp[s] # Gone
  BY Zenon DEF NameInv
<1>4. /\ asserted \subseteq [u : Users, s : Apps, name : Nat \cup {None}]
      /\ \A x \in asserted : x.name # None
  BY Zenon DEF NameInv
<1> QED
  BY Zenon, <1>1, <1>2, <1>3, <1>4, NameKeeps

(* Every step keeps the invariant of the NameIDs.                          *)
LEMMA NameStep ==
  ASSUME SsoTypes, SpInv, NameInv, [Next]_vars
  PROVE  NameInv'
<1>f. Free.at = "idle"
  BY Zenon DEF Free
<1>a. /\ asserted \subseteq [u : Users, s : Apps, name : Nat \cup {None}]
      /\ \A x \in asserted : x.name # None
      /\ \A u \in Users, s \in Apps : nameid[<<u, s>>] # None => sp[s] # Gone
  BY Zenon DEF NameInv
<1>s. ASSUME UNCHANGED <<tab, asserted>>, NEW u, NEW s, NEW n, Given(u, s, n)'
      PROVE  n # None /\ Given(u, s, n)
  BY Zenon, <1>s DEF Given
<1>1. ASSUME SpStep PROVE NameInv'
  <2>1. /\ nameid' = [k \in Users \X Apps |-> IF sp'[k[2]] = Gone THEN None ELSE nameid[k]]
        /\ UNCHANGED <<tab, asserted>>
    BY Zenon, <1>1 DEF SpStep
  <2>2. \A u \in Users, s \in Apps :
          nameid'[<<u, s>>] = IF sp'[s] = Gone THEN None ELSE nameid[<<u, s>>]
    BY Zenon, <2>1
  <2>3. \A s \in Apps : sp[s] = Gone => sp'[s] = Gone
    BY Zenon, SpInductive DEF SpFacts
  <2>4. \A u \in Users, s \in Apps, n \in Nat \cup {None} :
          Given(u, s, n)' => n # None /\ Given(u, s, n)
    BY Zenon, <1>s, <2>1
  <2> QED
    BY Zenon, <1>a, <2>1, <2>2, <2>3, <2>4, NameKeeps
<1>2. ASSUME NEW u \in Users, NEW s \in Apps, preview_assertion(u, s) PROVE NameInv'
  <2>1. /\ Exists(s) /\ nameid[<<u, s>>] = None /\ nameid' = [nameid EXCEPT ![<<u, s>>] = minted']
        /\ sp' = sp /\ UNCHANGED <<tab, asserted>>
    BY Zenon, <1>2 DEF preview_assertion, spVars
  <2>2. \A v \in Users, r \in Apps :
          IF v = u /\ r = s THEN nameid'[<<v, r>>] = minted' ELSE nameid'[<<v, r>>] = nameid[<<v, r>>]
    BY Zenon, <2>1 DEF SsoTypes
  <2>3. \A v \in Users, r \in Apps, n \in Nat \cup {None} :
          Given(v, r, n)' => n # None /\ Given(v, r, n)
    BY Zenon, <1>s, <2>1
  <2> QED
    BY <1>a, <2>1, <2>2, <2>3, NameKeeps DEF Exists
<1>3. ASSUME UNCHANGED <<tab, nameid, asserted, spVars>> PROVE NameInv'
  <2>1. \A v \in Users, r \in Apps, n \in Nat \cup {None} :
          Given(v, r, n)' => n # None /\ Given(v, r, n)
    BY Zenon, <1>s, <1>3
  <2> QED
    BY Zenon, <1>a, <1>3, <2>1, NameKeeps DEF spVars
<1>4. ASSUME NEW b \in Browsers, SessionStep(b) PROVE NameInv'
  BY Zenon, <1>3, <1>4, SessionEffect
<1>5. ASSUME NEW t \in Tabs, NEW b \in Browsers, consent_respond(t, b) \/ terminate_session(t, b)
      PROVE  NameInv'
  <2>1. OnlyTab(t) /\ tab'[t].at # "end"
    BY Zenon, <1>5, RespondEffect, TerminateEffect
  <2> QED
    BY Zenon, <1>5, <2>1, NameKeepsQuiet DEF consent_respond, terminate_session
<1>6. ASSUME NEW t \in Tabs, NEW s \in Apps, propagate_logout_to_sps(t, s) PROVE NameInv'
  <2>1. OnlyTab(t) /\ tab'[t].at # "end"
    BY Zenon, <1>6, PropagateEffect
  <2> QED
    BY Zenon, <1>6, <2>1, NameKeepsQuiet DEF propagate_logout_to_sps
<1>7. ASSUME NEW t \in Tabs, logout(t) PROVE NameInv'
  <2>1. OnlyTab(t) /\ tab'[t].at # "end"
    BY Zenon, <1>7, <1>f, LogoutEffect
  <2> QED
    BY Zenon, <1>7, <2>1, NameKeepsQuiet DEF logout
<1>8. ASSUME NEW t \in Tabs, build_sso_response(t) PROVE NameInv'
  <2>1. OnlyTab(t) /\ (tab'[t].at # "end" \/ tab'[t].name = None)
    BY Zenon, <1>8, <1>f, BuildEffect, FailedEffect
  <2> QED
    BY Zenon, <1>8, <2>1, NameKeepsQuiet DEF build_sso_response
<1>9. ASSUME NEW t \in Tabs, insert_nameid_mapping(t) PROVE NameInv'
  <2>1. OnlyTab(t) /\ tab'[t].at # "end" /\ asserted' = asserted /\ sp' = sp
    BY Zenon, <1>9, <1>f, InsertEffect, FailedEffect DEF insert_nameid_mapping, spVars
  <2>2. Key(t) \in Users \X Apps /\ Key(t)[2] = tab[t].s
    BY Zenon, <1>9, InsertEffect, TabHolds DEF Key
  <2>3. CASE nameid' = nameid
    BY Zenon, <1>9, <2>1, <2>3, NameKeepsQuiet DEF insert_nameid_mapping
  <2>4. CASE nameid' # nameid
    <3>1. /\ Exists(tab[t].s) /\ nameid[Key(t)] = None
          /\ nameid' = [nameid EXCEPT ![Key(t)] = minted']
      BY Zenon, <1>9, <2>4 DEF insert_nameid_mapping
    <3>2. \A u \in Users, s \in Apps :
            /\ nameid'[<<u, s>>] # nameid[<<u, s>>] => <<u, s>> = Key(t) /\ s = tab[t].s
            /\ nameid[<<u, s>>] # None => nameid'[<<u, s>>] = nameid[<<u, s>>]
      BY Zenon, <2>2, <3>1 DEF SsoTypes, Key
    <3>3. \A u \in Users, s \in Apps, n \in Nat \cup {None} :
            Given(u, s, n)' => n # None /\ Given(u, s, n)
      BY Zenon, <2>1, NothingGiven
    <3>4. \A u \in Users, s \in Apps : nameid'[<<u, s>>] # None => sp'[s] # Gone
      <4> SUFFICES ASSUME NEW u \in Users, NEW s \in Apps, nameid'[<<u, s>>] # None
                   PROVE  sp[s] # Gone
        BY Zenon, <2>1
      <4>1. CASE nameid'[<<u, s>>] # nameid[<<u, s>>]
        BY Zenon, <3>1, <3>2, <4>1 DEF Exists
      <4>2. CASE nameid'[<<u, s>>] = nameid[<<u, s>>]
        BY Zenon, <1>a, <4>2 DEF NameInv
      <4> QED
        BY Zenon, <4>1, <4>2
    <3>5. /\ asserted' = asserted /\ sp' = sp
          /\ asserted \subseteq [u : Users, s : Apps, name : Nat \cup {None}]
          /\ \A x \in asserted : x.name # None
      BY Zenon, <1>a, <2>1
    <3> QED
      BY Zenon, <3>2, <3>3, <3>4, <3>5, NameKeeps
  <2> QED
    BY Zenon, <2>3, <2>4
<1>10. ASSUME NEW t \in Tabs, get_nameid_mapping(t) PROVE NameInv'
  <2>1. OnlyTab(t) /\ UNCHANGED <<asserted, nameid, spVars>>
    BY Zenon, <1>10, ReadEffect, FailedEffect DEF get_nameid_mapping
  <2>2. CASE Failed(t)
    BY Zenon, <1>10, <1>f, <2>1, <2>2, ReadEffect, FailedEffect, NameKeepsQuiet
  <2>3. CASE ~Failed(t)
    <3>1. /\ tab'[t].at = "end" /\ tab'[t].c.user = tab[t].c.user
          /\ tab'[t].s = tab[t].s /\ tab'[t].name = nameid[<<tab[t].c.user, tab[t].s>>]
      BY Zenon, <1>10, <2>3, ReadEffect DEF Key
    <3>2. \A u \in Users, s \in Apps, n \in Nat \cup {None} :
            Given(u, s, n)' => n # None /\ (Given(u, s, n) \/ nameid[<<u, s>>] = n)
      BY <2>1, <3>1 DEF Given, OnlyTab
    <3> QED
      BY Zenon, <1>a, <2>1, <3>2, NameKeeps DEF spVars
  <2> QED
    BY Zenon, <2>2, <2>3
<1>11. ASSUME NEW t \in Tabs, consent_answered(t) PROVE NameInv'
  <2> DEFINE x == [u |-> tab[t].c.user, s |-> tab[t].s, name |-> tab[t].name]
  <2>1. /\ OnlyTab(t) /\ tab[t].at = "end" /\ tab'[t].at # "end"
        /\ tab[t].c.user \in Users /\ tab[t].s \in Apps /\ tab[t].name \in Nat \cup {None}
    BY Zenon, <1>11, <1>f, AnswerEffect, TabHolds
  <2>2. /\ asserted' = IF tab[t].name = None THEN asserted ELSE asserted \cup {x}
        /\ nameid' = nameid /\ sp' = sp
    BY Zenon, <1>11 DEF consent_answered, Answer, spVars
  <2>3. /\ asserted' \subseteq [u : Users, s : Apps, name : Nat \cup {None}]
        /\ \A y \in asserted' : y.name # None
    <3>1. /\ asserted \subseteq [u : Users, s : Apps, name : Nat \cup {None}]
          /\ \A y \in asserted : y.name # None
      BY Zenon, <1>a
    <3>2. x \in [u : Users, s : Apps, name : Nat \cup {None}] /\ x.name = tab[t].name
      BY Zenon, <2>1
    <3> HIDE DEF x
    <3>3. CASE tab[t].name = None
      BY Zenon, <2>2, <3>1, <3>3
    <3>4. CASE tab[t].name # None
      BY Zenon, <2>2, <3>1, <3>2, <3>4
    <3> QED
      BY Zenon, <3>3, <3>4
  <2>4. \A u \in Users, s \in Apps, n \in Nat \cup {None} :
          Given(u, s, n)' => n # None /\ Given(u, s, n)
    BY <2>1, <2>2 DEF Given, OnlyTab
  <2> QED
    BY Zenon, <1>a, <2>2, <2>3, <2>4, NameKeeps
<1>12. CASE UNCHANGED vars
  BY Zenon, <1>3, <1>12 DEF vars, ssoVars
<1> QED
  BY Zenon, <1>1, <1>2, <1>4, <1>5, <1>6, <1>7, <1>8, <1>9, <1>10, <1>11, <1>12 DEF Next, SessionStep

-----------------------------------------------------------------------------
(* Signing out, when a browser waits for an answer before it asks again.   *)

(* While a request is on its way the browser's cookie names the providers  *)
(* its copy names, and a cookie names all that were asked for since.       *)
LogoutInv ==
    /\ \A t, u \in Tabs : tab[t].b = tab[u].b /\ tab[t].b # None => t = u
    /\ \A t \in Tabs : tab[t].at \in {"row", "insert", "read", "end"} =>
         tab[t].c.active = cookie[tab[t].b].active
    /\ \A b \in Browsers : \A x \in accessed[b] : x.asked \in cookie[b].active
    /\ \A t \in Tabs : tab[t].at = "slo" => \A x \in tab[t].owed : x.asked \in tab[t].out \cup tab[t].told

(* A request of browser b: others are of other browsers, so that their     *)
(* copies are not touched.                                                 *)
LEMMA LogoutKeeps ==
  ASSUME LogoutInv, SsoTypes, NEW t \in Tabs, OnlyTab(t), NEW b \in Browsers,
         \A u \in Tabs : u # t => tab[u].b # b,
         tab'[t].b \in {b, None},
         tab'[t].at \in {"row", "insert", "read", "end"} => tab'[t].c.active = cookie'[tab'[t].b].active,
         tab'[t].at = "slo" => \A x \in tab'[t].owed : x.asked \in tab'[t].out \cup tab'[t].told,
         \A a \in Browsers : a # b => cookie'[a] = cookie[a] /\ accessed'[a] = accessed[a],
         \A x \in accessed'[b] : x.asked \in cookie'[b].active
  PROVE  LogoutInv'
<1>1. \A u, v \in Tabs : tab'[u].b = tab'[v].b /\ tab'[u].b # None => u = v
  <2> SUFFICES ASSUME NEW u \in Tabs, NEW v \in Tabs, tab'[u].b = tab'[v].b, tab'[u].b # None, u # v
               PROVE  FALSE
    BY Zenon
  <2>1. CASE u = t
    <3>1. tab'[v] = tab[v] /\ tab[v].b # b
      BY Zenon, <2>1 DEF OnlyTab
    <3> QED
      BY Zenon, <2>1, <3>1
  <2>2. CASE v = t
    <3>1. tab'[u] = tab[u] /\ tab[u].b # b
      BY Zenon, <2>2 DEF OnlyTab
    <3> QED
      BY Zenon, <2>2, <3>1
  <2>3. CASE u # t /\ v # t
    <3>1. tab'[v] = tab[v] /\ tab'[u] = tab[u]
      BY Zenon, <2>3 DEF OnlyTab
    <3> QED
      BY <3>1 DEF LogoutInv
  <2> QED
    BY Zenon, <2>1, <2>2, <2>3
<1>2. ASSUME NEW u \in Tabs, tab'[u].at \in {"row", "insert", "read", "end"}
      PROVE  tab'[u].c.active = cookie'[tab'[u].b].active
  <2>1. CASE u = t
    BY Zenon, <1>2, <2>1
  <2>2. CASE u # t
    <3>1. tab'[u] = tab[u] /\ tab[u].b # b
      BY Zenon, <2>2 DEF OnlyTab
    <3>2. tab[u].b \in Browsers
      BY Zenon, <1>2, <3>1, TabHolds
    <3> QED
      BY <1>2, <3>1, <3>2 DEF LogoutInv
  <2> QED
    BY Zenon, <2>1, <2>2
<1>3. \A a \in Browsers : \A x \in accessed'[a] : x.asked \in cookie'[a].active
  BY Zenon DEF LogoutInv
<1>4. \A u \in Tabs : tab'[u].at = "slo" =>
        \A x \in tab'[u].owed : x.asked \in tab'[u].out \cup tab'[u].told
  BY Zenon DEF LogoutInv, OnlyTab
<1> QED
  BY Zenon, <1>1, <1>2, <1>3, <1>4 DEF LogoutInv

(* Every step keeps the invariant of the logouts.                          *)
LEMMA LogoutStep ==
  ASSUME OneAtATime = TRUE, SsoTypes, SpInv, LogoutInv, [Next]_vars
  PROVE  LogoutInv'
<1>f. Free.at = "idle" /\ Free.b = None
  BY Zenon DEF Free
<1>o. ASSUME NEW t \in Tabs, tab[t].b # None
      PROVE  \A u \in Tabs : u # t => tab[u].b # tab[t].b
  BY Zenon, <1>o DEF LogoutInv
<1>1. ASSUME UNCHANGED <<cookie, tab, accessed>> PROVE LogoutInv'
  BY Zenon, <1>1 DEF LogoutInv
<1>2. ASSUME NEW b \in Browsers, SessionStep(b) PROVE LogoutInv'
  <2>1. /\ tab' = tab /\ \A t \in Tabs : tab[t].b # b
        /\ accessed'[b] = {} \/ (accessed'[b] = accessed[b] /\ cookie'[b].active = cookie[b].active)
        /\ \A a \in Browsers : a # b => cookie'[a] = cookie[a] /\ accessed'[a] = accessed[a]
    BY Zenon, <1>2, SessionEffect DEF Quiet
  <2>2. \A t \in Tabs : tab[t].at \in {"row", "insert", "read", "end"} => tab[t].b \in Browsers
    BY Zenon, TabHolds
  <2>3. \A a \in Browsers : \A x \in accessed'[a] : x.asked \in cookie'[a].active
    BY Zenon, <2>1 DEF LogoutInv
  <2>4. \A t \in Tabs : tab[t].at \in {"row", "insert", "read", "end"} =>
          tab[t].c.active = cookie'[tab[t].b].active
    BY Zenon, <2>1, <2>2 DEF LogoutInv
  <2> QED
    BY Zenon, <2>1, <2>3, <2>4 DEF LogoutInv
<1>3. ASSUME NEW t \in Tabs, NEW b \in Browsers, consent_respond(t, b) PROVE LogoutInv'
  <2>1. UNCHANGED <<cookie, accessed>> /\ \A u \in Tabs : tab[u].b # b
    BY Zenon, <1>3 DEF consent_respond, Quiet
  <2>2. \A x \in accessed[b] : x.asked \in cookie[b].active
    BY Zenon DEF LogoutInv
  <2>3. /\ OnlyTab(t) /\ tab'[t].b = b
        /\ tab'[t].at \in {"row", "insert", "read", "end"} => tab'[t].c.active = cookie[b].active
        /\ tab'[t].at # "slo"
    BY Zenon, <1>3, RespondEffect
  <2> QED
    BY <1>3, <2>1, <2>2, <2>3, LogoutKeeps
<1>4. ASSUME NEW t \in Tabs, NEW b \in Browsers, terminate_session(t, b) PROVE LogoutInv'
  <2>1. UNCHANGED <<cookie, accessed>> /\ \A u \in Tabs : tab[u].b # b
    BY Zenon, <1>4 DEF terminate_session, Quiet
  <2>2. \A x \in accessed[b] : x.asked \in cookie[b].active
    BY Zenon DEF LogoutInv
  <2>3. /\ OnlyTab(t) /\ tab'[t].at = "slo" /\ tab'[t].b = b
        /\ tab'[t].out = cookie[b].active /\ tab'[t].owed = accessed[b]
    BY Zenon, <1>4, TerminateEffect
  <2> QED
    BY <2>1, <2>2, <2>3, LogoutKeeps
<1>5. ASSUME NEW t \in Tabs, tab[t].at \in {"row", "insert", "read"}, OnlyTab(t), cookie' = cookie,
             tab'[t].at \in {"insert", "read", "end"}, tab'[t].b = tab[t].b, tab'[t].c = tab[t].c,
             accessed' = accessed
      PROVE  LogoutInv'
  <2>1. /\ tab[t].b \in Browsers /\ tab[t].c.active = cookie[tab[t].b].active
        /\ \A u \in Tabs : u # t => tab[u].b # tab[t].b
    BY Zenon, <1>5, <1>o, TabHolds, SsoConstants DEF LogoutInv
  <2>2. \A x \in accessed[tab[t].b] : x.asked \in cookie[tab[t].b].active
    BY Zenon, <2>1 DEF LogoutInv
  <2> QED
    BY <1>5, <2>1, <2>2, LogoutKeeps
<1>6. ASSUME NEW t \in Tabs, tab[t].at \in {"row", "insert", "read"}, Failed(t), accessed' = accessed
      PROVE  LogoutInv'
  <2>1. /\ tab[t].b \in Browsers /\ tab[t].c.active = cookie[tab[t].b].active
        /\ \A u \in Tabs : u # t => tab[u].b # tab[t].b
    BY Zenon, <1>6, <1>o, TabHolds, SsoConstants DEF LogoutInv
  <2>2. OnlyTab(t) /\ tab'[t] = Free /\ cookie' = [cookie EXCEPT ![tab[t].b] = tab[t].c]
    BY Zenon, <1>6, FailedEffect
  <2>3. /\ cookie'[tab[t].b].active = cookie[tab[t].b].active
        /\ \A a \in Browsers : a # tab[t].b => cookie'[a] = cookie[a]
    BY Zenon, <2>1, <2>2 DEF SsoTypes
  <2>4. \A x \in accessed[tab[t].b] : x.asked \in cookie'[tab[t].b].active
    BY Zenon, <2>1, <2>3 DEF LogoutInv
  <2> QED
    BY <1>6, <1>f, <2>1, <2>2, <2>3, <2>4, LogoutKeeps
<1>7. ASSUME NEW t \in Tabs, build_sso_response(t) PROVE LogoutInv'
  BY Zenon, <1>5, <1>6, <1>7, BuildEffect DEF build_sso_response
<1>8. ASSUME NEW t \in Tabs, insert_nameid_mapping(t) PROVE LogoutInv'
  BY Zenon, <1>5, <1>6, <1>8, InsertEffect DEF insert_nameid_mapping
<1>9. ASSUME NEW t \in Tabs, get_nameid_mapping(t) PROVE LogoutInv'
  BY Zenon, <1>5, <1>6, <1>9, ReadEffect DEF get_nameid_mapping
<1>10. ASSUME NEW t \in Tabs, consent_answered(t) PROVE LogoutInv'
  <2>1. /\ tab[t].at = "end" /\ OnlyTab(t) /\ tab'[t] = Free /\ tab[t].b \in Browsers
        /\ cookie'[tab[t].b].active = tab[t].c.active \cup {tab[t].pend.s}
        /\ accessed'[tab[t].b] = accessed[tab[t].b] \cup {[s |-> tab[t].s, asked |-> tab[t].pend.s]}
        /\ \A b \in Browsers : b # tab[t].b => cookie'[b] = cookie[b] /\ accessed'[b] = accessed[b]
    BY Zenon, <1>10, AnswerEffect
  <2>2. /\ tab[t].c.active = cookie[tab[t].b].active
        /\ \A u \in Tabs : u # t => tab[u].b # tab[t].b
    BY Zenon, <1>o, <2>1, SsoConstants DEF LogoutInv
  <2>3. \A x \in accessed'[tab[t].b] : x.asked \in cookie'[tab[t].b].active
    BY <2>1, <2>2 DEF LogoutInv
  <2> QED
    BY <1>f, <2>1, <2>2, <2>3, LogoutKeeps
<1>11. ASSUME NEW t \in Tabs, logout(t) PROVE LogoutInv'
  <2>1. /\ OnlyTab(t) /\ tab'[t] = Free /\ tab[t].b \in Browsers /\ accessed'[tab[t].b] = {}
        /\ \A b \in Browsers : b # tab[t].b => cookie'[b] = cookie[b] /\ accessed'[b] = accessed[b]
        /\ \A u \in Tabs : u # t => tab[u].b # tab[t].b
    BY <1>11, <1>o, LogoutEffect, SsoConstants
  <2> QED
    BY Zenon, <1>f, <2>1, LogoutKeeps
<1>12. ASSUME NEW t \in Tabs, NEW s \in Apps, propagate_logout_to_sps(t, s) PROVE LogoutInv'
  <2>1. /\ OnlyTab(t) /\ tab[t].at = "slo" /\ tab'[t].at = "slo"
        /\ tab'[t].b = tab[t].b /\ tab'[t].owed = tab[t].owed
        /\ tab'[t].out \cup tab'[t].told = tab[t].out \cup tab[t].told
        /\ UNCHANGED <<cookie, accessed>>
    BY Zenon, <1>12, PropagateEffect DEF propagate_logout_to_sps
  <2>2. tab[t].b \in Browsers
    BY Zenon, <2>1, TabHolds DEF SigningOut
  <2>3. \A u \in Tabs : u # t => tab[u].b # tab[t].b
    BY Zenon, <1>o, <2>2, SsoConstants
  <2>4. /\ \A x \in tab'[t].owed : x.asked \in tab'[t].out \cup tab'[t].told
        /\ \A x \in accessed[tab[t].b] : x.asked \in cookie[tab[t].b].active
    BY Zenon, <2>1, <2>2 DEF LogoutInv
  <2> QED
    BY Zenon, <2>1, <2>2, <2>3, <2>4, LogoutKeeps
<1>13. ASSUME SpStep \/ \E u \in Users, s \in Apps : preview_assertion(u, s) PROVE LogoutInv'
  BY Zenon, <1>1, <1>13 DEF SpStep, preview_assertion
<1>14. CASE UNCHANGED vars
  BY Zenon, <1>1, <1>14 DEF vars, ssoVars
<1> QED
  BY Zenon, <1>2, <1>3, <1>4, <1>7, <1>8, <1>9, <1>10, <1>11, <1>12, <1>13, <1>14 DEF Next, SessionStep

-----------------------------------------------------------------------------
(* All of it holds initially.                                              *)
LEMMA Initially ==
  ASSUME Init
  PROVE  SpInv /\ SsoTypes /\ NameInv /\ LogoutInv
<1>1. /\ cookie = [b \in Browsers |-> NoSession] /\ tab = [t \in Tabs |-> Free]
      /\ nameid = [k \in Users \X Apps |-> None] /\ minted = 0 /\ asserted = {}
      /\ accessed = [b \in Browsers |-> {}]
  BY Zenon DEF Init
<1>2. NoSession \in SessionState /\ Free \in TabState /\ {} \in Accesses
  BY Zenon DEF NoSession, SessionState, TabState, Accesses
<1>3. Free.at = "idle" /\ Free.b = None
  BY Zenon DEF Free
<1>4. SsoTypes
  BY Zenon, <1>1, <1>2 DEF SsoTypes
<1>5. NameInv
  BY <1>1, <1>3 DEF NameInv, Given
<1>6. LogoutInv
  BY Zenon, <1>1, <1>3 DEF LogoutInv
<1> QED
  BY Zenon, <1>4, <1>5, <1>6, SpInitial

(* A persistent NameID never changes: all persistent assertions about a    *)
(* user to one provider carry the same value, for any number of tabs that  *)
(* build the first ones at the same time, previews between them and        *)
(* administrators that delete the provider meanwhile.                      *)
THEOREM NameIdNeverChanges == Spec => []NameIdStable
<1> DEFINE Inv == SpInv /\ SsoTypes /\ NameInv
<1>1. Init => Inv
  BY Zenon, Initially
<1>2. Inv /\ [Next]_vars => Inv'
  BY Zenon, SpInductive, TypesKeep, NameStep DEF SpFacts
<1>3. Inv => NameIdStable
  <2> SUFFICES ASSUME NameInv, NEW x \in asserted, NEW y \in asserted, x.u = y.u, x.s = y.s
               PROVE  x.name = y.name
    BY Zenon DEF NameIdStable
  <2>1. /\ x.u \in Users /\ x.s \in Apps
        /\ x.name \in Nat \cup {None} /\ y.name \in Nat \cup {None}
        /\ x.name # None /\ y.name # None
        /\ x = [u |-> x.u, s |-> x.s, name |-> x.name]
        /\ y = [u |-> y.u, s |-> y.s, name |-> y.name]
    BY Zenon DEF NameInv
  <2>2. Given(x.u, x.s, x.name) /\ Given(x.u, x.s, y.name)
    BY Zenon, <2>1 DEF Given
  <2> QED
    BY Zenon, <2>1, <2>2 DEF NameInv
<1> QED
  BY <1>1, <1>2, <1>3, PTL DEF Spec

(* When a browser waits for an answer before it asks again, signing out    *)
(* reaches every provider that got an assertion since the sign-in, unless  *)
(* it was deleted and registered anew while the user was deciding.         *)
THEOREM LogoutIsComplete ==
  ASSUME OneAtATime = TRUE
  PROVE  Spec => []LogoutTellsEveryApp
<1> DEFINE Inv == SpInv /\ SsoTypes /\ LogoutInv
<1>1. Init => Inv
  BY Zenon, Initially
<1>2. Inv /\ [Next]_vars => Inv'
  BY Zenon, SpInductive, TypesKeep, LogoutStep DEF SpFacts
<1>3. Inv => LogoutTellsEveryApp
  BY Zenon DEF LogoutInv, LogoutTellsEveryApp, Working
<1> QED
  BY <1>1, <1>2, <1>3, PTL DEF Spec

=============================================================================
