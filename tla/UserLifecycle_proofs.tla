----------------------- MODULE UserLifecycle_proofs -----------------------
(***************************************************************************)
(* What the checks and the WHERE clauses of the user lifecycle guarantee   *)
(* for any number of users: some things under any interleaving, others     *)
(* only when requests follow one another.                                  *)
(***************************************************************************)
EXTENDS UserLifecycle, FiniteSetTheorems, TLAPS

OneRequest == \A p, q \in Requests : p = q

(* How a request's record changes: a service begins, moves on, or ends.    *)
LEMMA ReqStep ==
  ASSUME TypeOK, NEW p \in Requests
  PROVE  /\ \A s \in Statements, u \in Users : Begin(p, s, u) =>
              /\ req' \in [Requests -> Request]
              /\ req'[p].pc = s /\ req'[p].u = u
              /\ \A q \in Requests : q # p => req'[q] = req[q]
         /\ \A s \in Statements : Goto(p, s) =>
              /\ req' \in [Requests -> Request]
              /\ req'[p].pc = s /\ req'[p].u = req[p].u
              /\ \A q \in Requests : q # p => req'[q] = req[q]
         /\ Done(p) =>
              /\ req' \in [Requests -> Request]
              /\ req'[p] = Idle /\ req'[p].pc = "idle" /\ req'[p].u = None
              /\ \A q \in Requests : q # p => req'[q] = req[q]
<1>1. Idle \in Request
  BY Zenon DEF Idle, Request, Statements, Counted, Uncounted, Roles
<1>2. \A s \in Statements, u \in Users :
        LET r == Started(s, u) IN r \in Request /\ r.pc = s /\ r.u = u
  BY ZenonT(60) DEF Started, Idle, Request, Statements, Counted, Uncounted, Roles
<1>3. \A s \in Statements, x \in Request :
        LET r == [x EXCEPT !.pc = s] IN r \in Request /\ r.pc = s /\ r.u = x.u
  BY Zenon DEF Request
<1>4. req \in [Requests -> Request]
  BY Zenon DEF TypeOK
<1>5. Idle.pc = "idle" /\ Idle.u = None
  BY Zenon DEF Idle
<1> HIDE DEF Idle, Request, Statements, Started
<1>6. \A s \in Statements, u \in Users : Begin(p, s, u) =>
              /\ req' \in [Requests -> Request]
              /\ req'[p].pc = s /\ req'[p].u = u
              /\ \A q \in Requests : q # p => req'[q] = req[q]
  BY <1>2, <1>4 DEF Begin
<1>7. \A s \in Statements : Goto(p, s) =>
              /\ req' \in [Requests -> Request]
              /\ req'[p].pc = s /\ req'[p].u = req[p].u
              /\ \A q \in Requests : q # p => req'[q] = req[q]
  BY <1>3, <1>4 DEF Goto
<1>8. Done(p) => /\ req' \in [Requests -> Request]
                 /\ req'[p] = Idle /\ req'[p].pc = "idle" /\ req'[p].u = None
                 /\ \A q \in Requests : q # p => req'[q] = req[q]
  BY Zenon, <1>1, <1>4, <1>5 DEF Done
<1> QED
  BY Zenon, <1>6, <1>7, <1>8

(* A request or job that starts writes nothing yet; what its first         *)
(* statement may rely on is what the service has checked.                  *)
StartFacts(p) ==
    /\ UNCHANGED rowVars
    /\ req[p] = Idle
    /\ req' \in [Requests -> Request]
    /\ \A q \in Requests : q # p => req'[q] = req[q]
    /\ req'[p].pc \in {"inactivate", "set_role", "emails", "delete", "reactivate",
                        "insert_request", "approve", "deny", "mirror", "sweep", "deprovision"}
    /\ req'[p].pc # "sweep" => req'[p].u \in Users /\ Exists(req'[p].u)
    /\ req'[p].pc = "mirror" => status[req'[p].u] = "active"
    /\ req'[p].pc \in {"inactivate", "emails"} => NotLastSuperAdmin(req'[p].u)
    /\ req'[p].pc = "set_role" /\ req'[p].role # "super_admin" => NotLastSuperAdmin(req'[p].u)
    /\ req'[p].pc = "insert_request" => ~denied[req'[p].u]
    /\ req'[p].pc \in {"approve", "deny"} => decision[req'[p].u] = "pending"

(* Every way a request starts establishes StartFacts.                      *)
LEMMA StartStep ==
  ASSUME TypeOK, NEW p \in Requests, Start(p)
  PROVE  StartFacts(p)
<1> USE DEF StartFacts
<1>r. \A s \in Statements, u \in Users : Begin(p, s, u) =>
        /\ UNCHANGED rowVars /\ req[p] = Idle
        /\ req' \in [Requests -> Request]
        /\ req'[p].pc = s /\ req'[p].u = u
        /\ \A q \in Requests : q # p => req'[q] = req[q]
  <2>1. \A s \in Statements, u \in Users : Begin(p, s, u) => UNCHANGED rowVars /\ req[p] = Idle
    BY Zenon DEF Begin
  <2> QED BY <2>1, ReqStep
<1>d. \A u \in Users : decision[u] = "pending" => Exists(u)
  BY Zenon DEF TypeOK
<1>1. ASSUME NEW a \in Users, NEW u \in Users,
             \/ inactivate_user(p, a, u) \/ bulk_inactivate_users(p, a, u)
             \/ reactivate_user(p, a, u) \/ anonymize_user(p, a, u) \/ delete_user(p, a, u)
             \/ approve_request(p, a, u) \/ deny_request(p, a, u) \/ assign_user_idp(p, a, u)
             \/ unlink_user_from_connection(p, a, u)
      PROVE  StartFacts(p)
  BY <1>1, <1>r, <1>d DEF inactivate_user, bulk_inactivate_users, reactivate_user, anonymize_user,
      delete_user, approve_request, deny_request, assign_user_idp, unlink_user_from_connection,
      Statements, Counted, Uncounted, Exists
<1>2. ASSUME NEW a \in Users, NEW u \in Users, NEW new \in Roles, update_user(p, a, u, new)
      PROVE  StartFacts(p)
  <2>1. LET r == [Idle EXCEPT !.pc = "set_role", !.u = u, !.role = new]
        IN  r \in Request /\ r.pc = "set_role" /\ r.u = u /\ r.role = new
    BY Zenon DEF Idle, Request, Statements, Counted, Uncounted, Roles
  <2> DEFINE r == [Idle EXCEPT !.pc = "set_role", !.u = u, !.role = new]
  <2>2. r \in Request /\ r.pc = "set_role" /\ r.u = u /\ r.role = new
    BY Zenon, <2>1
  <2>3. req' = [req EXCEPT ![p] = r]
    BY Zenon, <1>2 DEF update_user
  <2> HIDE DEF r
  <2>4. /\ req' \in [Requests -> Request] /\ req'[p] = r
        /\ \A q \in Requests : q # p => req'[q] = req[q]
    BY Zenon, <2>2, <2>3 DEF TypeOK
  <2> QED
    BY Zenon, <1>2, <2>2, <2>4 DEF update_user, _validate_role_change, NotLastSuperAdmin
<1>3. ASSUME NEW u \in Users,
             \/ bulk_reactivate_users(p, u) \/ create_request(p, u) \/ authenticate_via_saml(p, u)
             \/ soft_delete_user(p, u)
             \/ \E active \in BOOLEAN : _handle_active_transition(p, u, active)
      PROVE  StartFacts(p)
  BY <1>3, <1>r DEF bulk_reactivate_users, create_request, authenticate_via_saml,
      soft_delete_user, _handle_active_transition, Statements, Counted, Uncounted, Exists,
      is_inactivated
<1>4. ASSUME NEW idle \in SUBSET Users, _process_tenant(p, idle)
      PROVE  StartFacts(p)
  <2> DEFINE r == [Idle EXCEPT !.pc = "sweep", !.todo = idle]
  <2>2. r \in Request /\ r.pc = "sweep"
    BY Zenon DEF Idle, Request, Statements, Counted, Uncounted, Roles
  <2>3. req' = [req EXCEPT ![p] = r]
    BY Zenon, <1>4 DEF _process_tenant
  <2> HIDE DEF r
  <2>4. /\ req' \in [Requests -> Request] /\ req'[p] = r
        /\ \A q \in Requests : q # p => req'[q] = req[q]
    BY Zenon, <2>2, <2>3 DEF TypeOK
  <2> QED
    BY Zenon, <1>4, <2>2, <2>4 DEF _process_tenant
<1> QED
  BY Zenon, <1>1, <1>2, <1>3, <1>4 DEF Start

(* Types hold under every interleaving, with crashes and every operation.  *)
LEMMA TypeStep == TypeOK /\ [Next]_vars => TypeOK'
<1> SUFFICES ASSUME TypeOK, [Next]_vars PROVE TypeOK'
  BY Zenon
<1> USE DEF TypeOK
<1>1. ASSUME NEW p \in Requests, Start(p) PROVE TypeOK'
  BY <1>1, StartStep DEF StartFacts, rowVars, Exists
<1>2. ASSUME NEW p \in Requests, Statement(p) PROVE TypeOK'
  <2>g. \A s \in Statements : Goto(p, s) =>
          /\ req' \in [Requests -> Request]
          /\ req'[p].pc = s /\ req'[p].u = req[p].u
          /\ \A q \in Requests : q # p => req'[q] = req[q]
    BY ZenonT(60), ReqStep
  <2>d. Done(p) => /\ req' \in [Requests -> Request] /\ req'[p].pc = "idle"
                   /\ \A q \in Requests : q # p => req'[q] = req[q]
    BY ZenonT(60), ReqStep
  <2>u. ~At(p, "sweep") /\ ~At(p, "idle") => req[p].u \in Users
    BY Zenon DEF At
  <2> HIDE DEF Request
  <2> USE <2>g, <2>d, <2>u DEF At, Exists, Statements, Counted, Uncounted, is_inactivated
  <2>1. CASE db_inactivate_user(p)
    BY ZenonT(60), <2>1 DEF db_inactivate_user
  <2>2. CASE SweepNext(p)
    <3>1. PICK u \in req[p].todo :
            /\ status' = [status EXCEPT ![u] = IF @ = "active" THEN "inactivated" ELSE @]
            /\ IF req[p].todo = {u} THEN Done(p) ELSE req' = [req EXCEPT ![p].todo = @ \ {u}]
      BY Zenon, <2>2 DEF SweepNext
    <3>2. req[p].pc = "sweep" /\ UNCHANGED <<role, denied, decision, data>>
      BY Zenon, <2>2 DEF SweepNext
    <3>3. /\ req' \in [Requests -> Request] /\ req'[p].pc \in {"idle", "sweep"}
          /\ \A q \in Requests : q # p => req'[q] = req[q]
      <4>1. CASE req[p].todo = {u}
        BY Zenon, <3>1, <4>1
      <4>2. CASE req[p].todo # {u}
        <5> DEFINE r == [req[p] EXCEPT !.todo = @ \ {u}]
        <5>1. r \in Request /\ r.pc = "sweep"
          BY <3>2 DEF Request
        <5>2. req' = [req EXCEPT ![p] = r]
          BY Zenon, <3>1, <4>2
        <5> HIDE DEF r
        <5> QED BY ZenonT(60), <5>1, <5>2
      <4> QED BY Zenon, <4>1, <4>2
    <3> QED BY ZenonT(40), <3>1, <3>2, <3>3
  <2>3. CASE db_update_user_role(p)
    <3>1. req[p].role \in Roles
      BY Zenon DEF Request
    <3> QED BY <2>3, <3>1 DEF db_update_user_role
  <2>4. CASE db_reactivate_user(p)
    BY <2>4 DEF db_reactivate_user
  <2>5. CASE db_clear_reactivation_denied(p)
    BY SMTT(30), <2>5 DEF db_clear_reactivation_denied
  <2>6. CASE anonymize_user_emails(p)
    BY SMTT(30), <2>6 DEF anonymize_user_emails
  <2>7. CASE delete_all_user_mfa_data(p)
    BY SMTT(30), <2>7 DEF delete_all_user_mfa_data
  <2>8. CASE db_anonymize_user(p)
    BY SMTT(30), <2>8 DEF db_anonymize_user
  <2>9. CASE erase_user_identity_data(p)
    BY <2>9 DEF erase_user_identity_data
  <2>10. CASE db_delete_user(p)
    <3>1. "member" \in Roles
      BY Zenon DEF Roles
    <3> QED BY ZenonT(60), <2>10, <3>1 DEF db_delete_user
  <2>11. CASE db_create_request(p)
    BY ZenonT(60), <2>11 DEF db_create_request
  <2>12. CASE db_approve_request(p)
    BY ZenonT(60), <2>12 DEF db_approve_request
  <2>13. CASE db_deny_request(p)
    BY ZenonT(60), <2>13 DEF db_deny_request
  <2>14. CASE db_set_reactivation_denied(p)
    BY SMTT(30), <2>14 DEF db_set_reactivation_denied
  <2>15. CASE apply_idp_attributes(p)
    BY <2>15 DEF apply_idp_attributes, Personal
  <2> QED
    BY ZenonT(60), <1>2, <2>1, <2>2, <2>3, <2>4, <2>5, <2>6, <2>7, <2>8, <2>9, <2>10, <2>11, <2>12, <2>13,
       <2>14, <2>15 DEF Statement
<1>3. ASSUME NEW p \in Requests, Crash(p) PROVE TypeOK'
  BY Zenon, <1>3, ReqStep DEF Crash, rowVars, Exists
<1>4. ASSUME NEW a \in Users, NEW u \in Users, NEW r \in Roles, create_user(a, u, r)
      PROVE  TypeOK'
  BY Zenon, <1>4 DEF create_user, Exists, Personal
<1>5. CASE UNCHANGED vars
  BY Zenon, <1>5 DEF vars, Exists
<1> QED
  BY Zenon, <1>1, <1>2, <1>3, <1>4, <1>5 DEF Next

(* The first state has the types.                                          *)
LEMMA InitTypes == Init => TypeOK
BY DEF Init, TypeOK, Exists, Idle, Request, Statements, Counted, Uncounted, Roles, Personal

(* No user, row or request ever has a value outside its type, and a user   *)
(* who is gone leaves no request, denial or data, under any interleaving.  *)
THEOREM TypesHold == Spec => []TypeOK
BY InitTypes, TypeStep, PTL DEF Spec

(* No operation, in any interleaving and with crashes, leaves the status   *)
(* anonymized except by deleting the row: reactivate_user's WHERE clause   *)
(* looks at is_anonymized again.                                           *)
THEOREM AnonymizedStays == Spec => AnonymizationIrreversible
<1>1. TypeOK /\ [Next]_vars =>
        [\A u \in Users : status[u] = "anonymized" => status'[u] \in {"anonymized", "deleted"}]_vars
  <2> SUFFICES ASSUME TypeOK, [Next]_vars, NEW u \in Users, status[u] = "anonymized"
               PROVE  status'[u] \in {"anonymized", "deleted"}
    BY Zenon
  <2>1. ASSUME NEW p \in Requests, Start(p) PROVE status' = status
    BY Zenon, <2>1, StartStep DEF StartFacts, rowVars
  <2>2. ASSUME NEW p \in Requests, Statement(p) PROVE status'[u] \in {"anonymized", "deleted"}
    BY ZenonT(60), <2>2 DEF Statement, TypeOK, At, db_inactivate_user, SweepNext, db_update_user_role,
        db_reactivate_user, db_clear_reactivation_denied, anonymize_user_emails,
        delete_all_user_mfa_data, db_anonymize_user, erase_user_identity_data, db_delete_user,
        db_create_request, db_approve_request, db_deny_request, db_set_reactivation_denied,
        apply_idp_attributes
  <2> QED
    BY Zenon, <2>1, <2>2 DEF Next, vars, Crash, rowVars, create_user, TypeOK
<1> QED
  BY InitTypes, TypeStep, <1>1, PTL DEF Spec, AnonymizationIrreversible

(* Two admins who decide one request at once do not overwrite each other's *)
(* decision; only a new request by the user, or the user's deletion,       *)
(* replaces it.                                                            *)
THEOREM DecisionsStand == Spec => DecidedOnce
<1>1. TypeOK /\ [Next]_vars =>
        [\A u \in Users : decision[u] \in {"approved", "denied"}
                              => decision'[u] \in {decision[u], "pending", "none"}]_vars
  <2> SUFFICES ASSUME TypeOK, [Next]_vars, NEW u \in Users, decision[u] \in {"approved", "denied"}
               PROVE  decision'[u] \in {decision[u], "pending", "none"}
    BY Zenon
  <2>1. ASSUME NEW p \in Requests, Start(p) PROVE decision' = decision
    BY Zenon, <2>1, StartStep DEF StartFacts, rowVars
  <2>2. ASSUME NEW p \in Requests, Statement(p)
        PROVE  decision'[u] \in {decision[u], "pending", "none"}
    BY ZenonT(60), <2>2 DEF Statement, TypeOK, At, db_inactivate_user, SweepNext, db_update_user_role,
        db_reactivate_user, db_clear_reactivation_denied, anonymize_user_emails,
        delete_all_user_mfa_data, db_anonymize_user, erase_user_identity_data, db_delete_user,
        db_create_request, db_approve_request, db_deny_request, db_set_reactivation_denied,
        apply_idp_attributes
  <2> QED
    BY Zenon, <2>1, <2>2 DEF Next, vars, Crash, rowVars, create_user, TypeOK
<1> QED
  BY InitTypes, TypeStep, <1>1, PTL DEF Spec, DecidedOnce

-----------------------------------------------------------------------------
(* Somebody else is an active super admin.                                 *)
Another(u) == \E w \in ActiveSuperAdmins : w # u

(* The count the services make leaves another one.                         *)
LEMMA CountedLeavesAnother ==
  ASSUME NEW u \in Users, NotLastSuperAdmin(u), role[u] = "super_admin"
  PROVE  Another(u)
<1> SUFFICES ASSUME ~Another(u) PROVE FALSE
  BY Zenon
<1>1. ActiveSuperAdmins \subseteq {u}
  BY Zenon DEF Another
<1>2. Cardinality(ActiveSuperAdmins) <= Cardinality({u})
  BY Zenon, <1>1, FS_Singleton, FS_Subset
<1>3. Cardinality({u}) = 1
  BY Zenon, FS_Singleton
<1>4. Cardinality(ActiveSuperAdmins) \in Nat
  BY Zenon, LifecycleConstants, FS_Subset, FS_CardinalityType DEF ActiveSuperAdmins
<1> QED
  BY <1>2, <1>3, <1>4 DEF NotLastSuperAdmin, count_active_super_admins

(* What a request that has counted still knows when it writes: the user is *)
(* no super admin, stays one, or is not the only one.                      *)
Spared(r) ==
    /\ status[r.u] # "absent"
    /\ \/ role[r.u] # "super_admin"
       \/ r.pc = "set_role" /\ r.role = "super_admin"
       \/ Another(r.u)

CountInv == \A p \in Requests : req[p].pc \in Counted => Spared(req[p])

(* A step that takes no active super admin away and gives the role to no   *)
(* existing user leaves what the other requests know.                      *)
LEMMA OthersSpared ==
  ASSUME TypeOK, CountInv, NEW q \in Requests, req'[q] = req[q], req[q].pc \in Counted,
         ActiveSuperAdmins \subseteq ActiveSuperAdmins',
         \A u \in Users : status[u] # "absent" => role'[u] = role[u] /\ status'[u] # "absent"
  PROVE  Spared(req[q])'
<1>1. Spared(req[q]) /\ req[q].u \in Users
  BY Zenon DEF CountInv, TypeOK, Counted
<1>2. Another(req[q].u) => Another(req[q].u)'
  <2> SUFFICES ASSUME Another(req[q].u) PROVE Another(req[q].u)'
    BY Zenon
  <2>1. PICK w \in ActiveSuperAdmins : w # req[q].u
    BY Zenon DEF Another
  <2>2. w \in ActiveSuperAdmins' /\ w # req'[q].u
    BY Zenon, <2>1
  <2> QED BY Zenon, <2>2 DEF Another
<1> QED
  BY Zenon, <1>1, <1>2 DEF Spared

(* Every step keeps what the requests that have counted know.              *)
LEMMA CountStep == TypeOK /\ CountInv /\ Apart /\ [Next]_vars => CountInv'
<1> SUFFICES ASSUME TypeOK, CountInv, Apart, [Next]_vars PROVE CountInv'
  BY Zenon
<1>k. ASSUME NEW p \in Requests, \A q \in Requests : q # p => req'[q] = req[q],
             ActiveSuperAdmins \subseteq ActiveSuperAdmins',
             \A u \in Users : status[u] # "absent" => role'[u] = role[u] /\ status'[u] # "absent",
             req'[p].pc \in Counted => Spared(req[p])'
      PROVE  CountInv'
  BY Zenon, <1>k, OthersSpared DEF CountInv
<1>1. ASSUME NEW p \in Requests, Start(p) PROVE CountInv'
  <2>1. StartFacts(p)
    BY Zenon, <1>1, StartStep
  <2>2. /\ \A q \in Requests : q # p => req'[q] = req[q]
        /\ UNCHANGED <<status, role>> /\ ActiveSuperAdmins' = ActiveSuperAdmins
    BY Zenon, <2>1 DEF StartFacts, rowVars, ActiveSuperAdmins
  <2>3. ASSUME req'[p].pc \in Counted PROVE Spared(req[p])'
    <3>1. req'[p].u \in Users /\ status[req'[p].u] # "absent"
      BY Zenon, <2>1, <2>3 DEF StartFacts, Exists, Counted
    <3>2. \/ NotLastSuperAdmin(req'[p].u)
          \/ req'[p].pc = "set_role" /\ req'[p].role = "super_admin"
      BY Zenon, <2>1, <2>3 DEF StartFacts, Counted
    <3>3. \/ role[req'[p].u] # "super_admin" \/ Another(req'[p].u)
          \/ req'[p].pc = "set_role" /\ req'[p].role = "super_admin"
      BY Zenon, <3>1, <3>2, CountedLeavesAnother
    <3> QED
      BY Zenon, <2>2, <3>1, <3>3 DEF Spared, Another
  <2> QED
    BY Zenon, <1>k, <2>2, <2>3
<1>2. ASSUME NEW p \in Requests, Statement(p) PROVE CountInv'
  <2>g. \A s \in Statements : Goto(p, s) =>
          /\ req'[p].pc = s /\ req'[p].u = req[p].u
          /\ \A q \in Requests : q # p => req'[q] = req[q]
    BY Zenon, ReqStep
  <2>d. Done(p) => req'[p].pc = "idle" /\ \A q \in Requests : q # p => req'[q] = req[q]
    BY Zenon, ReqStep
  <2> USE <2>g, <2>d DEF At, Statements, Counted, Uncounted
  <2>1. CASE \/ db_inactivate_user(p) \/ SweepNext(p) \/ db_update_user_role(p)
            \/ db_anonymize_user(p) \/ db_delete_user(p)
    <3>1. /\ req[p].pc \in Counted \cup Uncounted /\ req'[p].pc \notin Counted
          /\ \A q \in Requests : q # p => req'[q] = req[q]
      BY <2>1 DEF db_inactivate_user, SweepNext, db_update_user_role, db_anonymize_user,
          db_delete_user, TypeOK, Request
    <3>2. \A q \in Requests : q # p => req[q].pc \notin Counted
      BY Zenon, <3>1 DEF Apart
    <3> QED
      BY ZenonT(60), <3>1, <3>2 DEF CountInv
  <2>2. CASE anonymize_user_emails(p) \/ delete_all_user_mfa_data(p)
    <3>1. /\ UNCHANGED <<status, role>> /\ req'[p].u = req[p].u /\ req[p].pc \in {"emails", "mfa"}
          /\ \A q \in Requests : q # p => req'[q] = req[q]
      BY Zenon, <2>2 DEF anonymize_user_emails, delete_all_user_mfa_data
    <3>2. ActiveSuperAdmins' = ActiveSuperAdmins
      BY Zenon, <3>1 DEF ActiveSuperAdmins
    <3>3. Spared(req[p])'
      BY Zenon, <3>1, <3>2 DEF CountInv, Spared, Another
    <3> QED
      BY Zenon, <1>k, <3>1, <3>2, <3>3
  <2>3. CASE db_reactivate_user(p)
    <3>1. /\ ActiveSuperAdmins \subseteq ActiveSuperAdmins' /\ UNCHANGED role
          /\ \A u \in Users : status[u] # "absent" => status'[u] # "absent"
          /\ req'[p].pc = "clear_denied" /\ \A q \in Requests : q # p => req'[q] = req[q]
      BY Zenon, <2>3 DEF db_reactivate_user, ActiveSuperAdmins, TypeOK
    <3> QED
      BY Zenon, <1>k, <3>1
  <2>4. CASE \/ db_clear_reactivation_denied(p) \/ erase_user_identity_data(p)
            \/ db_create_request(p) \/ db_approve_request(p) \/ db_deny_request(p)
            \/ db_set_reactivation_denied(p) \/ apply_idp_attributes(p)
    <3>1. /\ UNCHANGED <<role, status>>
          /\ req'[p].pc \in {"idle", "reactivate", "set_denied"}
          /\ \A q \in Requests : q # p => req'[q] = req[q]
      BY Zenon, <2>4 DEF db_clear_reactivation_denied, erase_user_identity_data, db_create_request,
          db_approve_request, db_deny_request, db_set_reactivation_denied, apply_idp_attributes
    <3>2. ActiveSuperAdmins' = ActiveSuperAdmins
      BY Zenon, <3>1 DEF ActiveSuperAdmins
    <3> QED
      BY Zenon, <1>k, <3>1, <3>2
  <2> QED
    BY Zenon, <1>2, <2>1, <2>2, <2>3, <2>4 DEF Statement
<1>3. ASSUME NEW p \in Requests, Crash(p) PROVE CountInv'
  <2>1. /\ UNCHANGED <<role, status>> /\ req'[p].pc = "idle"
        /\ \A q \in Requests : q # p => req'[q] = req[q]
    BY Zenon, <1>3, ReqStep DEF Crash, rowVars
  <2>2. ActiveSuperAdmins' = ActiveSuperAdmins
    BY Zenon, <2>1 DEF ActiveSuperAdmins
  <2> QED
    BY Zenon, <1>k, <2>1, <2>2 DEF Counted
<1>4. ASSUME NEW a \in Users, NEW u \in Users, NEW r \in Roles, create_user(a, u, r)
      PROVE  CountInv'
  <2>1. /\ UNCHANGED req /\ ActiveSuperAdmins \subseteq ActiveSuperAdmins'
        /\ \A v \in Users : status[v] # "absent" => role'[v] = role[v] /\ status'[v] # "absent"
    BY Zenon, <1>4 DEF create_user, ActiveSuperAdmins, TypeOK
  <2> QED
    BY Zenon, <2>1, OthersSpared DEF CountInv
<1>5. CASE UNCHANGED vars
  <2>1. UNCHANGED <<req, role, status>> /\ ActiveSuperAdmins' = ActiveSuperAdmins
    BY Zenon, <1>5 DEF vars, ActiveSuperAdmins
  <2> QED
    BY Zenon, <2>1, OthersSpared DEF CountInv
<1> QED
  BY Zenon, <1>1, <1>2, <1>3, <1>4, <1>5 DEF Next

(* The statements that take a super admin away: one that was counted       *)
(* leaves another, and the rest are the uncounted ones.                    *)
LEMMA LastOneGoesUncounted ==
  ASSUME TypeOK, CountInv, [Next]_vars, ActiveSuperAdmins # {}, ActiveSuperAdmins' = {}
  PROVE  \E p \in Requests : req[p].pc \in Uncounted /\ req'[p] # req[p]
<1>s. ASSUME NEW p \in Requests, req[p].pc \in Counted,
             req[p].pc = "set_role" => req[p].role # "super_admin",
             ActiveSuperAdmins \ {req[p].u} \subseteq ActiveSuperAdmins'
      PROVE  FALSE
  <2>1. ActiveSuperAdmins = {req[p].u}
    BY Zenon, <1>s
  <2>2. role[req[p].u] = "super_admin"
    BY Zenon, <2>1 DEF ActiveSuperAdmins
  <2>3. Another(req[p].u)
    BY Zenon, <1>s, <2>2 DEF CountInv, Spared
  <2> QED
    BY Zenon, <2>1, <2>3 DEF Another
<1>0. ~(ActiveSuperAdmins \subseteq ActiveSuperAdmins')
  BY Zenon
<1>1. ASSUME NEW p \in Requests, Start(p) PROVE FALSE
  <2>1. ActiveSuperAdmins' = ActiveSuperAdmins
    BY Zenon, <1>1, StartStep DEF StartFacts, rowVars, ActiveSuperAdmins
  <2> QED BY Zenon, <2>1
<1>2. ASSUME NEW p \in Requests, Statement(p)
      PROVE  req[p].pc \in Uncounted /\ req'[p] # req[p]
  <2>d. Done(p) => req'[p].pc = "idle"
    BY Zenon, ReqStep
  <2> USE <2>d DEF At, Uncounted, Counted
  <2>1. CASE db_inactivate_user(p)
    <3>1. ActiveSuperAdmins \ {req[p].u} \subseteq ActiveSuperAdmins'
      BY Zenon, <2>1 DEF db_inactivate_user, ActiveSuperAdmins, TypeOK
    <3>2. req[p].pc # "inactivate"
      BY Zenon, <1>s, <3>1
    <3> QED
      BY Zenon, <2>1, <3>2 DEF db_inactivate_user
  <2>2. CASE SweepNext(p)
    <3>1. PICK u \in req[p].todo :
            IF req[p].todo = {u} THEN Done(p) ELSE req' = [req EXCEPT ![p].todo = @ \ {u}]
      BY Zenon, <2>2 DEF SweepNext
    <3>2. req[p].pc = "sweep"
      BY Zenon, <2>2 DEF SweepNext
    <3>3. CASE req[p].todo = {u}
      BY Zenon, <3>1, <3>2, <3>3
    <3>4. CASE req[p].todo # {u}
      <4>1. req'[p].todo = req[p].todo \ {u}
        BY <3>1, <3>4 DEF TypeOK, Request
      <4> QED BY Zenon, <3>1, <3>2, <4>1
    <3> QED BY Zenon, <3>3, <3>4
  <2>3. CASE db_update_user_role(p)
    <3>1. ActiveSuperAdmins \ {req[p].u} \subseteq ActiveSuperAdmins'
      BY Zenon, <2>3 DEF db_update_user_role, ActiveSuperAdmins, TypeOK
    <3>2. req[p].role = "super_admin" => ActiveSuperAdmins \subseteq ActiveSuperAdmins'
      BY Zenon, <2>3 DEF db_update_user_role, ActiveSuperAdmins, TypeOK, Exists
    <3>3. req[p].pc = "set_role"
      BY Zenon, <2>3 DEF db_update_user_role
    <3> QED
      BY Zenon, <1>s, <1>0, <3>1, <3>2, <3>3
  <2>4. CASE db_anonymize_user(p)
    <3>1. ActiveSuperAdmins \ {req[p].u} \subseteq ActiveSuperAdmins'
      BY Zenon, <2>4 DEF db_anonymize_user, ActiveSuperAdmins, TypeOK
    <3>2. req[p].pc = "row"
      BY Zenon, <2>4 DEF db_anonymize_user
    <3> QED
      BY Zenon, <1>s, <3>1, <3>2
  <2>5. CASE db_delete_user(p)
    BY Zenon, <2>5 DEF db_delete_user
  <2>6. CASE \/ db_reactivate_user(p) \/ anonymize_user_emails(p) \/ delete_all_user_mfa_data(p)
            \/ db_clear_reactivation_denied(p) \/ erase_user_identity_data(p)
            \/ db_create_request(p) \/ db_approve_request(p) \/ db_deny_request(p)
            \/ db_set_reactivation_denied(p) \/ apply_idp_attributes(p)
    <3>1. ActiveSuperAdmins \subseteq ActiveSuperAdmins'
      BY ZenonT(60), <2>6 DEF db_reactivate_user, anonymize_user_emails, delete_all_user_mfa_data,
          db_clear_reactivation_denied, erase_user_identity_data, db_create_request,
          db_approve_request, db_deny_request, db_set_reactivation_denied, apply_idp_attributes,
          ActiveSuperAdmins, TypeOK
    <3> QED BY Zenon, <1>0, <3>1
  <2> QED
    BY Zenon, <1>2, <2>1, <2>2, <2>3, <2>4, <2>5, <2>6 DEF Statement
<1>3. ASSUME NEW p \in Requests, Crash(p) PROVE FALSE
  BY Zenon, <1>3 DEF Crash, rowVars, ActiveSuperAdmins
<1>4. ASSUME NEW a \in Users, NEW u \in Users, NEW r \in Roles, create_user(a, u, r) PROVE FALSE
  <2>1. ActiveSuperAdmins \subseteq ActiveSuperAdmins'
    BY Zenon, <1>4 DEF create_user, ActiveSuperAdmins, TypeOK
  <2> QED BY Zenon, <1>0, <2>1
<1>5. CASE UNCHANGED vars
  BY Zenon, <1>5 DEF vars, ActiveSuperAdmins
<1> QED
  BY Zenon, <1>1, <1>2, <1>3, <1>4, <1>5 DEF Next

(* Apart holds of the first state and after every step of ApartSpec.       *)
LEMMA ApartHolds == ApartSpec => []Apart
<1>1. Init => Apart
  BY DEF Init, Apart, Idle, Counted, Uncounted
<1>2. Apart /\ [Next /\ Apart']_vars => Apart'
  BY Zenon DEF vars, Apart
<1> QED
  BY <1>1, <1>2, PTL DEF ApartSpec

(* For any number of users, requests and operations, and with crashes: if  *)
(* a removal that was counted meets no other removal, update_user,         *)
(* inactivate_user and anonymize_user never take the last active super     *)
(* admin away.                                                             *)
THEOREM SuperAdminStays == ApartSpec => CountsKeepSuperAdmin
<1>1. Init => CountInv
  BY DEF Init, CountInv, Idle, Counted
<1>2. TypeOK /\ CountInv /\ [Next /\ Apart']_vars =>
        [ActiveSuperAdmins # {} /\ ActiveSuperAdmins' = {}
           => \E p \in Requests : req[p].pc \in Uncounted /\ req'[p] # req[p]]_vars
  BY Zenon, LastOneGoesUncounted
<1>3. [Next /\ Apart']_vars => [Next]_vars
  BY Zenon
<1> QED
  BY InitTypes, TypeStep, ApartHolds, CountStep, <1>1, <1>2, <1>3, PTL
  DEF ApartSpec, CountsKeepSuperAdmin

-----------------------------------------------------------------------------
(* What one request at a time may rely on between reading the request row  *)
(* and writing the user row.                                               *)
DenialInv ==
    /\ DeniedByDecision
    /\ \A p \in Requests :
         /\ req[p].pc = "insert_request" => ~denied[req[p].u]
         /\ req[p].pc \in {"approve", "deny"} => decision[req[p].u] = "pending"
         /\ req[p].pc = "set_denied" => decision[req[p].u] = "denied"

(* Every step keeps a denial and its decision together.                    *)
LEMMA DenialStep ==
  ASSUME OneRequest
  PROVE  TypeOK /\ DenialInv /\ [Next]_vars => DenialInv'
<1> SUFFICES ASSUME TypeOK, DenialInv, [Next]_vars PROVE DenialInv'
  BY Zenon
<1> USE DEF OneRequest, DenialInv, DeniedByDecision
<1>1. ASSUME NEW p \in Requests, Start(p) PROVE DenialInv'
  BY <1>1, StartStep DEF StartFacts, rowVars
<1>2. ASSUME NEW p \in Requests, Statement(p) PROVE DenialInv'
  <2>g. \A s \in Statements : Goto(p, s) => req'[p].pc = s /\ req'[p].u = req[p].u
    BY Zenon, ReqStep
  <2>d. Done(p) => req'[p].pc = "idle"
    BY Zenon, ReqStep
  <2>e. \A q \in Requests : q = p
    BY Zenon
  <2>u. req[p].pc \in {"idle", "sweep"} \/ req[p].u \in Users
    BY Zenon DEF TypeOK
  <2>t. denied \in [Users -> BOOLEAN] /\ DOMAIN decision = Users
    BY Zenon DEF TypeOK
  <2> USE <2>g, <2>d, <2>e, <2>u, <2>t DEF At, Statements, Counted, Uncounted
  <2>1. CASE SweepNext(p)
    <3>1. req'[p].pc \in {"idle", "sweep"} /\ UNCHANGED <<denied, decision>>
      BY <2>1 DEF SweepNext, TypeOK, Request
    <3> QED BY Zenon, <3>1
  <2>2. CASE \/ db_inactivate_user(p) \/ db_update_user_role(p) \/ db_reactivate_user(p)
            \/ anonymize_user_emails(p) \/ delete_all_user_mfa_data(p) \/ db_anonymize_user(p)
            \/ erase_user_identity_data(p) \/ apply_idp_attributes(p)
    <3>1. /\ req'[p].pc \in {"idle", "clear_denied", "mfa", "row", "erase"}
          /\ UNCHANGED <<denied, decision>>
      BY Zenon, <2>2 DEF db_inactivate_user, db_update_user_role, db_reactivate_user,
          anonymize_user_emails, delete_all_user_mfa_data, db_anonymize_user,
          erase_user_identity_data, apply_idp_attributes
    <3> QED BY Zenon, <3>1
  <2>3. CASE db_clear_reactivation_denied(p)
    BY Zenon, <2>3 DEF db_clear_reactivation_denied
  <2>4. CASE db_delete_user(p)
    BY Zenon, <2>4 DEF db_delete_user
  <2>5. CASE db_create_request(p)
    BY Zenon, <2>5 DEF db_create_request
  <2>6. CASE db_approve_request(p)
    BY <2>6 DEF db_approve_request
  <2>7. CASE db_deny_request(p)
    BY ZenonT(60), <2>7 DEF db_deny_request
  <2>8. CASE db_set_reactivation_denied(p)
    BY Zenon, <2>8 DEF db_set_reactivation_denied
  <2> QED
    BY Zenon, <1>2, <2>1, <2>2, <2>3, <2>4, <2>5, <2>6, <2>7, <2>8 DEF Statement
<1>3. ASSUME NEW p \in Requests, Crash(p) PROVE DenialInv'
  BY <1>3, ReqStep DEF Crash, rowVars
<1>4. ASSUME NEW a \in Users, NEW u \in Users, NEW r \in Roles, create_user(a, u, r)
      PROVE  DenialInv'
  BY Zenon, <1>4 DEF create_user
<1>5. CASE UNCHANGED vars
  BY Zenon, <1>5 DEF vars
<1> QED
  BY Zenon, <1>1, <1>2, <1>3, <1>4, <1>5 DEF Next

(* Requests one after the other, every operation, with crashes: a user is  *)
(* barred only while their last request stands denied.                     *)
THEOREM DenialsHaveDecisions ==
  ASSUME OneRequest
  PROVE  Spec => []DeniedByDecision
<1>1. Init => DenialInv
  BY DEF Init, DenialInv, DeniedByDecision, Idle
<1>2. DenialInv => DeniedByDecision
  BY Zenon DEF DenialInv
<1> QED
  BY InitTypes, TypeStep, DenialStep, <1>1, <1>2, PTL DEF Spec

-----------------------------------------------------------------------------
(* How far each anonymization in progress has come.                        *)
ErasureInv ==
    /\ \A p \in Requests :
         /\ req[p].pc = "mirror" => status[req[p].u] \notin {"absent", "anonymized"}
         /\ req[p].pc \in {"emails", "mfa", "row", "erase"} => status[req[p].u] # "absent"
         /\ req[p].pc \in {"mfa", "row", "erase"} => "emails" \notin data[req[p].u]
         /\ req[p].pc \in {"row", "erase"} => "mfa" \notin data[req[p].u]
    /\ \A u \in Users : status[u] = "anonymized" =>
         /\ data[u] \subseteq {"identity"}
         /\ data[u] = {} \/ \E p \in Requests : req[p].pc = "erase" /\ req[p].u = u

(* Every step keeps an unfinished erasure in the hands of its request.     *)
LEMMA ErasureStep ==
  ASSUME "erase" \notin CrashPoints
  PROVE  TypeOK /\ ErasureInv /\ Apart /\ [Next]_vars => ErasureInv'
<1> SUFFICES ASSUME TypeOK, ErasureInv, Apart, [Next]_vars PROVE ErasureInv'
  BY Zenon
<1> USE DEF ErasureInv
<1>t. /\ status \in [Users -> {"absent", "active", "inactivated", "anonymized", "deleted"}]
      /\ data \in [Users -> SUBSET Personal]
      /\ \A p \in Requests : req[p].pc \in {"idle", "sweep"} \/ req[p].u \in Users
  BY Zenon DEF TypeOK
<1>1. ASSUME NEW p \in Requests, Start(p) PROVE ErasureInv'
  <2>1. req[p].pc = "idle"
    BY <1>1, StartStep DEF StartFacts, Idle
  <2>2. /\ UNCHANGED <<status, data>>
        /\ \A q \in Requests : q # p => req'[q] = req[q]
        /\ req'[p].pc \notin {"mfa", "row", "erase"}
        /\ req'[p].pc = "mirror" => status[req'[p].u] = "active"
        /\ req'[p].pc = "emails" => status[req'[p].u] # "absent"
    BY Zenon, <1>1, StartStep DEF StartFacts, rowVars, Exists
  <2>3. \A u \in Users, q \in Requests : req[q].pc = "erase" /\ req[q].u = u =>
          req'[q].pc = "erase" /\ req'[q].u = u
    BY Zenon, <2>1, <2>2
  <2> QED
    BY SMTT(30), <2>2, <2>3
<1>2. ASSUME NEW p \in Requests, Statement(p) PROVE ErasureInv'
  <2>g. \A s \in Statements : Goto(p, s) =>
          /\ req'[p].pc = s /\ req'[p].u = req[p].u
          /\ \A q \in Requests : q # p => req'[q] = req[q]
    BY ZenonT(60), ReqStep
  <2>d. Done(p) => req'[p].pc = "idle" /\ \A q \in Requests : q # p => req'[q] = req[q]
    BY Zenon, ReqStep
  <2> USE <1>t, <2>g, <2>d DEF At, Statements, Counted, Uncounted
  <2>1. CASE SweepNext(p)
    <3>1. /\ req[p].pc = "sweep" /\ req'[p].pc \in {"idle", "sweep"} /\ UNCHANGED data
          /\ \A q \in Requests : q # p => req'[q] = req[q]
      BY <2>1 DEF SweepNext, TypeOK, Request
    <3>2. PICK u \in req[p].todo :
            status' = [status EXCEPT ![u] = IF @ = "active" THEN "inactivated" ELSE @]
      BY Zenon, <2>1 DEF SweepNext
    <3>3. \A v \in Users : /\ status'[v] = "anonymized" <=> status[v] = "anonymized"
                           /\ status'[v] = "absent" <=> status[v] = "absent"
      BY ZenonT(60), <3>2
    <3> QED BY SMTT(30), <3>1, <3>3
  <2>2. CASE db_inactivate_user(p)
    BY SMTT(30), <2>2 DEF db_inactivate_user
  <2>3. CASE db_reactivate_user(p)
    BY SMTT(30), <2>3 DEF db_reactivate_user
  <2>4. CASE anonymize_user_emails(p)
    BY SMTT(30), <2>4 DEF anonymize_user_emails
  <2>5. CASE delete_all_user_mfa_data(p)
    BY SMTT(30), <2>5 DEF delete_all_user_mfa_data
  <2>6. CASE db_anonymize_user(p)
    <3>1. data[req[p].u] \subseteq {"identity"}
      BY SMTT(30), <2>6 DEF db_anonymize_user, Personal
    <3>2. \A q \in Requests : req[q].pc = "mirror" => req[q].u # req[p].u
      BY SMTT(30), <2>6 DEF db_anonymize_user, Apart
    <3> QED BY SMTT(30), <2>6, <3>1, <3>2 DEF db_anonymize_user
  <2>7. CASE erase_user_identity_data(p)
    BY SMTT(30), <2>7 DEF erase_user_identity_data, Personal
  <2>8. CASE db_delete_user(p)
    BY SMTT(30), <2>8 DEF db_delete_user
  <2>9. CASE \/ db_update_user_role(p) \/ db_clear_reactivation_denied(p)
            \/ db_create_request(p) \/ db_approve_request(p) \/ db_deny_request(p)
            \/ db_set_reactivation_denied(p)
    <3>1. /\ UNCHANGED <<status, data>> /\ req[p].pc # "erase"
          /\ req'[p].pc \in {"idle", "reactivate", "set_denied"}
          /\ \A q \in Requests : q # p => req'[q] = req[q]
      BY ZenonT(60), <2>9 DEF db_update_user_role, db_clear_reactivation_denied, db_create_request,
          db_approve_request, db_deny_request, db_set_reactivation_denied
    <3> QED BY <3>1
  <2>10. CASE apply_idp_attributes(p)
    BY SMTT(30), <2>10 DEF apply_idp_attributes, Personal
  <2> QED
    BY Zenon, <1>2, <2>1, <2>2, <2>3, <2>4, <2>5, <2>6, <2>7, <2>8, <2>9, <2>10 DEF Statement
<1>3. ASSUME NEW a \in Users, NEW u \in Users, NEW r \in Roles, create_user(a, u, r)
      PROVE  ErasureInv'
  BY SMTT(30), <1>3, <1>t DEF create_user
<1>4. ASSUME NEW p \in Requests, Crash(p) PROVE ErasureInv'
  <2>1. /\ req[p].pc # "erase" /\ req'[p].pc = "idle" /\ UNCHANGED <<status, data>>
        /\ \A q \in Requests : q # p => req'[q] = req[q]
    BY Zenon, <1>4, ReqStep DEF Crash, rowVars
  <2> QED BY <2>1, <1>t
<1>5. CASE UNCHANGED vars
  BY Zenon, <1>5 DEF vars
<1> QED
  BY Zenon, <1>1, <1>2, <1>3, <1>4, <1>5 DEF Next

(* No request is cut short before its erasure, and no sign-in mirrors      *)
(* attributes while its user is anonymized: however many operations        *)
(* interleave and whatever else crashes, an anonymized user nobody works   *)
(* on has no personal data.                                                *)
THEOREM AnonymizationErases ==
  ASSUME "erase" \notin CrashPoints
  PROVE  ApartSpec => []AnonymizedErased
<1>1. Init => ErasureInv
  BY DEF Init, ErasureInv, Idle
<1>2. ErasureInv => AnonymizedErased
  BY Zenon DEF ErasureInv, AnonymizedErased
<1>3. [Next /\ Apart']_vars => [Next]_vars
  BY Zenon
<1> QED
  BY InitTypes, TypeStep, ApartHolds, ErasureStep, <1>1, <1>2, <1>3, PTL DEF ApartSpec
=============================================================================
