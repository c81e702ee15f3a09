--------------------------- MODULE UserLifecycle ---------------------------
(***************************************************************************)
(* The accounts of a tenant: roles, deactivation, reactivation requests    *)
(* and anonymization (services/users/, services/reactivation.py, the       *)
(* lifecycle jobs, and the places where an identity provider deactivates). *)
(*                                                                         *)
(* Each database call is a transaction of its own.  A request first reads  *)
(* and checks, in one step here, and then runs its statements one by one,  *)
(* with the steps of other requests in between; a crash drops the rest.    *)
(***************************************************************************)
EXTENDS Naturals, FiniteSets

CONSTANTS
    Users,        \* ids of users
    Requests,     \* requests and jobs in progress
    Operations,   \* the operations that requests and jobs perform
    CrashPoints,  \* the statements before which a request may end
    None          \* no user

AllOperations ==
    {"create", "update", "inactivate", "reactivate", "anonymize", "request", "decide", "sign_in",
     "delete", "idle_job", "provider"}

(* Statements of the services that first count the super admins, and of    *)
(* those that take one away without counting.                              *)
Counted == {"inactivate", "set_role", "emails", "mfa", "row"}
Uncounted == {"delete", "sweep", "deprovision"}

Statements == Counted \cup Uncounted \cup
    {"idle", "erase", "reactivate", "clear_denied", "insert_request", "approve", "deny",
     "set_denied", "mirror"}

ASSUME LifecycleConstants ==
    /\ IsFiniteSet(Users)
    /\ None \notin Users
    /\ Operations \subseteq AllOperations
    /\ CrashPoints \subseteq Statements \ {"idle"}

VARIABLES
    role,      \* users.role
    status,    \* is_inactivated and is_anonymized of the row, or no row
    denied,    \* is users.reactivation_denied_at set?
    decision,  \* the user's row of reactivation_requests
    data,      \* which identifying data of the user the database holds
    req        \* Requests -> the statement the request runs next, and on what

vars == <<role, status, denied, decision, data, req>>
rowVars == <<role, status, denied, decision, data>>

Roles == {"member", "admin", "super_admin"}
Personal == {"emails", "mfa", "identity"}
Request == [pc : Statements, u : Users \cup {None}, role : Roles, todo : SUBSET Users]

Idle == [pc |-> "idle", u |-> None, role |-> "member", todo |-> {}]

(* A tenant starts with one super admin (provisioning).                    *)
Init ==
    /\ \E founder \in Users :
         /\ role = [u \in Users |-> IF u = founder THEN "super_admin" ELSE "member"]
         /\ status = [u \in Users |-> IF u = founder THEN "active" ELSE "absent"]
         /\ data = [u \in Users |-> IF u = founder THEN Personal ELSE {}]
    /\ denied = [u \in Users |-> FALSE]
    /\ decision = [u \in Users |-> "none"]
    /\ req = [p \in Requests |-> Idle]

Exists(u) == status[u] \in {"active", "inactivated", "anonymized"}
is_inactivated(u) == status[u] \in {"inactivated", "anonymized"}
require_admin(a) == status[a] = "active" /\ role[a] \in {"admin", "super_admin"}
require_super_admin(a) == status[a] = "active" /\ role[a] = "super_admin"

ActiveSuperAdmins == {u \in Users : status[u] = "active" /\ role[u] = "super_admin"}
count_active_super_admins == Cardinality(ActiveSuperAdmins)

NotLastSuperAdmin(u) == role[u] = "super_admin" => count_active_super_admins > 1

Started(statement, u) == [Idle EXCEPT !.pc = statement, !.u = u]

Begin(p, statement, u) ==
    /\ req[p] = Idle
    /\ req' = [req EXCEPT ![p] = Started(statement, u)]
    /\ UNCHANGED rowVars

At(p, statement) == req[p].pc = statement
Goto(p, statement) == req' = [req EXCEPT ![p].pc = statement]
Done(p) == req' = [req EXCEPT ![p] = Idle]

-----------------------------------------------------------------------------
(* What the services check before their first write.                       *)

create_user(a, u, r) ==
    /\ "create" \in Operations
    /\ require_admin(a)
    /\ r \in {"admin", "super_admin"} => role[a] = "super_admin"
    /\ status[u] = "absent"
    /\ status' = [status EXCEPT ![u] = "active"]
    /\ role' = [role EXCEPT ![u] = r]
    /\ data' = [data EXCEPT ![u] = Personal]
    /\ UNCHANGED <<denied, decision, req>>

_validate_role_change(a, u, new) ==
    /\ new \in {"admin", "super_admin"} \/ role[u] = "super_admin" => role[a] = "super_admin"
    /\ role[u] = "super_admin" /\ new # "super_admin" => count_active_super_admins > 1

update_user(p, a, u, new) ==
    /\ "update" \in Operations
    /\ require_admin(a)
    /\ Exists(u)
    /\ _validate_role_change(a, u, new)
    /\ req[p] = Idle
    /\ req' = [req EXCEPT ![p] = [Idle EXCEPT !.pc = "set_role", !.u = u, !.role = new]]
    /\ UNCHANGED rowVars

inactivate_user_NoCount(p, a, u) ==
    /\ "inactivate" \in Operations
    /\ require_admin(a)
    /\ Exists(u) /\ u # a /\ ~is_inactivated(u)
    /\ Begin(p, "inactivate", u)

inactivate_user(p, a, u) ==
    /\ "inactivate" \in Operations
    /\ require_admin(a)
    /\ Exists(u) /\ u # a /\ ~is_inactivated(u)
    /\ NotLastSuperAdmin(u)
    /\ Begin(p, "inactivate", u)

(* The job runs later than the request that queued it: the admin who did   *)
(* (created_by) need no longer be one.                                     *)
bulk_inactivate_users(p, a, u) ==
    /\ "inactivate" \in Operations
    /\ Exists(u) /\ u # a /\ ~is_inactivated(u)
    /\ NotLastSuperAdmin(u)
    /\ Begin(p, "inactivate", u)

reactivate_user(p, a, u) ==
    /\ "reactivate" \in Operations
    /\ require_admin(a)
    /\ status[u] = "inactivated"
    /\ Begin(p, "reactivate", u)

bulk_reactivate_users(p, u) ==
    /\ "reactivate" \in Operations
    /\ status[u] = "inactivated"
    /\ Begin(p, "reactivate", u)

anonymize_user(p, a, u) ==
    /\ "anonymize" \in Operations
    /\ require_super_admin(a)
    /\ Exists(u) /\ u # a /\ status[u] # "anonymized"
    /\ NotLastSuperAdmin(u)
    /\ Begin(p, "emails", u)

delete_user(p, a, u) ==
    /\ "delete" \in Operations
    /\ require_admin(a)
    /\ Exists(u) /\ u # a
    /\ Begin(p, "delete", u)

create_request(p, u) ==
    /\ "request" \in Operations
    /\ is_inactivated(u)
    /\ ~denied[u]
    /\ decision[u] # "pending"
    /\ Begin(p, "insert_request", u)

approve_request(p, a, u) ==
    /\ "decide" \in Operations
    /\ require_admin(a)
    /\ decision[u] = "pending"
    /\ Begin(p, "approve", u)

deny_request(p, a, u) ==
    /\ "decide" \in Operations
    /\ require_admin(a)
    /\ decision[u] = "pending"
    /\ Begin(p, "deny", u)

(* A sign-in through a provider passes the status check, and at its end    *)
(* mirrors the attributes the provider sent.                               *)
authenticate_via_saml(p, u) ==
    /\ "sign_in" \in Operations
    /\ status[u] = "active"
    /\ Begin(p, "mirror", u)

(* Removing a user from their provider deactivates them.                   *)
assign_user_idp(p, a, u) ==
    /\ "provider" \in Operations
    /\ require_super_admin(a)
    /\ Exists(u)
    /\ Begin(p, "deprovision", u)

(* Unlinking the last account at an upstream provider does the same.       *)
unlink_user_from_connection(p, a, u) ==
    /\ "provider" \in Operations
    /\ require_super_admin(a)
    /\ Exists(u)
    /\ Begin(p, "deprovision", u)

(* The provider deletes the user over inbound SCIM.                        *)
soft_delete_user(p, u) ==
    /\ "provider" \in Operations
    /\ status[u] = "active"
    /\ Begin(p, "deprovision", u)

(* The provider sets the user's active flag over inbound SCIM.             *)
_handle_active_transition(p, u, active) ==
    /\ "provider" \in Operations
    /\ \/ ~active /\ status[u] = "active" /\ Begin(p, "deprovision", u)
       \/ active /\ status[u] = "inactivated" /\ Begin(p, "reactivate", u)

(* The daily job reads which active users are idle, and deactivates them   *)
(* one after the other.                                                    *)
_process_tenant(p, idle) ==
    /\ "idle_job" \in Operations
    /\ idle # {} /\ \A u \in idle : status[u] = "active"
    /\ req[p] = Idle
    /\ req' = [req EXCEPT ![p] = [Idle EXCEPT !.pc = "sweep", !.todo = idle]]
    /\ UNCHANGED rowVars

-----------------------------------------------------------------------------
(* The statements, one transaction each; their WHERE clauses look again.   *)

db_inactivate_user(p) ==
    /\ At(p, "inactivate") \/ At(p, "deprovision")
    /\ status' = [status EXCEPT ![req[p].u] = IF @ = "active" THEN "inactivated" ELSE @]
    /\ Done(p)
    /\ UNCHANGED <<role, denied, decision, data>>

SweepNext(p) ==
    /\ At(p, "sweep")
    /\ \E u \in req[p].todo :
         /\ status' = [status EXCEPT ![u] = IF @ = "active" THEN "inactivated" ELSE @]
         /\ IF req[p].todo = {u} THEN Done(p) ELSE req' = [req EXCEPT ![p].todo = @ \ {u}]
    /\ UNCHANGED <<role, denied, decision, data>>

db_update_user_role(p) ==
    /\ At(p, "set_role")
    /\ role' = [role EXCEPT ![req[p].u] = IF Exists(req[p].u) THEN req[p].role ELSE @]
    /\ Done(p)
    /\ UNCHANGED <<status, denied, decision, data>>

db_reactivate_user(p) ==
    /\ At(p, "reactivate")
    /\ status' = [status EXCEPT ![req[p].u] = IF @ = "inactivated" THEN "active" ELSE @]
    /\ Goto(p, "clear_denied")
    /\ UNCHANGED <<role, denied, decision, data>>

db_clear_reactivation_denied(p) ==
    /\ At(p, "clear_denied")
    /\ denied' = [denied EXCEPT ![req[p].u] = FALSE]
    /\ Done(p)
    /\ UNCHANGED <<role, status, decision, data>>

anonymize_user_emails(p) ==
    /\ At(p, "emails")
    /\ data' = [data EXCEPT ![req[p].u] = @ \ {"emails"}]
    /\ Goto(p, "mfa")
    /\ UNCHANGED <<role, status, denied, decision>>

delete_all_user_mfa_data(p) ==
    /\ At(p, "mfa")
    /\ data' = [data EXCEPT ![req[p].u] = @ \ {"mfa"}]
    /\ Goto(p, "row")
    /\ UNCHANGED <<role, status, denied, decision>>

db_anonymize_user_Last(p) ==
    /\ At(p, "row")
    /\ status' = [status EXCEPT ![req[p].u] = IF Exists(req[p].u) THEN "anonymized" ELSE @]
    /\ Done(p)
    /\ UNCHANGED <<role, denied, decision, data>>

db_anonymize_user(p) ==
    /\ At(p, "row")
    /\ status' = [status EXCEPT ![req[p].u] = IF Exists(req[p].u) THEN "anonymized" ELSE @]
    /\ Goto(p, "erase")
    /\ UNCHANGED <<role, denied, decision, data>>

erase_user_identity_data(p) ==
    /\ At(p, "erase")
    /\ data' = [data EXCEPT ![req[p].u] = @ \ {"identity"}]
    /\ Done(p)
    /\ UNCHANGED <<role, status, denied, decision>>

(* The user's row of reactivation_requests and their data cascade.         *)
db_delete_user(p) ==
    /\ At(p, "delete")
    /\ status' = [status EXCEPT ![req[p].u] = "deleted"]
    /\ denied' = [denied EXCEPT ![req[p].u] = FALSE]
    /\ decision' = [decision EXCEPT ![req[p].u] = "none"]
    /\ data' = [data EXCEPT ![req[p].u] = {}]
    /\ role' = [role EXCEPT ![req[p].u] = "member"]
    /\ Done(p)

(* An upsert that clears the decision; for a deleted user it fails.        *)
db_create_request(p) ==
    /\ At(p, "insert_request")
    /\ decision' = [decision EXCEPT ![req[p].u] = IF Exists(req[p].u) THEN "pending" ELSE @]
    /\ Done(p)
    /\ UNCHANGED <<role, status, denied, data>>

db_approve_request(p) ==
    /\ At(p, "approve")
    /\ decision' = [decision EXCEPT ![req[p].u] = IF @ = "pending" THEN "approved" ELSE @]
    /\ Goto(p, "reactivate")
    /\ UNCHANGED <<role, status, denied, data>>

db_deny_request(p) ==
    /\ At(p, "deny")
    /\ decision' = [decision EXCEPT ![req[p].u] = IF @ = "pending" THEN "denied" ELSE @]
    /\ Goto(p, "set_denied")
    /\ UNCHANGED <<role, status, denied, data>>

db_set_reactivation_denied(p) ==
    /\ At(p, "set_denied")
    /\ denied' = [denied EXCEPT ![req[p].u] = Exists(req[p].u)]
    /\ Done(p)
    /\ UNCHANGED <<role, status, decision, data>>

apply_idp_attributes(p) ==
    /\ At(p, "mirror")
    /\ data' = [data EXCEPT ![req[p].u] = IF Exists(req[p].u) THEN @ \cup {"identity"} ELSE @]
    /\ Done(p)
    /\ UNCHANGED <<role, status, denied, decision>>

(* An exception, a restart or a lost connection ends a request here.       *)
Crash(p) ==
    /\ req[p].pc \in CrashPoints
    /\ Done(p)
    /\ UNCHANGED rowVars

-----------------------------------------------------------------------------
Start(p) ==
    \/ \E a, u \in Users :
         \/ inactivate_user(p, a, u) \/ bulk_inactivate_users(p, a, u)
         \/ reactivate_user(p, a, u) \/ anonymize_user(p, a, u) \/ delete_user(p, a, u)
         \/ approve_request(p, a, u) \/ deny_request(p, a, u) \/ assign_user_idp(p, a, u)
         \/ unlink_user_from_connection(p, a, u)
         \/ \E new \in Roles : update_user(p, a, u, new)
    \/ \E u \in Users :
         \/ bulk_reactivate_users(p, u) \/ create_request(p, u) \/ authenticate_via_saml(p, u)
         \/ soft_delete_user(p, u)
         \/ \E active \in BOOLEAN : _handle_active_transition(p, u, active)
    \/ \E idle \in SUBSET Users : _process_tenant(p, idle)

Statement(p) ==
    \/ db_inactivate_user(p) \/ SweepNext(p) \/ db_update_user_role(p)
    \/ db_reactivate_user(p) \/ db_clear_reactivation_denied(p)
    \/ anonymize_user_emails(p) \/ delete_all_user_mfa_data(p) \/ db_anonymize_user(p)
    \/ erase_user_identity_data(p) \/ db_delete_user(p)
    \/ db_create_request(p) \/ db_approve_request(p) \/ db_deny_request(p)
    \/ db_set_reactivation_denied(p) \/ apply_idp_attributes(p)

Next ==
    \/ \E p \in Requests : Start(p) \/ Statement(p) \/ Crash(p)
    \/ \E a, u \in Users, r \in Roles : create_user(a, u, r)

Spec == Init /\ [][Next]_vars

(* Nobody takes a super admin away while a service that has counted them   *)
(* is on its way, and no sign-in overlaps the anonymization of its user.   *)
Apart ==
    \A p, q \in Requests :
        /\ p # q /\ req[p].pc \in Counted => req[q].pc \notin Counted \cup Uncounted
        /\ req[p].pc = "mirror" /\ req[q].pc \in {"emails", "mfa", "row"} => req[p].u # req[q].u

(* The behaviours in which these requests do not meet.                     *)
ApartSpec == Init /\ [][Next /\ Apart']_vars
-----------------------------------------------------------------------------
(* Types; a user who does not exist has no data, request or denial left in *)
(* the database, whatever statements ran late (the cascade of delete_user).*)
TypeOK ==
    /\ role \in [Users -> Roles]
    /\ status \in [Users -> {"absent", "active", "inactivated", "anonymized", "deleted"}]
    /\ denied \in [Users -> BOOLEAN]
    /\ decision \in [Users -> {"none", "pending", "approved", "denied"}]
    /\ data \in [Users -> SUBSET Personal]
    /\ req \in [Requests -> Request]
    /\ \A p \in Requests : req[p].pc \in {"idle", "sweep"} \/ req[p].u \in Users
    /\ \A u \in Users : ~Exists(u) => /\ data[u] = {} /\ decision[u] = "none" /\ ~denied[u]

(* "There must always be at least one super admin" who can sign in.        *)
SuperAdminRemains == ActiveSuperAdmins # {}

(* What the counts in inactivate_user, anonymize_user and update_user are  *)
(* for: these three never take the last active super admin away, whatever  *)
(* happened before; only a deletion, the idle job and a provider can.      *)
CountsKeepSuperAdmin ==
    [][ActiveSuperAdmins # {} /\ ActiveSuperAdmins' = {}
         => \E p \in Requests : req[p].pc \in Uncounted /\ req'[p] # req[p]]_vars

(* A user is barred from asking again only by a denial that stands: the    *)
(* request row says denied whenever reactivation_denied_at is set, through *)
(* approvals, denials, manual reactivation and new requests.               *)
DeniedByDecision == \A u \in Users : denied[u] => decision[u] = "denied"

(* "Denied users cannot submit another request": no request is pending     *)
(* for a user whose reactivation was denied.                               *)
DeniedCannotRequest == \A u \in Users : denied[u] => decision[u] # "pending"

(* Once nobody is working on an anonymized user, anonymize_user has left   *)
(* none of their emails, second factors, provider links or attributes.     *)
AnonymizedErased ==
    \A u \in Users :
        status[u] = "anonymized" /\ (\A p \in Requests : req[p].u # u) => data[u] = {}

(* Anonymization is irreversible: no interleaving of reactivations,        *)
(* approvals and provider updates brings an anonymized account back.       *)
AnonymizationIrreversible ==
    [][\A u \in Users : status[u] = "anonymized" => status'[u] \in {"anonymized", "deleted"}]_vars

(* A request is decided once: two admins who both opened it while it was   *)
(* pending cannot turn an approval into a denial or back; only a new       *)
(* request of the user reopens it (the WHERE decision IS NULL).            *)
DecidedOnce ==
    [][\A u \in Users : decision[u] \in {"approved", "denied"}
                          => decision'[u] \in {decision[u], "pending", "none"}]_vars

=============================================================================
