------------------------- MODULE MCOidcSigningKeys -------------------------
(* Two signers and one super admin at a time; a clock unit is half an hour, *)
(* so that a token lives two units.  Beside the key of ID tokens: the SAML  *)
(* certificates of one service provider and one identity provider           *)
(* (CertRotation), and the workers that process background jobs             *)
(* (BackgroundJobs).  They share no state, so that a behaviour is about one *)
(* of them.                                                                 *)
EXTENDS OidcSigningKeys, FiniteSets

CONSTANTS Sps, Idps, Admins, Lifetime, Windows, CertGraces, MaxFailures, None

CONSTANTS JobUsers, JobAdmins, Exempt, Workers, MaxTasks, MaxCrashes   \* of BackgroundJobs

VARIABLES
    scenario,
    window, row, byHand, job, failed,                              \* of CertRotation
    status, task, result, worker, users, members, group, export, stored, secret, crashes   \* of BackgroundJobs

certVars == <<window, row, byHand, job, failed>>
jobVars == <<status, task, result, worker, users, members, group, export, stored, secret, crashes>>

Certs == INSTANCE CertRotation WITH Graces <- CertGraces

ASSUME CertificateConstants == Certs!CertConstants /\ Certs!CertMargins

Jobs == INSTANCE BackgroundJobs WITH
    Users <- JobUsers, Admins <- JobAdmins

ASSUME JobsConstants == Jobs!JobConstants

Created == {t \in Jobs!Tasks : status'[t] # "new"}

(* One job of any kind, with whatever may happen meanwhile.                 *)
OneJob == Created \subseteq {1}

(* Two jobs on one user, whose worker does not crash.                       *)
TwoJobs ==
    /\ crashes' = 0 /\ UNCHANGED group
    /\ \A t \in Created :
        /\ task'[t].type \in {"export_events", "bulk_inactivate_users", "bulk_reactivate_users"}
        /\ task'[t].ids \subseteq JobUsers \ Exempt
    /\ \A u \in JobUsers \ Exempt : users'[u] \in {"active", "inactive"}
    /\ \A t \in Created : export'[t] # "expired"

(* Two exports, their downloads and the cleanup.                            *)
TwoExports ==
    /\ \A t \in Created : task'[t].type = "export_users" /\ status'[t] # "deleted"
    /\ UNCHANGED <<users, group>>

(* The workers may sleep: that they go on is what JobsServed asks.          *)
Polling == UNCHANGED jobVars

Working == {"job", "jobs", "exports"}

MCInit ==
    /\ scenario \in {"signing", "certificates", "job", "jobs", "exports"}
    /\ Init
    /\ IF scenario = "certificates" THEN Certs!Init
       ELSE Certs!Init /\ \A w \in Windows : window <= w
    /\ Jobs!Init
    /\ scenario # "job" => group = "standard"

MCNext ==
    /\ scenario' = scenario
    /\ \/ scenario = "signing" /\ Next /\ UNCHANGED <<certVars, jobVars>>
       \/ scenario = "certificates" /\ Certs!Next /\ UNCHANGED <<vars, jobVars>>
       \/ /\ scenario \in Working
          /\ \/ Jobs!Next /\ CASE scenario = "job" -> OneJob
                                [] scenario = "jobs" -> TwoJobs
                                [] scenario = "exports" -> TwoExports
             \/ Polling
          /\ UNCHANGED <<vars, certVars>>

(* The workers go on; of the others nothing is asked.                       *)
MCSpec ==
    /\ MCInit /\ [][MCNext]_<<scenario, vars, certVars, jobVars>>
    /\ \A w \in Workers : WF_jobVars(scenario \in Working /\ Jobs!Step(w))

(* No SAML certificate in use reaches its expiry while the daily job runs.  *)
NeverExpired == Certs!NeverExpired

(* Background jobs keep the promise of JobQueue: with workers that claim,   *)
(* crash and go on, no task runs twice, every task is started, and a        *)
(* completed one has reported on each of its users.                         *)
JobsServed == Jobs!JobsServed

(* An export that is listed has its file (create_export_file,               *)
(* cleanup_expired_exports).                                                *)
DownloadsServed == Jobs!DownloadsServed
=============================================================================
