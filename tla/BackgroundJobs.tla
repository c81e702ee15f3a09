--------------------------- MODULE BackgroundJobs ---------------------------
(***************************************************************************)
(* Background jobs: the rows of bg_tasks that the admin pages and the API  *)
(* submit (services/bg_tasks.py), the workers that claim and process them  *)
(* (worker.py, jobs/), and the files that exports leave behind until the   *)
(* cleanup (cleanup_exports.py).                                           *)
(*                                                                         *)
(* Tasks are numbered in the order in which they are created.  A worker    *)
(* has at most one task; between two of its statements other workers and   *)
(* requests run, and it may die.                                           *)
(***************************************************************************)
EXTENDS Naturals, FiniteSets

CONSTANTS
    MaxTasks,     \* tasks that are created (bound)
    Users,        \* the users that jobs are about
    Admins,       \* users who submit jobs
    Exempt,       \* service users and the last super admin
    Workers,      \* worker processes
    MaxCrashes,   \* crashes (bound)
    None

JobConstants ==
    /\ MaxTasks \in Nat /\ MaxCrashes \in Nat
    /\ Admins \subseteq Users /\ Exempt \subseteq Users
    /\ None \notin {"kept", "expired"}

VARIABLES
    status,       \* Tasks -> "new", its status, or "deleted"
    task,         \* Tasks -> [type, created_by, ids]
    result,       \* Tasks -> None, or what the job has reported of each id
    worker,       \* Workers -> what it does next: [pc, t, left, details]
    users,        \* Users -> "active", "inactive", "anonymized" or None
    members,      \* the members of the group jobs assign to
    group,        \* that group: "standard", "idp" or None
    export,       \* Tasks -> None or its row of export_files: "kept", "expired"
    stored,       \* Tasks whose file is in the storage
    secret,       \* Tasks whose result holds the password of the file
    crashes       \* how often a worker has died

Tasks == 1..MaxTasks
Exports == {"export_events", "export_users"}
Bulk == {"bulk_inactivate_users", "bulk_reactivate_users", "bulk_group_assignment",
         "bulk_add_secondary_emails", "bulk_primary_email_preview", "bulk_primary_email_apply"}
Outcomes == {"done", "skipped", "error"}

db == <<users, members, group>>
files == <<export, stored, secret>>
vars == <<status, task, result, worker, users, members, group, export, stored, secret, crashes>>

NoDetails == [u \in {} |-> "error"]
Idle == [pc |-> "idle", t |-> 0, left |-> {}, details |-> NoDetails]

TypeOK ==
    /\ status \in [Tasks -> {"new", "pending", "processing", "completed", "failed", "deleted"}]
    /\ export \in [Tasks -> {None, "kept", "expired"}] /\ stored \subseteq Tasks /\ secret \subseteq Tasks
    /\ crashes \in 0..MaxCrashes

Init ==
    /\ status = [t \in Tasks |-> "new"]
    /\ task = [t \in Tasks |-> [type |-> None, created_by |-> None, ids |-> {}]]
    /\ result = [t \in Tasks |-> None]
    /\ worker = [w \in Workers |-> Idle]
    /\ users = [u \in Users |-> "active"] /\ members = {}
    /\ group \in {"standard", "idp"}
    /\ export = [t \in Tasks |-> None] /\ stored = {} /\ secret = {} /\ crashes = 0

-----------------------------------------------------------------------------
(* Submitting.                                                             *)

create_task(type, a, ids) ==
    /\ users[a] = "active"
    /\ \E t \in Tasks :
        /\ status[t] = "new" /\ \A s \in 1..(t - 1) : status[s] # "new"
        /\ status' = [status EXCEPT ![t] = "pending"]
        /\ task' = [task EXCEPT ![t] = [type |-> type, created_by |-> a, ids |-> ids]]
    /\ UNCHANGED <<result, worker, db, files, crashes>>

create_export_task(a) == create_task("export_events", a, {})
create_user_export_task(a) == create_task("export_users", a, {})

(* A bulk job without anybody selected is refused.                         *)
create_bulk_add_emails_task(a, ids) == ids # {} /\ create_task("bulk_add_secondary_emails", a, ids)
create_bulk_primary_email_preview_task(a, ids) == ids # {} /\ create_task("bulk_primary_email_preview", a, ids)
create_bulk_primary_email_apply_task(a, ids) == ids # {} /\ create_task("bulk_primary_email_apply", a, ids)
create_bulk_inactivate_task(a, ids) == ids # {} /\ create_task("bulk_inactivate_users", a, ids)
create_bulk_reactivate_task(a, ids) == ids # {} /\ create_task("bulk_reactivate_users", a, ids)
create_bulk_group_assignment_task(a, ids) == ids # {} /\ create_task("bulk_group_assignment", a, ids)

(* What the previews find eligible; the job looks again at every user.     *)
preview_bulk_inactivate(a, ids) == {u \in ids \ ({a} \cup Exempt) : users[u] \in {"active"}}
preview_bulk_reactivate(ids) == {u \in ids : users[u] = "inactive"}
preview_bulk_group_assignment(ids) ==
    IF group # "standard" THEN {} ELSE {u \in ids \ members : users[u] # None}

(* The pages submit what was selected, or a filter found; the API any ids, *)
(* of which a client may have had a preview.                               *)
submit_secondary_emails(a, ids) == create_bulk_add_emails_task(a, ids)
submit_primary_emails(a, ids) ==
    create_bulk_primary_email_preview_task(a, ids) \/ create_bulk_primary_email_apply_task(a, ids)
submit_bulk(a, ids) ==
    \/ create_bulk_inactivate_task(a, ids) \/ create_bulk_reactivate_task(a, ids)
    \/ create_bulk_group_assignment_task(a, ids)
api_emails(a, ids) ==
    \/ create_bulk_add_emails_task(a, ids)
    \/ create_bulk_primary_email_preview_task(a, ids) \/ create_bulk_primary_email_apply_task(a, ids)
api_previewed(a, ids) ==
    \/ create_bulk_inactivate_task(a, preview_bulk_inactivate(a, ids))
    \/ create_bulk_reactivate_task(a, preview_bulk_reactivate(ids))
    \/ create_bulk_group_assignment_task(a, preview_bulk_group_assignment(ids))
api_bulk(a, ids) == submit_bulk(a, ids)
trigger_export(a) == create_export_task(a)
api_exports(a) == create_export_task(a) \/ create_user_export_task(a)

(* Only one's own, and only those that have ended.                         *)
delete_tasks(a, ts) ==
    /\ ts # {}
    /\ \A t \in ts : task[t].created_by = a /\ status[t] \in {"completed", "failed"}
    /\ status' = [t \in Tasks |-> IF t \in ts THEN "deleted" ELSE status[t]]

delete_jobs(a, ts) ==
    /\ delete_tasks(a, ts)
    /\ secret' = secret \ ts
    /\ UNCHANGED <<task, result, worker, db, export, stored, crashes>>

delete_background_jobs(a, ts) == delete_jobs(a, ts)
api_delete_jobs(a, ts) == delete_jobs(a, ts)

(* A download is answered when the row and the file are there.             *)
get_download(t) == export[t] # None /\ t \in stored

-----------------------------------------------------------------------------
(* The worker.                                                             *)

At(w, step) == worker[w].pc = step
Goto(w, step) == worker' = [worker EXCEPT ![w].pc = step]

(* FOR UPDATE SKIP LOCKED: the oldest task that no other claim holds.      *)
claim_next_task(w, t) ==
    status[t] = "pending" /\ \A s \in 1..(t - 1) : status[s] # "pending"

run(w) ==
    /\ worker[w].pc \in {"idle", "poll"}
    /\ \E t \in Tasks :
        /\ claim_next_task(w, t)
        /\ status' = [status EXCEPT ![t] = "processing"]
        /\ worker' = [worker EXCEPT ![w] =
                        [pc |-> "process", t |-> t, left |-> task[t].ids, details |-> NoDetails]]
    /\ UNCHANGED <<task, result, db, files, crashes>>

get_handler(type) == type \in Exports \cup Bulk

(* The handler of the task's type.  An assignment to a group that is gone  *)
(* or belongs to a provider reports every id as an error at once.          *)
_process_task(w) ==
    LET t == worker[w].t
        type == task[t].type
        refused == type = "bulk_group_assignment" /\ group # "standard"
    IN /\ At(w, "process")
       /\ \/ ~get_handler(type) /\ Goto(w, "fail")
          \/ type \in Exports /\ Goto(w, "save")
          \/ type \in Bulk /\ ~refused /\ Goto(w, "items")
          \/ /\ refused
             /\ worker' = [worker EXCEPT ![w].pc = "complete", ![w].left = {},
                                        ![w].details = [u \in task[t].ids |-> "error"]]
       /\ UNCHANGED <<status, task, result, db, files, crashes>>

(* One user of a bulk job: what becomes of them and of the group's         *)
(* members, and what is reported.                                          *)
Leave(outcome) == [users |-> users, members |-> members, outcome |-> outcome]

handle_bulk_inactivate_users(w, u) ==
    IF users[u] = None THEN Leave("error")
    ELSE IF u = task[worker[w].t].created_by \/ users[u] # "active" \/ u \in Exempt THEN Leave("skipped")
    ELSE [Leave("done") EXCEPT !.users[u] = "inactive"]

handle_bulk_reactivate_users(w, u) ==
    IF users[u] = None THEN Leave("error")
    ELSE IF users[u] # "inactive" THEN Leave("skipped")
    ELSE [Leave("done") EXCEPT !.users[u] = "active"]

handle_bulk_group_assignment(w, u) ==
    IF users[u] = None \/ u \in members THEN Leave("skipped")
    ELSE IF group = None THEN Leave("error")
    ELSE [Leave("done") EXCEPT !.members = @ \cup {u}]

(* What becomes of the addresses is left to UserEmails; one that is taken, *)
(* or not a verified address of the user, is reported like an exception.   *)
handle_bulk_add_secondary_emails(w, u) == Leave(IF users[u] = None THEN "error" ELSE "done")
handle_bulk_primary_email_preview(w, u) == Leave(IF users[u] = None THEN "error" ELSE "done")
handle_bulk_primary_email_apply(w, u) == Leave(IF users[u] = None THEN "error" ELSE "done")

handle(w, u) ==
    CASE task[worker[w].t].type = "bulk_inactivate_users" -> handle_bulk_inactivate_users(w, u)
      [] task[worker[w].t].type = "bulk_reactivate_users" -> handle_bulk_reactivate_users(w, u)
      [] task[worker[w].t].type = "bulk_group_assignment" -> handle_bulk_group_assignment(w, u)
      [] task[worker[w].t].type = "bulk_add_secondary_emails" -> handle_bulk_add_secondary_emails(w, u)
      [] task[worker[w].t].type = "bulk_primary_email_preview" -> handle_bulk_primary_email_preview(w, u)
      [] OTHER -> handle_bulk_primary_email_apply(w, u)

(* An exception, before or after the change, is reported as an error of    *)
(* the one user, and the others still follow.                              *)
Reported(w, u, outcome) ==
    LET before == worker[w].details
    IN  [worker[w] EXCEPT !.left = @ \ {u},
                          !.details = [v \in DOMAIN before \cup {u} |->
                                         IF v = u THEN outcome ELSE before[v]]]

Item(w) ==
    /\ At(w, "items")
    /\ \E u \in worker[w].left, failed \in BOOLEAN :
        LET h == handle(w, u)
        IN /\ \/ users' = h.users /\ members' = h.members
              \/ failed /\ UNCHANGED <<users, members>>
           /\ worker' = [worker EXCEPT ![w] = Reported(w, u, IF failed THEN "error" ELSE h.outcome)]
    /\ UNCHANGED <<status, task, result, group, files, crashes>>

ItemsDone(w) ==
    /\ At(w, "items") /\ worker[w].left = {}
    /\ Goto(w, "complete")
    /\ UNCHANGED <<status, task, result, db, files, crashes>>

(* An export: the file is stored, then the row is written.                 *)
save_Late(w) ==
    /\ At(w, "save") /\ Goto(w, "row")
    /\ export' = [export EXCEPT ![worker[w].t] = "kept"]
    /\ UNCHANGED <<status, task, result, db, stored, secret, crashes>>

save(w) ==
    /\ At(w, "save")
    /\ stored' = stored \cup {worker[w].t}
    /\ Goto(w, "row")
    /\ UNCHANGED <<status, task, result, db, export, secret, crashes>>

handle_export_events(w) == At(w, "save") /\ task[worker[w].t].type = "export_events" /\ save(w)
handle_export_users(w) == At(w, "save") /\ task[worker[w].t].type = "export_users" /\ save(w)

create_export_file(w) ==
    /\ At(w, "row")
    /\ export' = [export EXCEPT ![worker[w].t] = "kept"]
    /\ Goto(w, "complete")
    /\ UNCHANGED <<status, task, result, db, stored, secret, crashes>>

(* Too many rows, a storage or a database that is not there.               *)
HandlerError(w) ==
    /\ worker[w].pc \in {"process", "save", "row", "complete"}
    /\ Goto(w, "fail")
    /\ UNCHANGED <<status, task, result, db, files, crashes>>

complete_task(w) ==
    /\ At(w, "complete")
    /\ status' = [status EXCEPT ![worker[w].t] = "completed"]
    /\ result' = [result EXCEPT ![worker[w].t] = worker[w].details]
    /\ secret' = IF task[worker[w].t].type \in Exports THEN secret \cup {worker[w].t} ELSE secret
    /\ worker' = [worker EXCEPT ![w] = Idle]
    /\ UNCHANGED <<task, db, export, stored, crashes>>

fail_task(w) ==
    /\ At(w, "fail")
    /\ status' = [status EXCEPT ![worker[w].t] = "failed"]
    /\ worker' = [worker EXCEPT ![w] = Idle]
    /\ UNCHANGED <<task, result, db, files, crashes>>

-----------------------------------------------------------------------------
(* The hourly cleanup, between two tasks: every expired row it has listed  *)
(* loses its file, then itself, then its task the password.  A statement   *)
(* that fails leaves the rest of that row, and the next row follows.       *)
get_expired_exports == {t \in Tasks : export[t] = "expired"}

cleanup_expired_exports(w) ==
    /\ worker[w] = Idle /\ get_expired_exports # {}
    /\ worker' = [worker EXCEPT ![w] = [Idle EXCEPT !.pc = "cleanup", !.left = get_expired_exports]]
    /\ UNCHANGED <<status, task, result, db, files, crashes>>

NextRow(w) == worker' = [worker EXCEPT ![w].pc = "cleanup", ![w].t = 0]

cleanup_file(w) ==
    /\ At(w, "cleanup")
    /\ \E t \in worker[w].left :
        /\ stored' \in {stored, stored \ {t}}
        /\ worker' = [worker EXCEPT ![w].pc = "cleanup_row", ![w].t = t, ![w].left = @ \ {t}]
    /\ UNCHANGED <<status, task, result, db, export, secret, crashes>>

delete_export_file(w) ==
    /\ At(w, "cleanup_row")
    /\ \/ export' = [export EXCEPT ![worker[w].t] = None] /\ Goto(w, "redact")
       \/ NextRow(w) /\ UNCHANGED export
    /\ UNCHANGED <<status, task, result, db, stored, secret, crashes>>

redact_result_password(w) ==
    /\ At(w, "redact")
    /\ secret' \in {secret, secret \ {worker[w].t}}
    /\ NextRow(w)
    /\ UNCHANGED <<status, task, result, db, export, stored, crashes>>

(* The interval has begun anew, whatever came of the cleanup: the loop      *)
(* claims before it cleans up again.                                       *)
_check_periodic_jobs_UntilDone(w) ==
    /\ At(w, "cleanup") /\ worker[w].left = {}
    /\ IF get_expired_exports = {} THEN Goto(w, "poll")
       ELSE worker' = [worker EXCEPT ![w].left = get_expired_exports]
    /\ UNCHANGED <<status, task, result, db, files, crashes>>

_check_periodic_jobs(w) ==
    /\ At(w, "cleanup") /\ worker[w].left = {}
    /\ Goto(w, "poll")
    /\ UNCHANGED <<status, task, result, db, files, crashes>>

NothingPending(w) ==
    /\ At(w, "poll") /\ \A t \in Tasks : status[t] # "pending"
    /\ worker' = [worker EXCEPT ![w] = Idle]
    /\ UNCHANGED <<status, task, result, db, files, crashes>>

-----------------------------------------------------------------------------
(* The rest of the system.                                                 *)

Expire(t) ==
    /\ export[t] = "kept"
    /\ export' = [export EXCEPT ![t] = "expired"]
    /\ UNCHANGED <<status, task, result, worker, db, stored, secret, crashes>>

(* A user is anonymized or deleted, the group is deleted.                  *)
DeleteUser(u) ==
    /\ users[u] # None /\ u \notin Admins
    /\ \/ users' = [users EXCEPT ![u] = "anonymized"] /\ UNCHANGED members
       \/ users' = [users EXCEPT ![u] = None] /\ members' = members \ {u}
    /\ UNCHANGED <<status, task, result, worker, group, files, crashes>>

DeleteGroup ==
    /\ group # None
    /\ group' = None /\ members' = {}
    /\ UNCHANGED <<status, task, result, worker, users, files, crashes>>

(* A worker dies and is started again; its task stays as it is.            *)
Crash(w) ==
    /\ worker[w] # Idle /\ crashes < MaxCrashes
    /\ worker' = [worker EXCEPT ![w] = Idle]
    /\ crashes' = crashes + 1
    /\ UNCHANGED <<status, task, result, db, files>>

Submit ==
    \E a \in Admins :
        \/ trigger_export(a) \/ api_exports(a)
        \/ \E ids \in SUBSET Users :
             \/ submit_secondary_emails(a, ids) \/ submit_primary_emails(a, ids) \/ submit_bulk(a, ids)
             \/ api_emails(a, ids) \/ api_previewed(a, ids) \/ api_bulk(a, ids)
        \/ \E type \in {"unregistered"} : create_task(type, a, {})

Step(w) ==
    \/ run(w) \/ _process_task(w) \/ Item(w) \/ ItemsDone(w)
    \/ handle_export_events(w) \/ handle_export_users(w) \/ create_export_file(w)
    \/ HandlerError(w) \/ complete_task(w) \/ fail_task(w)
    \/ cleanup_expired_exports(w) \/ cleanup_file(w) \/ delete_export_file(w)
    \/ redact_result_password(w) \/ _check_periodic_jobs(w) \/ NothingPending(w)

Next ==
    \/ Submit
    \/ \E a \in Admins, ts \in SUBSET Tasks : delete_background_jobs(a, ts) \/ api_delete_jobs(a, ts)
    \/ \E w \in Workers : Step(w) \/ Crash(w)
    \/ \E t \in Tasks : Expire(t)
    \/ \E u \in Users : DeleteUser(u)
    \/ DeleteGroup

(* A worker that runs goes on: its loop ends with the process only.        *)
Spec == Init /\ [][Next]_vars

FairSpec == Spec /\ \A w \in Workers : WF_vars(Step(w))

-----------------------------------------------------------------------------
Queue == INSTANCE JobQueue
    WITH Jobs <- Tasks, Items <- Users, state <- status,
         items <- [t \in Tasks |-> task[t].ids], report <- result

(* Background jobs keep the promise of JobQueue, with several workers that *)
(* claim, die and are started again: no task runs twice, every task is     *)
(* started, and a completed one has reported on each of its users, once.   *)
JobsServed == Queue!Spec

(* An export that is listed can be downloaded: its row is never there      *)
(* without its file, whichever step of an export or a cleanup is the last. *)
DownloadsServed == \A t \in Tasks : export[t] = "kept" => get_download(t)

=============================================================================
