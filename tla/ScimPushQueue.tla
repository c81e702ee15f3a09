--------------------------- MODULE ScimPushQueue ---------------------------
(***************************************************************************)
(* The outbound SCIM pipeline of one service provider (SP): application    *)
(* requests change users and then enqueue them in scim_push_queue, worker  *)
(* containers drain the queue against the receiver.                        *)
(*                                                                         *)
(* Every database call of the program commits on its own, so each call is  *)
(* one action here and anything may happen between two of them.  The row   *)
(* locks of list_ready_entries end with its own transaction.               *)
(*                                                                         *)
(* A user is a version of its attributes and whether the SP's grants cover *)
(* it.  Times are reduced to whether next_attempt_at has passed.  Row ids  *)
(* and receiver ids are fresh: different from every id anyone still holds. *)
(***************************************************************************)
EXTENDS Naturals, Sequences, FiniteSets

CONSTANTS
    Users,            \* the users of the tenant
    Workers,          \* worker containers running process_scim_push_queue
    Versions,         \* attribute versions of a user
    RowIds,           \* ids of queue rows
    RemoteIds,        \* ids the receiver mints
    MaxAttempts,      \* _MAX_ATTEMPTS of the worker
    HttpTries,        \* _MAX_ATTEMPTS of the client
    DrainLimit,       \* _TENANT_DRAIN_LIMIT
    KeysOnExternalId, \* does the receiver find a resource by WeftID's UUID?
    LossyResponses,   \* may a response be lost after the receiver acted?
    MaxChanges,       \* bound: number of user changes
    MaxCrashes        \* bound: number of worker crashes

Null == 0

\* Ids are never exhausted: there are more than users and workers can know.
ASSUME ScimConstants ==
    /\ IsFiniteSet(Users) /\ IsFiniteSet(Workers)
    /\ Null \notin RemoteIds
    /\ IsFiniteSet(RemoteIds) =>
           Cardinality(RemoteIds) > 2 * (Cardinality(Users) + Cardinality(Workers))
    /\ MaxAttempts \in Nat \ {0}
    /\ HttpTries \in Nat \ {0}
    /\ DrainLimit \in Nat \ {0}
    /\ KeysOnExternalId \in BOOLEAN
    /\ LossyResponses \in BOOLEAN
    /\ MaxChanges \in Nat
    /\ MaxCrashes \in Nat

VARIABLES
    user,      \* Users -> [ver, scope]: the state in WeftID's tables
    unsent,    \* Users -> kind -> changes committed, event not dispatched yet
    queue,     \* Users -> row of scim_push_queue, or NoRow
    fifo,      \* the queued users by enqueued_at
    enabled,   \* scim_enabled and scim_target_url of the SP
    cred,      \* what _resolve_outbound_token would return
    mapping,   \* Users -> remote id in sp_scim_remote_ids, or Null
    receiver,  \* Users -> the resource the receiver holds, or NoResource
    job,       \* Workers -> the local state of process_pending_pushes
    promise,   \* history: Users -> how the latest change was enqueued
    changes,   \* number of changes so far
    crashes    \* number of crashes so far

vars == <<user, unsent, queue, fifo, enabled, cred, mapping, receiver, job,
          promise, changes, crashes>>

NoRow == [id |-> Null, attempts |-> 0, due |-> FALSE, dead |-> FALSE]
NoResource == [id |-> Null, ver |-> Null]
IdleJob == [pc |-> "idle", batch |-> <<>>, token |-> "none", remote |-> Null,
            ver |-> Null, op |-> "none", tries |-> 0, result |-> "none",
            scimId |-> Null]

Kinds == {"self", "scope"}
Credentials == {"ok", "decrypt_failed", "none"}
Pcs == {"idle", "target", "drop", "token", "entry", "resource", "scope",
        "send", "mapping", "record"}
Results == {"none", "success", "absent", "permanent", "not_found", "retryable"}

Init ==
    /\ user \in [Users -> [ver : Versions, scope : {FALSE}]]
    /\ unsent = [u \in Users |-> [k \in Kinds |-> 0]]
    /\ queue = [u \in Users |-> NoRow]
    /\ fifo = <<>>
    /\ enabled = TRUE
    /\ cred = "ok"
    /\ mapping = [u \in Users |-> Null]
    /\ receiver = [u \in Users |-> NoResource]
    /\ job = [w \in Workers |-> IdleJob]
    /\ promise = [u \in Users |-> "none"]
    /\ changes = 0
    /\ crashes = 0

-----------------------------------------------------------------------------
(* Helpers *)

Entry(w) == Head(job[w].batch)
Holds(w, u) == \E i \in DOMAIN job[w].batch : job[w].batch[i].user = u
Held(u) == \E w \in Workers : Holds(w, u)

\* A uuid no row and no worker's list carries.
FreshRowId ==
    CHOOSE id \in RowIds :
        /\ \A u \in Users : queue[u].id # id
        /\ \A w \in Workers : \A i \in DOMAIN job[w].batch :
               job[w].batch[i].id # id

\* An id the receiver has not handed out to anyone who still knows it.
FreshRemoteId ==
    CHOOSE id \in RemoteIds :
        /\ \A u \in Users : mapping[u] # id /\ receiver[u].id # id
        /\ \A w \in Workers : job[w].remote # id /\ job[w].scimId # id

\* scim_sps_granting_user: only SPs with scim_enabled = true qualify.
InScope(u) == enabled /\ user[u].scope

\* The queue in the order of next_attempt_at, u's row taken out.
Without(u) == SelectSeq(fifo, LAMBDA v : v # u)

upsert_entry(u) ==
    /\ queue' = [queue EXCEPT ![u] =
           IF @ = NoRow
           THEN [id |-> FreshRowId, attempts |-> 0, due |-> TRUE, dead |-> FALSE]
           ELSE [@ EXCEPT !.attempts = 0, !.due = TRUE]]
    /\ fifo' = Append(Without(u), u)

delete_entry(u, id) ==
    IF queue[u].id = id
    THEN /\ queue' = [queue EXCEPT ![u] = NoRow]
         /\ fifo' = Without(u)
    ELSE UNCHANGED <<queue, fifo>>

mark_dead_letter(u, id) ==
    /\ queue' = [queue EXCEPT ![u].dead = @ \/ queue[u].id = id]
    /\ UNCHANGED fifo

\* A slip: the try is not counted.
mark_attempt_failed_Uncounted(u, id) ==
    /\ queue' = [queue EXCEPT ![u].due = @ /\ queue[u].id # id]
    /\ UNCHANGED fifo

mark_attempt_failed(u, id) ==
    /\ queue' = [queue EXCEPT ![u] =
           IF @.id = id
           THEN [queue[u] EXCEPT !.attempts = queue[u].attempts + 1, !.due = FALSE]
           ELSE @]
    /\ UNCHANGED fifo

Ready(u) == ~queue[u].dead /\ queue[u].due

Earlier(u, v) == \E i, j \in DOMAIN fifo : i < j /\ fifo[i] = u /\ fifo[j] = v

\* The oldest ready rows, in the order of enqueued_at, are those of users.
list_ready_entries(users) ==
    /\ \A i, j \in DOMAIN users : i < j => Earlier(users[i], users[j])
    /\ \A u \in Users : Ready(u) /\ (\A i \in DOMAIN users : users[i] # u) =>
           Len(users) = DrainLimit /\ \A i \in DOMAIN users : Earlier(users[i], u)

\* The loop of process_pending_pushes goes on with the next entry.
NextEntry(w, again) ==
    IF Len(job[w].batch) = 1
    THEN IdleJob
    ELSE [IdleJob EXCEPT !.pc = again, !.batch = Tail(job[w].batch),
                         !.token = job[w].token]

-----------------------------------------------------------------------------
(* The application *)

\* A service function commits a change of user u: its attributes ("self"),
\* or the grants and memberships that cover it ("scope").
Change(u, new) ==
    /\ changes < MaxChanges
    /\ new # user[u]
    /\ new.scope = user[u].scope \/ new.ver = user[u].ver
    /\ user' = [user EXCEPT ![u] = new]
    /\ unsent' = [unsent EXCEPT
           ![u][IF new.scope = user[u].scope THEN "self" ELSE "scope"] = @ + 1]
    /\ promise' = [promise EXCEPT ![u] = "none"]
    /\ changes' = changes + 1
    /\ UNCHANGED <<queue, fifo, enabled, cred, mapping, receiver, job, crashes>>

\* log_event calls scim_dispatch.  An attribute change looks up the SPs that
\* grant the user now; a scope change names the SP whatever the user's scope.
\* Both find only SCIM-enabled SPs.
scim_dispatch(u, kind) ==
    /\ unsent[u][kind] > 0
    /\ unsent' = [unsent EXCEPT ![u][kind] = @ - 1]
    /\ IF enabled /\ (kind = "self" => user[u].scope)
       THEN /\ upsert_entry(u)
            /\ promise' = [promise EXCEPT ![u] =
                               IF Held(u) THEN "overtaken" ELSE "clean"]
       ELSE UNCHANGED <<queue, fifo, promise>>
    /\ UNCHANGED <<user, enabled, cred, mapping, receiver, job, changes, crashes>>

\* The dispatch is best-effort: a failing lookup or upsert, or a crash of the
\* request between the change and its event, loses the enqueue.
DispatchLost(u, kind) ==
    /\ unsent[u][kind] > 0
    /\ unsent' = [unsent EXCEPT ![u][kind] = @ - 1]
    /\ UNCHANGED <<user, queue, fifo, enabled, cred, mapping, receiver, job,
                   promise, changes, crashes>>

\* An admin enables or disables SCIM, or sets or clears the target URL.  The
\* event scim_config_updated triggers no dispatch.
update_scim_config ==
    /\ enabled' = ~enabled
    /\ promise' = [u \in Users |-> IF enabled /\ promise[u] # "discarded"
                                   THEN "none" ELSE promise[u]]
    /\ UNCHANGED <<user, unsent, queue, fifo, cred, mapping, receiver, job,
                   changes, crashes>>

\* An admin creates, rotates or revokes the bearer credential, or the key that
\* encrypts it changes.
ChangeCredential(c) ==
    /\ c # cred
    /\ cred' = c
    /\ UNCHANGED <<user, unsent, queue, fifo, enabled, mapping, receiver, job,
                   promise, changes, crashes>>

retry_dead_lettered ==
    /\ \E u \in Users : queue[u].dead
    /\ queue' = [u \in Users |->
           IF queue[u].dead
           THEN [queue[u] EXCEPT !.dead = FALSE, !.attempts = 0, !.due = TRUE]
           ELSE queue[u]]
    /\ UNCHANGED <<user, unsent, fifo, enabled, cred, mapping, receiver, job,
                   promise, changes, crashes>>

-----------------------------------------------------------------------------
(* The worker *)

\* process_pending_pushes reads its batch once.
ListReady(w) ==
    /\ job[w].pc = "idle"
    /\ \E n \in 1 .. DrainLimit : \E users \in [1 .. n -> {u \in Users : Ready(u)}] :
        /\ list_ready_entries(users)
        /\ job' = [job EXCEPT ![w] = [IdleJob EXCEPT !.pc = "target", !.batch =
               [i \in 1 .. n |-> [user |-> users[i], id |-> queue[users[i]].id,
                                 attempts |-> queue[users[i]].attempts]]]]
    /\ UNCHANGED <<user, unsent, queue, fifo, enabled, cred, mapping, receiver,
                   promise, changes, crashes>>

\* get_scim_target: the SP's bucket is pushed or dropped as a whole.
CheckTarget(w) ==
    /\ job[w].pc = "target"
    /\ job' = [job EXCEPT ![w].pc = IF enabled THEN "token" ELSE "drop"]
    /\ UNCHANGED <<user, unsent, queue, fifo, enabled, cred, mapping, receiver,
                   promise, changes, crashes>>

_drop_orphaned_entry(w) ==
    LET e == Entry(w) IN
    /\ job[w].pc = "drop"
    /\ delete_entry(e.user, e.id)
    /\ promise' = IF queue[e.user].id = e.id
                  THEN [promise EXCEPT ![e.user] = "discarded"] ELSE promise
    /\ job' = [job EXCEPT ![w] = NextEntry(w, "drop")]
    /\ UNCHANGED <<user, unsent, enabled, cred, mapping, receiver, changes, crashes>>

ResolveToken(w) ==
    /\ job[w].pc = "token"
    /\ job' = [job EXCEPT ![w].pc = "entry", ![w].token = cred]
    /\ UNCHANGED <<user, unsent, queue, fifo, enabled, cred, mapping, receiver,
                   promise, changes, crashes>>

\* _process_entry without a usable token dead-letters at once; otherwise
\* _dispatch_user begins with the remote id of the user.
_process_entry(w) ==
    LET e == Entry(w) IN
    /\ job[w].pc = "entry"
    /\ IF job[w].token # "ok"
       THEN /\ mark_dead_letter(e.user, e.id)
            /\ job' = [job EXCEPT ![w] = NextEntry(w, "entry")]
       ELSE /\ job' = [job EXCEPT ![w].pc = "resource",
                                  ![w].remote = mapping[e.user]]
            /\ UNCHANGED <<queue, fifo>>
    /\ UNCHANGED <<user, unsent, enabled, cred, mapping, receiver, promise,
                   changes, crashes>>

\* get_user_with_primary_email: the attributes of the payload.
ReadUser(w) ==
    /\ job[w].pc = "resource"
    /\ job' = [job EXCEPT ![w].pc = "scope", ![w].ver = user[Entry(w).user].ver]
    /\ UNCHANGED <<user, unsent, queue, fifo, enabled, cred, mapping, receiver,
                   promise, changes, crashes>>

\* _user_in_scope_for_sp chooses between DELETE, PUT and POST.
ReadScope(w) ==
    /\ job[w].pc = "scope"
    /\ job' = [job EXCEPT ![w].pc = "send",
           ![w].op = CASE ~InScope(Entry(w).user) -> "DELETE"
                       [] InScope(Entry(w).user) /\ job[w].remote # Null -> "PUT"
                       [] OTHER -> "POST"]
    /\ UNCHANGED <<user, unsent, queue, fifo, enabled, cred, mapping, receiver,
                   promise, changes, crashes>>

\* An exception inside _dispatch_push before the request counts as retryable.
DispatchRaises(w) ==
    /\ job[w].pc \in {"resource", "scope"}
    /\ job' = [job EXCEPT ![w].pc = "record", ![w].result = "retryable"]
    /\ UNCHANGED <<user, unsent, queue, fifo, enabled, cred, mapping, receiver,
                   promise, changes, crashes>>

\* Does the request of w name the resource the receiver holds?
Matches(w) ==
    LET r == receiver[Entry(w).user] IN
    /\ r # NoResource
    /\ r.id = job[w].remote \/ (job[w].remote = Null /\ KeysOnExternalId)

\* What the receiver answers (external): user names are unique, so a second
\* POST is a 409; PUT and DELETE of an unknown id are a 404.
Answer(w) ==
    CASE job[w].op = "POST" ->
             IF receiver[Entry(w).user] = NoResource THEN "success" ELSE "permanent"
      [] job[w].op = "PUT" -> IF Matches(w) THEN "success" ELSE "not_found"
      [] OTHER -> IF Matches(w) THEN "success" ELSE "absent"

\* What the request leaves at the receiver (external).
Applied(w) ==
    LET u == Entry(w).user IN
    IF Answer(w) # "success" THEN receiver[u]
    ELSE CASE job[w].op = "POST" -> [id |-> FreshRemoteId, ver |-> job[w].ver]
           [] job[w].op = "PUT" -> [receiver[u] EXCEPT !.ver = job[w].ver]
           [] OTHER -> NoResource

\* One try of _send_with_retry that brings an answer other than 5xx and 429.
Answered(w) ==
    /\ job[w].pc = "send"
    /\ receiver' = [receiver EXCEPT ![Entry(w).user] = Applied(w)]
    /\ job' = [job EXCEPT ![w].pc = "mapping", ![w].result = Answer(w),
           ![w].scimId = IF Answer(w) = "success" /\ job[w].op = "POST"
                         THEN FreshRemoteId ELSE Null]
    /\ UNCHANGED <<user, unsent, queue, fifo, enabled, cred, mapping, promise,
                   changes, crashes>>

\* The receiver refuses the request with another 4xx.
Refused(w) ==
    /\ job[w].pc = "send"
    /\ job' = [job EXCEPT ![w].pc = "mapping", ![w].result = "permanent"]
    /\ UNCHANGED <<user, unsent, queue, fifo, enabled, cred, mapping, receiver,
                   promise, changes, crashes>>

\* One try fails: 5xx, 429 or a network error.  The receiver may have acted.
TryFails(w) ==
    /\ job[w].pc = "send"
    /\ \/ UNCHANGED receiver
       \/ /\ LossyResponses
          /\ receiver' = [receiver EXCEPT ![Entry(w).user] = Applied(w)]
    /\ job' = [job EXCEPT ![w] =
           IF job[w].tries + 1 < HttpTries
           THEN [job[w] EXCEPT !.tries = job[w].tries + 1]
           ELSE [job[w] EXCEPT !.pc = "mapping", !.result = "retryable"]]
    /\ UNCHANGED <<user, unsent, queue, fifo, enabled, cred, mapping, promise,
                   changes, crashes>>

\* The end of _dispatch_user: record_mapping after a POST, or
\* _handle_404_invalidation, which turns a PUT's 404 into a retry.
KeepMapping(w) ==
    LET u == Entry(w).user
        gone == \/ job[w].result = "not_found"
                \/ job[w].result = "absent" /\ job[w].remote # Null
    IN
    /\ job[w].pc = "mapping"
    /\ mapping' = [mapping EXCEPT ![u] =
           CASE job[w].scimId # Null -> job[w].scimId
             [] job[w].scimId = Null /\ gone -> Null
             [] OTHER -> @]
    /\ job' = [job EXCEPT ![w].pc = "record", ![w].scimId = Null,
           ![w].result = IF @ = "not_found" THEN "retryable" ELSE @]
    /\ UNCHANGED <<user, unsent, queue, fifo, enabled, cred, receiver, promise,
                   changes, crashes>>

\* Slips: a failure that drops the row, a limit off by one.
RecordWith(w, onFailure(_, _)) ==
    LET e == Entry(w) IN
    /\ job[w].pc = "record"
    /\ CASE job[w].result \in {"success", "absent"} -> delete_entry(e.user, e.id)
         [] job[w].result = "permanent" -> mark_dead_letter(e.user, e.id)
         [] OTHER -> onFailure(e.user, e.id)
    /\ job' = [job EXCEPT ![w] = NextEntry(w, "entry")]
    /\ UNCHANGED <<user, unsent, enabled, cred, mapping, receiver, promise,
                   changes, crashes>>

Record_DropsFailures(w) == RecordWith(w, delete_entry)

\* The queue mutation that ends an entry.
Record(w) ==
    LET e == Entry(w) IN
    /\ job[w].pc = "record"
    /\ CASE job[w].result \in {"success", "absent"} -> delete_entry(e.user, e.id)
         [] job[w].result = "permanent" -> mark_dead_letter(e.user, e.id)
         [] OTHER -> IF e.attempts + 1 >= MaxAttempts
                     THEN mark_dead_letter(e.user, e.id)
                     ELSE mark_attempt_failed(e.user, e.id)
    /\ job' = [job EXCEPT ![w] = NextEntry(w, "entry")]
    /\ UNCHANGED <<user, unsent, enabled, cred, mapping, receiver, promise,
                   changes, crashes>>

\* The worker container stops, or a database call outside the try fails.
Crash(w) ==
    /\ job[w].pc # "idle"
    /\ crashes < MaxCrashes
    /\ crashes' = crashes + 1
    /\ job' = [job EXCEPT ![w] = IdleJob]
    /\ UNCHANGED <<user, unsent, queue, fifo, enabled, cred, mapping, receiver,
                   promise, changes>>

-----------------------------------------------------------------------------
(* The environment *)

BackoffElapses(u) ==
    /\ queue[u] # NoRow /\ ~queue[u].due
    /\ queue' = [queue EXCEPT ![u].due = TRUE]
    /\ UNCHANGED <<user, unsent, fifo, enabled, cred, mapping, receiver, job,
                   promise, changes, crashes>>

\* Someone deletes the user in the downstream application.
ReceiverDeletes(u) ==
    /\ receiver[u] # NoResource
    /\ receiver' = [receiver EXCEPT ![u] = NoResource]
    /\ promise' = [promise EXCEPT ![u] = "none"]
    /\ UNCHANGED <<user, unsent, queue, fifo, enabled, cred, mapping, job,
                   changes, crashes>>

Application ==
    \/ \E u \in Users, v \in Versions, s \in BOOLEAN :
           Change(u, [ver |-> v, scope |-> s])
    \/ \E u \in Users, k \in Kinds : scim_dispatch(u, k) \/ DispatchLost(u, k)
    \/ update_scim_config
    \/ \E c \in Credentials : ChangeCredential(c)
    \/ retry_dead_lettered

Work(w) ==
    \/ ListReady(w) \/ CheckTarget(w) \/ _drop_orphaned_entry(w)
    \/ ResolveToken(w) \/ _process_entry(w) \/ ReadUser(w) \/ ReadScope(w)
    \/ DispatchRaises(w) \/ Answered(w) \/ Refused(w) \/ TryFails(w)
    \/ KeepMapping(w) \/ Record(w)

Next ==
    \/ Application
    \/ \E w \in Workers : Work(w) \/ Crash(w)
    \/ \E u \in Users : BackoffElapses(u) \/ ReceiverDeletes(u)

Spec == Init /\ [][Next]_vars
\* Worker containers keep polling; a request, a backoff and a pass of the
\* worker loop end.  Nothing is assumed of admins, changes or the receiver.
Fairness ==
    /\ \A w \in Workers : WF_vars(Work(w))
    /\ \A u \in Users : WF_vars(BackoffElapses(u))

FairSpec == Spec /\ Fairness

-----------------------------------------------------------------------------
(* Properties *)

Entries == [user : Users, id : RowIds, attempts : Nat]
Jobs == [pc : Pcs, batch : Seq(Entries), token : Credentials,
         remote : RemoteIds \cup {Null}, ver : Versions \cup {Null},
         op : {"none", "DELETE", "PUT", "POST"}, tries : 0 .. HttpTries - 1,
         result : Results, scimId : RemoteIds \cup {Null}]

\* Every variable has its type, a queued user is in the enqueued_at order
\* exactly once, and a worker that is busy has an entry in hand.
TypeOK ==
    /\ user \in [Users -> [ver : Versions, scope : BOOLEAN]]
    /\ unsent \in [Users -> [Kinds -> 0 .. MaxChanges]]
    /\ queue \in [Users -> [id : RowIds \cup {Null}, attempts : Nat,
                            due : BOOLEAN, dead : BOOLEAN]]
    /\ fifo \in Seq(Users)
    /\ enabled \in BOOLEAN
    /\ cred \in Credentials
    /\ mapping \in [Users -> RemoteIds \cup {Null}]
    /\ receiver \in [Users -> [id : RemoteIds \cup {Null}, ver : Versions \cup {Null}]]
    /\ job \in [Workers -> Jobs]
    /\ promise \in [Users -> {"none", "clean", "overtaken", "discarded"}]
    /\ changes \in 0 .. MaxChanges
    /\ crashes \in 0 .. MaxCrashes
    /\ \A u \in Users : queue[u].id # Null <=> \E i \in DOMAIN fifo : fifo[i] = u
    /\ \A i, j \in DOMAIN fifo : fifo[i] = fifo[j] => i = j
    /\ \A w \in Workers : job[w].pc # "idle" <=> job[w].batch # <<>>

\* The receiver holds what WeftID wants it to hold.
Settled(u) ==
    IF user[u].scope THEN receiver[u].id # Null /\ receiver[u].ver = user[u].ver
                     ELSE receiver[u] = NoResource

\* "Last state wins": once the latest change of a user has been enqueued while
\* no worker had an entry of that user in hand, the receiver has that state or
\* a queue row (perhaps dead-lettered) still stands for it.  The one worker
\* may crash anywhere, lose responses and meet a 404.
LastStateWins ==
    \A u \in Users : promise[u] = "clean" /\ ~Settled(u) => queue[u] # NoRow

\* Every row that is ready or backing off is eventually pushed, dropped or
\* dead-lettered, or gets a fresh start from a later change or a revival.
EveryRowFinishes ==
    \A u \in Users :
        (queue[u] # NoRow /\ ~queue[u].dead) ~> (queue[u] = NoRow \/ queue[u].dead)

-----------------------------------------------------------------------------
(* What the comments and the documentation say *)

\* list_ready_entries: two worker containers never have the same row in hand.
NoSharedRow ==
    \A v, w \in Workers : v # w =>
        \A i \in DOMAIN job[v].batch, j \in DOMAIN job[w].batch :
            job[v].batch[i].id # job[w].batch[j].id

\* worker: the latest enqueued state wins, whenever it was enqueued.
AutomaticLastState ==
    \A u \in Users :
        promise[u] \in {"clean", "overtaken"} /\ ~Settled(u) => queue[u] # NoRow

\* worker: a config change that enables SCIM again re-enqueues what the worker
\* discarded while it was disabled.
ConfigChangeReenqueues ==
    [][~enabled /\ enabled' =>
           \A u \in Users : promise[u] = "discarded" /\ ~Settled(u)
                                => queue'[u] # NoRow]_vars

\* scim.md: a DELETE is decided for users whom the grants do not cover.
DeprovisionOnlyOutOfScope ==
    [][\A w \in Workers :
           job[w].pc = "scope" /\ job'[w].pc = "send" /\ job'[w].op = "DELETE"
               => ~user[Entry(w).user].scope]_vars
=============================================================================
