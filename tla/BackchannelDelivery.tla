------------------------ MODULE BackchannelDelivery ------------------------
(***************************************************************************)
(* Delivery of OIDC back-channel logout tokens: workers lease due rows of  *)
(* oidc_backchannel_logout_deliveries in batches, POST a logout token for  *)
(* each and record the outcome (services/oidc/backchannel.py over          *)
(* database/oauth2/backchannel.py).                                        *)
(*                                                                         *)
(* Times are countdowns: wait[d] is how long until next_attempt_at, and    *)
(* left[w] how long worker w may still spend on the delivery it is at.     *)
(* Tick moves the clock and is held back while some worker has no time     *)
(* left, which is how DELIVERY_BUDGET_SECONDS bounds one delivery.         *)
(***************************************************************************)
EXTENDS Naturals, Sequences, FiniteSets

CONSTANTS
    Deliveries,     \* the rows, one per (session, client) that was ended
    Workers,        \* worker containers
    BatchSize,      \* BATCH_SIZE
    StepTime,       \* DELIVERY_BUDGET_SECONDS and the bookkeeping of one delivery
    Lease,          \* LEASE_SECONDS
    RetrySchedule,  \* RETRY_SCHEDULE
    None,           \* no delivery
    MaxCrashes      \* bound: number of worker crashes

MaxAttempts == 1 + Len(RetrySchedule)

ASSUME DeliveryConstants ==
    /\ IsFiniteSet(Deliveries)
    /\ BatchSize \in Nat \ {0}
    /\ StepTime \in Nat
    /\ Lease \in Nat
    /\ RetrySchedule \in Seq(Nat)
    /\ MaxCrashes \in Nat
    /\ None \notin Deliveries

VARIABLES
    status,    \* Deliveries -> "none" before it is queued, or the status column
    attempts,  \* Deliveries -> the attempts column
    wait,      \* Deliveries -> time until next_attempt_at
    eligible,  \* Deliveries -> does the client still take part?
    batch,     \* Workers -> deliveries claimed and not finished
    claimed,   \* Workers -> Deliveries -> attempts and eligible as claimed
    pc,        \* Workers -> "idle", "next", "sending", or what the send returned
    at,        \* Workers -> the delivery being attempted
    left,      \* Workers -> time left for this delivery
    sends,     \* history: Deliveries -> requests sent
    crashes    \* number of crashes so far

vars == <<status, attempts, wait, eligible, batch, claimed, pc, at, left,
          sends, crashes>>

Outcomes == {"ok", "permanent", "temporary"}

Init ==
    /\ status = [d \in Deliveries |-> "none"]
    /\ attempts = [d \in Deliveries |-> 0]
    /\ wait = [d \in Deliveries |-> 0]
    /\ eligible = [d \in Deliveries |-> TRUE]
    /\ batch = [w \in Workers |-> {}]
    /\ claimed = [w \in Workers |->
                     [d \in Deliveries |-> [attempts |-> 0, eligible |-> FALSE]]]
    /\ pc = [w \in Workers |-> "idle"]
    /\ at = [w \in Workers |-> None]
    /\ left = [w \in Workers |-> 0]
    /\ sends = [d \in Deliveries |-> 0]
    /\ crashes = 0

-----------------------------------------------------------------------------
\* consume_session_clients inserts the row: pending, due at once.
QueueDelivery(d) ==
    /\ status[d] = "none"
    /\ status' = [status EXCEPT ![d] = "pending"]
    /\ UNCHANGED <<attempts, wait, eligible, batch, claimed, pc, at, left, sends, crashes>>

\* An admin deactivates the client, disables OIDC for it, removes its logout
\* URI, or undoes that.
ChangeClient(d) ==
    /\ eligible' = [eligible EXCEPT ![d] = ~@]
    /\ UNCHANGED <<status, attempts, wait, batch, claimed, pc, at, left, sends, crashes>>

\* A slip: a row that was tried once is not selected again.
Due_FirstTryOnly ==
    {d \in Deliveries : status[d] = "pending" /\ wait[d] = 0 /\ attempts[d] = 0}

Due == {d \in Deliveries : status[d] = "pending" /\ wait[d] = 0}

\* A slip the checks must notice: selecting without leasing.
claim_due_deliveries_NoLease(w) ==
    /\ pc[w] = "idle"
    /\ \E S \in (SUBSET Due) \ {{}} :
        /\ Cardinality(S) = BatchSize \/ (S = Due /\ Cardinality(Due) <= BatchSize)
        /\ batch' = [batch EXCEPT ![w] = S]
        /\ claimed' = [claimed EXCEPT ![w] = [d \in Deliveries |->
               IF d \in S THEN [attempts |-> attempts[d], eligible |-> eligible[d]]
                          ELSE claimed[w][d]]]
    /\ pc' = [pc EXCEPT ![w] = "next"]
    /\ left' = [left EXCEPT ![w] = StepTime]
    /\ UNCHANGED <<status, attempts, wait, eligible, at, sends, crashes>>

\* claim_due_deliveries: up to BatchSize due rows, leased by the statement
\* that selects them.  All due rows have waited to the end, so which of them
\* the limit keeps is left open; the order of the returned rows is arbitrary.
claim_due_deliveries(w) ==
    /\ pc[w] = "idle"
    /\ \E S \in (SUBSET Due) \ {{}} :
        /\ Cardinality(S) = BatchSize \/ (S = Due /\ Cardinality(Due) <= BatchSize)
        /\ wait' = [d \in Deliveries |-> IF d \in S THEN Lease ELSE wait[d]]
        /\ batch' = [batch EXCEPT ![w] = S]
        /\ claimed' = [claimed EXCEPT ![w] = [d \in Deliveries |->
               IF d \in S THEN [attempts |-> attempts[d], eligible |-> eligible[d]]
                          ELSE claimed[w][d]]]
    /\ pc' = [pc EXCEPT ![w] = "next"]
    /\ left' = [left EXCEPT ![w] = StepTime]
    /\ UNCHANGED <<status, attempts, eligible, at, sends, crashes>>

\* A delivery of the batch is done; the worker goes to the next one.
Done(w, d) ==
    /\ batch' = [batch EXCEPT ![w] = @ \ {d}]
    /\ at' = [at EXCEPT ![w] = None]
    /\ claimed' = [claimed EXCEPT ![w][d] = [attempts |-> 0, eligible |-> FALSE]]
    /\ IF batch[w] = {d}
       THEN /\ pc' = [pc EXCEPT ![w] = "idle"]
            /\ left' = [left EXCEPT ![w] = 0]
       ELSE /\ pc' = [pc EXCEPT ![w] = "next"]
            /\ left' = [left EXCEPT ![w] = StepTime]

\* _deliver_one for a client that no longer takes part: closed, not attempted.
SkipDelivery(w, d) ==
    /\ pc[w] = "next"
    /\ d \in batch[w]
    /\ ~claimed[w][d].eligible
    /\ status' = [status EXCEPT ![d] = IF @ = "pending" THEN "failed" ELSE @]
    /\ Done(w, d)
    /\ UNCHANGED <<attempts, wait, eligible, sends, crashes>>

\* _send: the logout token goes out.
Send(w, d) ==
    /\ pc[w] = "next"
    /\ d \in batch[w]
    /\ claimed[w][d].eligible
    /\ pc' = [pc EXCEPT ![w] = "sending"]
    /\ at' = [at EXCEPT ![w] = d]
    /\ sends' = [sends EXCEPT ![d] = @ + 1]
    /\ UNCHANGED <<status, attempts, wait, eligible, batch, claimed, left, crashes>>

\* The relying party answers 2xx, or a 4xx other than 408 and 429; or it
\* answers otherwise, is unreachable, or the budget runs out.
SendReturns(w, outcome) ==
    /\ pc[w] = "sending"
    /\ pc' = [pc EXCEPT ![w] = outcome]
    /\ UNCHANGED <<status, attempts, wait, eligible, batch, claimed, at, left, sends, crashes>>

\* A slip: the attempt is not counted.
mark_retry_Uncounted(d, attempt) ==
    /\ wait' = [wait EXCEPT ![d] =
           IF status[d] = "pending" THEN RetrySchedule[attempt] ELSE @]
    /\ UNCHANGED <<status, attempts>>

mark_retry(d, attempt) ==
    IF status[d] = "pending"
    THEN /\ attempts' = [attempts EXCEPT ![d] = @ + 1]
         /\ wait' = [wait EXCEPT ![d] = RetrySchedule[attempt]]
         /\ UNCHANGED status
    ELSE UNCHANGED <<status, attempts, wait>>

\* mark_delivered and mark_failed count the attempt and close the row.
MarkFinished(d, final) ==
    /\ IF status[d] = "pending"
       THEN /\ status' = [status EXCEPT ![d] = final]
            /\ attempts' = [attempts EXCEPT ![d] = @ + 1]
       ELSE UNCHANGED <<status, attempts>>
    /\ UNCHANGED wait

\* The end of _deliver_one.
RecordOutcome(w) ==
    LET d == at[w]
        attempt == claimed[w][d].attempts + 1
    IN
    /\ pc[w] \in Outcomes
    /\ CASE pc[w] = "ok" -> MarkFinished(d, "delivered")
         [] pc[w] = "permanent" \/ (pc[w] = "temporary" /\ attempt >= MaxAttempts) ->
                MarkFinished(d, "failed")
         [] OTHER -> mark_retry(d, attempt)
    /\ Done(w, d)
    /\ UNCHANGED <<eligible, sends, crashes>>

\* The worker dies, or an exception (signing, a database call) ends the pass.
Crash(w) ==
    /\ pc[w] # "idle"
    /\ crashes < MaxCrashes
    /\ crashes' = crashes + 1
    /\ pc' = [pc EXCEPT ![w] = "idle"]
    /\ batch' = [batch EXCEPT ![w] = {}]
    /\ claimed' = [claimed EXCEPT ![w] =
           [d \in Deliveries |-> [attempts |-> 0, eligible |-> FALSE]]]
    /\ at' = [at EXCEPT ![w] = None]
    /\ left' = [left EXCEPT ![w] = 0]
    /\ UNCHANGED <<status, attempts, wait, eligible, sends>>

Tick ==
    /\ \A w \in Workers : pc[w] # "idle" => left[w] > 0
    /\ \/ \E d \in Deliveries : status[d] = "pending" /\ wait[d] > 0
       \/ \E w \in Workers : pc[w] # "idle"
    /\ wait' = [d \in Deliveries |-> IF wait[d] > 0 THEN wait[d] - 1 ELSE 0]
    /\ left' = [w \in Workers |-> IF left[w] > 0 THEN left[w] - 1 ELSE 0]
    /\ UNCHANGED <<status, attempts, eligible, batch, claimed, pc, at, sends, crashes>>

Deliver(w) ==
    \/ claim_due_deliveries(w)
    \/ \E d \in Deliveries : SkipDelivery(w, d) \/ Send(w, d)
    \/ \E o \in Outcomes : SendReturns(w, o)
    \/ RecordOutcome(w)

Next ==
    \/ \E d \in Deliveries : QueueDelivery(d) \/ ChangeClient(d)
    \/ \E w \in Workers : Deliver(w) \/ Crash(w)
    \/ Tick

Spec == Init /\ [][Next]_vars

\* The worker loop polls for ever, every call it makes returns, time passes.
FairSpec == Spec /\ WF_vars(Tick) /\ \A w \in Workers : WF_vars(Deliver(w))

-----------------------------------------------------------------------------
(* Properties *)

\* The columns and the workers' variables have their types; a worker that
\* attempts a delivery has claimed it.
TypeOK ==
    /\ status \in [Deliveries -> {"none", "pending", "delivered", "failed"}]
    /\ attempts \in [Deliveries -> Nat]
    /\ wait \in [Deliveries -> Nat]
    /\ eligible \in [Deliveries -> BOOLEAN]
    /\ batch \in [Workers -> SUBSET Deliveries]
    /\ claimed \in [Workers -> [Deliveries -> [attempts : Nat, eligible : BOOLEAN]]]
    /\ pc \in [Workers -> {"idle", "next", "sending"} \cup Outcomes]
    /\ at \in [Workers -> Deliveries \cup {None}]
    /\ left \in [Workers -> 0 .. StepTime]
    /\ sends \in [Deliveries -> Nat]
    /\ crashes \in 0 .. MaxCrashes
    /\ \A w \in Workers :
        /\ pc[w] = "idle" <=> batch[w] = {}
        /\ pc[w] \in {"sending"} \cup Outcomes => at[w] \in batch[w]

\* "Two workers never send the same delivery": while a worker has a delivery
\* of its batch before it, no other worker claims it, because the lease
\* outlasts the whole batch.
NoSharedDelivery ==
    \A v, w \in Workers : v # w => batch[v] \cap batch[w] = {}

\* A pending delivery has tries left, and the retry schedule is never read
\* past its end: the counter the worker compares is the one in the row.
AttemptsLeft ==
    /\ \A d \in Deliveries : status[d] = "pending" => attempts[d] < MaxAttempts
    /\ \A w \in Workers : pc[w] \in {"sending"} \cup Outcomes =>
           claimed[w][at[w]].attempts = attempts[at[w]]

\* The relying party sees no request beyond the attempts the row counts, the
\* one in flight, and one for each crash of a worker.
SendsAccounted ==
    \A d \in Deliveries :
        sends[d] <= attempts[d] + crashes
            + (IF \E w \in Workers : at[w] = d THEN 1 ELSE 0)

\* Every queued logout is eventually delivered or given up, whatever the
\* relying party answers and although workers crash.
EveryDeliveryFinishes ==
    \A d \in Deliveries :
        status[d] = "pending" ~> status[d] \in {"delivered", "failed"}
=============================================================================
