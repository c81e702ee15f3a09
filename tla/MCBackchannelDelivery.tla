----------------------- MODULE MCBackchannelDelivery -----------------------
(* Back-channel delivery for model checking.  The schedule grows as the      *)
(* code's does (30, 120, ... seconds against a lease of 120), and a batch of *)
(* two deliveries of one unit each is shorter than the lease of three, as    *)
(* ten deliveries of ten seconds are shorter than 120 seconds.               *)
(*                                                                           *)
(* Beside it the other queue that two workers share, the SCIM pushes, with   *)
(* one user and a credential that stays; a behaviour is about one queue.     *)
EXTENDS BackchannelDelivery, TLC

CONSTANTS u1, v1, MaxTries, MaxChanges

VARIABLES
    scenario,
    user, unsent, queue, fifo, enabled, cred, mapping, receiver, job, promise, changes, died

pushVars == <<user, unsent, queue, fifo, enabled, cred, mapping, receiver, job, promise, changes, died>>

Pushes == INSTANCE ScimPushQueue WITH
    Users <- {u1}, Versions <- {v1}, RowIds <- 1..2, RemoteIds <- 1..3, HttpTries <- 1,
    MaxAttempts <- MaxTries, DrainLimit <- 1, KeysOnExternalId <- TRUE, LossyResponses <- FALSE, MaxCrashes <- 0,
    crashes <- died

Retries == <<1, 4>>

MCInit ==
    /\ scenario \in {"logouts", "pushes"}
    /\ Init /\ Pushes!Init

MCNext ==
    /\ scenario' = scenario
    /\ \/ scenario = "logouts" /\ Next /\ UNCHANGED pushVars
       \/ scenario = "pushes" /\ Pushes!Next /\ UNCHANGED <<vars, cred>>

(* The workers go on, and so does the clock.                                 *)
MCSpec ==
    /\ MCInit /\ [][MCNext]_<<scenario, vars, pushVars>>
    /\ WF_vars(scenario = "logouts" /\ Tick)
    /\ \A w \in Workers : WF_vars(scenario = "logouts" /\ Deliver(w))
    /\ \A w \in Workers : WF_pushVars(scenario = "pushes" /\ Pushes!Work(w))
    /\ WF_pushVars(scenario = "pushes" /\ Pushes!BackoffElapses(u1))

(* Every push that is ready or backing off is eventually sent, dropped or    *)
(* dead-lettered, or starts anew (_record_retry_or_dead_letter).             *)
EveryRowFinishes ==
    (queue[u1] # Pushes!NoRow /\ ~queue[u1].dead) ~> (queue[u1] = Pushes!NoRow \/ queue[u1].dead)
=============================================================================
