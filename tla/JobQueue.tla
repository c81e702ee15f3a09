------------------------------ MODULE JobQueue ------------------------------
(***************************************************************************)
(* What the background jobs promise whoever submits them: a job is started *)
(* at most once and, as long as there are workers, at some time; a         *)
(* completed job has reported on each of its items; a job is not removed   *)
(* before it has ended.  How many workers there are, in which steps they   *)
(* work and which of them crash is left to BackgroundJobs.                 *)
(***************************************************************************)
CONSTANTS
    Jobs,         \* jobs that may be submitted
    Items,        \* what a job may be about
    Outcomes,     \* what it may report of an item
    None

VARIABLES
    state,        \* Jobs -> how far the job has come
    items,        \* Jobs -> the items it was submitted with
    report        \* Jobs -> None, or what became of each item

vars == <<state, items, report>>

Init ==
    /\ state = [j \in Jobs |-> "new"]
    /\ items = [j \in Jobs |-> {}]
    /\ report = [j \in Jobs |-> None]

Submit(j) ==
    /\ state[j] = "new"
    /\ state' = [state EXCEPT ![j] = "pending"]
    /\ \E s \in SUBSET Items : items' = [items EXCEPT ![j] = s]
    /\ UNCHANGED report

Start(j) ==
    /\ state[j] = "pending"
    /\ state' = [state EXCEPT ![j] = "processing"]
    /\ UNCHANGED <<items, report>>

Complete(j) ==
    /\ state[j] = "processing"
    /\ state' = [state EXCEPT ![j] = "completed"]
    /\ \E r \in [items[j] -> Outcomes] : report' = [report EXCEPT ![j] = r]
    /\ UNCHANGED items

Fail(j) ==
    /\ state[j] = "processing"
    /\ state' = [state EXCEPT ![j] = "failed"]
    /\ UNCHANGED <<items, report>>

(* Several at once.                                                        *)
Remove(gone) ==
    /\ \A j \in gone : state[j] \in {"completed", "failed"}
    /\ state' = [j \in Jobs |-> IF j \in gone THEN "deleted" ELSE state[j]]
    /\ UNCHANGED <<items, report>>

Next ==
    \/ \E j \in Jobs : Submit(j) \/ Start(j) \/ Complete(j) \/ Fail(j)
    \/ \E gone \in SUBSET Jobs : Remove(gone)

Safe == Init /\ [][Next]_vars

Spec == Safe /\ \A j \in Jobs : WF_vars(Start(j))

=============================================================================
