--------------------- MODULE BackchannelDelivery_proofs ---------------------
(***************************************************************************)
(* If a whole batch takes less time than the lease, then no two workers    *)
(* ever have the same delivery before them, the counters the workers act   *)
(* on are the ones in the rows, and every request sent is accounted for:   *)
(* for any number of deliveries, workers and crashes and any schedule.     *)
(***************************************************************************)
EXTENDS BackchannelDelivery, FiniteSetTheorems, TLAPS

LeaseOutlastsBatch == BatchSize * StepTime < Lease

Attempting(w) == pc[w] \in {"sending"} \cup Outcomes

(* The time worker w may still need for all that is left of its batch.     *)
Owed(w) == left[w] + (Cardinality(batch[w]) - 1) * StepTime

(* The lease of each delivery of a batch runs longer than the batch, and   *)
(* the row is as the worker found it.                                      *)
LeaseInv == \A w \in Workers :
    /\ IsFiniteSet(batch[w])
    /\ \A d \in batch[w] : /\ status[d] = "pending"
                           /\ wait[d] > Owed(w)
                           /\ claimed[w][d].attempts = attempts[d]

AtInv == \A w \in Workers : IF Attempting(w) THEN at[w] \in batch[w] ELSE at[w] = None

PendingInv == \A d \in Deliveries :
    status[d] \in {"none", "pending"} => attempts[d] < MaxAttempts

Inv == TypeOK /\ LeaseInv /\ NoSharedDelivery /\ AtInv /\ PendingInv /\ SendsAccounted

(* Products of naturals are monotonic.                                     *)
LEMMA Products ==
  /\ \A m, n, k \in Nat : m <= n => m * k <= n * k
  /\ \A m \in Int, k \in Nat : (m - 1) * k + k = m * k
  /\ \A m, k \in Nat : m * k \in Nat
OBVIOUS

(* What is owed for a batch is a natural number.                           *)
LEMMA OwedNat ==
  ASSUME TypeOK, LeaseInv, NEW w \in Workers, batch[w] # {}
  PROVE  Owed(w) \in Nat /\ Cardinality(batch[w]) \in Nat \ {0}
<1>1. /\ Cardinality(batch[w]) \in Nat
      /\ Cardinality(batch[w]) # 0
  BY Zenon, FS_EmptySet, FS_CardinalityType DEF LeaseInv
<1>2. /\ left[w] \in Nat /\ StepTime \in Nat
  BY DeliveryConstants DEF TypeOK
<1>3. Cardinality(batch[w]) - 1 \in Nat
  BY <1>1
<1> QED
  BY <1>1, <1>2, <1>3, Products DEF Owed

(* The length of the schedule bounds the attempts.                         *)
LEMMA MaxAttemptsNat == MaxAttempts \in Nat \ {0}
BY DeliveryConstants DEF MaxAttempts

(* The retry schedule is read inside its bounds.                           *)
LEMMA ScheduleRead ==
  ASSUME NEW n \in Nat, n + 1 < MaxAttempts
  PROVE  RetrySchedule[n + 1] \in Nat
<1>1. n + 1 \in 1 .. Len(RetrySchedule)
  BY DeliveryConstants DEF MaxAttempts
<1> QED
  BY <1>1, DeliveryConstants

(* No row is leased and no worker has a batch at the start.                *)
LEMMA InitInv == Init => Inv
<1> SUFFICES ASSUME Init PROVE Inv
  BY Zenon
<1>1. TypeOK
  BY DeliveryConstants DEF Init, TypeOK, Outcomes
<1>2. LeaseInv
  BY Zenon, FS_EmptySet DEF Init, LeaseInv
<1>3. NoSharedDelivery /\ AtInv /\ PendingInv
  BY MaxAttemptsNat DEF Init, NoSharedDelivery, AtInv, Attempting, Outcomes, PendingInv
<1>4. SendsAccounted
  BY DeliveryConstants DEF Init, SendsAccounted
<1> QED
  BY Zenon, <1>1, <1>2, <1>3, <1>4 DEF Inv

(* Queueing a delivery, a change to the client, an answer that comes back   *)
(* and a stuttering step leave every lease as it was.                      *)
LEMMA QuietSteps ==
  ASSUME Inv,
         \/ \E d \in Deliveries : QueueDelivery(d) \/ ChangeClient(d)
         \/ \E w \in Workers : \E o \in Outcomes : SendReturns(w, o)
         \/ UNCHANGED vars
  PROVE  Inv'
<1> USE DEF Inv, TypeOK
<1>1. ASSUME NEW d \in Deliveries, QueueDelivery(d) PROVE Inv'
  <2>1. TypeOK'
    BY Zenon, <1>1 DEF QueueDelivery
  <2>2. LeaseInv'
    BY <1>1 DEF QueueDelivery, LeaseInv, Owed
  <2>3. (NoSharedDelivery /\ AtInv /\ SendsAccounted)'
    BY Zenon, <1>1 DEF QueueDelivery, NoSharedDelivery, AtInv, Attempting, SendsAccounted
  <2>4. PendingInv'
    BY Zenon, <1>1 DEF QueueDelivery, PendingInv
  <2> QED BY Zenon, <2>1, <2>2, <2>3, <2>4
<1>2. ASSUME NEW d \in Deliveries, ChangeClient(d) PROVE Inv'
  <2>1. TypeOK'
    BY Zenon, <1>2 DEF ChangeClient
  <2> QED
    BY <1>2, <2>1 DEF ChangeClient, LeaseInv, Owed, NoSharedDelivery, AtInv, Attempting,
        SendsAccounted, PendingInv
<1>3. ASSUME NEW w \in Workers, NEW o \in Outcomes, SendReturns(w, o) PROVE Inv'
  <2>1. TypeOK'
    BY Zenon, <1>3 DEF SendReturns, Outcomes
  <2>2. AtInv'
    BY Zenon, <1>3 DEF SendReturns, AtInv, Attempting, Outcomes
  <2>3. (LeaseInv /\ NoSharedDelivery)'
    BY <1>3 DEF SendReturns, LeaseInv, Owed, NoSharedDelivery
  <2>4. (SendsAccounted /\ PendingInv)'
    BY Zenon, <1>3 DEF SendReturns, SendsAccounted, PendingInv
  <2> QED BY Zenon, <2>1, <2>2, <2>3, <2>4
<1>4. CASE UNCHANGED vars
  BY <1>4 DEF vars, LeaseInv, Owed, NoSharedDelivery, AtInv, Attempting,
        SendsAccounted, PendingInv
<1> QED
  BY Zenon, <1>1, <1>2, <1>3, <1>4

(* A claim takes only rows whose lease has run out; no batch has one.      *)
LEMMA ClaimStep ==
  ASSUME LeaseOutlastsBatch, Inv, NEW w \in Workers, claim_due_deliveries(w)
  PROVE  Inv'
<1> PICK S \in (SUBSET Due) \ {{}} :
        /\ Cardinality(S) = BatchSize \/ (S = Due /\ Cardinality(Due) <= BatchSize)
        /\ wait' = [d \in Deliveries |-> IF d \in S THEN Lease ELSE wait[d]]
        /\ batch' = [batch EXCEPT ![w] = S]
        /\ claimed' = [claimed EXCEPT ![w] = [d \in Deliveries |->
               IF d \in S THEN [attempts |-> attempts[d], eligible |-> eligible[d]]
                          ELSE claimed[w][d]]]
  BY Zenon DEF claim_due_deliveries
<1>a. /\ pc[w] = "idle" /\ pc' = [pc EXCEPT ![w] = "next"]
      /\ left' = [left EXCEPT ![w] = StepTime]
      /\ UNCHANGED <<status, attempts, eligible, at, sends, crashes>>
  BY Zenon DEF claim_due_deliveries
<1>b. /\ S \subseteq Deliveries /\ S # {}
      /\ \A d \in S : d \in Deliveries /\ status[d] = "pending" /\ wait[d] = 0
  BY Zenon DEF Due
<1>c. IsFiniteSet(S) /\ Cardinality(S) \in Nat /\ Cardinality(S) <= BatchSize
  <2>1. IsFiniteSet(S)
    BY Zenon, <1>b, DeliveryConstants, FS_Subset
  <2> QED
    BY <2>1, FS_CardinalityType, DeliveryConstants
<1>1. TypeOK'
  <2>1. claimed' \in [Workers -> [Deliveries -> [attempts : Nat, eligible : BOOLEAN]]]
    BY DEF Inv, TypeOK
  <2>2. wait' \in [Deliveries -> Nat] /\ left' \in [Workers -> 0 .. StepTime]
    <3>1. StepTime \in 0 .. StepTime /\ Lease \in Nat
      BY DeliveryConstants
    <3> QED BY Zenon, <1>a, <3>1 DEF Inv, TypeOK
  <2>3. /\ batch' \in [Workers -> SUBSET Deliveries]
        /\ pc' \in [Workers -> {"idle", "next", "sending"} \cup Outcomes]
    BY Zenon, <1>a, <1>b DEF Inv, TypeOK
  <2>4. \A v \in Workers :
            /\ pc'[v] = "idle" <=> batch'[v] = {}
            /\ pc'[v] \in {"sending"} \cup Outcomes => at'[v] \in batch'[v]
    BY Zenon, <1>a, <1>b DEF Inv, TypeOK, Outcomes
  <2> QED BY Zenon, <1>a, <2>1, <2>2, <2>3, <2>4 DEF Inv, TypeOK
<1>2. \A v \in Workers : v # w => batch[v] \cap S = {}
  <2> SUFFICES ASSUME NEW v \in Workers, NEW d \in batch[v], d \in S PROVE FALSE
    BY Zenon
  <2>1. Owed(v) \in Nat
    BY Zenon, OwedNat DEF Inv
  <2>2. wait[d] > Owed(v) /\ wait[d] = 0
    BY Zenon, <1>b DEF Inv, LeaseInv
  <2> QED BY <2>1, <2>2
<1>3. NoSharedDelivery'
  BY <1>2 DEF Inv, NoSharedDelivery, TypeOK
<1>4. LeaseInv'
  <2> SUFFICES ASSUME NEW v \in Workers
               PROVE  /\ IsFiniteSet(batch'[v])
                      /\ \A d \in batch'[v] : /\ status'[d] = "pending"
                                              /\ wait'[d] > Owed(v)'
                                              /\ claimed'[v][d].attempts = attempts'[d]
    BY Zenon DEF LeaseInv
  <2>1. CASE v = w
    <3>1. batch'[v] = S /\ left'[v] = StepTime
      BY Zenon, <2>1, <1>a DEF Inv, TypeOK
    <3>2. Owed(v)' = Cardinality(S) * StepTime
      BY <3>1, <1>c, Products, DeliveryConstants DEF Owed
    <3>3. Cardinality(S) * StepTime < Lease
      <4>1. Cardinality(S) * StepTime <= BatchSize * StepTime
        BY Zenon, <1>c, Products, DeliveryConstants
      <4>2. Cardinality(S) * StepTime \in Nat /\ BatchSize * StepTime \in Nat
        BY Zenon, <1>c, Products, DeliveryConstants
      <4> QED BY <4>1, <4>2, DeliveryConstants DEF LeaseOutlastsBatch
    <3>4. \A d \in S : wait'[d] = Lease /\ claimed'[v][d].attempts = attempts[d]
      BY Zenon, <1>b, <2>1 DEF Inv, TypeOK
    <3> QED BY Zenon, <3>1, <3>2, <3>3, <3>4, <1>a, <1>b, <1>c
  <2>2. CASE v # w
    <3>1. batch'[v] = batch[v] /\ left'[v] = left[v] /\ claimed'[v] = claimed[v]
      BY Zenon, <2>2, <1>a DEF Inv, TypeOK
    <3>2. Owed(v)' = Owed(v)
      BY Zenon, <3>1 DEF Owed
    <3>3. \A d \in batch[v] : d \in Deliveries /\ wait'[d] = wait[d]
      BY Zenon, <1>2, <2>2 DEF Inv, TypeOK
    <3>4. ASSUME NEW d \in batch[v]
          PROVE  /\ status'[d] = "pending"
                 /\ wait'[d] > Owed(v)
                 /\ claimed'[v][d].attempts = attempts'[d]
      <4>1. /\ status[d] = "pending" /\ wait[d] > Owed(v)
            /\ claimed[v][d].attempts = attempts[d]
        BY Zenon DEF Inv, LeaseInv
      <4> QED BY Zenon, <3>1, <3>3, <1>a, <4>1
    <3>5. IsFiniteSet(batch'[v])
      BY Zenon, <3>1 DEF Inv, LeaseInv
    <3> QED BY Zenon, <3>1, <3>2, <3>4, <3>5
  <2> QED BY Zenon, <2>1, <2>2
<1>5. AtInv'
  BY Zenon, <1>a DEF Inv, AtInv, Attempting, Outcomes, TypeOK
<1>6. (PendingInv /\ SendsAccounted)'
  BY Zenon, <1>a DEF Inv, PendingInv, SendsAccounted
<1> QED BY Zenon, <1>1, <1>3, <1>4, <1>5, <1>6 DEF Inv

(* The bookkeeping at the end of a delivery: the worker has one delivery    *)
(* less before it and a new budget, which its leases still cover.          *)
LEMMA DoneStep ==
  ASSUME Inv, NEW w \in Workers, NEW d \in batch[w], Done(w, d),
         status' \in [Deliveries -> {"none", "pending", "delivered", "failed"}],
         attempts' \in [Deliveries -> Nat], wait' \in [Deliveries -> Nat],
         \A e \in Deliveries \ {d} : /\ status'[e] = status[e]
                                     /\ attempts'[e] = attempts[e]
                                     /\ wait'[e] = wait[e],
         status'[d] \in {"none", "pending"} => attempts'[d] < MaxAttempts,
         UNCHANGED <<eligible, sends, crashes>>
  PROVE  (TypeOK /\ LeaseInv /\ NoSharedDelivery /\ AtInv /\ PendingInv)'
<1>a. /\ d \in Deliveries
      /\ batch'[w] = batch[w] \ {d}
      /\ at'[w] = None
      /\ \A v \in Workers \ {w} : /\ batch'[v] = batch[v] /\ at'[v] = at[v]
                                  /\ claimed'[v] = claimed[v]
                                  /\ pc'[v] = pc[v] /\ left'[v] = left[v]
      /\ \A e \in Deliveries \ {d} : claimed'[w][e] = claimed[w][e]
  BY DEF Inv, TypeOK, Done
<1>b. pc'[w] = (IF batch[w] = {d} THEN "idle" ELSE "next")
  BY ZenonT(60) DEF Inv, TypeOK, Done
<1>c. batch[w] # {d} => left'[w] = StepTime
  BY Zenon DEF Inv, TypeOK, Done
<1>1. TypeOK'
  <2>1. /\ batch' \in [Workers -> SUBSET Deliveries]
        /\ at' \in [Workers -> Deliveries \cup {None}]
        /\ claimed' \in [Workers -> [Deliveries -> [attempts : Nat, eligible : BOOLEAN]]]
    BY Zenon DEF Inv, TypeOK, Done
  <2>4. /\ pc' \in [Workers -> {"idle", "next", "sending"} \cup Outcomes]
        /\ left' \in [Workers -> 0 .. StepTime]
    <3>1. 0 \in 0 .. StepTime /\ StepTime \in 0 .. StepTime
      BY DeliveryConstants
    <3>2. CASE batch[w] = {d}
      BY ZenonT(60), <3>1, <3>2 DEF Inv, TypeOK, Done
    <3>3. CASE batch[w] # {d}
      BY SMTT(30), <3>1, <3>3 DEF Inv, TypeOK, Done
    <3> QED BY Zenon, <3>2, <3>3
  <2>2. \A v \in Workers : pc'[v] = "idle" <=> batch'[v] = {}
    <3>1. batch[w] = {d} <=> batch'[w] = {}
      BY Zenon, <1>a
    <3>2. pc'[w] = "idle" <=> batch'[w] = {}
      BY Zenon, <1>b, <3>1
    <3>3. \A v \in Workers \ {w} : pc'[v] = "idle" <=> batch'[v] = {}
      BY <1>a DEF Inv, TypeOK
    <3> QED BY Zenon, <3>2, <3>3
  <2>3. \A v \in Workers : pc'[v] \in {"sending"} \cup Outcomes => at'[v] \in batch'[v]
    BY Zenon, <1>a, <1>b DEF Inv, TypeOK, Outcomes
  <2> QED BY Zenon, <2>1, <2>2, <2>3, <2>4 DEF Inv, TypeOK
<1>2. NoSharedDelivery'
  BY <1>a DEF Inv, NoSharedDelivery
<1>3. AtInv'
  BY <1>a, <1>b DEF Inv, AtInv, Attempting, Outcomes
<1>4. PendingInv'
  BY Zenon, <1>a DEF Inv, PendingInv
<1>5. LeaseInv'
  <2> SUFFICES ASSUME NEW v \in Workers
               PROVE  /\ IsFiniteSet(batch'[v])
                      /\ \A e \in batch'[v] : /\ status'[e] = "pending"
                                              /\ wait'[e] > Owed(v)'
                                              /\ claimed'[v][e].attempts = attempts'[e]
    BY Zenon DEF LeaseInv
  <2>1. \A e \in batch'[v] : e \in Deliveries \ {d}
    <3>1. CASE v = w
      BY Zenon, <1>a, <3>1 DEF Inv, TypeOK
    <3>2. CASE v # w
      <4>1. batch'[v] = batch[v] /\ batch[v] \cap batch[w] = {} /\ batch[v] \subseteq Deliveries
        BY ZenonT(60), <1>a, <3>2 DEF Inv, TypeOK, NoSharedDelivery
      <4> QED BY Zenon, <4>1
    <3> QED BY Zenon, <3>1, <3>2
  <2>2. CASE v # w
    <3>1. Owed(v)' = Owed(v)
      BY Zenon, <1>a, <2>2 DEF Owed
    <3>2. batch'[v] = batch[v] /\ claimed'[v] = claimed[v]
      BY Zenon, <1>a, <2>2
    <3>3. /\ IsFiniteSet(batch[v])
          /\ \A e \in batch[v] : /\ status[e] = "pending" /\ wait[e] > Owed(v)
                                 /\ claimed[v][e].attempts = attempts[e]
      BY Zenon DEF Inv, LeaseInv
    <3>4. \A e \in batch[v] :
            status'[e] = status[e] /\ attempts'[e] = attempts[e] /\ wait'[e] = wait[e]
      BY Zenon, <2>1, <3>2
    <3> HIDE DEF Owed
    <3> QED BY ZenonT(60), <3>1, <3>2, <3>3, <3>4
  <2>3. CASE v = w
    <3>1. /\ IsFiniteSet(batch[w]) /\ IsFiniteSet(batch'[w])
          /\ Cardinality(batch'[w]) = Cardinality(batch[w]) - 1
      <4>1. IsFiniteSet(batch[w])
        BY Zenon DEF Inv, LeaseInv
      <4>2. /\ IsFiniteSet(batch[w] \ {d})
            /\ Cardinality(batch[w] \ {d}) = Cardinality(batch[w]) - 1
        BY Zenon, <4>1, FS_RemoveElement
      <4> QED BY Zenon, <1>a, <4>1, <4>2
    <3>2. ASSUME NEW e \in batch'[w] PROVE wait[e] > Owed(w)'
      <4>1. /\ e \in batch[w] /\ batch[w] # {d} /\ batch[w] # {}
        BY Zenon, <1>a
      <4>2. /\ Cardinality(batch[w]) \in Nat \ {0} /\ Owed(w) \in Nat
        BY Zenon, <4>1, OwedNat DEF Inv
      <4>3. left'[w] = StepTime
        BY Zenon, <4>1, <1>c
      <4> DEFINE c == Cardinality(batch[w]) - 1
      <4>4. Owed(w)' = StepTime + (c - 1) * StepTime
        BY Zenon, <3>1, <4>3 DEF Owed
      <4>5. c \in Nat /\ StepTime \in Nat
        BY <4>2, DeliveryConstants
      <4>6. Owed(w)' = c * StepTime
        <5> HIDE DEF c
        <5>1. (c - 1) * StepTime + StepTime = c * StepTime
          BY <4>5, Products
        <5> QED BY <4>4, <4>5, <5>1
      <4>7. Owed(w) = left[w] + c * StepTime
        BY Zenon DEF Owed
      <4>8. wait[e] > Owed(w) /\ wait[e] \in Nat /\ left[w] \in Nat
        BY <4>1, DeliveryConstants DEF Inv, LeaseInv, TypeOK
      <4>9. c * StepTime \in Nat
        <5> HIDE DEF c
        <5> QED BY Zenon, <4>5, Products
      <4> HIDE DEF c
      <4> QED BY <4>6, <4>7, <4>8, <4>9
    <3>3. Owed(v)' = Owed(w)'
      BY Zenon, <2>3 DEF Owed
    <3>4. ASSUME NEW e \in batch'[w]
          PROVE  /\ status'[e] = "pending" /\ wait'[e] = wait[e]
                 /\ claimed'[w][e].attempts = attempts'[e]
      BY <1>a, <2>1, <2>3 DEF Inv, LeaseInv
    <3> QED BY Zenon, <2>3, <3>1, <3>2, <3>3, <3>4
  <2> QED BY Zenon, <2>2, <2>3
<1> QED BY Zenon, <1>1, <1>2, <1>3, <1>4, <1>5

(* A delivery the client opted out of is closed without an attempt.        *)
LEMMA SkipStep ==
  ASSUME Inv, NEW w \in Workers, NEW d \in Deliveries, SkipDelivery(w, d)
  PROVE  Inv'
<1>1. (TypeOK /\ LeaseInv /\ NoSharedDelivery /\ AtInv /\ PendingInv)'
  <2>1. d \in batch[w] /\ status[d] = "pending"
    BY Zenon DEF Inv, LeaseInv, SkipDelivery
  <2>2. status' = [status EXCEPT ![d] = "failed"]
    BY Zenon, <2>1 DEF SkipDelivery, Inv, TypeOK
  <2>3. /\ Done(w, d) /\ UNCHANGED <<attempts, wait, eligible, sends, crashes>>
    BY Zenon DEF SkipDelivery
  <2>4. /\ status' \in [Deliveries -> {"none", "pending", "delivered", "failed"}]
        /\ attempts' \in [Deliveries -> Nat] /\ wait' \in [Deliveries -> Nat]
        /\ status'[d] = "failed"
        /\ \A e \in Deliveries \ {d} : /\ status'[e] = status[e]
                                       /\ attempts'[e] = attempts[e]
                                       /\ wait'[e] = wait[e]
    BY Zenon, <2>2, <2>3 DEF Inv, TypeOK
  <2> QED BY Zenon, <2>1, <2>3, <2>4, DoneStep
<1>2. SendsAccounted'
  <2>1. /\ pc[w] = "next" /\ at' = [at EXCEPT ![w] = None]
        /\ UNCHANGED <<sends, attempts, crashes>>
    BY Zenon DEF SkipDelivery, Done
  <2>2. at[w] = None
    BY Zenon, <2>1 DEF Inv, AtInv, Attempting, Outcomes
  <2>3. at' = at
    BY Zenon, <2>1, <2>2 DEF Inv, TypeOK
  <2> QED BY Zenon, <2>1, <2>3 DEF Inv, SendsAccounted
<1> QED BY Zenon, <1>1, <1>2 DEF Inv

(* The request in flight is the one more that the counter does not show.   *)
LEMMA SendStep ==
  ASSUME Inv, NEW w \in Workers, NEW d \in Deliveries, Send(w, d)
  PROVE  Inv'
<1>a. /\ pc[w] = "next" /\ d \in batch[w]
      /\ pc' = [pc EXCEPT ![w] = "sending"] /\ at' = [at EXCEPT ![w] = d]
      /\ sends' = [sends EXCEPT ![d] = @ + 1]
      /\ UNCHANGED <<status, attempts, wait, eligible, batch, claimed, left, crashes>>
  BY Zenon DEF Send
<1>1. TypeOK'
  BY <1>a DEF Inv, TypeOK, Outcomes
<1>2. (LeaseInv /\ NoSharedDelivery /\ PendingInv)'
  BY ZenonT(60), <1>a DEF Inv, LeaseInv, Owed, NoSharedDelivery, PendingInv
<1>3. AtInv'
  BY Zenon, <1>a DEF Inv, TypeOK, AtInv, Attempting, Outcomes
<1>4. SendsAccounted'
  <2>1. \A v \in Workers : at[v] # d
    <3> SUFFICES ASSUME NEW v \in Workers, at[v] = d PROVE FALSE
      BY Zenon
    <3>1. at[v] # None /\ v # w
      BY Zenon, <1>a, DeliveryConstants DEF Inv, AtInv, Attempting, Outcomes
    <3>2. d \in batch[v]
      BY Zenon, <3>1 DEF Inv, AtInv
    <3> QED BY Zenon, <1>a, <3>1, <3>2 DEF Inv, NoSharedDelivery
  <2>2. at[w] = None /\ None \notin Deliveries
    BY Zenon, <1>a, DeliveryConstants DEF Inv, AtInv, Attempting, Outcomes
  <2>3. \A e \in Deliveries : (\E v \in Workers : at'[v] = e)
                                 <=> (e = d \/ \E v \in Workers : at[v] = e)
    BY <1>a, <2>2 DEF Inv, TypeOK
  <2>4. sends[d] <= attempts[d] + crashes
    <3>1. sends[d] <= attempts[d] + crashes
                + (IF \E v \in Workers : at[v] = d THEN 1 ELSE 0)
      BY Zenon DEF Inv, SendsAccounted
    <3>2. attempts[d] \in Nat /\ crashes \in Nat
      BY DEF Inv, TypeOK
    <3> QED BY <2>1, <3>1, <3>2
  <2>5. /\ sends \in [Deliveries -> Nat] /\ attempts \in [Deliveries -> Nat]
        /\ crashes \in Nat
    BY DeliveryConstants DEF Inv, TypeOK
  <2>6. ASSUME NEW e \in Deliveries
        PROVE  sends'[e] <= attempts'[e] + crashes'
                   + (IF \E v \in Workers : at'[v] = e THEN 1 ELSE 0)
    <3>1. CASE e = d
      BY <3>1, <1>a, <2>3, <2>4, <2>5
    <3>2. CASE e # d
      BY Zenon, <3>2, <1>a, <2>3, <2>5 DEF Inv, SendsAccounted
    <3> QED BY Zenon, <3>1, <3>2
  <2> QED BY Zenon, <2>6 DEF SendsAccounted
<1> QED BY Zenon, <1>1, <1>2, <1>3, <1>4 DEF Inv

(* The outcome is recorded in a row that is still pending, so the attempt  *)
(* is counted as the request stops being in flight.                        *)
LEMMA RecordStep ==
  ASSUME Inv, NEW w \in Workers, RecordOutcome(w)
  PROVE  Inv'
<1> DEFINE d == at[w]
           attempt == claimed[w][d].attempts + 1
<1>a. /\ Attempting(w) /\ Done(w, d) /\ UNCHANGED <<eligible, sends, crashes>>
  BY Zenon DEF RecordOutcome, Attempting
<1>b. /\ d \in batch[w] /\ d \in Deliveries /\ status[d] = "pending"
      /\ attempt = attempts[d] + 1
      /\ attempts[d] \in Nat /\ attempts[d] < MaxAttempts
  BY ZenonT(60), <1>a DEF Inv, AtInv, LeaseInv, TypeOK, PendingInv
<1>c. /\ attempts' = [attempts EXCEPT ![d] = @ + 1]
      /\ \/ status' \in {[status EXCEPT ![d] = "delivered"], [status EXCEPT ![d] = "failed"]}
            /\ UNCHANGED wait
         \/ /\ UNCHANGED status
            /\ wait' = [wait EXCEPT ![d] = RetrySchedule[attempt]]
            /\ attempt < MaxAttempts
  <2> HIDE DEF d, attempt
  <2>1. CASE MarkFinished(d, "delivered") \/ MarkFinished(d, "failed")
    BY Zenon, <1>b, <2>1 DEF MarkFinished
  <2>2. CASE mark_retry(d, attempt) /\ ~(attempt >= MaxAttempts)
    BY <1>b, <2>2, MaxAttemptsNat DEF mark_retry
  <2>3. /\ pc[w] \in Outcomes
        /\ CASE pc[w] = "ok" -> MarkFinished(d, "delivered")
             [] pc[w] = "permanent" \/ (pc[w] = "temporary" /\ attempt >= MaxAttempts) ->
                    MarkFinished(d, "failed")
             [] OTHER -> mark_retry(d, attempt)
    BY Zenon DEF RecordOutcome, d, attempt
  <2>4. pc[w] = "ok" \/ pc[w] = "permanent" \/ pc[w] = "temporary"
    BY Zenon, <2>3 DEF Outcomes
  <2>5. \/ MarkFinished(d, "delivered")
        \/ MarkFinished(d, "failed")
        \/ mark_retry(d, attempt) /\ ~(attempt >= MaxAttempts)
    BY Zenon, <2>3, <2>4
  <2> QED BY Zenon, <2>1, <2>2, <2>5
<1>1. (TypeOK /\ LeaseInv /\ NoSharedDelivery /\ AtInv /\ PendingInv)'
  <2> HIDE DEF d, attempt
  <2>1. attempts' \in [Deliveries -> Nat] /\ attempts'[d] = attempts[d] + 1
    BY <1>b, <1>c DEF Inv, TypeOK
  <2>2. /\ status' \in [Deliveries -> {"none", "pending", "delivered", "failed"}]
        /\ status'[d] \in {"none", "pending"} => attempts'[d] < MaxAttempts
    BY Zenon, <1>b, <1>c, <2>1 DEF Inv, TypeOK
  <2>3. wait' \in [Deliveries -> Nat]
    BY Zenon, <1>b, <1>c, ScheduleRead DEF Inv, TypeOK
  <2>4. \A e \in Deliveries \ {d} : /\ status'[e] = status[e]
                                    /\ attempts'[e] = attempts[e]
                                    /\ wait'[e] = wait[e]
    BY ZenonT(60), <1>b, <1>c DEF Inv, TypeOK
  <2> QED BY Zenon, <1>a, <1>b, <2>1, <2>2, <2>3, <2>4, DoneStep
<1>2. SendsAccounted'
  <2>1. /\ sends \in [Deliveries -> Nat] /\ attempts \in [Deliveries -> Nat]
        /\ crashes \in Nat /\ None \notin Deliveries
    BY DeliveryConstants DEF Inv, TypeOK
  <2>2. at' = [at EXCEPT ![w] = None] /\ at \in [Workers -> Deliveries \cup {None}]
    BY Zenon, <1>a DEF Done, Inv, TypeOK
  <2>3. \A e \in Deliveries \ {d} : (\E v \in Workers : at'[v] = e)
                                       <=> (\E v \in Workers : at[v] = e)
    BY Zenon, <2>1, <2>2
  <2> SUFFICES ASSUME NEW e \in Deliveries
               PROVE  sends'[e] <= attempts'[e] + crashes'
                          + (IF \E v \in Workers : at'[v] = e THEN 1 ELSE 0)
    BY Zenon DEF SendsAccounted
  <2>4. sends[e] <= attempts[e] + crashes
            + (IF \E v \in Workers : at[v] = e THEN 1 ELSE 0)
    BY Zenon DEF Inv, SendsAccounted
  <2> HIDE DEF d, attempt
  <2>5. CASE e = d
    BY <1>a, <1>b, <1>c, <2>1, <2>4, <2>5
  <2>6. CASE e # d
    <3>1. attempts'[e] = attempts[e] /\ sends' = sends /\ crashes' = crashes
      BY Zenon, <1>a, <1>b, <1>c, <2>1, <2>6
    <3> QED BY Zenon, <2>3, <2>4, <2>6, <3>1
  <2> QED BY Zenon, <2>5, <2>6
<1> QED BY Zenon, <1>1, <1>2 DEF Inv

(* A crash drops the batch; what was in flight is charged to the crash.    *)
LEMMA CrashStep ==
  ASSUME Inv, NEW w \in Workers, Crash(w)
  PROVE  Inv'
<1>a. /\ pc' = [pc EXCEPT ![w] = "idle"] /\ batch' = [batch EXCEPT ![w] = {}]
      /\ at' = [at EXCEPT ![w] = None] /\ left' = [left EXCEPT ![w] = 0]
      /\ claimed' = [claimed EXCEPT ![w] =
             [d \in Deliveries |-> [attempts |-> 0, eligible |-> FALSE]]]
      /\ crashes < MaxCrashes /\ crashes' = crashes + 1
      /\ UNCHANGED <<status, attempts, wait, eligible, sends>>
  BY Zenon DEF Crash
<1>1. TypeOK'
  <2>1. crashes' \in 0 .. MaxCrashes /\ 0 \in 0 .. StepTime
    BY <1>a, DeliveryConstants DEF Inv, TypeOK
  <2>2. claimed' \in [Workers -> [Deliveries -> [attempts : Nat, eligible : BOOLEAN]]]
    BY Zenon, <1>a DEF Inv, TypeOK
  <2>3. /\ left' \in [Workers -> 0 .. StepTime]
        /\ batch' \in [Workers -> SUBSET Deliveries]
        /\ at' \in [Workers -> Deliveries \cup {None}]
        /\ pc' \in [Workers -> {"idle", "next", "sending"} \cup Outcomes]
    BY Zenon, <1>a, <2>1 DEF Inv, TypeOK
  <2>4. \A v \in Workers :
            /\ pc'[v] = "idle" <=> batch'[v] = {}
            /\ pc'[v] \in {"sending"} \cup Outcomes => at'[v] \in batch'[v]
    BY Zenon, <1>a DEF Inv, TypeOK, Outcomes
  <2> QED BY Zenon, <1>a, <2>1, <2>2, <2>3, <2>4 DEF Inv, TypeOK
<1>2. LeaseInv'
  <2> SUFFICES ASSUME NEW v \in Workers
               PROVE  /\ IsFiniteSet(batch'[v])
                      /\ \A d \in batch'[v] : /\ status'[d] = "pending"
                                              /\ wait'[d] > Owed(v)'
                                              /\ claimed'[v][d].attempts = attempts'[d]
    BY Zenon DEF LeaseInv
  <2>1. CASE v = w
    BY Zenon, <1>a, <2>1, FS_EmptySet DEF Inv, TypeOK
  <2>2. CASE v # w
    <3>1. batch'[v] = batch[v] /\ left'[v] = left[v] /\ claimed'[v] = claimed[v]
      BY Zenon, <1>a, <2>2 DEF Inv, TypeOK
    <3>2. Owed(v)' = Owed(v)
      BY Zenon, <3>1 DEF Owed
    <3> QED BY <1>a, <3>1, <3>2 DEF Inv, LeaseInv
  <2> QED BY Zenon, <2>1, <2>2
<1>3. (NoSharedDelivery /\ PendingInv)'
  BY <1>a DEF Inv, TypeOK, NoSharedDelivery, PendingInv
<1>4. AtInv'
  BY Zenon, <1>a DEF Inv, TypeOK, AtInv, Attempting, Outcomes
<1>5. SendsAccounted'
  <2> SUFFICES ASSUME NEW e \in Deliveries
               PROVE  sends'[e] <= attempts'[e] + crashes'
                          + (IF \E v \in Workers : at'[v] = e THEN 1 ELSE 0)
    BY Zenon DEF SendsAccounted
  <2>1. sends[e] <= attempts[e] + crashes
            + (IF \E v \in Workers : at[v] = e THEN 1 ELSE 0)
    BY Zenon DEF Inv, SendsAccounted
  <2>2. sends[e] \in Nat /\ attempts[e] \in Nat /\ crashes \in Nat
    BY DeliveryConstants DEF Inv, TypeOK
  <2> QED BY SMTT(30), <1>a, <2>1, <2>2
<1> QED BY Zenon, <1>1, <1>2, <1>3, <1>4, <1>5 DEF Inv

(* The clock takes one unit from the leases and one from the budgets.      *)
LEMMA TickStep ==
  ASSUME Inv, Tick
  PROVE  Inv'
<1>a. /\ \A w \in Workers : pc[w] # "idle" => left[w] > 0
      /\ wait' = [d \in Deliveries |-> IF wait[d] > 0 THEN wait[d] - 1 ELSE 0]
      /\ left' = [w \in Workers |-> IF left[w] > 0 THEN left[w] - 1 ELSE 0]
      /\ UNCHANGED <<status, attempts, eligible, batch, claimed, pc, at, sends, crashes>>
  BY Zenon DEF Tick
<1>1. TypeOK'
  <2>1. wait' \in [Deliveries -> Nat] /\ left' \in [Workers -> 0 .. StepTime]
    BY <1>a, DeliveryConstants DEF Inv, TypeOK
  <2> QED BY Zenon, <1>a, <2>1 DEF Inv, TypeOK
<1>2. LeaseInv'
  <2> SUFFICES ASSUME NEW w \in Workers, NEW d \in batch[w]
               PROVE  wait'[d] > Owed(w)'
    BY Zenon, <1>a DEF Inv, LeaseInv
  <2>1. pc[w] # "idle" /\ d \in Deliveries
    BY Zenon DEF Inv, TypeOK
  <2>2. left[w] \in Nat /\ left[w] > 0 /\ wait[d] \in Nat
    BY <1>a, <2>1, DeliveryConstants DEF Inv, TypeOK
  <2>3. Owed(w) \in Nat /\ wait[d] > Owed(w) /\ Cardinality(batch[w]) \in Nat \ {0}
    BY Zenon, OwedNat DEF Inv, LeaseInv
  <2>4. left'[w] = left[w] - 1 /\ wait'[d] = wait[d] - 1
    BY <1>a, <2>1, <2>2, <2>3
  <2> DEFINE rest == (Cardinality(batch[w]) - 1) * StepTime
  <2>5. Owed(w) = left[w] + rest /\ Owed(w)' = (left[w] - 1) + rest
    BY Zenon, <1>a, <2>4 DEF Owed
  <2>6. rest \in Nat
    <3>1. Cardinality(batch[w]) - 1 \in Nat
      BY <2>3
    <3> QED BY Zenon, <3>1, Products, DeliveryConstants
  <2> HIDE DEF rest
  <2> QED BY <2>2, <2>3, <2>4, <2>5, <2>6
<1>3. (NoSharedDelivery /\ PendingInv /\ AtInv /\ SendsAccounted)'
  BY Zenon, <1>a DEF Inv, NoSharedDelivery, PendingInv, AtInv, Attempting, SendsAccounted
<1> QED BY Zenon, <1>1, <1>2, <1>3 DEF Inv

(* Every step keeps the invariant when a batch is shorter than the lease.  *)
LEMMA InvStep ==
  ASSUME LeaseOutlastsBatch
  PROVE  Inv /\ [Next]_vars => Inv'
<1> SUFFICES ASSUME Inv, [Next]_vars PROVE Inv'
  BY Zenon
<1> QED
  BY Zenon, QuietSteps, ClaimStep, SkipStep, SendStep, RecordStep, CrashStep, TickStep
  DEF Next, Deliver

(* A lease longer than a batch at its budget (LEASE_SECONDS against        *)
(* BATCH_SIZE * DELIVERY_BUDGET_SECONDS) is enough: two workers never have *)
(* the same delivery before them.                                          *)
THEOREM LeaseExcludes ==
  ASSUME LeaseOutlastsBatch
  PROVE  Spec => []NoSharedDelivery
<1>1. Inv => NoSharedDelivery
  BY Zenon DEF Inv
<1> QED
  BY InitInv, InvStep, <1>1, PTL DEF Spec

(* Under the same assumption the retry schedule is read inside its bounds  *)
(* and by the counter the row holds.                                       *)
THEOREM RetriesBounded ==
  ASSUME LeaseOutlastsBatch
  PROVE  Spec => [](TypeOK /\ AttemptsLeft)
<1>1. Inv => TypeOK /\ AttemptsLeft
  BY DEF Inv, PendingInv, AttemptsLeft, LeaseInv, TypeOK
<1> QED
  BY InitInv, InvStep, <1>1, PTL DEF Spec

(* Under the same assumption the relying party sees at most the attempts   *)
(* counted in the row, the one in flight and one for each crash.           *)
THEOREM RequestsAccounted ==
  ASSUME LeaseOutlastsBatch
  PROVE  Spec => []SendsAccounted
<1>1. Inv => SendsAccounted
  BY Zenon DEF Inv
<1> QED
  BY InitInv, InvStep, <1>1, PTL DEF Spec
=============================================================================
