------------------------ MODULE ScimPushQueue_proofs ------------------------
(***************************************************************************)
(* What the outbound SCIM queue guarantees for every number of users,      *)
(* tries, crashes and changes: with one worker container and a receiver    *)
(* that finds a resource by WeftID's UUID, a change enqueued while the     *)
(* worker had no entry of its user in hand reaches the receiver, or its    *)
(* row stays (LastStateWins).                                              *)
(*                                                                         *)
(* The invariant follows the entry in the worker's hand through the steps  *)
(* of _dispatch_user: the remote id it read is still the recorded one, and *)
(* what it is about to send, or has sent, is the latest state.             *)
(***************************************************************************)
EXTENDS ScimPushQueue, FiniteSetTheorems, SequenceTheorems, TLAPS

-----------------------------------------------------------------------------
(* The invariant *)

(* What a worker's batch may hold; row ids are not told apart.             *)
JobOf(S) ==
    [pc : Pcs, batch : Seq([user : Users, id : S, attempts : S]), token : Credentials,
     remote : RemoteIds \cup {Null}, ver : Versions \cup {Null},
     op : {"none", "DELETE", "PUT", "POST"}, tries : Nat, result : Results,
     scimId : RemoteIds \cup {Null}]

Row(r) == r \in [id : {r.id}, attempts : Nat, due : BOOLEAN, dead : BOOLEAN]

Resources == [id : RemoteIds \cup {Null}, ver : Versions \cup {Null}]

Promises == {"none", "clean", "overtaken", "discarded"}

Shapes ==
    /\ user \in [Users -> [ver : Versions, scope : BOOLEAN]]
    /\ enabled \in BOOLEAN
    /\ cred \in Credentials
    /\ mapping \in [Users -> RemoteIds \cup {Null}]
    /\ receiver \in [Users -> Resources]
    /\ promise \in [Users -> Promises]
    /\ queue = [u \in Users |-> queue[u]] /\ \A u \in Users : Row(queue[u])
    /\ job = [w \in Workers |-> job[w]] /\ \A w \in Workers : \E S : job[w] \in JobOf(S)

Clean(u) == promise[u] = "clean"

(* A worker that is busy has an entry in hand, and only then; none it      *)
(* holds for a user with a clean promise is about to be dropped.           *)
InHand(w) ==
    /\ job[w].pc = "idle" <=> job[w].batch = <<>>
    /\ \A u \in Users : Clean(u) /\ Holds(w, u) => job[w].pc # "drop"

(* The remote id read for the entry is the recorded one, and decided the   *)
(* request; a minted id is carried to record_mapping only.                 *)
RemoteOf(j, u) ==
    /\ j.pc \in {"resource", "scope", "send", "mapping"} => j.remote = mapping[u]
    /\ j.pc \in {"send", "mapping"} => (j.op = "POST" => j.remote = Null)
    /\ j.pc = "send" => (j.op = "PUT" => j.remote # Null)
    /\ j.scimId # Null =>
          j.pc = "mapping" /\ (receiver[u] # NoResource => receiver[u].id = j.scimId)

(* For a user with a clean promise the request carries the latest state,   *)
(* and a success means that the receiver holds it.                         *)
LatestOf(j, u) ==
    j.pc # "idle" /\ Clean(u) =>
    /\ j.pc \in {"scope", "send"} => j.ver = user[u].ver
    /\ j.pc = "send" =>
          /\ j.op # "none"
          /\ j.op = "DELETE" <=> ~user[u].scope
    /\ j.pc \in {"mapping", "record"} /\ j.result \in {"success", "absent"} => Settled(u)

Remote(w) == RemoteOf(job[w], Entry(w).user)
Latest(w) == LatestOf(job[w], Entry(w).user)

(* The recorded remote id names the user's resource, when both exist.      *)
Recorded(u) ==
    receiver[u] # NoResource /\ mapping[u] # Null => receiver[u].id = mapping[u]

Inv ==
    /\ Shapes
    /\ \A u \in Users : Clean(u) => enabled
    /\ \A u \in Users : Recorded(u)
    /\ \A w \in Workers : InHand(w) /\ Remote(w) /\ Latest(w)
    /\ LastStateWins

-----------------------------------------------------------------------------
(* Facts about the operators *)

(* The values of a function on a finite set are finitely many.             *)
LEMMA Image ==
    ASSUME NEW S, IsFiniteSet(S), NEW T, NEW f \in [S -> T]
    PROVE  LET R == {f[x] : x \in S} IN IsFiniteSet(R) /\ Cardinality(R) <= Cardinality(S)
<1> DEFINE R == {f[x] : x \in S}
<1>1. f \in Surjection(S, R)
  BY Zenon DEF Surjection
<1> QED
  BY <1>1, FS_Surjection, Zenon

(* The receiver has an id to mint: fewer ids than it has are known.        *)
LEMMA FreshRemote ==
    ASSUME Shapes
    PROVE  FreshRemoteId \in RemoteIds /\ FreshRemoteId # Null
<1> DEFINE Ids == RemoteIds \cup {Null}
           f1 == [u \in Users |-> mapping[u]]
           f2 == [u \in Users |-> receiver[u].id]
           f3 == [w \in Workers |-> job[w].remote]
           f4 == [w \in Workers |-> job[w].scimId]
           R1 == {f1[u] : u \in Users}
           R2 == {f2[u] : u \in Users}
           R3 == {f3[w] : w \in Workers}
           R4 == {f4[w] : w \in Workers}
<1>1. f1 \in [Users -> Ids] /\ f2 \in [Users -> Ids]
  BY Zenon DEF Shapes, Resources
<1>2. f3 \in [Workers -> Ids] /\ f4 \in [Workers -> Ids]
  <2>1. \A w \in Workers : job[w].remote \in Ids /\ job[w].scimId \in Ids
    BY Zenon DEF Shapes, JobOf
  <2> QED
    BY Zenon, <2>1
<1>3. IsFiniteSet(Users) /\ IsFiniteSet(Workers)
  BY Zenon, ScimConstants
<1>4. IsFiniteSet(R1) /\ Cardinality(R1) <= Cardinality(Users)
  <2> HIDE DEF f1, Ids
  <2> QED
    BY Zenon, <1>1, <1>3, Image
<1>5. IsFiniteSet(R2) /\ Cardinality(R2) <= Cardinality(Users)
  <2> HIDE DEF f2, Ids
  <2> QED
    BY Zenon, <1>1, <1>3, Image
<1>6. IsFiniteSet(R3) /\ Cardinality(R3) <= Cardinality(Workers)
  <2> HIDE DEF f3, Ids
  <2> QED
    BY Zenon, <1>2, <1>3, Image
<1>7. IsFiniteSet(R4) /\ Cardinality(R4) <= Cardinality(Workers)
  <2> HIDE DEF f4, Ids
  <2> QED
    BY Zenon, <1>2, <1>3, Image
<1> DEFINE R12 == R1 \cup R2
           R34 == R3 \cup R4
           R == R12 \cup R34
<1>8. IsFiniteSet(R) /\ Cardinality(R) <= 2 * (Cardinality(Users) + Cardinality(Workers))
  <2> HIDE DEF R1, R2, R3, R4
  <2>1. /\ IsFiniteSet(R12) /\ IsFiniteSet(R1 \cap R2)
        /\ Cardinality(R12) = Cardinality(R1) + Cardinality(R2) - Cardinality(R1 \cap R2)
    BY Zenon, <1>4, <1>5, FS_Union, FS_Intersection
  <2>2. /\ IsFiniteSet(R34) /\ IsFiniteSet(R3 \cap R4)
        /\ Cardinality(R34) = Cardinality(R3) + Cardinality(R4) - Cardinality(R3 \cap R4)
    BY Zenon, <1>6, <1>7, FS_Union, FS_Intersection
  <2> HIDE DEF R12, R34
  <2>3. /\ IsFiniteSet(R) /\ IsFiniteSet(R12 \cap R34)
        /\ Cardinality(R) = Cardinality(R12) + Cardinality(R34) - Cardinality(R12 \cap R34)
    BY Zenon, <2>1, <2>2, FS_Union, FS_Intersection
  <2>4. \A T : IsFiniteSet(T) => Cardinality(T) \in Nat
    BY Zenon, FS_CardinalityType
  <2> QED
    BY SMTT(30), <1>3, <1>4, <1>5, <1>6, <1>7, <2>1, <2>2, <2>3, <2>4
<1>9. \E id \in RemoteIds : id \notin R
  <2> HIDE DEF R
  <2>1. SUFFICES ASSUME RemoteIds \subseteq R
                 PROVE  FALSE
    BY Zenon
  <2>2. IsFiniteSet(RemoteIds) /\ Cardinality(RemoteIds) <= Cardinality(R)
    BY Zenon, <1>8, <2>1, FS_Subset
  <2>3. /\ Cardinality(R) \in Nat /\ Cardinality(RemoteIds) \in Nat
        /\ Cardinality(Users) \in Nat /\ Cardinality(Workers) \in Nat
    BY Zenon, <1>3, <1>8, <2>2, FS_CardinalityType
  <2> QED
    BY SMTT(30), <1>8, <2>2, <2>3, ScimConstants
<1>10. PICK id \in RemoteIds : id \notin R
  BY Zenon, <1>9
<1>11. /\ \A u \in Users : mapping[u] # id /\ receiver[u].id # id
       /\ \A w \in Workers : job[w].remote # id /\ job[w].scimId # id
  BY Zenon, <1>10
<1>12. FreshRemoteId \in RemoteIds
  BY <1>11, Zenon DEF FreshRemoteId
<1> QED
  BY Zenon, <1>12, ScimConstants

(* Two workers are one.                                                    *)
OneWorker == \A v, w \in Workers : v = w

(* The head and the tail of a list that is not empty.                      *)
LEMMA HeadAndTail ==
    ASSUME NEW T, NEW s \in Seq(T), s # <<>>
    PROVE  /\ Head(s) = s[1] /\ 1 \in DOMAIN s /\ Head(s) \in T
           /\ Tail(s) \in Seq(T)
           /\ Len(s) # 1 => Tail(s) # <<>>
           /\ \A i \in DOMAIN Tail(s) : \E k \in DOMAIN s : Tail(s)[i] = s[k]
<1>1. Len(s) \in Nat \ {0} /\ DOMAIN s = 1 .. Len(s)
  BY Zenon, EmptySeq, LenProperties
<1>2. Head(s) \in T /\ Tail(s) \in Seq(T)
  BY Zenon, HeadTailProperties
<1>3. Len(Tail(s)) = Len(s) - 1 /\ DOMAIN Tail(s) = 1 .. Len(Tail(s))
  BY <1>1, <1>2, LenProperties
<1>4. \A i \in DOMAIN Tail(s) : Tail(s)[i] = s[i + 1] /\ i + 1 \in DOMAIN s
  BY <1>1, <1>3
<1>5. Len(s) # 1 => Tail(s) # <<>>
  <2>1. Len(<<>>) = 0
    BY Zenon, EmptySeq
  <2>2. Len(s) # 1 => Len(Tail(s)) # 0
    BY <1>1, <1>3
  <2> QED
    BY <2>1, <2>2, Zenon
<1>6. Head(s) = s[1] /\ 1 \in DOMAIN s
  BY <1>1
<1> QED
  BY Zenon, <1>2, <1>4, <1>5, <1>6

(* An entry in hand is an entry held.                                      *)
LEMMA EntryHeld ==
    ASSUME Shapes, NEW w \in Workers, job[w].batch # <<>>
    PROVE  Entry(w).user \in Users /\ Holds(w, Entry(w).user)
<1>1. PICK S : job[w] \in JobOf(S)
  BY Zenon DEF Shapes
<1>2. job[w].batch \in Seq([user : Users, id : S, attempts : S])
  BY Zenon, <1>1 DEF JobOf
<1>3. /\ Head(job[w].batch) = job[w].batch[1] /\ 1 \in DOMAIN job[w].batch
      /\ Head(job[w].batch) \in [user : Users, id : S, attempts : S]
  BY Zenon, <1>2, HeadAndTail
<1> QED
  BY Zenon, <1>3 DEF Entry, Holds

(* The worker goes on with the rest of its batch, or ends.                 *)
LEMMA NextEntryFacts ==
    ASSUME Shapes, NEW w \in Workers, job[w].batch # <<>>, NEW again \in Pcs, again # "idle"
    PROVE  LET n == NextEntry(w, again) IN
           /\ \E S : n \in JobOf(S)
           /\ n.pc \in {"idle", again} /\ n.scimId = Null
           /\ n.pc = "idle" <=> n.batch = <<>>
           /\ \A i \in DOMAIN n.batch : \E k \in DOMAIN job[w].batch : n.batch[i] = job[w].batch[k]
<1>1. PICK S : job[w] \in JobOf(S)
  BY Zenon DEF Shapes
<1> DEFINE b == job[w].batch
           E == [user : Users, id : S, attempts : S]
<1>2. b \in Seq(E) /\ job[w].token \in Credentials
  BY Zenon, <1>1 DEF JobOf
<1>3. /\ Tail(b) \in Seq(E)
      /\ Len(b) # 1 => Tail(b) # <<>>
      /\ \A i \in DOMAIN Tail(b) : \E k \in DOMAIN b : Tail(b)[i] = b[k]
  <2> HIDE DEF b, E
  <2>1. b # <<>>
    BY Zenon DEF b
  <2> QED
    BY ZenonT(60), <1>2, <2>1, HeadAndTail
<1>4. CASE Len(b) = 1
  <2>1. NextEntry(w, again) = IdleJob
    BY Zenon, <1>4 DEF NextEntry
  <2>2. IdleJob \in JobOf(S)
    BY Zenon, EmptySeq DEF IdleJob, JobOf, Pcs, Credentials, Results
  <2>3. IdleJob.pc = "idle" /\ IdleJob.scimId = Null /\ IdleJob.batch = <<>>
    BY Zenon DEF IdleJob
  <2>4. DOMAIN <<>> = {}
    OBVIOUS
  <2> QED
    BY SMTT(30), <2>1, <2>2, <2>3, <2>4
<1>5. CASE Len(b) # 1
  <2> DEFINE n == [IdleJob EXCEPT !.pc = again, !.batch = Tail(b), !.token = job[w].token]
  <2>1. NextEntry(w, again) = n
    BY Zenon, <1>5 DEF NextEntry
  <2>2. n \in JobOf(S)
    BY Zenon, <1>2, <1>3 DEF IdleJob, JobOf, Pcs, Credentials, Results
  <2>3. n.pc = again /\ n.scimId = Null /\ n.batch = Tail(b)
    BY Zenon DEF IdleJob
  <2> HIDE DEF n
  <2> QED
    BY Zenon, <1>3, <1>5, <2>1, <2>2, <2>3
<1> QED
  BY Zenon, <1>4, <1>5

-----------------------------------------------------------------------------
(* Steps that leave the worker alone *)

(* A row that is due, dead or tried is a row.                              *)
LEMMA RowFacts ==
    ASSUME NEW r, Row(r)
    PROVE  /\ r.due \/ r.dead \/ r.attempts # 0 => r # NoRow
           /\ Row([r EXCEPT !.attempts = 0, !.due = TRUE])
           /\ [r EXCEPT !.attempts = 0, !.due = TRUE] # NoRow
           /\ Row([r EXCEPT !.due = TRUE])
           /\ [r EXCEPT !.due = TRUE] # NoRow
           /\ Row([r EXCEPT !.dead = FALSE, !.attempts = 0, !.due = TRUE])
           /\ [r EXCEPT !.dead = FALSE, !.attempts = 0, !.due = TRUE] # NoRow
           /\ Row([r EXCEPT !.attempts = r.attempts + 1, !.due = FALSE])
           /\ [r EXCEPT !.attempts = r.attempts + 1, !.due = FALSE] # NoRow
           /\ \A d \in BOOLEAN :
                 /\ Row([r EXCEPT !.dead = r.dead \/ d])
                 /\ r # NoRow => [r EXCEPT !.dead = r.dead \/ d] # NoRow
<1>0. PICK S : r \in [id : S, attempts : Nat, due : BOOLEAN, dead : BOOLEAN]
  BY Zenon DEF Row
<1>1. r.due \/ r.dead \/ r.attempts # 0 => r # NoRow
  BY <1>0 DEF NoRow
<1>2. /\ Row([r EXCEPT !.attempts = 0, !.due = TRUE])
      /\ [r EXCEPT !.attempts = 0, !.due = TRUE] # NoRow
  BY Zenon, <1>0 DEF Row, NoRow
<1>3. Row([r EXCEPT !.due = TRUE]) /\ [r EXCEPT !.due = TRUE] # NoRow
  BY Zenon, <1>0 DEF Row, NoRow
<1>4. /\ Row([r EXCEPT !.dead = FALSE, !.attempts = 0, !.due = TRUE])
      /\ [r EXCEPT !.dead = FALSE, !.attempts = 0, !.due = TRUE] # NoRow
  BY Zenon, <1>0 DEF Row, NoRow
<1>5. /\ Row([r EXCEPT !.attempts = r.attempts + 1, !.due = FALSE])
      /\ [r EXCEPT !.attempts = r.attempts + 1, !.due = FALSE] # NoRow
  <2>1. PICK n \in Nat : n = r.attempts + 1 /\ n # 0
    BY <1>0
  <2>2. ASSUME NEW t, t = [r EXCEPT !.attempts = n, !.due = FALSE]
        PROVE  Row(t) /\ t # NoRow
    BY Zenon, <1>0, <2>1, <2>2 DEF Row, NoRow
  <2> QED
    BY Zenon, <2>1, <2>2
<1>6. ASSUME NEW d \in BOOLEAN
      PROVE  /\ Row([r EXCEPT !.dead = r.dead \/ d])
             /\ r # NoRow => [r EXCEPT !.dead = r.dead \/ d] # NoRow
  <2>1. CASE d
    BY Zenon, <1>0, <2>1 DEF Row, NoRow
  <2>2. CASE ~d
    BY Zenon, <1>0, <2>2 DEF Row, NoRow
  <2> QED
    BY Zenon, <2>1, <2>2
<1> QED
  BY <1>1, <1>2, <1>3, <1>4, <1>5, <1>6, Zenon

(* A step beside the worker keeps the invariant when every promise that is *)
(* clean after it was clean before, of the same state at both ends, or is  *)
(* new, for a user no worker has in hand and with a row.                   *)
LEMMA BesideWorker ==
    ASSUME Inv, Shapes', UNCHANGED <<mapping, job>>,
           \A u \in Users : receiver'[u] \in {receiver[u], NoResource},
           \A u \in Users : Clean(u)' =>
              /\ enabled'
              /\ \/ /\ Clean(u) /\ user'[u] = user[u] /\ receiver'[u] = receiver[u]
                    /\ queue[u] # NoRow => queue'[u] # NoRow
                 \/ ~Held(u) /\ queue'[u] # NoRow
    PROVE  Inv'
<1>1. \A u \in Users : Recorded(u)'
  BY Zenon DEF Inv, Recorded
<1>2. \A u \in Users : user'[u] = user[u] /\ receiver'[u] = receiver[u] => Settled(u)' = Settled(u)
  BY Zenon DEF Settled
<1>3. LastStateWins'
  BY <1>2, Zenon DEF Inv, LastStateWins, Clean
<1>4. ASSUME NEW w \in Workers
      PROVE  InHand(w)' /\ Remote(w)' /\ Latest(w)'
  <2>1. InHand(w) /\ Remote(w) /\ Latest(w)
    BY Zenon DEF Inv
  <2>2. job'[w] = job[w] /\ Entry(w)' = Entry(w) /\ \A u \in Users : Holds(w, u)' = Holds(w, u)
    BY Zenon DEF Entry, Holds
  <2>3. \A u \in Users : Holds(w, u) => Held(u)
    BY Zenon DEF Held
  <2>4. \A u \in Users : Clean(u)' /\ Holds(w, u) =>
            Clean(u) /\ user'[u] = user[u] /\ receiver'[u] = receiver[u]
    BY <2>3, Zenon
  <2>5. InHand(w)'
    BY <2>1, <2>2, <2>4, Zenon DEF InHand
  <2>6. CASE job[w].pc = "idle"
    <3>1. job[w].scimId = Null
      BY Zenon, <2>1, <2>6 DEF Remote, RemoteOf
    <3> QED
      BY Zenon, <2>2, <2>5, <2>6, <3>1 DEF Remote, RemoteOf, Latest, LatestOf
  <2>7. CASE job[w].pc # "idle"
    <3>1. Entry(w).user \in Users /\ Holds(w, Entry(w).user)
      BY <2>1, <2>7, EntryHeld, Zenon DEF Inv, InHand
    <3>2. Remote(w)'
      BY Zenon, <2>1, <2>2, <3>1 DEF Remote, RemoteOf
    <3>3. PICK u \in Users : u = Entry(w).user
      BY <3>1, Zenon
    <3>4. Latest(w)'
      <4>1. SUFFICES ASSUME Clean(u)'
                     PROVE  Latest(w)'
        BY <2>2, <3>3, Zenon DEF Latest, LatestOf
      <4>2. Clean(u) /\ user'[u] = user[u] /\ Settled(u)' = Settled(u)
        BY <1>2, <2>4, <3>1, <3>3, <4>1, Zenon
      <4> QED
        BY <2>1, <2>2, <2>7, <3>3, <4>2, Zenon DEF Latest, LatestOf
    <3> QED
      BY Zenon, <2>5, <3>2, <3>4
  <2> QED
    BY Zenon, <2>6, <2>7
<1> QED
  BY <1>1, <1>3, <1>4, Zenon DEF Inv

(* A committed change: its user is promised nothing until its event.       *)
LEMMA ChangeStep ==
    ASSUME Inv, NEW u \in Users, NEW v \in Versions, NEW s \in BOOLEAN,
           Change(u, [ver |-> v, scope |-> s])
    PROVE  Inv'
<1> DEFINE new == [ver |-> v, scope |-> s]
<1>1. /\ user' = [user EXCEPT ![u] = new]
      /\ promise' = [promise EXCEPT ![u] = "none"]
      /\ UNCHANGED <<queue, fifo, enabled, cred, mapping, receiver, job, crashes>>
  BY Zenon DEF Change
<1>2. new \in [ver : Versions, scope : BOOLEAN]
  BY Zenon
<1> HIDE DEF new
<1>3. Shapes'
  BY Zenon, <1>1, <1>2 DEF Inv, Shapes, Promises
<1>4. \A x \in Users : Clean(x)' => Clean(x) /\ user'[x] = user[x]
  BY Zenon, <1>1 DEF Inv, Shapes, Clean
<1> QED
  BY SMTT(30), <1>1, <1>3, <1>4, BesideWorker DEF Inv

(* The event of a change: the promise is clean when no worker has the user *)
(* in hand, and the row it enqueues or keeps stands for it.                *)
LEMMA DispatchStep ==
    ASSUME Inv, NEW u \in Users, NEW k \in Kinds, scim_dispatch(u, k)
    PROVE  Inv'
<1>1. UNCHANGED <<user, enabled, cred, mapping, receiver, job>>
  BY Zenon DEF scim_dispatch
<1>2. CASE enabled /\ (k = "self" => user[u].scope)
  <2>1. /\ promise' = [promise EXCEPT ![u] = IF Held(u) THEN "overtaken" ELSE "clean"]
        /\ upsert_entry(u)
    BY <1>2, Zenon DEF scim_dispatch
  <2> DEFINE r == IF queue[u] = NoRow
                  THEN [id |-> FreshRowId, attempts |-> 0, due |-> TRUE, dead |-> FALSE]
                  ELSE [queue[u] EXCEPT !.attempts = 0, !.due = TRUE]
  <2>2. queue' = [queue EXCEPT ![u] = r]
    BY Zenon, <2>1 DEF upsert_entry
  <2>3. Row(r) /\ r # NoRow
    <3>1. CASE queue[u] = NoRow
      BY Zenon, <3>1 DEF Row, NoRow
    <3>2. CASE queue[u] # NoRow
      BY Zenon, <3>2, RowFacts DEF Inv, Shapes
    <3> QED
      BY Zenon, <3>1, <3>2
  <2> HIDE DEF r
  <2>4. Shapes'
    BY SMTT(30), <1>1, <2>1, <2>2, <2>3 DEF Inv, Shapes, Promises
  <2>5. \A x \in Users : x # u => promise'[x] = promise[x] /\ queue'[x] = queue[x]
    BY Zenon, <2>1, <2>2 DEF Inv, Shapes
  <2>6. queue'[u] # NoRow /\ (Clean(u)' => ~Held(u))
    BY Zenon, <2>1, <2>2, <2>3 DEF Inv, Shapes, Clean
  <2> QED
    BY SMTT(30), <1>1, <1>2, <2>4, <2>5, <2>6, BesideWorker DEF Inv, Clean
<1>3. CASE ~(enabled /\ (k = "self" => user[u].scope))
  <2>1. UNCHANGED <<queue, fifo, promise>>
    BY <1>3, Zenon DEF scim_dispatch
  <2>2. Shapes'
    BY Zenon, <1>1, <2>1 DEF Inv, Shapes
  <2> QED
    BY Zenon, <1>1, <2>1, <2>2, BesideWorker DEF Inv, Clean
<1> QED
  BY Zenon, <1>2, <1>3

(* Configuration, credentials, lost events, revivals, elapsed backoffs and *)
(* deletions at the receiver: no promise becomes clean.                    *)
LEMMA EnvironmentStep ==
    ASSUME Inv,
           \/ \E u \in Users, k \in Kinds : DispatchLost(u, k)
           \/ update_scim_config
           \/ \E c \in Credentials : ChangeCredential(c)
           \/ retry_dead_lettered
           \/ \E u \in Users : BackoffElapses(u) \/ ReceiverDeletes(u)
    PROVE  Inv'
<1>1. CASE \E u \in Users, k \in Kinds : DispatchLost(u, k)
  <2>1. UNCHANGED <<user, queue, fifo, enabled, cred, mapping, receiver, job, promise>>
    BY <1>1, Zenon DEF DispatchLost
  <2>2. Shapes'
    BY Zenon, <2>1 DEF Inv, Shapes
  <2> QED
    BY Zenon, <2>1, <2>2, BesideWorker DEF Inv, Clean
<1>2. CASE update_scim_config
  <2>1. /\ enabled' = ~enabled
        /\ promise' = [u \in Users |-> IF enabled /\ promise[u] # "discarded"
                                       THEN "none" ELSE promise[u]]
        /\ UNCHANGED <<user, queue, fifo, cred, mapping, receiver, job>>
    BY <1>2, Zenon DEF update_scim_config
  <2>2. Shapes'
    BY Zenon, <2>1 DEF Inv, Shapes, Promises
  <2>3. \A u \in Users : ~Clean(u)'
    BY Zenon, <2>1 DEF Inv, Shapes, Clean
  <2> QED
    BY Zenon, <2>1, <2>2, <2>3, BesideWorker
<1>3. CASE \E c \in Credentials : ChangeCredential(c)
  <2>1. /\ cred' \in Credentials
        /\ UNCHANGED <<user, queue, fifo, enabled, mapping, receiver, job, promise>>
    BY Zenon, <1>3 DEF ChangeCredential
  <2>2. Shapes'
    BY Zenon, <2>1 DEF Inv, Shapes
  <2> QED
    BY Zenon, <2>1, <2>2, BesideWorker DEF Inv, Clean
<1>4. CASE retry_dead_lettered
  <2> DEFINE r(u) == IF queue[u].dead
                     THEN [queue[u] EXCEPT !.dead = FALSE, !.attempts = 0, !.due = TRUE]
                     ELSE queue[u]
  <2>1. /\ queue' = [u \in Users |-> r(u)]
        /\ UNCHANGED <<user, fifo, enabled, cred, mapping, receiver, job, promise>>
    BY <1>4, Zenon DEF retry_dead_lettered
  <2>2. ASSUME NEW u \in Users
        PROVE  Row(r(u)) /\ (queue[u] # NoRow => r(u) # NoRow)
    <3>1. Row(queue[u])
      BY Zenon DEF Inv, Shapes
    <3> QED
      BY <3>1, RowFacts, Zenon
  <2> HIDE DEF r
  <2>3. \A u \in Users : queue'[u] = r(u)
    BY Zenon, <2>1
  <2>4. Shapes'
    BY Zenon, <2>1, <2>2, <2>3 DEF Inv, Shapes
  <2> QED
    BY SMTT(30), <2>1, <2>2, <2>3, <2>4, BesideWorker DEF Inv, Clean
<1>5. ASSUME NEW u \in Users, BackoffElapses(u)
      PROVE  Inv'
  <2> DEFINE r == [queue[u] EXCEPT !.due = TRUE]
  <2>1. /\ queue' = [queue EXCEPT ![u] = r]
        /\ UNCHANGED <<user, fifo, enabled, cred, mapping, receiver, job, promise>>
    BY Zenon, <1>5 DEF BackoffElapses
  <2>2. Row(r) /\ r # NoRow
    BY Zenon, RowFacts DEF Inv, Shapes
  <2> HIDE DEF r
  <2>3. Shapes'
    BY Zenon, <2>1, <2>2 DEF Inv, Shapes
  <2>4. \A x \in Users : queue[x] # NoRow => queue'[x] # NoRow
    BY Zenon, <2>1, <2>2 DEF Inv, Shapes
  <2> QED
    BY SMTT(30), <2>1, <2>3, <2>4, BesideWorker DEF Inv, Clean
<1>6. ASSUME NEW u \in Users, ReceiverDeletes(u)
      PROVE  Inv'
  <2>1. /\ receiver' = [receiver EXCEPT ![u] = NoResource]
        /\ promise' = [promise EXCEPT ![u] = "none"]
        /\ UNCHANGED <<user, queue, fifo, enabled, cred, mapping, job>>
    BY <1>6, Zenon DEF ReceiverDeletes
  <2>2. NoResource \in Resources
    BY Zenon DEF NoResource, Resources
  <2>3. Shapes'
    BY Zenon, <2>1, <2>2 DEF Inv, Shapes, Promises
  <2>4. \A x \in Users : /\ receiver'[x] \in {receiver[x], NoResource}
                         /\ Clean(x)' => Clean(x) /\ receiver'[x] = receiver[x]
    BY Zenon, <2>1 DEF Inv, Shapes, Clean
  <2> QED
    BY Zenon, <2>1, <2>3, <2>4, BesideWorker DEF Inv
<1> QED
  BY <1>1, <1>2, <1>3, <1>4, <1>5, <1>6, Zenon

-----------------------------------------------------------------------------
(* Steps of the worker *)

(* The worker's local state takes its next value.                          *)
LEMMA JobStep ==
    ASSUME Inv, NEW w \in Workers, NEW x, job' = [job EXCEPT ![w] = x], \E S : x \in JobOf(S)
    PROVE  /\ job'[w] = x
           /\ job' = [v \in Workers |-> job'[v]]
           /\ \A v \in Workers : \E S : job'[v] \in JobOf(S)
<1>1. job = [v \in Workers |-> job[v]] /\ \A v \in Workers : \E S : job[v] \in JobOf(S)
  BY Zenon DEF Inv, Shapes
<1>2. job'[w] = x /\ \A v \in Workers : v # w => job'[v] = job[v]
  BY Zenon, <1>1
<1>3. job' = [v \in Workers |-> job'[v]]
  BY Zenon, <1>1
<1>4. \A v \in Workers : \E S : job'[v] \in JobOf(S)
  BY <1>1, <1>2, Zenon
<1> QED
  BY Zenon, <1>2, <1>3, <1>4

(* A step that changes the worker's local state and nothing else.          *)
LEMMA LocalStep ==
    ASSUME Inv, OneWorker, NEW w \in Workers, NEW x,
           job' = [job EXCEPT ![w] = x], \E S : x \in JobOf(S),
           UNCHANGED <<user, queue, enabled, cred, mapping, receiver, promise>>,
           InHand(w)' /\ Remote(w)' /\ Latest(w)'
    PROVE  Inv'
<1>1. /\ job' = [v \in Workers |-> job'[v]]
      /\ \A v \in Workers : \E S : job'[v] \in JobOf(S)
  BY JobStep, Zenon
<1>2. Shapes'
  BY Zenon, <1>1 DEF Inv, Shapes
<1>3. \A u \in Users : (Clean(u)' => enabled') /\ Recorded(u)'
  BY Zenon DEF Inv, Clean, Recorded
<1>4. LastStateWins'
  BY Zenon DEF Inv, LastStateWins, Settled
<1>5. \A v \in Workers : InHand(v)' /\ Remote(v)' /\ Latest(v)'
  <2>1. \A v \in Workers : v = w
    BY Zenon DEF OneWorker
  <2> QED
    BY <2>1, Zenon
<1> QED
  BY <1>2, <1>3, <1>4, <1>5, Zenon DEF Inv

(* A step on the entry in hand that leaves the batch as it is.             *)
LEMMA EntryStep ==
    ASSUME Inv, OneWorker, NEW w \in Workers, NEW x, job[w].pc # "idle",
           job' = [job EXCEPT ![w] = x], \E S : x \in JobOf(S),
           UNCHANGED <<user, queue, enabled, cred, mapping, receiver, promise>>,
           x.batch = job[w].batch, x.pc # "idle",
           x.pc = "drop" => job[w].pc = "drop" \/ ~enabled,
           RemoteOf(x, Entry(w).user), LatestOf(x, Entry(w).user)
    PROVE  Inv'
<1>1. job'[w] = x
  BY JobStep, Zenon
<1>2. Entry(w)' = Entry(w) /\ \A u \in Users : Holds(w, u)' = Holds(w, u)
  BY <1>1, Zenon DEF Entry, Holds
<1>3. InHand(w) /\ \A u \in Users : (Clean(u) => enabled) /\ Clean(u)' = Clean(u)
  BY Zenon DEF Inv, Clean
<1>4. InHand(w)'
  <2>1. x.pc # "idle" /\ x.batch # <<>>
    BY <1>3, Zenon DEF InHand
  <2> QED
    BY <1>1, <1>2, <1>3, <2>1, Zenon DEF InHand
<1>5. PICK u : u = Entry(w).user
  BY Zenon
<1>6. Remote(w)'
  <2>1. RemoteOf(x, u)
    BY <1>5, Zenon
  <2>2. Remote(w)' <=> RemoteOf(x, u)
    BY <1>1, <1>2, <1>5, Zenon DEF Remote, RemoteOf
  <2> QED
    BY Zenon, <2>1, <2>2
<1>7. Latest(w)'
  <2>1. LatestOf(x, u)
    BY <1>5, Zenon
  <2>2. Latest(w)' <=> LatestOf(x, u)
    BY <1>1, <1>2, <1>5, Zenon DEF Latest, LatestOf, Clean, Settled
  <2> QED
    BY Zenon, <2>1, <2>2
<1> QED
  BY <1>4, <1>6, <1>7, LocalStep, Zenon

(* What a failed try leaves of the local state: another try, or the end.   *)
AfterFailure(x, j, S) ==
    /\ x \in JobOf(S) /\ x.batch = j.batch /\ x.scimId = j.scimId
    /\ x.pc = "send" \/ (x.pc = "mapping" /\ x.result = "retryable")
    /\ x.op = j.op /\ x.remote = j.remote /\ x.ver = j.ver

(* One try fails: the local state of the worker after it.                  *)
LEMMA TryFailsJob ==
    ASSUME NEW w \in Workers, TryFails(w), NEW S, job[w] \in JobOf(S)
    PROVE  \E x : job' = [job EXCEPT ![w] = x] /\ AfterFailure(x, job[w], S)
<1> DEFINE j == job[w]
           x1 == [j EXCEPT !.tries = j.tries + 1]
           x2 == [j EXCEPT !.pc = "mapping", !.result = "retryable"]
<1>0. j.pc = "send" /\ j.tries \in Nat
  BY Zenon DEF TryFails, JobOf
<1>1. CASE j.tries + 1 < HttpTries
  <2>1. job' = [job EXCEPT ![w] = x1]
    BY <1>1, Zenon DEF TryFails
  <2>2. PICK n \in Nat : n = j.tries + 1
    BY <1>0
  <2>3. ASSUME NEW x, x = [j EXCEPT !.tries = n]
        PROVE  AfterFailure(x, j, S)
    <3>1. x \in JobOf(S)
      BY Zenon, <2>3 DEF JobOf
    <3>2. /\ x.batch = j.batch /\ x.scimId = j.scimId /\ x.op = j.op /\ x.remote = j.remote
          /\ x.ver = j.ver /\ x.pc = j.pc
      BY Zenon, <2>3 DEF JobOf
    <3> QED
      BY <1>0, <3>1, <3>2, Zenon DEF AfterFailure
  <2> QED
    BY <2>1, <2>2, <2>3, Zenon
<1>2. CASE ~(j.tries + 1 < HttpTries)
  <2>1. job' = [job EXCEPT ![w] = x2]
    BY Zenon, <1>2 DEF TryFails
  <2>2. AfterFailure(x2, j, S)
    BY ZenonT(60), <1>0 DEF AfterFailure, JobOf, Pcs, Results
  <2> QED
    BY <2>1, <2>2, Zenon
<1> QED
  BY Zenon, <1>1, <1>2

(* The steps that only read, or only hear of a failure.                    *)
LEMMA ReadingStep ==
    ASSUME Inv, OneWorker, NEW w \in Workers,
           \/ CheckTarget(w) \/ ResolveToken(w) \/ ReadUser(w) \/ ReadScope(w)
           \/ DispatchRaises(w) \/ Refused(w)
           \/ _process_entry(w) /\ job[w].token = "ok"
           \/ TryFails(w) /\ UNCHANGED receiver
    PROVE  Inv'
<1>0. PICK S : job[w] \in JobOf(S)
  BY Zenon DEF Inv, Shapes
<1> DEFINE u == Entry(w).user
<1>a. Remote(w) /\ Latest(w) /\ InHand(w) /\ (\A v \in Users : Clean(v) => enabled)
  BY Zenon DEF Inv
<1>b. job[w].pc = "idle" => job[w].scimId = Null
  BY <1>a, Zenon DEF Remote, RemoteOf
<1>c. job[w].pc # "idle" => u \in Users
  BY <1>a, EntryHeld, Zenon DEF Inv, InHand
<1>1. CASE CheckTarget(w)
  <2> DEFINE x == [job[w] EXCEPT !.pc = IF enabled THEN "token" ELSE "drop"]
  <2>1. /\ job' = [job EXCEPT ![w] = x] /\ job[w].pc = "target"
        /\ UNCHANGED <<user, queue, enabled, cred, mapping, receiver, promise>>
    BY Zenon, <1>1 DEF CheckTarget
  <2>2. /\ x \in JobOf(S) /\ x.batch = job[w].batch /\ x.scimId = job[w].scimId
        /\ x.pc = IF enabled THEN "token" ELSE "drop"
    BY <1>0 DEF JobOf, Pcs
  <2> HIDE DEF x
  <2>3. RemoteOf(x, Entry(w).user) /\ LatestOf(x, Entry(w).user)
    BY Zenon, <1>a, <2>1, <2>2 DEF Remote, RemoteOf, LatestOf
  <2> QED
    BY <2>1, <2>2, <2>3, EntryStep, Zenon
<1>2. CASE ResolveToken(w)
  <2> DEFINE x == [job[w] EXCEPT !.pc = "entry", !.token = cred]
  <2>1. /\ job' = [job EXCEPT ![w] = x] /\ job[w].pc = "token"
        /\ UNCHANGED <<user, queue, enabled, cred, mapping, receiver, promise>>
    BY Zenon, <1>2 DEF ResolveToken
  <2>2. /\ x \in JobOf(S) /\ x.batch = job[w].batch /\ x.scimId = job[w].scimId
        /\ x.pc = "entry"
    BY ZenonT(40), <1>0 DEF JobOf, Pcs, Inv, Shapes
  <2> HIDE DEF x
  <2>3. RemoteOf(x, Entry(w).user) /\ LatestOf(x, Entry(w).user)
    BY Zenon, <1>a, <2>1, <2>2 DEF Remote, RemoteOf, LatestOf
  <2> QED
    BY Zenon, <2>1, <2>2, <2>3, EntryStep
<1>3. CASE ReadUser(w)
  <2> DEFINE x == [job[w] EXCEPT !.pc = "scope", !.ver = user[u].ver]
  <2>1. /\ job' = [job EXCEPT ![w] = x] /\ job[w].pc = "resource"
        /\ UNCHANGED <<user, queue, enabled, cred, mapping, receiver, promise>>
    BY Zenon, <1>3 DEF ReadUser
  <2>2. /\ x \in JobOf(S) /\ x.batch = job[w].batch /\ x.scimId = job[w].scimId
        /\ x.pc = "scope" /\ x.ver = user[u].ver /\ x.remote = job[w].remote
    BY ZenonT(40), <1>0, <1>c, <2>1 DEF JobOf, Pcs, Inv, Shapes
  <2> HIDE DEF x
  <2>3. RemoteOf(x, Entry(w).user) /\ LatestOf(x, Entry(w).user)
    BY Zenon, <1>a, <2>1, <2>2 DEF Remote, RemoteOf, LatestOf
  <2> QED
    BY Zenon, <2>1, <2>2, <2>3, EntryStep
<1>4. CASE ReadScope(w)
  <2>1. PICK op \in {"DELETE", "PUT", "POST"} :
          /\ job' = [job EXCEPT ![w] = [job[w] EXCEPT !.pc = "send", !.op = op]]
          /\ op = "DELETE" <=> ~InScope(u)
          /\ op = "PUT" => job[w].remote # Null
          /\ op = "POST" => job[w].remote = Null
    <3>1. CASE ~InScope(u)
      BY Zenon, <1>4, <3>1 DEF ReadScope
    <3>2. CASE InScope(u) /\ job[w].remote # Null
      BY Zenon, <1>4, <3>2 DEF ReadScope
    <3>3. CASE InScope(u) /\ job[w].remote = Null
      BY Zenon, <1>4, <3>3 DEF ReadScope
    <3> QED
      BY Zenon, <3>1, <3>2, <3>3
  <2>2. /\ job[w].pc = "scope"
        /\ UNCHANGED <<user, queue, enabled, cred, mapping, receiver, promise>>
    BY <1>4, Zenon DEF ReadScope
  <2> DEFINE x == [job[w] EXCEPT !.pc = "send", !.op = op]
  <2>3. /\ x \in JobOf(S) /\ x.batch = job[w].batch /\ x.scimId = job[w].scimId
        /\ x.pc = "send" /\ x.op = op /\ x.remote = job[w].remote /\ x.ver = job[w].ver
    BY ZenonT(60), <1>0, <2>1 DEF JobOf, Pcs
  <2> HIDE DEF x
  <2>4. RemoteOf(x, Entry(w).user) /\ LatestOf(x, Entry(w).user)
    BY <1>a, <1>c, <2>1, <2>2, <2>3 DEF Remote, RemoteOf, Latest, LatestOf, InScope
  <2>5. job' = [job EXCEPT ![w] = x]
    BY Zenon, <2>1 DEF x
  <2> QED
    BY Zenon, <2>2, <2>3, <2>4, <2>5, EntryStep
<1>5. CASE DispatchRaises(w)
  <2> DEFINE x == [job[w] EXCEPT !.pc = "record", !.result = "retryable"]
  <2>1. /\ job' = [job EXCEPT ![w] = x] /\ job[w].pc \in {"resource", "scope"}
        /\ UNCHANGED <<user, queue, enabled, cred, mapping, receiver, promise>>
    BY Zenon, <1>5 DEF DispatchRaises
  <2>2. /\ x \in JobOf(S) /\ x.batch = job[w].batch /\ x.scimId = job[w].scimId
        /\ x.pc = "record" /\ x.result = "retryable"
    BY ZenonT(60), <1>0 DEF JobOf, Pcs, Results
  <2> HIDE DEF x
  <2>3. RemoteOf(x, Entry(w).user) /\ LatestOf(x, Entry(w).user)
    BY Zenon, <1>a, <2>1, <2>2 DEF Remote, RemoteOf, LatestOf
  <2> QED
    BY Zenon, <2>1, <2>2, <2>3, EntryStep
<1>6. CASE Refused(w)
  <2> DEFINE x == [job[w] EXCEPT !.pc = "mapping", !.result = "permanent"]
  <2>1. /\ job' = [job EXCEPT ![w] = x] /\ job[w].pc = "send"
        /\ UNCHANGED <<user, queue, enabled, cred, mapping, receiver, promise>>
    BY Zenon, <1>6 DEF Refused
  <2>2. /\ x \in JobOf(S) /\ x.batch = job[w].batch /\ x.scimId = job[w].scimId
        /\ x.pc = "mapping" /\ x.result = "permanent"
        /\ x.op = job[w].op /\ x.remote = job[w].remote
    BY ZenonT(40), <1>0 DEF JobOf, Pcs, Results
  <2> HIDE DEF x
  <2>3. RemoteOf(x, Entry(w).user) /\ LatestOf(x, Entry(w).user)
    BY Zenon, <1>a, <2>1, <2>2 DEF Remote, RemoteOf, LatestOf
  <2> QED
    BY Zenon, <2>1, <2>2, <2>3, EntryStep
<1>7. CASE _process_entry(w) /\ job[w].token = "ok"
  <2> DEFINE x == [job[w] EXCEPT !.pc = "resource", !.remote = mapping[u]]
  <2>1. /\ job' = [job EXCEPT ![w] = x] /\ job[w].pc = "entry"
        /\ UNCHANGED <<user, queue, enabled, cred, mapping, receiver, promise>>
    BY Zenon, <1>7 DEF _process_entry
  <2>2. /\ x \in JobOf(S) /\ x.batch = job[w].batch /\ x.scimId = job[w].scimId
        /\ x.pc = "resource" /\ x.remote = mapping[u]
    BY ZenonT(40), <1>0, <1>c, <2>1 DEF JobOf, Pcs, Inv, Shapes
  <2> HIDE DEF x
  <2>3. RemoteOf(x, Entry(w).user) /\ LatestOf(x, Entry(w).user)
    BY Zenon, <1>a, <2>1, <2>2 DEF Remote, RemoteOf, LatestOf
  <2> QED
    BY Zenon, <2>1, <2>2, <2>3, EntryStep
<1>8. CASE TryFails(w) /\ UNCHANGED receiver
  <2>1. /\ job[w].pc = "send"
        /\ UNCHANGED <<user, queue, enabled, cred, mapping, receiver, promise>>
    BY <1>8, Zenon DEF TryFails
  <2>2. PICK x : job' = [job EXCEPT ![w] = x] /\ AfterFailure(x, job[w], S)
    BY Zenon, <1>0, <1>8, TryFailsJob
  <2>3. RemoteOf(x, Entry(w).user) /\ LatestOf(x, Entry(w).user)
    BY Zenon, <1>a, <2>1, <2>2 DEF Remote, RemoteOf, Latest, LatestOf, AfterFailure
  <2> QED
    BY Zenon, <2>1, <2>2, <2>3, EntryStep DEF AfterFailure
<1> QED
  BY <1>1, <1>2, <1>3, <1>4, <1>5, <1>6, <1>7, <1>8, Zenon

(* process_pending_pushes takes a batch.                                   *)
LEMMA ListReadyStep ==
    ASSUME Inv, OneWorker, NEW w \in Workers, ListReady(w)
    PROVE  Inv'
<1>0. PICK n \in 1 .. DrainLimit : \E users \in [1 .. n -> {u \in Users : Ready(u)}] :
         job' = [job EXCEPT ![w] = [IdleJob EXCEPT !.pc = "target", !.batch =
                  [i \in 1 .. n |-> [user |-> users[i], id |-> queue[users[i]].id,
                                     attempts |-> queue[users[i]].attempts]]]]
  BY Zenon DEF ListReady
<1>1. PICK users \in [1 .. n -> {u \in Users : Ready(u)}] :
         job' = [job EXCEPT ![w] = [IdleJob EXCEPT !.pc = "target", !.batch =
                  [i \in 1 .. n |-> [user |-> users[i], id |-> queue[users[i]].id,
                                     attempts |-> queue[users[i]].attempts]]]]
  BY <1>0, Zenon
<1>2. UNCHANGED <<user, queue, enabled, cred, mapping, receiver, promise>>
  BY Zenon DEF ListReady
<1> DEFINE S == {queue[u].id : u \in Users} \cup {queue[u].attempts : u \in Users}
           T == [user : Users, id : S, attempts : S]
           b == [i \in 1 .. n |-> [user |-> users[i], id |-> queue[users[i]].id,
                                   attempts |-> queue[users[i]].attempts]]
           x == [IdleJob EXCEPT !.pc = "target", !.batch = b]
<1>3. n \in Nat /\ n # 0
  BY ScimConstants
<1>4. b \in [1 .. n -> T]
  <2>1. \A i \in 1 .. n : users[i] \in Users
    BY Zenon
  <2> QED
    BY Zenon, <2>1
<1>5. b \in Seq(T) /\ b # <<>>
  <2> HIDE DEF b, T
  <2>1. b \in Seq(T)
    BY SMTT(30), <1>3, <1>4
  <2>2. 1 \in DOMAIN b
    BY <1>3, <1>4
  <2> QED
    BY SMTT(30), <2>1, <2>2
<1> HIDE DEF b
<1>6. x \in JobOf(S) /\ x.pc = "target" /\ x.scimId = Null /\ x.batch = b
  BY ZenonT(40), <1>5 DEF IdleJob, JobOf, Pcs, Credentials, Results
<1>7. job' = [job EXCEPT ![w] = x]
  BY Zenon, <1>1 DEF b
<1> HIDE DEF x, S
<1>8. job'[w] = x
  BY <1>6, <1>7, JobStep, Zenon
<1>9. InHand(w)' /\ Remote(w)' /\ Latest(w)'
  BY Zenon, <1>5, <1>6, <1>8 DEF InHand, Remote, RemoteOf, Latest, LatestOf
<1> QED
  BY <1>2, <1>6, <1>7, <1>9, LocalStep, ZenonT(60)

(* A crash forgets the batch.                                              *)
LEMMA CrashStep ==
    ASSUME Inv, OneWorker, NEW w \in Workers, Crash(w)
    PROVE  Inv'
<1>1. /\ job' = [job EXCEPT ![w] = IdleJob]
      /\ UNCHANGED <<user, queue, enabled, cred, mapping, receiver, promise>>
  BY Zenon DEF Crash
<1>2. IdleJob \in JobOf({})
  BY Zenon, EmptySeq DEF IdleJob, JobOf, Pcs, Credentials, Results
<1>3. job'[w] = IdleJob
  BY <1>1, <1>2, JobStep, Zenon
<1>4. IdleJob.pc = "idle" /\ IdleJob.batch = <<>> /\ IdleJob.scimId = Null
  BY Zenon DEF IdleJob
<1>5. InHand(w)' /\ Remote(w)' /\ Latest(w)'
  BY Zenon, <1>3, <1>4 DEF InHand, Remote, RemoteOf, Latest, LatestOf
<1> QED
  BY <1>1, <1>2, <1>5, LocalStep, Zenon

(* The worker ends an entry: rows of users whose promise is clean stay,    *)
(* unless the receiver holds their state.                                  *)
LEMMA EndEntry ==
    ASSUME Inv, OneWorker, NEW w \in Workers, NEW again \in {"drop", "entry"},
           job[w].pc # "idle", again = "drop" => job[w].pc = "drop",
           job' = [job EXCEPT ![w] = NextEntry(w, again)],
           UNCHANGED <<user, enabled, cred, mapping, receiver>>,
           promise' \in [Users -> Promises], \A u \in Users : Clean(u)' => Clean(u),
           queue' = [u \in Users |-> queue'[u]], \A u \in Users : Row(queue'[u]),
           \A u \in Users : Clean(u) /\ Clean(u)' /\ ~Settled(u) /\ queue[u] # NoRow
                               => queue'[u] # NoRow
    PROVE  Inv'
<1> DEFINE x == NextEntry(w, again)
<1>1. Shapes /\ job[w].batch # <<>> /\ InHand(w)
  BY Zenon DEF Inv, InHand
<1>2. again \in Pcs /\ again # "idle"
  BY Zenon DEF Pcs
<1>3. /\ \E S : x \in JobOf(S)
      /\ x.pc \in {"idle", again} /\ x.scimId = Null
      /\ x.pc = "idle" <=> x.batch = <<>>
      /\ \A i \in DOMAIN x.batch : \E k \in DOMAIN job[w].batch : x.batch[i] = job[w].batch[k]
  BY <1>1, <1>2, NextEntryFacts, Zenon
<1> HIDE DEF x
<1>4. job' = [job EXCEPT ![w] = x]
  BY Zenon DEF x
<1>5. /\ job'[w] = x /\ job' = [v \in Workers |-> job'[v]]
      /\ \A v \in Workers : \E S : job'[v] \in JobOf(S)
  BY <1>3, <1>4, JobStep, Zenon
<1>6. Shapes'
  BY Zenon, <1>1, <1>5 DEF Shapes
<1>7. \A u \in Users : (Clean(u)' => enabled') /\ Recorded(u)' /\ Settled(u)' = Settled(u)
  BY Zenon DEF Inv, Recorded, Settled
<1>8. LastStateWins'
  BY <1>7, Zenon DEF Inv, LastStateWins, Clean
<1>9. \A u \in Users : Holds(w, u)' => Holds(w, u)
  <2>1. SUFFICES ASSUME NEW u \in Users, \E i \in DOMAIN x.batch : x.batch[i].user = u
                 PROVE  \E k \in DOMAIN job[w].batch : job[w].batch[k].user = u
    BY Zenon, <1>5 DEF Holds
  <2>2. PICK i \in DOMAIN x.batch : x.batch[i].user = u
    BY <2>1, Zenon
  <2>3. PICK k \in DOMAIN job[w].batch : x.batch[i] = job[w].batch[k]
    BY <1>3, Zenon
  <2> QED
    BY <2>2, <2>3, Zenon
<1>10. InHand(w)'
  BY SMTT(30), <1>1, <1>3, <1>5, <1>9 DEF InHand
<1>11. Remote(w)' /\ Latest(w)'
  BY Zenon, <1>3, <1>5 DEF Remote, RemoteOf, Latest, LatestOf
<1>12. \A v \in Workers : InHand(v)' /\ Remote(v)' /\ Latest(v)'
  <2>1. \A v \in Workers : v = w
    BY Zenon DEF OneWorker
  <2> QED
    BY <1>10, <1>11, <2>1, Zenon
<1> QED
  BY <1>6, <1>7, <1>8, <1>12, Zenon DEF Inv

(* The statements that end an entry touch one row, and only a deletion     *)
(* removes it.                                                             *)
LEMMA RowStatements ==
    ASSUME Shapes, NEW u \in Users, NEW id,
           delete_entry(u, id) \/ mark_dead_letter(u, id) \/ mark_attempt_failed(u, id)
    PROVE  /\ queue' = [v \in Users |-> queue'[v]] /\ \A v \in Users : Row(queue'[v])
           /\ \A v \in Users : v # u => queue'[v] = queue[v]
           /\ mark_dead_letter(u, id) \/ mark_attempt_failed(u, id) =>
                 (queue[u] # NoRow => queue'[u] # NoRow)
<1> DEFINE Shape == queue' = [v \in Users |-> queue'[v]] /\ \A v \in Users : Row(queue'[v])
           Others == \A v \in Users : v # u => queue'[v] = queue[v]
           Stays == queue[u] # NoRow => queue'[u] # NoRow
<1>1. /\ queue = [v \in Users |-> queue[v]] /\ \A v \in Users : Row(queue[v])
  BY Zenon DEF Shapes
<1>2. ASSUME NEW r, Row(r), queue' = [queue EXCEPT ![u] = r]
      PROVE  Shape /\ Others /\ queue'[u] = r
  BY Zenon, <1>1, <1>2
<1>3. ASSUME delete_entry(u, id) PROVE Shape /\ Others
  <2>1. Row(NoRow)
    BY Zenon DEF Row, NoRow
  <2> QED
    BY <1>1, <1>2, <1>3, <2>1, Zenon DEF delete_entry
<1>4. ASSUME mark_dead_letter(u, id) PROVE Shape /\ Others /\ Stays
  <2>1. PICK d \in BOOLEAN : d = (queue[u].id = id)
    BY Zenon
  <2>2. queue' = [queue EXCEPT ![u] = [queue[u] EXCEPT !.dead = queue[u].dead \/ d]]
    BY Zenon, <1>4, <2>1 DEF mark_dead_letter
  <2>3. /\ Row([queue[u] EXCEPT !.dead = queue[u].dead \/ d])
        /\ queue[u] # NoRow => [queue[u] EXCEPT !.dead = queue[u].dead \/ d] # NoRow
    BY <1>1, RowFacts, Zenon
  <2> QED
    BY <1>2, <2>2, <2>3, Zenon
<1>5. ASSUME mark_attempt_failed(u, id) PROVE Shape /\ Others /\ Stays
  <2> DEFINE r == IF queue[u].id = id
                  THEN [queue[u] EXCEPT !.attempts = queue[u].attempts + 1, !.due = FALSE]
                  ELSE queue[u]
  <2>1. queue' = [queue EXCEPT ![u] = r]
    BY <1>5, Zenon DEF mark_attempt_failed
  <2>2. Row(r) /\ (queue[u] # NoRow => r # NoRow)
    BY <1>1, RowFacts, Zenon
  <2> HIDE DEF r
  <2> QED
    BY <1>2, <2>1, <2>2, Zenon
<1> QED
  BY <1>3, <1>4, <1>5, Zenon

(* An entry is dropped, dead-lettered without a token, or recorded.        *)
LEMMA EndingStep ==
    ASSUME Inv, OneWorker, NEW w \in Workers,
           \/ _drop_orphaned_entry(w) \/ Record(w)
           \/ _process_entry(w) /\ job[w].token # "ok"
    PROVE  Inv'
<1> DEFINE u == Entry(w).user
           id == Entry(w).id
<1>0. Shapes /\ InHand(w) /\ Latest(w)
  BY Zenon DEF Inv
<1>1. job[w].pc \in {"drop", "record", "entry"} => u \in Users /\ Holds(w, u)
  BY Zenon, <1>0, EntryHeld DEF InHand
<1>2. CASE _drop_orphaned_entry(w)
  <2>1. /\ job[w].pc = "drop" /\ delete_entry(u, id)
        /\ promise' = IF queue[u].id = id THEN [promise EXCEPT ![u] = "discarded"] ELSE promise
        /\ job' = [job EXCEPT ![w] = NextEntry(w, "drop")]
        /\ UNCHANGED <<user, enabled, cred, mapping, receiver>>
    BY <1>2, Zenon DEF _drop_orphaned_entry
  <2>2. u \in Users /\ ~Clean(u)
    BY Zenon, <1>0, <1>1, <2>1 DEF InHand
  <2> HIDE DEF u, id
  <2>3. /\ queue' = [v \in Users |-> queue'[v]] /\ \A v \in Users : Row(queue'[v])
        /\ \A v \in Users : v # u => queue'[v] = queue[v]
    BY <1>0, <2>1, <2>2, RowStatements, Zenon
  <2>4. /\ promise' \in [Users -> Promises]
        /\ \A v \in Users : Clean(v)' => Clean(v)
    BY Zenon, <1>0, <2>1, <2>2 DEF Shapes, Promises, Clean
  <2>5. \A v \in Users : Clean(v) /\ queue[v] # NoRow => queue'[v] # NoRow
    BY <2>2, <2>3, Zenon
  <2> QED
    BY Zenon, <2>1, <2>3, <2>4, <2>5, EndEntry
<1>3. CASE _process_entry(w) /\ job[w].token # "ok"
  <2>1. /\ job[w].pc = "entry" /\ mark_dead_letter(u, id)
        /\ job' = [job EXCEPT ![w] = NextEntry(w, "entry")]
        /\ UNCHANGED <<user, enabled, cred, mapping, receiver, promise>>
    BY <1>3, Zenon DEF _process_entry
  <2>2. u \in Users
    BY Zenon, <1>1, <2>1
  <2> HIDE DEF u, id
  <2>3. /\ queue' = [v \in Users |-> queue'[v]] /\ \A v \in Users : Row(queue'[v])
        /\ \A v \in Users : v # u => queue'[v] = queue[v]
        /\ queue[u] # NoRow => queue'[u] # NoRow
    BY <1>0, <2>1, <2>2, RowStatements, Zenon
  <2>4. /\ promise' \in [Users -> Promises]
        /\ \A v \in Users : Clean(v)' => Clean(v)
    BY <1>0, <2>1, Zenon DEF Shapes, Clean
  <2>5. \A v \in Users : queue[v] # NoRow => queue'[v] # NoRow
    BY <2>3, Zenon
  <2> QED
    BY Zenon, <2>1, <2>3, <2>4, <2>5, EndEntry
<1>4. CASE Record(w)
  <2>1. /\ job[w].pc = "record"
        /\ job' = [job EXCEPT ![w] = NextEntry(w, "entry")]
        /\ UNCHANGED <<user, enabled, cred, mapping, receiver, promise>>
    BY <1>4, Zenon DEF Record
  <2>2. u \in Users
    BY Zenon, <1>1, <2>1
  <2>3. \/ delete_entry(u, id) /\ job[w].result \in {"success", "absent"}
        \/ mark_dead_letter(u, id) \/ mark_attempt_failed(u, id)
    <3>1. CASE job[w].result \in {"success", "absent"}
      BY Zenon, <1>4, <3>1 DEF Record
    <3>2. CASE job[w].result = "permanent"
      BY Zenon, <1>4, <3>2 DEF Record
    <3>3. CASE job[w].result \notin {"success", "absent", "permanent"}
      BY Zenon, <1>4, <3>3 DEF Record
    <3> QED
      BY <3>1, <3>2, <3>3, Zenon
  <2>4. Clean(u) /\ job[w].result \in {"success", "absent"} => Settled(u)
    BY Zenon, <1>0, <2>1 DEF Latest, LatestOf
  <2> HIDE DEF u, id
  <2>5. /\ queue' = [v \in Users |-> queue'[v]] /\ \A v \in Users : Row(queue'[v])
        /\ \A v \in Users : v # u => queue'[v] = queue[v]
        /\ mark_dead_letter(u, id) \/ mark_attempt_failed(u, id) =>
              (queue[u] # NoRow => queue'[u] # NoRow)
    BY <1>0, <2>2, <2>3, RowStatements, Zenon
  <2>6. /\ promise' \in [Users -> Promises]
        /\ \A v \in Users : Clean(v)' => Clean(v)
    BY <1>0, <2>1, Zenon DEF Shapes, Clean
  <2>7. \A v \in Users : Clean(v) /\ ~Settled(v) /\ queue[v] # NoRow => queue'[v] # NoRow
    BY <2>3, <2>4, <2>5, Zenon
  <2> QED
    BY ZenonT(60), <2>1, <2>5, <2>6, <2>7, EndEntry
<1> QED
  BY <1>2, <1>3, <1>4

(* Settled, if the receiver held r.                                        *)
Wanted(u, r) ==
    IF user[u].scope THEN r.id # Null /\ r.ver = user[u].ver ELSE r = NoResource

(* A request the receiver acts on: it leaves the state the request carries,*)
(* under the recorded id or, for a POST, a new one.                        *)
LEMMA AppliedFacts ==
    ASSUME Inv, KeysOnExternalId, NEW w \in Workers, job[w].pc = "send", NEW u \in Users,
           u = Entry(w).user, NEW r, r = Applied(w)
    PROVE  /\ r \in Resources
           /\ Answer(w) \in Results
           /\ Clean(u) /\ Answer(w) \in {"success", "absent"} => Wanted(u, r)
           /\ Answer(w) # "success" => r = receiver[u]
           /\ r # NoResource /\ mapping[u] # Null => r.id = mapping[u]
           /\ Answer(w) = "success" /\ job[w].op = "POST" => r.id = FreshRemoteId
<1>1. /\ receiver[u] \in Resources /\ user[u] \in [ver : Versions, scope : BOOLEAN]
      /\ job[w].ver \in Versions \cup {Null}
      /\ job[w].op \in {"none", "DELETE", "PUT", "POST"}
  BY Zenon DEF Inv, Shapes, JobOf
<1>2. FreshRemoteId \in RemoteIds /\ FreshRemoteId # Null
  BY FreshRemote, Zenon DEF Inv
<1>3. /\ job[w].remote = mapping[u]
      /\ job[w].op = "POST" => job[w].remote = Null
      /\ job[w].op = "PUT" => job[w].remote # Null
      /\ Clean(u) => /\ job[w].ver = user[u].ver /\ job[w].op # "none"
                     /\ job[w].op = "DELETE" <=> ~user[u].scope
  BY Zenon DEF Inv, Remote, RemoteOf, Latest, LatestOf
<1>4. receiver[u] # NoResource /\ mapping[u] # Null => receiver[u].id = mapping[u]
  BY Zenon DEF Inv, Recorded
<1>5. Matches(w) <=> receiver[u] # NoResource
  <2>1. Matches(w) <=> /\ receiver[u] # NoResource
                       /\ receiver[u].id = job[w].remote \/ job[w].remote = Null
    BY Zenon DEF Matches
  <2> QED
    BY <1>3, <1>4, <2>1, Zenon
<1>6. NoResource \in Resources
  BY Zenon DEF NoResource, Resources
<1>7. CASE job[w].op = "POST"
  <2>1. Answer(w) = IF receiver[u] = NoResource THEN "success" ELSE "permanent"
    BY Zenon, <1>7 DEF Answer
  <2>2. CASE receiver[u] = NoResource
    <3>1. Answer(w) = "success" /\ r = [id |-> FreshRemoteId, ver |-> job[w].ver]
      BY Zenon, <1>7, <2>1, <2>2 DEF Applied
    <3>2. r \in Resources /\ r.id = FreshRemoteId /\ r.ver = job[w].ver
      BY SMTT(30), <1>1, <1>2, <3>1 DEF Resources
    <3>3. Clean(u) => Wanted(u, r)
      BY Zenon, <1>2, <1>3, <1>7, <3>2 DEF Wanted
    <3> QED
      BY ZenonT(60), <1>3, <1>7, <3>1, <3>2, <3>3 DEF Results
  <2>3. CASE receiver[u] # NoResource
    <3>1. Answer(w) = "permanent" /\ r = receiver[u]
      BY Zenon, <2>1, <2>3 DEF Applied
    <3> QED
      BY Zenon, <1>1, <1>4, <3>1 DEF Results
  <2> QED
    BY Zenon, <2>2, <2>3
<1>8. CASE job[w].op = "PUT"
  <2>1. Answer(w) = IF receiver[u] # NoResource THEN "success" ELSE "not_found"
    BY Zenon, <1>5, <1>8 DEF Answer
  <2>2. CASE receiver[u] # NoResource
    <3>1. Answer(w) = "success" /\ r = [receiver[u] EXCEPT !.ver = job[w].ver]
      BY Zenon, <1>8, <2>1, <2>2 DEF Applied
    <3>2. r \in Resources /\ r.id = receiver[u].id /\ r.ver = job[w].ver
      BY Zenon, <1>1, <3>1 DEF Resources
    <3>3. r.id = mapping[u] /\ mapping[u] # Null
      BY <1>3, <1>4, <1>8, <2>2, <3>2, Zenon
    <3>4. Clean(u) => Wanted(u, r)
      BY Zenon, <1>3, <1>8, <3>2, <3>3 DEF Wanted
    <3> QED
      BY Zenon, <1>8, <3>1, <3>2, <3>3, <3>4 DEF Results
  <2>3. CASE receiver[u] = NoResource
    <3>1. Answer(w) = "not_found" /\ r = receiver[u]
      BY Zenon, <2>1, <2>3 DEF Applied
    <3> QED
      BY Zenon, <1>1, <1>4, <3>1 DEF Results
  <2> QED
    BY Zenon, <2>2, <2>3
<1>9. CASE job[w].op \notin {"POST", "PUT"}
  <2>1. Answer(w) = IF receiver[u] # NoResource THEN "success" ELSE "absent"
    BY Zenon, <1>5, <1>9 DEF Answer
  <2>2. r = NoResource
    <3>1. CASE Answer(w) = "success"
      BY Zenon, <1>9, <3>1 DEF Applied
    <3>2. CASE Answer(w) # "success"
      BY Zenon, <2>1, <3>2 DEF Applied
    <3> QED
      BY Zenon, <3>1, <3>2
  <2>3. Clean(u) => Wanted(u, r)
    BY Zenon, <1>1, <1>3, <1>9, <2>2 DEF Wanted
  <2> QED
    BY Zenon, <1>6, <1>9, <2>1, <2>2, <2>3 DEF Results
<1> QED
  BY Zenon, <1>7, <1>8, <1>9

(* The receiver acts, and the worker hears of it or does not.              *)
LEMMA ReceiverStep ==
    ASSUME Inv, OneWorker, KeysOnExternalId, NEW w \in Workers,
           \/ Answered(w)
           \/ TryFails(w) /\ receiver' = [receiver EXCEPT ![Entry(w).user] = Applied(w)]
    PROVE  Inv'
<1>0. /\ job[w].pc = "send"
      /\ receiver' = [receiver EXCEPT ![Entry(w).user] = Applied(w)]
      /\ UNCHANGED <<user, queue, enabled, cred, mapping, promise>>
  BY Zenon DEF Answered, TryFails
<1>1. /\ Shapes /\ InHand(w) /\ Remote(w) /\ Latest(w) /\ LastStateWins
      /\ \A v \in Users : (Clean(v) => enabled) /\ Recorded(v)
  BY Zenon DEF Inv
<1>2. PICK u \in Users : u = Entry(w).user
  BY Zenon, <1>0, <1>1, EntryHeld DEF InHand
<1>3. PICK r : r = Applied(w)
  BY Zenon
<1>4. /\ r \in Resources
      /\ Answer(w) \in Results
      /\ Clean(u) /\ Answer(w) \in {"success", "absent"} => Wanted(u, r)
      /\ Answer(w) # "success" => r = receiver[u]
      /\ r # NoResource /\ mapping[u] # Null => r.id = mapping[u]
      /\ Answer(w) = "success" /\ job[w].op = "POST" => r.id = FreshRemoteId
  BY <1>0, <1>2, <1>3, AppliedFacts, ZenonT(60)
<1>5. /\ receiver' = [receiver EXCEPT ![u] = r]
      /\ receiver' \in [Users -> Resources] /\ receiver'[u] = r
      /\ \A v \in Users : v # u => receiver'[v] = receiver[v]
  BY Zenon, <1>0, <1>1, <1>2, <1>3, <1>4 DEF Shapes
<1>6. /\ \A v \in Users : v # u => Settled(v)' = Settled(v)
      /\ Settled(u)' <=> Wanted(u, r)
  BY <1>0, <1>5, Zenon DEF Settled, Wanted
<1>7. LastStateWins'
  <2>1. Clean(u) /\ ~Wanted(u, r) => ~Settled(u)
    BY <1>4, Zenon DEF Settled, Wanted
  <2> QED
    BY <1>0, <1>1, <1>6, <2>1, Zenon DEF LastStateWins, Clean
<1>8. \A v \in Users : (Clean(v)' => enabled') /\ Recorded(v)'
  BY <1>0, <1>1, <1>4, <1>5, Zenon DEF Recorded, Clean
<1>9. PICK S : job[w] \in JobOf(S)
  BY <1>1, Zenon DEF Shapes
<1>10. FreshRemoteId \in RemoteIds /\ FreshRemoteId # Null
  BY <1>1, FreshRemote, Zenon
<1>11. PICK x : /\ job' = [job EXCEPT ![w] = x] /\ x \in JobOf(S) /\ x.batch = job[w].batch
                /\ x.op = job[w].op /\ x.remote = job[w].remote /\ x.ver = job[w].ver
                /\ \/ x.pc = "send"
                   \/ x.pc = "mapping" /\ x.result \in {Answer(w), "retryable"}
                /\ x.scimId # Null => x.pc = "mapping" /\ x.scimId = r.id
  <2>1. CASE Answered(w)
    <3>1. PICK y \in RemoteIds \cup {Null} :
             y = IF Answer(w) = "success" /\ job[w].op = "POST" THEN FreshRemoteId ELSE Null
      BY Zenon, <1>10
    <3>2. PICK a \in Results : a = Answer(w)
      BY Zenon, <1>4
    <3> DEFINE x == [job[w] EXCEPT !.pc = "mapping", !.result = a, !.scimId = y]
    <3>3. job' = [job EXCEPT ![w] = x]
      BY Zenon, <2>1, <3>1, <3>2 DEF Answered
    <3>4. /\ x \in JobOf(S) /\ x.batch = job[w].batch
          /\ x.op = job[w].op /\ x.remote = job[w].remote /\ x.ver = job[w].ver
          /\ x.pc = "mapping" /\ x.result = a /\ x.scimId = y
      BY Zenon, <1>9 DEF JobOf, Pcs
    <3> HIDE DEF x
    <3>5. y # Null => y = r.id
      BY <1>4, <3>1, Zenon
    <3> QED
      BY <3>2, <3>3, <3>4, <3>5, Zenon
  <2>2. CASE TryFails(w)
    <3>1. PICK x : job' = [job EXCEPT ![w] = x] /\ AfterFailure(x, job[w], S)
      BY <1>9, <2>2, TryFailsJob, Zenon
    <3>2. x.scimId = Null
      BY Zenon, <1>0, <1>1, <3>1 DEF AfterFailure, Remote, RemoteOf
    <3> QED
      BY <3>1, <3>2, Zenon DEF AfterFailure
  <2> QED
    BY <2>1, <2>2, Zenon
<1>12. /\ job'[w] = x /\ job' = [v \in Workers |-> job'[v]]
       /\ \A v \in Workers : \E T : job'[v] \in JobOf(T)
  BY <1>11, JobStep, Zenon
<1>13. Shapes'
  BY SMTT(30), <1>0, <1>1, <1>5, <1>12 DEF Shapes
<1>14. Entry(w)' = Entry(w) /\ \A v \in Users : Holds(w, v)' = Holds(w, v) /\ Clean(v)' = Clean(v)
  BY <1>0, <1>11, <1>12, ZenonT(60) DEF Entry, Holds, Clean
<1>15. InHand(w)'
  <2>1. x.pc \notin {"idle", "drop"} /\ x.batch # <<>>
    BY ZenonT(60), <1>0, <1>1, <1>11 DEF InHand
  <2> QED
    BY Zenon, <1>12, <2>1 DEF InHand
<1>16. Remote(w)'
  BY SMTT(30), <1>0, <1>1, <1>2, <1>5, <1>11, <1>12, <1>14 DEF Remote, RemoteOf
<1>17. Latest(w)'
  BY SMTT(30), <1>0, <1>1, <1>2, <1>4, <1>6, <1>11, <1>12, <1>14 DEF Latest, LatestOf
<1>18. \A v \in Workers : v = w
  BY Zenon DEF OneWorker
<1> QED
  BY <1>7, <1>8, <1>13, <1>15, <1>16, <1>17, <1>18, ZenonT(60) DEF Inv

(* The end of _dispatch_user: a minted id is recorded, an unknown one is   *)
(* forgotten.                                                              *)
LEMMA MappingStep ==
    ASSUME Inv, OneWorker, NEW w \in Workers, KeepMapping(w)
    PROVE  Inv'
<1>0. job[w].pc = "mapping" /\ UNCHANGED <<user, queue, enabled, cred, receiver, promise>>
  BY Zenon DEF KeepMapping
<1>1. /\ Shapes /\ InHand(w) /\ Remote(w) /\ Latest(w) /\ LastStateWins
      /\ \A v \in Users : (Clean(v) => enabled) /\ Recorded(v)
  BY Zenon DEF Inv
<1>2. PICK u \in Users : u = Entry(w).user
  BY Zenon, <1>0, <1>1, EntryHeld DEF InHand
<1>3. PICK S : job[w] \in JobOf(S)
  BY <1>1, Zenon DEF Shapes
<1>4. PICK m : /\ mapping' = [mapping EXCEPT ![u] = m]
               /\ m \in {job[w].scimId, Null, mapping[u]}
               /\ m # Null /\ m # mapping[u] => m = job[w].scimId
               /\ job[w].scimId # Null => m = job[w].scimId
  <2> DEFINE gone == \/ job[w].result = "not_found"
                     \/ job[w].result = "absent" /\ job[w].remote # Null
  <2>1. CASE job[w].scimId # Null
    BY Zenon, <1>2, <2>1 DEF KeepMapping
  <2>2. CASE job[w].scimId = Null /\ gone
    BY Zenon, <1>2, <2>2 DEF KeepMapping
  <2>3. CASE job[w].scimId = Null /\ ~gone
    BY ZenonT(40), <1>2, <2>3 DEF KeepMapping
  <2> QED
    BY Zenon, <2>1, <2>2, <2>3
<1>5. m \in RemoteIds \cup {Null}
  BY SMTT(30), <1>1, <1>2, <1>3, <1>4 DEF Shapes, JobOf
<1>6. /\ mapping' \in [Users -> RemoteIds \cup {Null}] /\ mapping'[u] = m
      /\ \A v \in Users : v # u => mapping'[v] = mapping[v]
  BY Zenon, <1>1, <1>4, <1>5 DEF Shapes
<1>7. \A v \in Users : Recorded(v)'
  <2>1. m = job[w].scimId /\ m # Null /\ receiver[u] # NoResource => receiver[u].id = m
    BY Zenon, <1>1, <1>2 DEF Remote, RemoteOf
  <2> QED
    BY <1>0, <1>1, <1>4, <1>6, <2>1, ZenonT(60) DEF Recorded
<1>8. PICK a \in Results : a = IF job[w].result = "not_found" THEN "retryable" ELSE job[w].result
  BY Zenon, <1>3 DEF JobOf, Results
<1> DEFINE x == [job[w] EXCEPT !.pc = "record", !.scimId = Null, !.result = a]
<1>9. job' = [job EXCEPT ![w] = x]
  BY Zenon, <1>8 DEF KeepMapping
<1>10. /\ x \in JobOf(S) /\ x.batch = job[w].batch
       /\ x.pc = "record" /\ x.scimId = Null /\ x.result = a
  BY Zenon, <1>3 DEF JobOf, Pcs
<1> HIDE DEF x
<1>11. /\ job'[w] = x /\ job' = [v \in Workers |-> job'[v]]
       /\ \A v \in Workers : \E T : job'[v] \in JobOf(T)
  BY <1>9, <1>10, JobStep, ZenonT(60)
<1>12. Shapes'
  BY SMTT(30), <1>0, <1>1, <1>6, <1>11 DEF Shapes
<1>13. Entry(w)' = Entry(w) /\ \A v \in Users : Clean(v)' = Clean(v) /\ Settled(v)' = Settled(v)
  BY <1>0, <1>10, <1>11, ZenonT(60) DEF Entry, Clean, Settled
<1>14. InHand(w)'
  BY SMTT(30), <1>0, <1>1, <1>10, <1>11 DEF InHand
<1>15. Remote(w)'
  BY ZenonT(60), <1>10, <1>11 DEF Remote, RemoteOf
<1>16. Latest(w)'
  BY SMTT(30), <1>0, <1>1, <1>2, <1>8, <1>10, <1>11, <1>13 DEF Latest, LatestOf
<1>17. LastStateWins' /\ \A v \in Users : Clean(v)' => enabled'
  BY <1>0, <1>1, <1>13, ZenonT(60) DEF LastStateWins, Clean
<1>18. \A v \in Workers : v = w
  BY Zenon DEF OneWorker
<1> QED
  BY <1>7, <1>12, <1>14, <1>15, <1>16, <1>17, <1>18, ZenonT(60) DEF Inv

-----------------------------------------------------------------------------
(* The theorem *)

(* No worker is busy, nothing is promised.                                 *)
LEMMA InitInv == Init => Inv
<1> SUFFICES ASSUME Init
             PROVE  Inv
  BY Zenon
<1>1. IdleJob \in JobOf({}) /\ IdleJob.pc = "idle" /\ IdleJob.batch = <<>> /\ IdleJob.scimId = Null
  BY Zenon, EmptySeq DEF IdleJob, JobOf, Pcs, Credentials, Results
<1>2. Row(NoRow) /\ NoResource \in Resources
  BY Zenon DEF Row, NoRow, NoResource, Resources
<1>3. Shapes
  <2>1. user \in [Users -> [ver : Versions, scope : BOOLEAN]]
    BY Zenon DEF Init
  <2> QED
    BY Zenon, <1>1, <1>2, <2>1 DEF Init, Shapes, Promises, Credentials
<1>4. \A u \in Users : ~Clean(u) /\ Recorded(u)
  BY Zenon DEF Init, Clean, Recorded
<1>5. LastStateWins
  BY Zenon DEF Init, LastStateWins
<1>6. \A w \in Workers : InHand(w) /\ Remote(w) /\ Latest(w)
  BY Zenon, <1>1, <1>4 DEF Init, InHand, Remote, RemoteOf, Latest, LatestOf
<1> QED
  BY SMTT(30), <1>3, <1>4, <1>5, <1>6 DEF Inv

(* Every step of the application, the worker and the environment.          *)
LEMMA NextInv ==
    ASSUME Inv, OneWorker, KeysOnExternalId, [Next]_vars
    PROVE  Inv'
<1>1. CASE UNCHANGED vars
  <2>1. UNCHANGED <<user, queue, enabled, cred, mapping, receiver, job, promise>>
    BY <1>1, Zenon DEF vars
  <2>2. Shapes'
    BY <2>1, Zenon DEF Inv, Shapes
  <2> QED
    BY <2>1, <2>2, BesideWorker, Zenon DEF Inv, Clean
<1>2. CASE Application
  BY <1>2, ChangeStep, DispatchStep, EnvironmentStep, Zenon DEF Application
<1>3. ASSUME NEW w \in Workers, Work(w)
      PROVE  Inv'
  <2>1. CASE TryFails(w)
    <3>1. \/ UNCHANGED receiver
          \/ receiver' = [receiver EXCEPT ![Entry(w).user] = Applied(w)]
      BY <2>1, Zenon DEF TryFails
    <3> QED
      BY <2>1, <3>1, ReadingStep, ReceiverStep, Zenon
  <2>2. CASE _process_entry(w)
    BY <2>2, ReadingStep, EndingStep, Zenon
  <2> QED
    BY <1>3, <2>1, <2>2, ListReadyStep, ReadingStep, EndingStep, ReceiverStep, MappingStep, ZenonT(60)
       DEF Work
<1>4. ASSUME NEW w \in Workers, Crash(w)
      PROVE  Inv'
  BY <1>4, CrashStep, Zenon
<1>5. ASSUME NEW u \in Users, BackoffElapses(u) \/ ReceiverDeletes(u)
      PROVE  Inv'
  BY <1>5, EnvironmentStep, Zenon
<1> QED
  BY <1>1, <1>2, <1>3, <1>4, <1>5, ZenonT(60) DEF Next

(* "Last state wins", for every number of users, changes, tries and        *)
(* crashes: with one worker container and a receiver that finds a resource *)
(* by WeftID's UUID, the latest change of a user that was enqueued while   *)
(* the worker had no entry of that user in hand is held by the receiver,   *)
(* or its queue row is still there.                                        *)
THEOREM LastStateReaches ==
    ASSUME OneWorker, KeysOnExternalId
    PROVE  Spec => []LastStateWins
<1>1. Inv => LastStateWins
  BY Zenon DEF Inv
<1>2. Inv /\ [Next]_vars => Inv'
  BY Zenon, NextInv
<1> QED
  BY <1>1, <1>2, InitInv, PTL DEF Spec

=============================================================================
