----------------------- MODULE OidcSigningKeys_proofs -----------------------
(***************************************************************************)
(* With one rotation request at a time, and a grace period at least as     *)
(* long as an ID token lives plus the time a request is in flight, no live *)
(* token ever loses its key, for any number of signers and any clock.      *)
(*                                                                         *)
(* Of what runs beside it in MCOidcSigningKeys: no SAML certificate in use *)
(* expires while the daily job runs; background jobs implement JobQueue,   *)
(* and a listed export has its file.                                       *)
(***************************************************************************)
EXTENDS MCOidcSigningKeys, TLAPS

OneRotator == \A p, q \in Rotators : p = q
AmpleGrace == MinGrace >= IdTokenExpiry + MaxDelay

(* A token of this kid and expiry verifies now and until it expires.       *)
Covered(kid, exp) ==
    exp > now => \/ kid = key.kid
                 \/ /\ kid = key.previous_kid
                    /\ exp <= key.rotation_grace_period_ends_at

InFlight == \A p \in Requests :
    pc[p] # "idle" => since[p] <= now /\ now <= since[p] + MaxDelay

RowInv == key.kid = Null => key = NoRow

(* Between its select and its update nobody else rotates, so the one       *)
(* rotation holds the current key; the sweep may clear the retired one.    *)
RotatorInv == \A p \in Requests :
    /\ pc[p] = "rotate" => p \in Rotators
    /\ p \in Rotators /\ pc[p] \in {"have", "rotate"} =>
        /\ seen[p].kid = key.kid
        /\ \/ key.rotation_grace_period_ends_at = seen[p].rotation_grace_period_ends_at
           \/ key.rotation_grace_period_ends_at = Null
    /\ pc[p] = "rotate" =>
        /\ seen[p].rotation_grace_period_ends_at <= now
        /\ graceEnd[p] >= since[p] + MaxDelay + IdTokenExpiry

TokenInv ==
    /\ \A t \in tokens : /\ t.kid # Null
                         /\ t.exp <= now + IdTokenExpiry
                         /\ Covered(t.kid, t.exp)
    /\ \A p \in Signers : pc[p] = "have" => Covered(seen[p].kid, since[p] + IdTokenExpiry)

Inv == TypeOK /\ InFlight /\ RowInv /\ RotatorInv /\ TokenInv

(* The first state satisfies the invariant.                                *)
LEMMA InitInv == Init => Inv
BY ConstantsAssumption DEF Init, Inv, TypeOK, InFlight, RowInv, RotatorInv, TokenInv,
    Covered, NoRow, Row, Null, States, Requests

(* Every step of a request, of the sweep and of the clock keeps the types. *)
LEMMA TypeStep == TypeOK /\ [Next]_vars => TypeOK'
<1> SUFFICES ASSUME TypeOK, [Next]_vars PROVE TypeOK'
  BY Zenon
<1> USE ConstantsAssumption DEF TypeOK, Row, NoRow, FreshRow, Null, States, End
<1>1. ASSUME NEW p \in Requests, Begin(p) PROVE TypeOK'
  BY Zenon, <1>1 DEF Begin
<1>2. ASSUME NEW p \in Requests, GetSigningKey(p) PROVE TypeOK'
  BY ZenonT(40), <1>2 DEF GetSigningKey
<1>3. ASSUME NEW p \in Requests, Provision(p) PROVE TypeOK'
  <2>1. FreshRow(generated + 1) \in Row
    OBVIOUS
  <2>2. CASE key.kid = Null
    <3>1. /\ generated' \in Nat /\ key' \in Row
          /\ seen' \in [Requests -> Row] /\ pc' \in [Requests -> States]
      <4> HIDE DEF FreshRow, Row
      <4> QED BY <1>3, <2>1, <2>2 DEF Provision
    <3> QED BY <1>3, <3>1 DEF Provision
  <2>3. CASE key.kid # Null
    BY Zenon, <1>3, <2>3 DEF Provision
  <2> QED BY Zenon, <2>2, <2>3
<1>4. ASSUME NEW p \in Requests, Reselect(p) PROVE TypeOK'
  BY Zenon, <1>4 DEF Reselect
<1>5. ASSUME NEW p \in Requests, IssueIdToken(p) PROVE TypeOK'
  BY <1>5 DEF IssueIdToken
<1>6. ASSUME NEW p \in Requests, PrepareRotation(p) PROVE TypeOK'
  BY <1>6 DEF PrepareRotation
<1>7. ASSUME NEW p \in Requests, RefuseRotation(p) PROVE TypeOK'
  BY Zenon, <1>7 DEF RefuseRotation
<1>8. ASSUME NEW p \in Requests, RotateSigningKey(p) PROVE TypeOK'
  BY <1>8 DEF RotateSigningKey
<1>9. CASE CleanupPreviousSigningKey
  BY Zenon, <1>9 DEF CleanupPreviousSigningKey
<1>10. CASE Tick
  BY <1>10 DEF Tick
<1>11. CASE UNCHANGED vars
  BY Zenon, <1>11 DEF vars
<1> QED
  BY Zenon, <1>1, <1>2, <1>3, <1>4, <1>5, <1>6, <1>7, <1>8, <1>9, <1>10, <1>11 DEF Next

(* Every step keeps the whole invariant.  Rotation is the step that needs  *)
(* it: the demoted key is the current one, tokens it signed expire before  *)
(* the new grace period ends, and tokens of the key it drops have expired. *)
LEMMA InvStep ==
  ASSUME OneRotator, AmpleGrace
  PROVE  Inv /\ [Next]_vars => Inv'
<1> SUFFICES ASSUME Inv, [Next]_vars PROVE (InFlight /\ RowInv /\ RotatorInv /\ TokenInv)'
  BY Zenon, TypeStep DEF Inv
<1>t. TypeOK /\ TypeOK'
  BY Zenon, TypeStep DEF Inv
<1>c. /\ Graces \subseteq Nat /\ MinGrace \in Nat /\ IdTokenExpiry \in Nat /\ MaxDelay \in Nat
      /\ Signers \cap Rotators = {} /\ Requests = Signers \cup Rotators
  BY Zenon, ConstantsAssumption DEF Requests
<1> USE <1>t, <1>c DEF Inv, InFlight, RowInv, RotatorInv, TokenInv, Covered, Null, TypeOK,
        States, Row
<1>1. ASSUME NEW p \in Requests, Begin(p) PROVE (InFlight /\ RowInv /\ RotatorInv /\ TokenInv)'
  BY SMTT(30), <1>1 DEF Begin
<1>2. ASSUME NEW p \in Requests, GetSigningKey(p) PROVE (InFlight /\ RowInv /\ RotatorInv /\ TokenInv)'
  BY SMTT(30), <1>2 DEF GetSigningKey
<1>3. ASSUME NEW p \in Requests, Provision(p) PROVE (InFlight /\ RowInv /\ RotatorInv /\ TokenInv)'
  BY <1>3 DEF Provision, FreshRow, NoRow
<1>4. ASSUME NEW p \in Requests, Reselect(p) PROVE (InFlight /\ RowInv /\ RotatorInv /\ TokenInv)'
  BY ZenonT(60), <1>4 DEF Reselect
<1>5. ASSUME NEW p \in Requests, IssueIdToken(p) PROVE (InFlight /\ RowInv /\ RotatorInv /\ TokenInv)'
  BY SMTT(30), <1>5 DEF IssueIdToken, End
<1>6. ASSUME NEW p \in Requests, PrepareRotation(p) PROVE (InFlight /\ RowInv /\ RotatorInv /\ TokenInv)'
  BY <1>6 DEF PrepareRotation, RotationInProgress, AmpleGrace
<1>7. ASSUME NEW p \in Requests, RefuseRotation(p) PROVE (InFlight /\ RowInv /\ RotatorInv /\ TokenInv)'
  BY ZenonT(60), <1>7 DEF RefuseRotation, End
<1>8. ASSUME NEW p \in Requests, RotateSigningKey(p) PROVE (InFlight /\ RowInv /\ RotatorInv /\ TokenInv)'
  BY SMTT(30), <1>8, OneRotator DEF RotateSigningKey, End, OneRotator
<1>9. CASE CleanupPreviousSigningKey
  BY SMTT(30), <1>9 DEF CleanupPreviousSigningKey, NoRow
<1>10. CASE Tick
  BY <1>10 DEF Tick
<1>11. CASE UNCHANGED vars
  BY Zenon, <1>11 DEF vars
<1> QED
  BY Zenon, <1>1, <1>2, <1>3, <1>4, <1>5, <1>6, <1>7, <1>8, <1>9, <1>10, <1>11 DEF Next

(* Types hold for any number of signers and rotators, with no assumption   *)
(* on the grace period; no ID token is ever signed without a key.          *)
THEOREM TypesHold == Spec => []TypeOK
<1>1. Init => TypeOK
  BY Zenon, InitInv DEF Inv
<1> QED
  BY <1>1, TypeStep, PTL DEF Spec

(* One rotation request at a time and a grace period that outlasts an ID   *)
(* token: every unexpired token verifies against the published key set     *)
(* (get_jwks), through any interleaving of signing, rotation and cleanup.  *)
THEOREM LiveTokensStayVerifiable ==
  ASSUME OneRotator, AmpleGrace
  PROVE  Spec => []LiveTokensVerifiable
<1>1. Inv => LiveTokensVerifiable
  BY ConstantsAssumption DEF Inv, TypeOK, TokenInv, Covered, LiveTokensVerifiable, Jwks, JwksOf, Row, Null
<1> QED
  BY InitInv, InvStep, <1>1, PTL DEF Spec

(* Under the same assumptions neither the next rotation nor the sweep      *)
(* drops a retired key inside its grace period.                            *)
THEOREM RetiredKeysKeepTheirGrace ==
  ASSUME OneRotator, AmpleGrace
  PROVE  Spec => GraceRespected
<1>1. Inv /\ [Next]_vars =>
        [key.previous_kid # Null /\ key'.previous_kid # key.previous_kid
          => key.rotation_grace_period_ends_at <= now]_vars
  <2> SUFFICES ASSUME Inv, [Next]_vars,
                      key.previous_kid # Null, key'.previous_kid # key.previous_kid
               PROVE  key.rotation_grace_period_ends_at <= now
    BY Zenon
  <2> USE DEF Inv, TypeOK, Row, Null
  <2>1. ASSUME NEW p \in Requests, RotateSigningKey(p)
        PROVE  key.rotation_grace_period_ends_at <= now
    BY <2>1 DEF RotateSigningKey, RotatorInv
  <2>2. CASE CleanupPreviousSigningKey
    BY <2>2 DEF CleanupPreviousSigningKey
  <2>3. ASSUME NEW p \in Requests, Provision(p) PROVE FALSE
    BY <2>3 DEF Provision, RowInv, NoRow
  <2> QED
    BY Zenon, <2>1, <2>2, <2>3 DEF Next, vars, Begin, GetSigningKey, Reselect, IssueIdToken,
        PrepareRotation, RefuseRotation, Tick
<1> QED
  BY InitInv, InvStep, <1>1, PTL DEF Spec, GraceRespected

-----------------------------------------------------------------------------
(* The SAML certificates (CertRotation), which share no state with the     *)
(* signing keys.  Counted from the night after a run, a certificate has a  *)
(* day left for each run that may still fail and one more.                 *)

(* The lists of the job hold rows of the kind it works through, and it     *)
(* rotates a row of its list with a window it read.                        *)
JobInv ==
    /\ job.at = "sp" => job.rotate \cup job.cleanup \subseteq Sps
    /\ job.at = "idp" => job.rotate \cup job.cleanup \subseteq Idps
    /\ job.at \notin {"sp", "idp"} => job.rotate = {} /\ job.cleanup = {}
    /\ job.rotate \cap job.cleanup = {}
    /\ job.o # None => job.o \in job.rotate /\ job.days \in Windows

JobType == [at : Certs!JobAt, rotate : SUBSET Certs!Owners, cleanup : SUBSET Certs!Owners,
            o : Certs!Owners \cup {None}, days : Windows \cup {None}]

(* The run of the day is through with the row.                             *)
Handled(o) ==
    \/ /\ o \in Sps
       /\ \/ job.at \in {"between", "idp", "done"}
          \/ job.at = "sp" /\ o \notin job.rotate \cup job.cleanup
    \/ /\ o \in Idps
       /\ \/ job.at = "done"
          \/ job.at = "idp" /\ o \notin job.rotate \cup job.cleanup

Spent(o) == failed[o] - (IF Handled(o) THEN 1 ELSE 0)

(* What is left of the row's days covers the runs that may still fail.     *)
Covers(o, r, spent) ==
    IF r.grace = None THEN /\ r.left >= MaxFailures + 1 - spent
                           /\ o \in job.cleanup => r.left >= MaxFailures + 2
    ELSE r.left - r.grace >= 2 * MaxFailures + 3 /\ r.grace >= -1 - spent

DaysInv == \A o \in Certs!Owners : row[o] # None => Covers(o, row[o], Spent(o))

CertInv == Certs!TypeOK /\ JobInv /\ DaysInv

(* A new certificate, with or without a grace period, covers the failures. *)
LEMMA FreshCovers ==
    ASSUME Certs!CertConstants, Certs!CertMargins, Certs!TypeOK, NEW o \in Certs!Owners,
           NEW d \in CertGraces \cup Windows \cup {None}, NEW k \in -1..MaxFailures
    PROVE  /\ [left |-> Lifetime, grace |-> d] \in Certs!Row
           /\ Covers(o, [left |-> Lifetime, grace |-> d], k)'
           /\ Covers(o, [left |-> Lifetime, grace |-> d], k)
<1>1. PICK w \in Windows : TRUE
  BY Zenon DEF Certs!CertConstants
<1>2. /\ MaxFailures \in Nat /\ Lifetime \in Nat /\ w \in Nat
      /\ w + 2 * MaxFailures + 3 <= Lifetime
  BY Zenon, <1>1 DEF Certs!CertConstants, Certs!CertMargins
<1>3. CASE d = None
  BY SMTT(30), <1>2, <1>3 DEF Covers, Certs!Row
<1>4. CASE d # None
  <2>1. d \in Nat /\ d + 2 * MaxFailures + 3 <= Lifetime
    BY Zenon, <1>1, <1>4 DEF Certs!CertConstants, Certs!CertMargins
  <2> QED BY SMTT(30), <1>2, <1>4, <2>1 DEF Covers, Certs!Row
<1> QED BY Zenon, <1>3, <1>4

(* A row that keeps its days covers no more failures than before.          *)
LEMMA SameCovers ==
    ASSUME Certs!CertConstants, NEW o \in Certs!Owners, NEW r \in Certs!Row, NEW j \in Int,
           NEW k \in Int, j <= k,
           Covers(o, r, j), o \in job'.cleanup => o \in job.cleanup \/ r.grace # None
    PROVE  Covers(o, r, k)'
BY DEF Covers, Certs!Row, Certs!CertConstants

(* Spent is a number of runs.                                              *)
LEMMA SpentType ==
    ASSUME Certs!CertConstants, Certs!TypeOK, NEW o \in Certs!Owners
    PROVE  Spent(o) \in -1..MaxFailures
<1>1. failed[o] \in 0..MaxFailures /\ MaxFailures \in Nat
  BY Zenon DEF Certs!TypeOK, Certs!CertConstants
<1> QED BY <1>1 DEF Spent

(* The lists of the job stay within the owners, and are apart.             *)
LEMMA JobTypes ==
    ASSUME Certs!CertConstants, Certs!TypeOK
    PROVE  /\ job = [at |-> job.at, rotate |-> job.rotate, cleanup |-> job.cleanup,
                     o |-> job.o, days |-> job.days]
           /\ job.at \in Certs!JobAt
           /\ job.rotate \subseteq Certs!Owners /\ job.cleanup \subseteq Certs!Owners
           /\ job.o \in Certs!Owners \cup {None} /\ job.days \in Windows \cup {None}
           /\ \A o \in Certs!Owners : row[o] # None => row[o] \in Certs!Row
           /\ None \notin Certs!Owners /\ Certs!Owners = Sps \cup Idps
BY Zenon DEF Certs!TypeOK, Certs!CertConstants, Certs!Owners

(* The first state satisfies the invariant.                                *)
LEMMA CertInit == ASSUME Certs!CertConstants, Certs!Init PROVE CertInv
<1>1. Certs!TypeOK
  BY DEF Certs!Init, Certs!TypeOK, Certs!CertConstants, Certs!JobAt
<1>2. JobInv
  BY Zenon DEF Certs!Init, JobInv
<1>3. DaysInv
  BY Zenon DEF Certs!Init, DaysInv
<1> QED BY Zenon, <1>1, <1>2, <1>3 DEF CertInv

(* A step that leaves the job alone keeps the invariant when each row it   *)
(* touches is deleted or has a new certificate.                            *)
LEMMA AdminKeeps ==
    ASSUME Certs!CertConstants, Certs!CertMargins, CertInv, Certs!TypeOK', UNCHANGED job,
           \A o \in Certs!Owners :
               \/ row'[o] = row[o] /\ failed'[o] = failed[o]
               \/ row'[o] = None
               \/ \E d \in CertGraces \cup Windows \cup {None} :
                     row'[o] = [left |-> Lifetime, grace |-> d]
    PROVE  CertInv'
<1>1. JobInv'
  BY Zenon DEF CertInv, JobInv
<1>2. ASSUME NEW o \in Certs!Owners, row'[o] # None PROVE Covers(o, row[o], Spent(o))'
  <2>1. Spent(o)' \in -1..MaxFailures
    <3>1. (Spent(o) \in -1..MaxFailures)'
      BY SpentType, PTL
    <3> QED BY Zenon, <3>1
  <2>2. CASE row'[o] = row[o] /\ failed'[o] = failed[o]
    <3>1. Spent(o)' = Spent(o)
      BY Zenon, <2>2 DEF Spent, Handled
    <3>2. row[o] \in Certs!Row /\ Covers(o, row[o], Spent(o)) /\ Spent(o) \in Int
      BY SMTT(30), <1>2, <2>1, <2>2, <3>1, JobTypes DEF CertInv, DaysInv
    <3> QED BY Zenon, <2>2, <3>1, <3>2 DEF Covers
  <2>3. ASSUME NEW d \in CertGraces \cup Windows \cup {None},
               row'[o] = [left |-> Lifetime, grace |-> d]
        PROVE  Covers(o, row[o], Spent(o))'
    <3>1. Certs!TypeOK
      BY Zenon DEF CertInv
    <3>2. PICK k \in -1..MaxFailures : k = Spent(o)'
      BY Zenon, <2>1
    <3>3. Covers(o, [left |-> Lifetime, grace |-> d], k)'
      BY Zenon, <3>1, FreshCovers
    <3> QED BY Zenon, <2>3, <3>2, <3>3 DEF Covers
  <2> QED BY Zenon, <1>2, <2>2, <2>3
<1> QED BY Zenon, <1>1, <1>2 DEF CertInv, DaysInv

(* Every step keeps the types.                                             *)
LEMMA CertTypeStep ==
    ASSUME Certs!CertConstants, CertInv, [Certs!Next]_(Certs!vars)
    PROVE  Certs!TypeOK'
<1> USE DEF CertInv
<1>j. /\ job.at \in Certs!JobAt
      /\ job.rotate \subseteq Certs!Owners /\ job.cleanup \subseteq Certs!Owners
      /\ job.o \in Certs!Owners \cup {None} /\ job.days \in Windows \cup {None}
      /\ None \notin Certs!Owners
      /\ job = [at |-> job.at, rotate |-> job.rotate, cleanup |-> job.cleanup,
                o |-> job.o, days |-> job.days]
  BY Zenon, JobTypes
<1>f. /\ MaxFailures \in Nat /\ Lifetime \in Nat
      /\ CertGraces \subseteq Int /\ Windows \subseteq Int
      /\ \A o \in Certs!Owners : failed[o] \in 0..MaxFailures
  BY DEF Certs!CertConstants, Certs!TypeOK
<1>r. ASSUME NEW o \in Certs!Owners, NEW d \in CertGraces \cup Windows \cup {None},
             Certs!Rotated(o, d)
      PROVE  row' \in [Certs!Owners -> Certs!Row \cup {None}]
  <2>1. [left |-> Lifetime, grace |-> d] \in Certs!Row
    BY <1>f DEF Certs!Row
  <2>2. row \in [Certs!Owners -> Certs!Row \cup {None}]
    BY Zenon DEF Certs!TypeOK
  <2> QED BY Zenon, <1>r, <2>1, <2>2 DEF Certs!Rotated
<1>1. CASE Certs!get_certificates_needing_rotation_or_cleanup
  BY Zenon, <1>1, <1>j DEF Certs!get_certificates_needing_rotation_or_cleanup, Certs!Listed,
      Certs!TypeOK, Certs!JobAt, Certs!Owners
<1>2. CASE Certs!get_idp_sp_certificates_needing_rotation_or_cleanup
  BY Zenon, <1>2, <1>j DEF Certs!get_idp_sp_certificates_needing_rotation_or_cleanup, Certs!Listed,
      Certs!TypeOK, Certs!JobAt, Certs!Owners
<1>3. CASE Certs!rotate_and_cleanup_certificates
  BY Zenon, <1>3, <1>j DEF Certs!rotate_and_cleanup_certificates, Certs!TypeOK, Certs!JobAt
<1>4. ASSUME NEW o \in Certs!Owners, Certs!read_current(o) PROVE Certs!TypeOK'
  BY Zenon, <1>4, <1>j DEF Certs!read_current, Certs!TypeOK
<1>5. ASSUME NEW o \in Certs!Owners, Certs!RowFails(o) PROVE Certs!TypeOK'
  <2>1. failed' \in [Certs!Owners -> 0..MaxFailures]
    BY <1>5, <1>f DEF Certs!RowFails, Certs!TypeOK
  <2>2. job' \in JobType
    BY Zenon, <1>5, <1>j DEF Certs!RowFails, JobType
  <2> QED BY Zenon, <1>5, <2>1, <2>2 DEF Certs!RowFails, Certs!TypeOK, JobType
<1>6. ASSUME NEW o \in Certs!Owners, Certs!RotateListed(o) PROVE Certs!TypeOK'
  <2>1. job.days \in Windows
    BY Zenon, <1>6, <1>j DEF Certs!RotateListed, JobInv
  <2>2. row' \in [Certs!Owners -> Certs!Row \cup {None}]
    BY Zenon, <1>6, <1>r, <2>1 DEF Certs!RotateListed
  <2>3. failed' \in [Certs!Owners -> 0..MaxFailures]
    BY <1>6, <1>f DEF Certs!RotateListed, Certs!TypeOK
  <2>4. job' \in JobType
    BY Zenon, <1>6, <1>j DEF Certs!RotateListed, JobType
  <2> QED BY Zenon, <1>6, <2>2, <2>3, <2>4 DEF Certs!RotateListed, Certs!TypeOK, JobType
<1>7. ASSUME NEW o \in Certs!Owners, Certs!CleanupListed(o), Certs!ClearPrevious(o)
      PROVE  Certs!TypeOK'
  <2>1. failed' \in [Certs!Owners -> 0..MaxFailures]
    BY <1>7, <1>f DEF Certs!CleanupListed, Certs!TypeOK
  <2>2. job' \in JobType
    BY Zenon, <1>7, <1>j DEF Certs!CleanupListed, JobType
  <2>3. row' \in [Certs!Owners -> Certs!Row \cup {None}]
    BY SMTT(30), <1>7 DEF Certs!ClearPrevious, Certs!GraceOver, Certs!TypeOK, Certs!Row
  <2> QED BY Zenon, <1>7, <2>1, <2>2, <2>3 DEF Certs!CleanupListed, Certs!TypeOK, JobType
<1>8. ASSUME NEW o \in Certs!Owners, Certs!Created(o) PROVE Certs!TypeOK'
  BY SMTT(30), <1>8, <1>f DEF Certs!Created, Certs!TypeOK, Certs!Row
<1>9. ASSUME NEW o \in Certs!Owners, Certs!Deleted(o) PROVE Certs!TypeOK'
  BY SMTT(30), <1>9, <1>f DEF Certs!Deleted, Certs!TypeOK
<1>10. ASSUME NEW a \in Admins, NEW s, Certs!FinishByHand(a, s) PROVE Certs!TypeOK'
  <2>1. byHand[a].o \in Certs!Owners /\ byHand[a].days \in CertGraces
    BY Zenon, <1>10 DEF Certs!FinishByHand, Certs!TypeOK
  <2>2. row' \in [Certs!Owners -> Certs!Row \cup {None}]
    BY Zenon, <1>10, <1>r, <2>1 DEF Certs!FinishByHand
  <2> QED BY Zenon, <1>10, <2>2 DEF Certs!FinishByHand, Certs!TypeOK, JobType
<1>11. ASSUME NEW a \in Admins, NEW o \in Certs!Owners, NEW days \in CertGraces,
              Certs!BeginByHand(a, o, days)
       PROVE  Certs!TypeOK'
  BY Zenon, <1>11 DEF Certs!BeginByHand, Certs!TypeOK
<1>12. ASSUME NEW w \in Windows, Certs!update_certificate_rotation_window(w)
       PROVE  Certs!TypeOK'
  BY Zenon, <1>12 DEF Certs!update_certificate_rotation_window, Certs!TypeOK
<1>13. CASE Certs!NextDay
  <2>1. ASSUME NEW o \in Certs!Owners PROVE Certs!Older(row[o]) \in Certs!Row \cup {None}
    BY DEF Certs!Older, Certs!TypeOK, Certs!Row, Certs!CertConstants
  <2>2. job' \in JobType
    BY Zenon, <1>13, <1>j DEF Certs!NextDay, Certs!JobAt, JobType
  <2> QED BY Zenon, <1>13, <2>1, <2>2 DEF Certs!NextDay, Certs!TypeOK, JobType
<1>14. CASE UNCHANGED Certs!vars
  BY Zenon, <1>14 DEF Certs!vars, Certs!TypeOK
<1> QED
  BY ZenonT(60), <1>1, <1>2, <1>3, <1>4, <1>5, <1>6, <1>7, <1>8, <1>9, <1>10, <1>11, <1>12, <1>13, <1>14
  DEF Certs!Next, Certs!Job, Certs!Admin, Certs!rotate_certificate,
      Certs!rotate_idp_sp_certificate_listed, Certs!cleanup_certificate,
      Certs!cleanup_idp_sp_certificate, Certs!clear_previous_signing_certificate,
      Certs!clear_previous_idp_sp_certificate, Certs!get_or_create_sp_signing_certificate,
      Certs!get_or_create_idp_sp_certificate, Certs!rotate_signing_certificate,
      Certs!rotate_idp_sp_certificate_row,
      Certs!rotate_sp_signing_certificate, Certs!rotate_idp_sp_certificate

(* A row the job does not touch is covered after the step, unless the step *)
(* is the one that takes the row's run as done.                            *)
LEMMA Untouched ==
    ASSUME Certs!CertConstants, Certs!TypeOK, Certs!TypeOK', DaysInv, NEW o \in Certs!Owners,
           row'[o] = row[o],
           row[o] # None, Spent(o) <= Spent(o)',
           o \in job'.cleanup => o \in job.cleanup \/ row[o].grace # None
    PROVE  Covers(o, row[o], Spent(o))'
<1>1. row[o] \in Certs!Row /\ Covers(o, row[o], Spent(o))
  BY Zenon, JobTypes DEF DaysInv
<1>2. Spent(o) \in Int
  BY SpentType DEF Certs!CertConstants
<1>3. (Spent(o) \in -1..MaxFailures)'
  BY SpentType, PTL
<1>4. PICK j \in Int, k \in Int : j = Spent(o) /\ k = Spent(o)'
  BY <1>2, <1>3 DEF Certs!CertConstants
<1>5. Covers(o, row[o], j)
  BY Zenon, <1>1, <1>4
<1>6. PICK r \in Certs!Row : r = row[o]
  BY Zenon, <1>1
<1>7. Covers(o, r, k)'
  BY Zenon, <1>4, <1>5, <1>6, SameCovers
<1> QED BY Zenon, <1>4, <1>6, <1>7 DEF Covers

(* The lists: a row that is not on them has days enough without a run.     *)
LEMMA ListedKeeps ==
    ASSUME Certs!CertConstants, Certs!CertMargins, CertInv, Certs!TypeOK',
           NEW s, NEW at, Certs!Listed(s, at),
           \/ s = Sps /\ job.at = "due" /\ at = "sp"
           \/ s = Idps /\ job.at = "between" /\ at = "idp"
    PROVE  CertInv'
<1> USE DEF CertInv
<1>j. /\ job.rotate = {} /\ job.cleanup = {} /\ job.o = None /\ s \subseteq Certs!Owners
      /\ job'.at = at /\ job'.rotate = {o \in s : Certs!NeedsRotation(o)}
      /\ job'.cleanup = {o \in s : Certs!GraceOver(o)} /\ job'.o = None
      /\ row' = row /\ failed' = failed
      /\ Sps \cap Idps = {}
  BY Zenon, JobTypes DEF JobInv, Certs!Listed, Certs!CertConstants
<1>1. JobInv'
  BY Zenon, <1>j DEF JobInv, Certs!NeedsRotation, Certs!GraceOver
<1>2. ASSUME NEW o \in Certs!Owners, row'[o] # None PROVE Covers(o, row[o], Spent(o))'
  <2>1. CASE Handled(o)' /\ ~Handled(o)
    <3>1. o \in s /\ ~Certs!NeedsRotation(o) /\ ~Certs!GraceOver(o) /\ o \notin job'.cleanup
      BY Zenon, <1>j, <2>1 DEF Handled
    <3>2. row[o] \in Certs!Row /\ row[o] # None
      BY Zenon, <1>2, <1>j, JobTypes
    <3>3. /\ failed[o] \in 0..MaxFailures /\ MaxFailures \in Nat /\ Lifetime \in Nat
          /\ window \in Nat /\ MaxFailures + 2 <= window
          /\ None \notin Int
      BY Zenon DEF Certs!TypeOK, Certs!CertConstants, Certs!CertMargins
    <3>4. Spent(o)' = failed[o] - 1
      BY Zenon, <1>j, <2>1 DEF Spent
    <3>5. CASE row[o].grace = None
      <4>1. row[o].left >= window
        BY SMTT(30), <3>1, <3>2, <3>3, <3>5 DEF Certs!NeedsRotation, Certs!Row
      <4> QED BY SMTT(30), <1>j, <3>1, <3>2, <3>3, <3>4, <3>5, <4>1 DEF Covers, Certs!Row
    <3>6. CASE row[o].grace # None
      <4>1. row[o].grace >= 0
        BY SMTT(30), <3>1, <3>2, <3>3, <3>6 DEF Certs!GraceOver, Certs!Row
      <4>2. row[o].left - row[o].grace >= 2 * MaxFailures + 3
        BY Zenon, <3>2, <3>6 DEF DaysInv, Covers
      <4> QED BY SMTT(30), <1>j, <3>2, <3>3, <3>4, <3>6, <4>1, <4>2 DEF Covers, Certs!Row
    <3> QED BY Zenon, <3>5, <3>6
  <2>2. CASE Handled(o)' = Handled(o)
    <3>1. Spent(o)' = Spent(o) /\ Spent(o) \in -1..MaxFailures
      BY Zenon, <1>j, <2>2, SpentType DEF Spent
    <3>2. o \in job'.cleanup => row[o].grace # None
      BY Zenon, <1>j DEF Certs!GraceOver
    <3> QED BY SMTT(30), <1>2, <1>j, <3>1, <3>2, Untouched DEF Certs!CertConstants
  <2>3. Handled(o) => Handled(o)'
    BY Zenon, <1>j DEF Handled
  <2> QED BY Zenon, <2>1, <2>2, <2>3 DEF Handled
<1> QED BY Zenon, <1>1, <1>2 DEF DaysInv

(* A row that the job finishes, or that fails, is handled; the others stay *)
(* as they were.                                                           *)
LEMMA OnlyRow ==
    ASSUME Certs!CertConstants, Certs!TypeOK, JobInv, NEW o \in Certs!Owners,
           job'.at = job.at,
           job.rotate \ {o} \subseteq job'.rotate, job'.rotate \subseteq job.rotate,
           job.cleanup \ {o} \subseteq job'.cleanup, job'.cleanup \subseteq job.cleanup,
           \A v \in Certs!Owners : v # o => failed'[v] = failed[v] /\ row'[v] = row[v]
    PROVE  /\ \A v \in Certs!Owners : v # o => Spent(v)' = Spent(v)
           /\ o \in job.rotate \cup job.cleanup => ~Handled(o)
           /\ (o \in job.rotate \cup job.cleanup /\ o \notin job'.rotate \cup job'.cleanup)
                => Handled(o)'
<1>1. Sps \cap Idps = {} /\ Certs!Owners = Sps \cup Idps /\ job.at \in Certs!JobAt
  BY Zenon, JobTypes DEF Certs!CertConstants
<1>2. ASSUME NEW v \in Certs!Owners, v # o PROVE Spent(v)' = Spent(v)
  BY Zenon, <1>2 DEF Spent, Handled
<1>3. ASSUME o \in job.rotate \cup job.cleanup PROVE ~Handled(o)
  BY Zenon, <1>1, <1>3 DEF Handled, JobInv
<1>4. ASSUME o \in job.rotate \cup job.cleanup, o \notin job'.rotate \cup job'.cleanup
      PROVE  Handled(o)'
  BY Zenon, <1>1, <1>4 DEF Handled, JobInv
<1> QED BY Zenon, <1>2, <1>3, <1>4

(* The steps of the job on one row keep the invariant: reading, rotating,  *)
(* forgetting the previous certificate, and failing.                       *)
LEMMA RowStep ==
    ASSUME Certs!CertConstants, Certs!CertMargins, CertInv, Certs!TypeOK',
           NEW o \in Certs!Owners,
           \/ Certs!read_current(o) \/ Certs!RowFails(o) \/ Certs!RotateListed(o)
           \/ Certs!CleanupListed(o) /\ Certs!ClearPrevious(o)
    PROVE  CertInv'
<1> USE DEF CertInv
<1>j. /\ job.rotate \subseteq Certs!Owners /\ job.cleanup \subseteq Certs!Owners /\ o # None
      /\ job = [at |-> job.at, rotate |-> job.rotate, cleanup |-> job.cleanup,
                o |-> job.o, days |-> job.days]
      /\ job.days \in Windows \cup {None}
  BY Zenon, JobTypes
<1>l. /\ job'.at = job.at
      /\ job.rotate \ {o} \subseteq job'.rotate /\ job'.rotate \subseteq job.rotate
      /\ job.cleanup \ {o} \subseteq job'.cleanup /\ job'.cleanup \subseteq job.cleanup
      /\ o \in job.rotate \cup job.cleanup
      /\ job'.o # None => job'.o \in job'.rotate /\ job'.days \in Windows
  <2>1. CASE Certs!read_current(o)
    BY Zenon, <1>j, <2>1 DEF Certs!read_current, Certs!Reading, JobInv, Certs!TypeOK
  <2>2. CASE Certs!RowFails(o)
    BY Zenon, <1>j, <2>2 DEF Certs!RowFails, Certs!Reading, Certs!Cleaning, JobInv
  <2>3. CASE Certs!RotateListed(o)
    BY Zenon, <1>j, <2>3 DEF Certs!RotateListed, JobInv
  <2>4. CASE Certs!CleanupListed(o)
    BY Zenon, <1>j, <2>4 DEF Certs!CleanupListed, Certs!Cleaning, JobInv
  <2> QED BY Zenon, <2>1, <2>2, <2>3, <2>4
<1>r. \A v \in Certs!Owners : v # o => failed'[v] = failed[v] /\ row'[v] = row[v]
  <2>1. CASE Certs!read_current(o)
    BY Zenon, <2>1 DEF Certs!read_current
  <2>2. CASE Certs!RowFails(o)
    BY Zenon, <2>2 DEF Certs!RowFails, Certs!TypeOK
  <2>3. CASE Certs!RotateListed(o)
    BY <2>3 DEF Certs!RotateListed, Certs!Rotated, Certs!TypeOK
  <2>4. CASE Certs!CleanupListed(o) /\ Certs!ClearPrevious(o)
    BY ZenonT(60), <2>4 DEF Certs!CleanupListed, Certs!ClearPrevious, Certs!TypeOK
  <2> QED BY Zenon, <2>1, <2>2, <2>3, <2>4
<1>1. JobInv'
  BY Zenon, <1>l DEF JobInv
<1>2. /\ \A v \in Certs!Owners : v # o => Spent(v)' = Spent(v)
      /\ ~Handled(o)
      /\ o \notin job'.rotate \cup job'.cleanup => Handled(o)'
  BY Zenon, <1>l, <1>r, OnlyRow
<1>n. /\ MaxFailures \in Nat /\ failed[o] \in 0..MaxFailures /\ Spent(o) = failed[o]
      /\ None \notin Int
  BY <1>2 DEF Certs!TypeOK, Certs!CertConstants, Spent
<1>t. (Spent(o) \in -1..MaxFailures)'
  BY SpentType, PTL
<1>3. ASSUME NEW v \in Certs!Owners, v # o, row'[v] # None PROVE Covers(v, row[v], Spent(v))'
  <2>1. Spent(v) \in -1..MaxFailures /\ Spent(v)' = Spent(v)
    BY Zenon, <1>2, <1>3, SpentType
  <2> QED BY SMTT(30), <1>l, <1>r, <1>3, <2>1, Untouched DEF Certs!CertConstants
<1>4. ASSUME row'[o] # None PROVE Covers(o, row[o], Spent(o))'
  <2>1. CASE Certs!read_current(o)
    <3>1. /\ row' = row /\ failed' = failed
          /\ job'.rotate = job.rotate /\ job'.cleanup = job.cleanup
      BY SMTT(30), <1>4, <2>1 DEF Certs!read_current
    <3>2. Spent(o)' = Spent(o) /\ Spent(o) \in Int
      BY SMTT(30), <1>l, <1>n, <3>1 DEF Spent, Handled
    <3> QED BY SMTT(30), <1>4, <3>1, <3>2, Untouched
  <2>2. CASE Certs!RowFails(o)
    <3>1. row' = row /\ failed'[o] = failed[o] + 1
      BY Zenon, <2>2 DEF Certs!RowFails, Certs!TypeOK
    <3>2. o \notin job'.rotate
      BY Zenon, <2>2, <1>j DEF Certs!RowFails
    <3>3. o \notin job'.cleanup
      BY Zenon, <2>2, <1>j DEF Certs!RowFails, Certs!Reading, Certs!Cleaning, JobInv
    <3>4. Spent(o)' = Spent(o) /\ Spent(o) \in Int
      BY SMTT(30), <1>2, <1>n, <3>1, <3>2, <3>3 DEF Spent
    <3> QED BY SMTT(30), <1>4, <3>1, <3>3, <3>4, Untouched
  <2>3. CASE Certs!RotateListed(o)
    <3>1. job.days \in Windows /\ Certs!Rotated(o, job.days)
      BY Zenon, <1>j, <2>3 DEF Certs!RotateListed, JobInv
    <3>2. row'[o] = [left |-> Lifetime, grace |-> job.days]
      BY Zenon, <1>4, <3>1 DEF Certs!Rotated, Certs!TypeOK
    <3>3. PICK k \in -1..MaxFailures, d \in Windows : k = Spent(o)' /\ d = job.days
      BY Zenon, <1>t, <3>1
    <3>4. Covers(o, [left |-> Lifetime, grace |-> d], k)'
      BY Zenon, FreshCovers
    <3> QED BY Zenon, <3>2, <3>3, <3>4 DEF Covers
  <2>4. CASE Certs!CleanupListed(o) /\ Certs!ClearPrevious(o)
    <3>1. /\ failed'[o] = 0 /\ o \in job.cleanup
          /\ o \notin job'.rotate /\ o \notin job'.cleanup
      BY Zenon, <1>j, <2>4 DEF Certs!CleanupListed, Certs!Cleaning, Certs!TypeOK
    <3>2. Spent(o)' = -1
      BY SMTT(30), <1>2, <3>1 DEF Spent
    <3>3. row[o] # None /\ row[o] \in Certs!Row /\ Covers(o, row[o], Spent(o))
      BY Zenon, <1>4, <2>4, JobTypes DEF Certs!ClearPrevious, Certs!GraceOver, DaysInv, Certs!TypeOK
    <3>4. CASE Certs!GraceOver(o)
      <4>1. row'[o] = [row[o] EXCEPT !.grace = None]
        BY Zenon, <2>4, <3>4 DEF Certs!ClearPrevious, Certs!TypeOK
      <4>2. row'[o].grace = None /\ row'[o].left = row[o].left
        BY Zenon, <3>3, <4>1 DEF Certs!Row
      <4>3. row[o].left >= MaxFailures + 2
        BY SMTT(30), <1>n, <3>3, <3>4 DEF Certs!GraceOver, Covers, Certs!Row
      <4> QED BY SMTT(30), <1>n, <3>1, <3>2, <3>3, <4>2, <4>3 DEF Covers, Certs!Row
    <3>5. CASE ~Certs!GraceOver(o)
      <4>1. row' = row
        BY Zenon, <2>4, <3>5 DEF Certs!ClearPrevious
      <4>2. CASE row[o].grace = None
        BY SMTT(30), <1>n, <3>1, <3>2, <3>3, <4>1, <4>2 DEF Covers, Certs!Row
      <4>3. CASE row[o].grace # None
        <5>1. row[o].grace >= 0
          BY SMTT(30), <1>n, <3>3, <3>5, <4>3 DEF Certs!GraceOver, Certs!Row
        <5> QED BY SMTT(30), <1>n, <3>2, <3>3, <4>1, <4>3, <5>1 DEF Covers, Certs!Row
      <4> QED BY Zenon, <4>2, <4>3
    <3> QED BY Zenon, <3>4, <3>5
  <2> QED BY Zenon, <2>1, <2>2, <2>3, <2>4
<1> QED BY Zenon, <1>1, <1>3, <1>4 DEF DaysInv

(* The end of a list, and the night after the run: a row loses a day and   *)
(* a run, and gains the run of the next day.                               *)
LEMMA DayStep ==
    ASSUME Certs!CertConstants, CertInv, Certs!TypeOK',
           Certs!rotate_and_cleanup_certificates \/ Certs!NextDay
    PROVE  CertInv'
<1> USE DEF CertInv
<1>j. /\ job = [at |-> job.at, rotate |-> job.rotate, cleanup |-> job.cleanup,
                o |-> job.o, days |-> job.days]
      /\ Certs!Owners = Sps \cup Idps /\ Sps \cap Idps = {}
  BY Zenon, JobTypes DEF Certs!CertConstants
<1>l. /\ job.rotate = {} /\ job.cleanup = {} /\ job'.rotate = {} /\ job'.cleanup = {}
      /\ job.o = None /\ job'.o = None /\ failed' = failed
  BY Zenon, <1>j DEF Certs!rotate_and_cleanup_certificates, Certs!NextDay, JobInv
<1>1. JobInv'
  BY Zenon, <1>l DEF JobInv
<1>2. ASSUME NEW o \in Certs!Owners, row'[o] # None, Certs!rotate_and_cleanup_certificates
      PROVE  Covers(o, row[o], Spent(o))'
  <2>1. Handled(o)' = Handled(o) /\ row' = row
    BY Zenon, <1>j, <1>l, <1>2 DEF Certs!rotate_and_cleanup_certificates, Handled
  <2>2. Spent(o)' = Spent(o) /\ Spent(o) \in -1..MaxFailures
    BY Zenon, <1>l, <2>1, SpentType DEF Spent
  <2> QED BY SMTT(30), <1>2, <1>l, <2>1, <2>2, Untouched DEF Certs!CertConstants
<1>3. ASSUME NEW o \in Certs!Owners, row'[o] # None, Certs!NextDay
      PROVE  Covers(o, row[o], Spent(o))'
  <2>1. Handled(o) /\ ~Handled(o)'
    BY Zenon, <1>j, <1>3 DEF Certs!NextDay, Handled
  <2>2. failed[o] \in Int /\ Spent(o) = failed[o] - 1 /\ Spent(o)' = failed[o]
    BY SMTT(30), <1>l, <2>1 DEF Spent, Certs!TypeOK
  <2>3. row'[o] = Certs!Older(row[o]) /\ row[o] # None /\ row[o] \in Certs!Row
    BY Zenon, <1>3, JobTypes DEF Certs!NextDay, Certs!Older
  <2>4. Covers(o, row[o], Spent(o)) /\ MaxFailures \in Nat /\ None \notin Int
    BY Zenon, <2>3 DEF DaysInv, Certs!CertConstants
  <2>5. CASE row[o].grace = None
    BY SMTT(30), <1>l, <2>2, <2>3, <2>4, <2>5 DEF Covers, Certs!Older, Certs!Row
  <2>6. CASE row[o].grace # None
    <3>1. row'[o].grace = row[o].grace - 1 /\ row'[o].left = row[o].left - 1
      BY SMTT(30), <2>3, <2>6 DEF Certs!Older
    <3> QED BY SMTT(30), <2>2, <2>3, <2>4, <2>6, <3>1 DEF Covers, Certs!Row
  <2> QED BY Zenon, <2>5, <2>6
<1> QED BY Zenon, <1>1, <1>2, <1>3 DEF DaysInv

(* Every step of the job, of the administrators and of the calendar keeps  *)
(* the invariant.                                                          *)
LEMMA CertStep ==
    ASSUME Certs!CertConstants, Certs!CertMargins, CertInv, [Certs!Next]_(Certs!vars)
    PROVE  CertInv'
<1>t. Certs!TypeOK'
  BY Zenon, CertTypeStep
<1>1. CASE Certs!get_certificates_needing_rotation_or_cleanup
  BY Zenon, <1>1, <1>t, ListedKeeps DEF Certs!get_certificates_needing_rotation_or_cleanup
<1>2. CASE Certs!get_idp_sp_certificates_needing_rotation_or_cleanup
  BY Zenon, <1>2, <1>t, ListedKeeps DEF Certs!get_idp_sp_certificates_needing_rotation_or_cleanup
<1>3. CASE Certs!rotate_and_cleanup_certificates \/ Certs!NextDay
  BY Zenon, <1>3, <1>t, DayStep
<1>4. ASSUME NEW o \in Certs!Owners,
             \/ Certs!read_current(o) \/ Certs!RowFails(o) \/ Certs!RotateListed(o)
             \/ Certs!CleanupListed(o) /\ Certs!ClearPrevious(o)
      PROVE  CertInv'
  BY Zenon, <1>4, <1>t, RowStep
<1>5. ASSUME NEW o \in Certs!Owners, Certs!Created(o) \/ Certs!Deleted(o) PROVE CertInv'
  <2>1. UNCHANGED job
    BY Zenon, <1>5 DEF Certs!Created, Certs!Deleted
  <2>2. \A v \in Certs!Owners :
            \/ row'[v] = row[v] /\ failed'[v] = failed[v]
            \/ row'[v] = None
            \/ row'[v] = [left |-> Lifetime, grace |-> None]
    BY Zenon, <1>5 DEF Certs!Created, Certs!Deleted, CertInv, Certs!TypeOK
  <2> QED BY Zenon, <1>t, <2>1, <2>2, AdminKeeps
<1>6. ASSUME NEW a \in Admins, NEW s, Certs!FinishByHand(a, s) PROVE CertInv'
  <2>1. byHand[a].days \in CertGraces /\ byHand[a].o \in Certs!Owners
    BY Zenon, <1>6 DEF Certs!FinishByHand, CertInv, Certs!TypeOK
  <2>2. \A v \in Certs!Owners :
            \/ row'[v] = row[v] /\ failed'[v] = failed[v]
            \/ row'[v] = [left |-> Lifetime, grace |-> byHand[a].days]
    BY Zenon, <1>6, <2>1 DEF Certs!FinishByHand, Certs!Rotated, CertInv, Certs!TypeOK
  <2>3. UNCHANGED job
    BY Zenon, <1>6 DEF Certs!FinishByHand
  <2> QED BY Zenon, <1>t, <2>1, <2>2, <2>3, AdminKeeps
<1>7. CASE UNCHANGED <<row, job, failed>>
  BY Zenon, <1>t, <1>7, AdminKeeps
<1> QED
  BY Zenon, <1>1, <1>2, <1>3, <1>4, <1>5, <1>6, <1>7
  DEF Certs!Next, Certs!Job, Certs!Admin, Certs!rotate_certificate,
      Certs!rotate_idp_sp_certificate_listed, Certs!cleanup_certificate,
      Certs!cleanup_idp_sp_certificate, Certs!clear_previous_signing_certificate,
      Certs!clear_previous_idp_sp_certificate, Certs!get_or_create_sp_signing_certificate,
      Certs!get_or_create_idp_sp_certificate, Certs!rotate_signing_certificate,
      Certs!rotate_idp_sp_certificate_row,
      Certs!rotate_sp_signing_certificate, Certs!rotate_idp_sp_certificate, Certs!BeginByHand,
      Certs!update_certificate_rotation_window, Certs!vars

(* No certificate in use reaches its expiry, for any number of providers   *)
(* and administrators and any settings within the margins: the daily job   *)
(* (rotate_and_cleanup_certificates) reaches each row in time, although    *)
(* its list is stale when it gets there and its runs may fail.             *)
THEOREM CertificatesStayValid == Certs!Spec => []NeverExpired
<1>1. Certs!Init => CertInv
  BY Zenon, CertificateConstants, CertInit
<1>2. CertInv /\ [Certs!Next]_(Certs!vars) => CertInv'
  BY Zenon, CertificateConstants, CertStep
<1>3. CertInv => NeverExpired
  <2> SUFFICES ASSUME CertInv, NEW o \in Certs!Owners, row[o] # None PROVE row[o].left > 0
    BY Zenon DEF NeverExpired, Certs!NeverExpired
  <2>1. /\ row[o] \in Certs!Row /\ Covers(o, row[o], Spent(o)) /\ Spent(o) \in -1..MaxFailures
        /\ MaxFailures \in Nat
    BY Zenon, CertificateConstants, JobTypes, SpentType DEF CertInv, DaysInv, Certs!CertConstants
  <2> QED BY <2>1 DEF Covers, Certs!Row
<1> QED BY <1>1, <1>2, <1>3, PTL DEF Certs!Spec

-----------------------------------------------------------------------------
(* Background jobs implement the safety part of JobQueue, for any number   *)
(* of tasks, users and workers, and any number of crashes.                 *)
Types == Jobs!Exports \cup Jobs!Bulk \cup {"unregistered", None}
Reports == UNION {[S -> Jobs!Outcomes] : S \in SUBSET JobUsers}

(* Where a worker has a task, and where it has none.                       *)
Busy == {"process", "items", "save", "row", "complete", "fail"}
Between == {"idle", "poll", "cleanup", "cleanup_row", "redact"}

WorkerStates == [pc : Busy \cup Between, t : JobUsers \cup Jobs!Tasks \cup {0},
                 left : SUBSET (JobUsers \cup Jobs!Tasks), details : Reports]

JobsTypes ==
    /\ status \in [Jobs!Tasks ->
                       {"new", "pending", "processing", "completed", "failed", "deleted"}]
    /\ task \in [Jobs!Tasks -> [type : Types, created_by : JobAdmins \cup {None},
                                 ids : SUBSET JobUsers]]
    /\ result \in [Jobs!Tasks -> Reports \cup {None}]
    /\ worker \in [Workers -> WorkerStates]
    /\ \A t \in Jobs!Tasks : task[t].type \in Jobs!Exports => task[t].ids = {}

(* No two workers work on one task.                                        *)
NoSharedTask ==
    \A v, w \in Workers : v # w /\ worker[v].pc \in Busy /\ worker[w].pc \in Busy
                              => worker[v].t # worker[w].t

(* What a worker holds: a task that is being processed, and a report on    *)
(* the users that are not left.                                            *)
HoldsTask(w) ==
    LET me == worker[w]
    IN /\ me.t \in Jobs!Tasks /\ status[me.t] = "processing"
       /\ me.left \subseteq task[me.t].ids
       /\ me.details \in [task[me.t].ids \ me.left -> Jobs!Outcomes]
       /\ me.pc = "complete" => me.left = {}
       /\ me.pc \in {"save", "row"} => task[me.t].ids = {}

JobsInv ==
    /\ JobsTypes
    /\ \A w \in Workers : worker[w].pc \in Busy => HoldsTask(w)
    /\ NoSharedTask

-----------------------------------------------------------------------------
(* What a handler reports of a user is one of the outcomes.                *)
LEMMA HandleOutcome ==
    ASSUME NEW w, NEW u
    PROVE  Jobs!handle(w, u).outcome \in Jobs!Outcomes
  <1>1. \A o : Jobs!Leave(o).outcome = o
    BY Zenon DEF Jobs!Leave
  <1>2. Jobs!handle_bulk_inactivate_users(w, u).outcome \in Jobs!Outcomes
    BY Zenon DEF Jobs!handle_bulk_inactivate_users, Jobs!Leave, Jobs!Outcomes
  <1>3. Jobs!handle_bulk_reactivate_users(w, u).outcome \in Jobs!Outcomes
    BY Zenon DEF Jobs!handle_bulk_reactivate_users, Jobs!Leave, Jobs!Outcomes
  <1>4. Jobs!handle_bulk_group_assignment(w, u).outcome \in Jobs!Outcomes
    BY Zenon DEF Jobs!handle_bulk_group_assignment, Jobs!Leave, Jobs!Outcomes
  <1>5. /\ Jobs!handle_bulk_add_secondary_emails(w, u).outcome \in Jobs!Outcomes
        /\ Jobs!handle_bulk_primary_email_preview(w, u).outcome \in Jobs!Outcomes
        /\ Jobs!handle_bulk_primary_email_apply(w, u).outcome \in Jobs!Outcomes
    BY Zenon DEF Jobs!handle_bulk_add_secondary_emails,
        Jobs!handle_bulk_primary_email_preview,
           Jobs!handle_bulk_primary_email_apply, Jobs!Leave, Jobs!Outcomes
  <1> QED BY Zenon, <1>2, <1>3, <1>4, <1>5 DEF Jobs!handle

(* A worker that has no task yet has nothing to report.                    *)
LEMMA IdleTyped ==
    Jobs!NoDetails \in Reports /\ Jobs!Idle \in WorkerStates /\ Jobs!Idle.pc \in Between
  <1>1. Jobs!NoDetails \in [{} -> Jobs!Outcomes]
    BY Zenon DEF Jobs!NoDetails
  <1>2. Jobs!NoDetails \in Reports
    BY Zenon, <1>1 DEF Reports
  <1> QED BY Zenon, <1>2 DEF Jobs!Idle, WorkerStates, Between

(* A submission adds one task that is pending, and nothing else.           *)
LEMMA SubmitCreates ==
    ASSUME Jobs!Submit
    PROVE  \E type \in Types, a \in JobAdmins, ids \in SUBSET JobUsers :
             /\ Jobs!create_task(type, a, ids)
             /\ type \in Jobs!Exports => ids = {}
  <1> USE DEF Types, Jobs!Exports, Jobs!Bulk
  <1>1. PICK a \in JobAdmins :
          \/ Jobs!trigger_export(a) \/ Jobs!api_exports(a)
          \/ \E ids \in SUBSET JobUsers :
               \/ Jobs!submit_secondary_emails(a, ids) \/ Jobs!submit_primary_emails(a, ids)
               \/ Jobs!submit_bulk(a, ids)
               \/ Jobs!api_emails(a, ids) \/ Jobs!api_previewed(a, ids) \/ Jobs!api_bulk(a, ids)
          \/ \E type \in {"unregistered"} : Jobs!create_task(type, a, {})
    BY Zenon DEF Jobs!Submit
  <1>2. CASE Jobs!trigger_export(a) \/ Jobs!api_exports(a)
    BY Zenon, <1>2 DEF Jobs!trigger_export, Jobs!api_exports, Jobs!create_export_task,
        Jobs!create_user_export_task
  <1>3. ASSUME NEW ids \in SUBSET JobUsers,
               \/ Jobs!submit_secondary_emails(a, ids) \/ Jobs!submit_primary_emails(a, ids)
               \/ Jobs!submit_bulk(a, ids)
               \/ Jobs!api_emails(a, ids) \/ Jobs!api_bulk(a, ids)
        PROVE  \E type \in Jobs!Bulk : Jobs!create_task(type, a, ids)
    BY Zenon, <1>3 DEF Jobs!submit_secondary_emails, Jobs!submit_primary_emails,
        Jobs!submit_bulk, Jobs!api_emails, Jobs!api_bulk,
        Jobs!create_bulk_add_emails_task, Jobs!create_bulk_primary_email_preview_task,
        Jobs!create_bulk_primary_email_apply_task, Jobs!create_bulk_inactivate_task,
        Jobs!create_bulk_reactivate_task, Jobs!create_bulk_group_assignment_task
  <1>4. ASSUME NEW ids \in SUBSET JobUsers, Jobs!api_previewed(a, ids)
        PROVE  \E type \in Jobs!Bulk, s \in SUBSET JobUsers : Jobs!create_task(type, a, s)
    <2>1. /\ Jobs!preview_bulk_inactivate(a, ids) \in SUBSET JobUsers
          /\ Jobs!preview_bulk_reactivate(ids) \in SUBSET JobUsers
          /\ Jobs!preview_bulk_group_assignment(ids) \in SUBSET JobUsers
      BY Zenon DEF Jobs!preview_bulk_inactivate, Jobs!preview_bulk_reactivate,
          Jobs!preview_bulk_group_assignment
    <2> QED BY Zenon, <1>4, <2>1 DEF Jobs!api_previewed, Jobs!create_bulk_inactivate_task,
        Jobs!create_bulk_reactivate_task, Jobs!create_bulk_group_assignment_task
  <1>5. CASE \E type \in {"unregistered"} : Jobs!create_task(type, a, {})
    BY Zenon, <1>5
  <1>6. \A type \in Jobs!Bulk : type \in Types /\ type \notin Jobs!Exports
    BY Zenon
  <1> QED BY Zenon, <1>1, <1>2, <1>3, <1>4, <1>5, <1>6

-----------------------------------------------------------------------------
(* Steps that leave the tasks alone and move at most one worker, which     *)
(* then has no task, or holds the one it had.                              *)
LEMMA MovesKeepInv ==
    ASSUME JobsInv, NEW w \in Workers, JobsTypes', UNCHANGED <<status, task>>,
           \A v \in Workers \ {w} : worker'[v] = worker[v],
           worker'[w].pc \in Busy => /\ worker[w].pc \in Busy /\ worker'[w].t = worker[w].t
                                     /\ HoldsTask(w)'
    PROVE  JobsInv'
  <1>1. ASSUME NEW v \in Workers, worker'[v].pc \in Busy
        PROVE  HoldsTask(v)'
    <2>1. CASE v = w
      BY Zenon, <1>1, <2>1
    <2>2. CASE v # w
      BY Zenon, <1>1, <2>2 DEF JobsInv, HoldsTask
    <2> QED BY Zenon, <2>1, <2>2
  <1>2. ASSUME NEW u \in Workers, NEW v \in Workers, u # v,
               worker'[u].pc \in Busy, worker'[v].pc \in Busy
        PROVE  worker'[u].t # worker'[v].t
    BY <1>2 DEF JobsInv, NoSharedTask
  <1> QED BY Zenon, <1>1, <1>2 DEF JobsInv, NoSharedTask

(* A worker that ends a task: no other worker has it.                      *)
LEMMA EndsKeepInv ==
    ASSUME JobsInv, NEW w \in Workers, worker[w].pc \in Busy, JobsTypes', UNCHANGED task,
           \A v \in Workers \ {w} : worker'[v] = worker[v],
           worker'[w] = Jobs!Idle,
           \A t \in Jobs!Tasks \ {worker[w].t} : status'[t] = status[t]
    PROVE  JobsInv'
  <1>0. worker'[w].pc \notin Busy
    BY DEF Jobs!Idle, Busy
  <1>1. ASSUME NEW v \in Workers, worker'[v].pc \in Busy
        PROVE  HoldsTask(v)'
    <2>1. v # w /\ worker'[v] = worker[v]
      BY Zenon, <1>0, <1>1
    <2>2. HoldsTask(v) /\ worker[v].t # worker[w].t
      BY Zenon, <1>1, <2>1 DEF JobsInv, NoSharedTask
    <2>3. worker[v].t \in Jobs!Tasks \ {worker[w].t}
      BY Zenon, <2>2 DEF HoldsTask
    <2> QED BY Zenon, <2>1, <2>2, <2>3 DEF HoldsTask
  <1>2. ASSUME NEW u \in Workers, NEW v \in Workers, u # v,
               worker'[u].pc \in Busy, worker'[v].pc \in Busy
        PROVE  worker'[u].t # worker'[v].t
    BY ZenonT(60), <1>0, <1>2 DEF JobsInv, NoSharedTask
  <1> QED BY Zenon, <1>1, <1>2 DEF JobsInv, NoSharedTask

(* Every step of the system keeps the invariant.                           *)
LEMMA NextKeepsInv ==
    JobsInv /\ [Jobs!Next]_(Jobs!vars) => JobsInv'
  <1> SUFFICES ASSUME JobsInv, [Jobs!Next]_(Jobs!vars) PROVE JobsInv'
    BY Zenon
  <1> USE DEF Jobs!At, Jobs!Goto
  <1>1. CASE UNCHANGED <<status, task, result, worker>>
    BY Zenon, <1>1 DEF NoSharedTask, JobsInv, JobsTypes, HoldsTask
  <1>2. CASE Jobs!Submit
    <2>1. PICK type \in Types, a \in JobAdmins, ids \in SUBSET JobUsers :
            Jobs!create_task(type, a, ids) /\ (type \in Jobs!Exports => ids = {})
      BY Zenon, <1>2, SubmitCreates
    <2>2. PICK t \in Jobs!Tasks :
            /\ status[t] = "new"
            /\ status' = [status EXCEPT ![t] = "pending"]
            /\ task' = [task EXCEPT ![t] = [type |-> type, created_by |-> a, ids |-> ids]]
      BY Zenon, <2>1 DEF Jobs!create_task
    <2>3. UNCHANGED <<result, worker>>
      BY Zenon, <2>1 DEF Jobs!create_task
    <2>4. JobsTypes'
      BY Zenon, <2>1, <2>2, <2>3 DEF JobsInv, JobsTypes
    <2>5. ASSUME NEW w \in Workers, worker[w].pc \in Busy
          PROVE  HoldsTask(w)'
      <3>1. HoldsTask(w) /\ worker[w].t # t
        BY Zenon, <2>2, <2>5 DEF JobsInv, HoldsTask
      <3>2. status'[worker[w].t] = status[worker[w].t] /\ task'[worker[w].t] = task[worker[w].t]
        BY Zenon, <2>2, <3>1 DEF JobsInv, JobsTypes, HoldsTask
      <3> QED BY Zenon, <2>3, <3>1, <3>2 DEF HoldsTask
    <2> QED BY Zenon, <2>3, <2>4, <2>5 DEF JobsInv, NoSharedTask
  <1>3. ASSUME NEW a \in JobAdmins, NEW ts \in SUBSET Jobs!Tasks, Jobs!delete_jobs(a, ts)
        PROVE  JobsInv'
    <2>1. UNCHANGED <<task, result, worker>>
      BY Zenon, <1>3 DEF Jobs!delete_jobs
    <2>2. \A t \in ts : status[t] # "processing"
      BY Zenon, <1>3 DEF Jobs!delete_jobs, Jobs!delete_tasks
    <2>3. status' = [t \in Jobs!Tasks |-> IF t \in ts THEN "deleted" ELSE status[t]]
      BY Zenon, <1>3 DEF Jobs!delete_jobs, Jobs!delete_tasks
    <2>4. JobsTypes'
      BY Zenon, <2>1, <2>3 DEF JobsInv, JobsTypes
    <2>5. ASSUME NEW w \in Workers, worker[w].pc \in Busy
          PROVE  HoldsTask(w)'
      BY Zenon, <2>1, <2>2, <2>3, <2>5 DEF JobsInv, HoldsTask
    <2> QED BY Zenon, <2>1, <2>4, <2>5 DEF JobsInv, NoSharedTask
  <1>4. ASSUME NEW w \in Workers, Jobs!run(w)
        PROVE  JobsInv'
    <2>1. PICK t \in Jobs!Tasks :
            /\ Jobs!claim_next_task(w, t)
            /\ status' = [status EXCEPT ![t] = "processing"]
            /\ worker' = [worker EXCEPT ![w] =
                            [pc |-> "process", t |-> t, left |-> task[t].ids,
                             details |-> Jobs!NoDetails]]
      BY Zenon, <1>4 DEF Jobs!run
    <2>2. UNCHANGED <<task, result>> /\ status[t] = "pending"
      BY Zenon, <1>4, <2>1 DEF Jobs!run, Jobs!claim_next_task
    <2>3. Jobs!NoDetails \in [{} -> Jobs!Outcomes]
      BY Zenon DEF Jobs!NoDetails, Jobs!Outcomes
    <2>4. JobsTypes'
      <3>1. Jobs!NoDetails \in Reports
        BY Zenon, <2>3 DEF Reports
      <3> QED BY Zenon, <2>1, <2>2, <3>1 DEF JobsInv, JobsTypes, WorkerStates, Busy
    <2>5. HoldsTask(w)'
      <3>1. task[t].ids \ task[t].ids = {}
        BY Zenon
      <3> QED BY Zenon, <2>1, <2>2, <2>3, <3>1 DEF JobsInv, JobsTypes, HoldsTask
    <2>6. ASSUME NEW v \in Workers, v # w, worker[v].pc \in Busy
          PROVE  HoldsTask(v)' /\ worker[v].t # t
      BY Zenon, <2>1, <2>2, <2>6 DEF JobsInv, JobsTypes, HoldsTask
    <2>7. \A v \in Workers \ {w} : worker'[v] = worker[v]
      BY Zenon, <2>1 DEF JobsInv, JobsTypes
    <2>8. worker'[w].t = t
      BY Zenon, <2>1 DEF JobsInv, JobsTypes
    <2> QED BY Zenon, <2>4, <2>5, <2>6, <2>7, <2>8 DEF JobsInv, NoSharedTask
  <1>5. ASSUME NEW w \in Workers,
               \/ Jobs!_process_task(w) \/ Jobs!ItemsDone(w)
               \/ Jobs!save(w) \/ Jobs!create_export_file(w)
                                     \/ Jobs!HandlerError(w)
        PROVE  JobsInv'
    <2> DEFINE t == worker[w].t
    <2>1. /\ UNCHANGED <<status, task, result>>
          /\ worker[w].pc \in Busy /\ HoldsTask(w)
      BY Zenon, <1>5 DEF Jobs!_process_task, Jobs!ItemsDone, Jobs!save,
          Jobs!create_export_file, Jobs!HandlerError, Busy, JobsInv
    <2>2. CASE \E at \in Busy :
                 /\ Jobs!Goto(w, at)
                 /\ at = "complete" => worker[w].left = {}
                 /\ at \in {"save", "row"} => task[t].ids = {}
      <3>1. PICK at \in Busy :
                 /\ worker' = [worker EXCEPT ![w].pc = at]
                 /\ at = "complete" => worker[w].left = {}
                 /\ at \in {"save", "row"} => task[t].ids = {}
        BY Zenon, <2>2
      <3>2. /\ worker'[w].pc = at /\ worker'[w].t = t /\ worker'[w].left = worker[w].left
            /\ worker'[w].details = worker[w].details
            /\ \A v \in Workers \ {w} : worker'[v] = worker[v]
            /\ JobsTypes'
        BY Zenon, <2>1, <3>1 DEF JobsInv, JobsTypes, WorkerStates
      <3>3. HoldsTask(w)'
        BY Zenon, <2>1, <3>1, <3>2 DEF HoldsTask
      <3> QED BY Zenon, <2>1, <3>2, <3>3, MovesKeepInv
    <2> DEFINE refused == [worker EXCEPT ![w].pc = "complete", ![w].left = {},
                                         ![w].details = [u \in task[t].ids |-> "error"]]
    <2>3. CASE worker' = refused
      <3>2. [u \in task[t].ids |-> "error"] \in [task[t].ids \ {} -> Jobs!Outcomes]
        BY ZenonT(60) DEF Jobs!Outcomes
      <3>3. [u \in task[t].ids |-> "error"] \in Reports
        BY <2>1 DEF Reports, Jobs!Outcomes, JobsInv, JobsTypes, HoldsTask
      <3>4. /\ worker'[w].pc = "complete" /\ worker'[w].t = t /\ worker'[w].left = {}
            /\ worker'[w].details = [u \in task[t].ids |-> "error"]
            /\ \A v \in Workers \ {w} : worker'[v] = worker[v]
            /\ JobsTypes'
        BY ZenonT(40), <2>1, <2>3, <3>3 DEF JobsInv, JobsTypes, WorkerStates, Busy
      <3>5. HoldsTask(w)'
        BY Zenon, <2>1, <3>2, <3>4 DEF HoldsTask
      <3> QED BY Zenon, <2>1, <3>4, <3>5, MovesKeepInv
    <2>4. CASE Jobs!_process_task(w) /\ worker' # refused
      <3>1. \/ Jobs!Goto(w, "fail") \/ Jobs!Goto(w, "items")
            \/ task[t].type \in Jobs!Exports /\ Jobs!Goto(w, "save")
        BY Zenon, <2>4 DEF Jobs!_process_task
      <3>2. task[t].type \in Jobs!Exports => task[t].ids = {}
        BY Zenon, <2>1 DEF JobsInv, JobsTypes, HoldsTask
      <3> QED BY Zenon, <2>2, <3>1, <3>2 DEF Busy
    <2>5. CASE Jobs!ItemsDone(w)
      BY Zenon, <2>2, <2>5 DEF Jobs!ItemsDone, Busy
    <2>6. CASE Jobs!save(w) \/ Jobs!create_export_file(w)
      <3>1. task[t].ids = {} /\ worker[w].left = {}
        BY Zenon, <2>1, <2>6 DEF Jobs!save, Jobs!create_export_file, HoldsTask
      <3> QED BY Zenon, <2>2, <2>6, <3>1 DEF Jobs!save, Jobs!create_export_file, Busy
    <2>7. CASE Jobs!HandlerError(w)
      BY Zenon, <2>2, <2>7 DEF Jobs!HandlerError, Busy
    <2> QED BY Zenon, <1>5, <2>3, <2>4, <2>5, <2>6, <2>7
  <1>6. ASSUME NEW w \in Workers, Jobs!Item(w)
        PROVE  JobsInv'
    <2>1. PICK u \in worker[w].left, outcome \in Jobs!Outcomes :
            worker' = [worker EXCEPT ![w] = Jobs!Reported(w, u, outcome)]
      <3>1. PICK u \in worker[w].left, lost \in BOOLEAN :
              worker' = [worker EXCEPT ![w] =
                           Jobs!Reported(w, u, IF lost THEN "error" ELSE Jobs!handle(w, u).outcome)]
        BY Zenon, <1>6 DEF Jobs!Item
      <3>2. (IF lost THEN "error" ELSE Jobs!handle(w, u).outcome) \in Jobs!Outcomes
        BY Zenon, HandleOutcome DEF Jobs!Outcomes
      <3> QED BY Zenon, <3>1, <3>2
    <2>2. UNCHANGED <<status, task, result>> /\ worker[w].pc = "items" /\ HoldsTask(w)
      BY Zenon, <1>6 DEF Jobs!Item, JobsInv, Busy
    <2> DEFINE t == worker[w].t
               details == [v \in DOMAIN worker[w].details \cup {u} |->
                             IF v = u THEN outcome ELSE worker[w].details[v]]
               left == worker[w].left \ {u}
    <2>3. details \in [task[t].ids \ left -> Jobs!Outcomes]
      BY Zenon, <2>1, <2>2 DEF HoldsTask
    <2>4. details \in Reports
      <3>1. task[t].ids \ left \in SUBSET JobUsers
        BY Zenon, <2>2 DEF HoldsTask, JobsInv, JobsTypes
      <3> QED BY Zenon, <2>3, <3>1 DEF Reports
    <2>5. worker' = [worker EXCEPT ![w] = [worker[w] EXCEPT !.left = left, !.details = details]]
      BY Zenon, <2>1 DEF Jobs!Reported
    <2> HIDE DEF details
    <2>6. /\ worker'[w].pc = "items" /\ worker'[w].t = t
          /\ worker'[w].left = left /\ worker'[w].details = details
          /\ \A v \in Workers \ {w} : worker'[v] = worker[v]
          /\ JobsTypes'
      BY Zenon, <2>2, <2>4, <2>5 DEF JobsInv, JobsTypes, WorkerStates
    <2>7. HoldsTask(w)'
      BY Zenon, <2>2, <2>3, <2>6 DEF HoldsTask
    <2> QED BY Zenon, <2>2, <2>6, <2>7, MovesKeepInv DEF Busy
  <1>7. ASSUME NEW w \in Workers, Jobs!complete_task(w)
        PROVE  JobsInv'
    <2>1. worker[w].pc \in Busy /\ HoldsTask(w) /\ UNCHANGED task
      BY Zenon, <1>7 DEF Jobs!complete_task, Busy, JobsInv
    <2>2. JobsTypes'
      BY Zenon, <1>7, <2>1, IdleTyped DEF Jobs!complete_task, JobsInv, JobsTypes, WorkerStates
    <2>3. /\ \A v \in Workers \ {w} : worker'[v] = worker[v]
          /\ worker'[w] = Jobs!Idle
          /\ \A s \in Jobs!Tasks \ {worker[w].t} : status'[s] = status[s]
      BY Zenon, <1>7 DEF Jobs!complete_task, JobsInv, JobsTypes
    <2> QED BY Zenon, <2>1, <2>2, <2>3, EndsKeepInv
  <1>8. ASSUME NEW w \in Workers, Jobs!fail_task(w)
        PROVE  JobsInv'
    <2>1. worker[w].pc \in Busy /\ HoldsTask(w) /\ UNCHANGED task
      BY Zenon, <1>8 DEF Jobs!fail_task, Busy, JobsInv
    <2>2. JobsTypes'
      BY Zenon, <1>8, <2>1, IdleTyped DEF Jobs!fail_task, JobsInv, JobsTypes, HoldsTask
    <2>3. /\ \A v \in Workers \ {w} : worker'[v] = worker[v]
          /\ worker'[w] = Jobs!Idle
          /\ \A s \in Jobs!Tasks \ {worker[w].t} : status'[s] = status[s]
      BY Zenon, <1>8 DEF Jobs!fail_task, JobsInv, JobsTypes
    <2> QED BY Zenon, <2>1, <2>2, <2>3, EndsKeepInv
  <1>9. ASSUME NEW w \in Workers,
               \/ Jobs!cleanup_expired_exports(w) \/ Jobs!cleanup_file(w)
               \/ Jobs!delete_export_file(w)
               \/ Jobs!redact_result_password(w) \/ Jobs!_check_periodic_jobs(w)
               \/ Jobs!NothingPending(w) \/ Jobs!Crash(w)
        PROVE  JobsInv'
    <2>1. UNCHANGED <<status, task, result>>
      BY Zenon, <1>9 DEF Jobs!cleanup_expired_exports, Jobs!cleanup_file,
          Jobs!delete_export_file, Jobs!redact_result_password,
                  Jobs!_check_periodic_jobs, Jobs!NothingPending, Jobs!Crash
    <2>2. /\ \A v \in Workers \ {w} : worker'[v] = worker[v]
          /\ worker'[w].pc \in Between
          /\ JobsTypes'
      <3>1. CASE worker' = [worker EXCEPT ![w] = Jobs!Idle]
        BY Zenon, <2>1, <3>1, IdleTyped DEF JobsInv, JobsTypes
      <3>2. CASE Jobs!cleanup_expired_exports(w)
        <4>1. [Jobs!Idle EXCEPT !.pc = "cleanup", !.left = Jobs!get_expired_exports] \in WorkerStates
          BY Zenon, IdleTyped DEF WorkerStates, Between, Jobs!get_expired_exports
        <4>2. worker' = [worker EXCEPT ![w] =
                          [Jobs!Idle EXCEPT !.pc = "cleanup", !.left = Jobs!get_expired_exports]]
          BY Zenon, <3>2 DEF Jobs!cleanup_expired_exports
        <4>3. [Jobs!Idle EXCEPT !.pc = "cleanup", !.left = Jobs!get_expired_exports].pc \in Between
          BY Zenon DEF Jobs!Idle, Between
        <4> QED BY Zenon, <2>1, <4>1, <4>2, <4>3 DEF JobsInv, JobsTypes
      <3>3. CASE Jobs!cleanup_file(w)
        <4>1. PICK t \in worker[w].left :
                worker' = [worker EXCEPT ![w].pc = "cleanup_row", ![w].t = t, ![w].left = @ \ {t}]
          BY Zenon, <3>3 DEF Jobs!cleanup_file
        <4>2. t \in JobUsers \cup Jobs!Tasks
          BY Zenon DEF JobsInv, JobsTypes, WorkerStates
        <4> QED BY <2>1, <4>1, <4>2 DEF JobsInv, JobsTypes, WorkerStates, Between
      <3>4. CASE \E at \in Between : Jobs!Goto(w, at)
        <4>1. PICK at \in Between : worker' = [worker EXCEPT ![w].pc = at]
          BY Zenon, <3>4
        <4>2. worker' \in [Workers -> WorkerStates]
          BY ZenonT(40), <4>1 DEF JobsInv, JobsTypes, WorkerStates
        <4>3. worker'[w].pc = at /\ \A v \in Workers \ {w} : worker'[v] = worker[v]
          BY Zenon, <4>1 DEF JobsInv, JobsTypes, WorkerStates
        <4> QED BY Zenon, <2>1, <4>2, <4>3 DEF JobsInv, JobsTypes
      <3>5. CASE Jobs!NextRow(w)
        <4>1. worker' \in [Workers -> WorkerStates]
          <5>1. [worker[w] EXCEPT !.pc = "cleanup", !.t = 0] \in WorkerStates
            BY Zenon DEF JobsInv, JobsTypes, WorkerStates, Between
          <5>2. worker' = [worker EXCEPT ![w] = [worker[w] EXCEPT !.pc = "cleanup", !.t = 0]]
            BY Zenon, <3>5 DEF Jobs!NextRow
          <5> QED BY Zenon, <5>1, <5>2 DEF JobsInv, JobsTypes
        <4>2. worker'[w].pc = "cleanup" /\ \A v \in Workers \ {w} : worker'[v] = worker[v]
          BY Zenon, <3>5 DEF Jobs!NextRow, JobsInv, JobsTypes, WorkerStates
        <4> QED BY Zenon, <2>1, <4>1, <4>2 DEF JobsInv, JobsTypes, Between
      <3> QED BY Zenon, <1>9, <3>1, <3>2, <3>3, <3>4, <3>5
            DEF Jobs!delete_export_file, Jobs!redact_result_password,
                Jobs!_check_periodic_jobs, Jobs!NothingPending, Jobs!Crash,
                Between
    <2>3. worker'[w].pc \notin Busy
      BY Zenon, <2>2 DEF Between, Busy
    <2> QED BY Zenon, <2>1, <2>2, <2>3, MovesKeepInv
  <1>10. CASE \/ \E t \in Jobs!Tasks : Jobs!Expire(t)
              \/ \E u \in JobUsers : Jobs!DeleteUser(u)
              \/ Jobs!DeleteGroup \/ UNCHANGED Jobs!vars
    BY Zenon, <1>1, <1>10 DEF Jobs!Expire, Jobs!DeleteUser, Jobs!DeleteGroup, Jobs!vars
  <1> QED BY Zenon, <1>2, <1>3, <1>4, <1>5, <1>6, <1>7, <1>8, <1>9, <1>10 DEF Jobs!Next,
      Jobs!Step, Jobs!delete_background_jobs, Jobs!api_delete_jobs,
        Jobs!handle_export_events, Jobs!handle_export_users

-----------------------------------------------------------------------------
(* The invariant holds initially and in every reachable state.             *)
LEMMA JobsAlways ==
    Jobs!Spec => []JobsInv
  <1>1. Jobs!Init => JobsInv
    <2> SUFFICES ASSUME Jobs!Init PROVE JobsInv
      BY Zenon
    <2>1. JobsTypes
      BY Zenon, IdleTyped DEF Jobs!Init, JobsTypes, Types
    <2>2. \A w \in Workers : worker[w].pc \notin Busy
      BY Zenon DEF Jobs!Init, Jobs!Idle, Busy
    <2> QED BY Zenon, <2>1, <2>2 DEF JobsInv, NoSharedTask
  <1> QED BY <1>1, NextKeepsInv, PTL DEF Jobs!Spec

(* Every step is a step of the abstract queue, or none.                    *)
LEMMA StepsOfQueue ==
    JobsInv /\ [Jobs!Next]_(Jobs!vars) => [Jobs!Queue!Next]_(Jobs!Queue!vars)
  <1> SUFFICES ASSUME JobsInv, [Jobs!Next]_(Jobs!vars) PROVE [Jobs!Queue!Next]_(Jobs!Queue!vars)
    BY Zenon
  <1>1. CASE UNCHANGED <<status, task, result>>
    BY Zenon, <1>1 DEF Jobs!Queue!vars
  <1>2. CASE Jobs!Submit
    <2>1. PICK type \in Types, a \in JobAdmins, ids \in SUBSET JobUsers :
                 Jobs!create_task(type, a, ids)
      BY Zenon, <1>2, SubmitCreates
    <2>2. PICK t \in Jobs!Tasks :
            /\ status[t] = "new"
            /\ status' = [status EXCEPT ![t] = "pending"]
            /\ task' = [task EXCEPT ![t] = [type |-> type, created_by |-> a, ids |-> ids]]
      BY Zenon, <2>1 DEF Jobs!create_task
    <2>3. [s \in Jobs!Tasks |-> task'[s].ids]
            = [[s \in Jobs!Tasks |-> task[s].ids] EXCEPT ![t] = ids]
      BY Zenon, <2>2 DEF JobsInv, JobsTypes
    <2>4. UNCHANGED result
      BY Zenon, <2>1 DEF Jobs!create_task
    <2>5. Jobs!Queue!Submit(t)
      BY Zenon, <2>2, <2>3, <2>4 DEF Jobs!Queue!Submit
    <2> QED BY Zenon, <2>5 DEF Jobs!Queue!Next
  <1>3. ASSUME NEW a \in JobAdmins, NEW ts \in SUBSET Jobs!Tasks, Jobs!delete_jobs(a, ts)
        PROVE  Jobs!Queue!Next
    <2>1. Jobs!Queue!Remove(ts)
      BY Zenon, <1>3 DEF Jobs!delete_jobs, Jobs!delete_tasks, Jobs!Queue!Remove
    <2> QED BY Zenon, <2>1 DEF Jobs!Queue!Next
  <1>4. ASSUME NEW w \in Workers, Jobs!run(w)
        PROVE  Jobs!Queue!Next
    <2>1. PICK t \in Jobs!Tasks :
                 /\ Jobs!claim_next_task(w, t)
                 /\ status' = [status EXCEPT ![t] = "processing"]
      BY Zenon, <1>4 DEF Jobs!run
    <2>2. Jobs!Queue!Start(t)
      BY Zenon, <1>4, <2>1 DEF Jobs!run, Jobs!claim_next_task, Jobs!Queue!Start
    <2> QED BY Zenon, <2>2 DEF Jobs!Queue!Next
  <1>5. ASSUME NEW w \in Workers, Jobs!complete_task(w)
        PROVE  Jobs!Queue!Next
    <2> DEFINE t == worker[w].t
    <2>1. /\ t \in Jobs!Tasks /\ status[t] = "processing"
          /\ worker[w].details \in [task[t].ids -> Jobs!Outcomes]
      <3>1. HoldsTask(w) /\ worker[w].left = {} /\ task[t].ids \ {} = task[t].ids
        BY Zenon, <1>5 DEF Jobs!complete_task, Jobs!At, JobsInv, HoldsTask, Busy
      <3> QED BY Zenon, <3>1 DEF HoldsTask
    <2>2. Jobs!Queue!Complete(t)
      BY Zenon, <1>5, <2>1 DEF Jobs!complete_task, Jobs!Queue!Complete
    <2> QED BY Zenon, <2>1, <2>2 DEF Jobs!Queue!Next
  <1>6. ASSUME NEW w \in Workers, Jobs!fail_task(w)
        PROVE  Jobs!Queue!Next
    <2>1. worker[w].t \in Jobs!Tasks /\ status[worker[w].t] = "processing"
      BY Zenon, <1>6 DEF Jobs!fail_task, Jobs!At, JobsInv, HoldsTask, Busy
    <2>2. Jobs!Queue!Fail(worker[w].t)
      BY Zenon, <1>6, <2>1 DEF Jobs!fail_task, Jobs!Queue!Fail
    <2> QED BY Zenon, <2>1, <2>2 DEF Jobs!Queue!Next
  <1>7. CASE \/ \E w \in Workers :
                 \/ Jobs!_process_task(w) \/ Jobs!Item(w) \/ Jobs!ItemsDone(w) \/ Jobs!save(w)
                 \/ Jobs!create_export_file(w)
                 \/ Jobs!HandlerError(w) \/ Jobs!cleanup_expired_exports(w) \/ Jobs!cleanup_file(w)
                 \/ Jobs!delete_export_file(w) \/ Jobs!redact_result_password(w)
                 \/ Jobs!_check_periodic_jobs(w)
                 \/ Jobs!NothingPending(w) \/ Jobs!Crash(w)
             \/ \E t \in Jobs!Tasks : Jobs!Expire(t)
             \/ \E u \in JobUsers : Jobs!DeleteUser(u)
             \/ Jobs!DeleteGroup \/ UNCHANGED Jobs!vars
    BY ZenonT(40), <1>1, <1>7 DEF Jobs!_process_task, Jobs!Item, Jobs!ItemsDone, Jobs!save,
        Jobs!create_export_file, Jobs!HandlerError,
        Jobs!cleanup_expired_exports, Jobs!cleanup_file, Jobs!delete_export_file,
        Jobs!redact_result_password,
        Jobs!_check_periodic_jobs, Jobs!NothingPending, Jobs!Crash, Jobs!Expire,
        Jobs!DeleteUser, Jobs!DeleteGroup, Jobs!vars
  <1> QED BY Zenon, <1>2, <1>3, <1>4, <1>5, <1>6, <1>7 DEF Jobs!Next, Jobs!Step,
      Jobs!delete_background_jobs, Jobs!api_delete_jobs,
        Jobs!handle_export_events, Jobs!handle_export_users

(* Background jobs implement the abstract queue, up to its liveness: no    *)
(* task is started twice, whichever workers claim and die (claim_next_task *)
(* and its row lock), a completed one has reported on exactly its users    *)
(* (complete_task), and only ended ones are removed (delete_tasks).        *)
THEOREM JobsImplementQueue ==
    Jobs!Spec => Jobs!Queue!Safe
  <1>1. Jobs!Init => Jobs!Queue!Init
    BY DEF Jobs!Init, Jobs!Queue!Init
  <1> QED BY <1>1, JobsAlways, StepsOfQueue, PTL DEF Jobs!Spec, Jobs!Queue!Safe

(* No two workers ever work on one task (claim_next_task).                 *)
THEOREM OneWorkerPerTask ==
    Jobs!Spec => []NoSharedTask
  <1>1. JobsInv => NoSharedTask
    BY Zenon DEF JobsInv, NoSharedTask, Busy
  <1> QED BY <1>1, JobsAlways, PTL

-----------------------------------------------------------------------------
(* Where an export has no row yet, and where a cleanup has listed rows.    *)
Early == {"process", "save", "row"}
Sweeping == {"cleanup", "cleanup_row", "redact"}

Listed(w) == worker[w].left \cup (IF worker[w].pc = "cleanup" THEN {} ELSE {worker[w].t})

(* A row that a cleanup has listed is of an export that has ended, and was *)
(* not there before its file.                                              *)
FilesInv ==
    /\ Jobs!DownloadsServed
    /\ export \in [Jobs!Tasks -> {None, "kept", "expired"}]
    /\ \A w \in Workers : worker[w].pc \in Early => export[worker[w].t] = None
    /\ \A w \in Workers : worker[w].pc = "row" => worker[w].t \in stored
    /\ \A t \in Jobs!Tasks : export[t] # None => status[t] \notin {"new", "pending"}
    /\ \A w \in Workers : worker[w].pc \in Sweeping =>
         \A t \in Listed(w) :
            /\ t \in Jobs!Tasks /\ status[t] \notin {"new", "pending"} /\ export[t] # "kept"
            /\ \A v \in Workers : worker[v].pc \in Early => worker[v].t # t

(* The steps of exports and cleanups keep it.                              *)
LEMMA NextKeepsFiles ==
    ASSUME Jobs!JobConstants, JobsInv, FilesInv, [Jobs!Next]_(Jobs!vars)
    PROVE  FilesInv'
  <1> USE DEF Jobs!get_download, Jobs!At, Jobs!Goto, Early, Sweeping, Busy, Between
  <1>0. /\ status \in [Jobs!Tasks ->
                       {"new", "pending", "processing", "completed", "failed", "deleted"}]
        /\ worker \in [Workers -> WorkerStates]
        /\ \A w \in Workers : worker[w].pc \in Early =>
              worker[w].t \in Jobs!Tasks /\ status[worker[w].t] = "processing"
        /\ \A v, w \in Workers : v # w /\ worker[v].pc \in Early /\ worker[w].pc \in Early
                                    => worker[v].t # worker[w].t
        /\ None # "kept" /\ None # "expired"
    BY ZenonT(60) DEF JobsInv, JobsTypes, HoldsTask, NoSharedTask, Jobs!JobConstants
  <1>1. CASE Jobs!Submit
    <2>1. PICK type \in Types, a \in JobAdmins, ids \in SUBSET JobUsers :
                 Jobs!create_task(type, a, ids)
      BY Zenon, <1>1, SubmitCreates
    <2>2. PICK t \in Jobs!Tasks : status[t] = "new" /\ status' = [status EXCEPT ![t] = "pending"]
      BY Zenon, <2>1 DEF Jobs!create_task
    <2>3. UNCHANGED <<worker, export, stored>>
      BY ZenonT(60), <2>1 DEF Jobs!create_task, Jobs!files
    <2> QED BY <1>0, <2>2, <2>3 DEF FilesInv, Listed, Jobs!DownloadsServed
  <1>2. ASSUME NEW a \in JobAdmins, NEW ts \in SUBSET Jobs!Tasks, Jobs!delete_jobs(a, ts)
        PROVE  FilesInv'
    BY SMTT(30), <1>0, <1>2 DEF Jobs!delete_jobs, Jobs!delete_tasks, FilesInv, Listed,
        Jobs!DownloadsServed
  <1>3. ASSUME NEW w \in Workers, Jobs!run(w)
        PROVE  FilesInv'
    <2>1. PICK t \in Jobs!Tasks :
            /\ status[t] = "pending"
            /\ status' = [status EXCEPT ![t] = "processing"]
            /\ worker' = [worker EXCEPT ![w] =
                            [pc |-> "process", t |-> t, left |-> task[t].ids,
                             details |-> Jobs!NoDetails]]
      BY Zenon, <1>3 DEF Jobs!run, Jobs!claim_next_task
    <2>2. UNCHANGED <<export, stored>>
      BY Zenon, <1>3 DEF Jobs!run, Jobs!files
    <2>3. /\ worker'[w].pc = "process" /\ worker'[w].t = t
          /\ \A v \in Workers \ {w} : worker'[v] = worker[v]
      BY Zenon, <1>0, <2>1
    <2>4. \A s \in Jobs!Tasks : status'[s] \in {"new", "pending"} => status[s] = status'[s]
      BY ZenonT(60), <1>0, <2>1
    <2> QED BY SMTT(30), <1>0, <2>1, <2>2, <2>3, <2>4 DEF FilesInv, Listed, Jobs!DownloadsServed
  <1>4. ASSUME NEW w \in Workers, UNCHANGED <<export, stored>>,
               \A v \in Workers \ {w} : worker'[v] = worker[v],
               \A t \in Jobs!Tasks : status'[t] \in {"new", "pending"} => status[t] = status'[t],
               worker'[w].pc \notin Early \cup Sweeping
        PROVE  FilesInv'
    BY <1>4 DEF FilesInv, Listed, Jobs!DownloadsServed
  <1>5. ASSUME NEW w \in Workers, Jobs!_process_task(w)
        PROVE  FilesInv'
    <2>1. UNCHANGED <<status, export, stored>> /\ worker[w].pc = "process"
      BY ZenonT(60), <1>5 DEF Jobs!_process_task, Jobs!files
    <2>2. CASE Jobs!Goto(w, "save")
      <3>1. /\ worker'[w].pc = "save" /\ worker'[w].t = worker[w].t
            /\ \A v \in Workers \ {w} : worker'[v] = worker[v]
        BY <1>0, <2>2 DEF WorkerStates
      <3> QED BY SMTT(30), <1>0, <2>1, <3>1 DEF FilesInv, Listed, Jobs!DownloadsServed
    <2>3. CASE ~Jobs!Goto(w, "save")
      <3>1. /\ worker'[w].pc \in {"fail", "items", "complete"}
            /\ \A v \in Workers \ {w} : worker'[v] = worker[v]
        BY <1>0, <1>5, <2>3 DEF Jobs!_process_task, WorkerStates
      <3> QED BY Zenon, <1>4, <2>1, <3>1
    <2> QED BY Zenon, <2>2, <2>3
  <1>6. ASSUME NEW w \in Workers, Jobs!Item(w)
        PROVE  FilesInv'
    <2>1. PICK u \in worker[w].left, lost \in BOOLEAN :
            worker' = [worker EXCEPT ![w] =
                         Jobs!Reported(w, u, IF lost THEN "error" ELSE Jobs!handle(w, u).outcome)]
      BY Zenon, <1>6 DEF Jobs!Item
    <2>2. UNCHANGED <<status, export, stored>> /\ worker[w].pc = "items"
      BY Zenon, <1>6 DEF Jobs!Item, Jobs!files
    <2>3. worker'[w].pc = "items" /\ \A v \in Workers \ {w} : worker'[v] = worker[v]
      BY Zenon, <1>0, <2>1, <2>2 DEF WorkerStates, Jobs!Reported
    <2> QED BY Zenon, <1>4, <2>2, <2>3
  <1>7. ASSUME NEW w \in Workers,
               \/ Jobs!ItemsDone(w) \/ Jobs!HandlerError(w) \/ Jobs!_check_periodic_jobs(w)
        PROVE  FilesInv'
    <2>1. UNCHANGED <<status, export, stored>>
      BY Zenon, <1>7 DEF Jobs!ItemsDone, Jobs!HandlerError, Jobs!_check_periodic_jobs,
          Jobs!files
    <2>2. /\ worker'[w].pc \in {"complete", "fail", "poll"}
          /\ \A v \in Workers \ {w} : worker'[v] = worker[v]
      BY <1>0, <1>7 DEF Jobs!ItemsDone, Jobs!HandlerError, Jobs!_check_periodic_jobs,
          WorkerStates
    <2> QED BY Zenon, <1>4, <2>1, <2>2
  <1>8. ASSUME NEW w \in Workers,
               Jobs!complete_task(w) \/ Jobs!fail_task(w) \/ Jobs!NothingPending(w) \/ Jobs!Crash(w)
        PROVE  FilesInv'
    <2>1. UNCHANGED <<export, stored>> /\ worker' = [worker EXCEPT ![w] = Jobs!Idle]
      BY Zenon, <1>8 DEF Jobs!complete_task, Jobs!fail_task, Jobs!NothingPending, Jobs!Crash,
          Jobs!files
    <2>2. \A t \in Jobs!Tasks : status'[t] \in {"new", "pending"} => status[t] = status'[t]
      BY Zenon, <1>0, <1>8 DEF Jobs!complete_task, Jobs!fail_task, Jobs!NothingPending,
          Jobs!Crash
    <2>3. worker'[w].pc = "idle" /\ \A v \in Workers \ {w} : worker'[v] = worker[v]
      BY ZenonT(60), <1>0, <2>1 DEF Jobs!Idle
    <2> QED BY Zenon, <1>4, <2>1, <2>2, <2>3
  <1>9. ASSUME NEW w \in Workers, Jobs!save(w)
        PROVE  FilesInv'
    <2>1. /\ worker[w].pc = "save" /\ UNCHANGED <<status, export>>
          /\ stored' = stored \cup {worker[w].t}
      BY Zenon, <1>9 DEF Jobs!save
    <2>2. /\ worker'[w].pc = "row" /\ worker'[w].t = worker[w].t
          /\ \A v \in Workers \ {w} : worker'[v] = worker[v]
      BY ZenonT(60), <1>0, <1>9 DEF Jobs!save, WorkerStates
    <2> QED BY <1>0, <2>1, <2>2 DEF FilesInv, Listed, Jobs!DownloadsServed
  <1>10. ASSUME NEW w \in Workers, Jobs!create_export_file(w)
         PROVE  FilesInv'
    <2>1. /\ worker[w].pc = "row" /\ UNCHANGED <<status, stored>>
          /\ export' = [export EXCEPT ![worker[w].t] = "kept"]
      BY Zenon, <1>10 DEF Jobs!create_export_file
    <2>2. worker'[w].pc = "complete" /\ \A v \in Workers \ {w} : worker'[v] = worker[v]
      BY ZenonT(60), <1>0, <1>10 DEF Jobs!create_export_file, WorkerStates
    <2> QED BY <1>0, <2>1, <2>2 DEF FilesInv, Listed, Jobs!DownloadsServed
  <1>11. ASSUME NEW w \in Workers, Jobs!cleanup_expired_exports(w)
         PROVE  FilesInv'
    <2>1. UNCHANGED <<status, export, stored>>
      BY Zenon, <1>11 DEF Jobs!cleanup_expired_exports, Jobs!files
    <2>2. /\ worker'[w].pc = "cleanup"
          /\ worker'[w].left = {t \in Jobs!Tasks : export[t] = "expired"}
          /\ \A v \in Workers \ {w} : worker'[v] = worker[v]
      BY Zenon, <1>0, <1>11 DEF Jobs!cleanup_expired_exports, Jobs!get_expired_exports,
          Jobs!Idle
    <2>3. Listed(w)' = {t \in Jobs!Tasks : export[t] = "expired"}
      BY Zenon, <2>2 DEF Listed
    <2>4. \A v \in Workers \ {w} : Listed(v)' = Listed(v)
      BY Zenon, <2>2 DEF Listed
    <2> HIDE DEF Listed
    <2> QED BY SMTT(30), <1>0, <2>1, <2>2, <2>3, <2>4 DEF FilesInv, Jobs!DownloadsServed
  <1>12. ASSUME NEW w \in Workers, Jobs!cleanup_file(w)
         PROVE  FilesInv'
    <2>1. PICK t \in worker[w].left :
            /\ stored' \in {stored, stored \ {t}}
            /\ worker' = [worker EXCEPT ![w].pc = "cleanup_row", ![w].t = t, ![w].left = @ \ {t}]
      BY Zenon, <1>12 DEF Jobs!cleanup_file
    <2>2. worker[w].pc = "cleanup" /\ UNCHANGED <<status, export>>
      BY Zenon, <1>12 DEF Jobs!cleanup_file
    <2>3. /\ worker'[w].pc = "cleanup_row" /\ Listed(w)' = Listed(w) /\ t \in Listed(w)
          /\ \A v \in Workers \ {w} : worker'[v] = worker[v] /\ Listed(v)' = Listed(v)
      BY SMTT(30), <1>0, <2>1, <2>2 DEF WorkerStates, Listed
    <2> QED BY SMTT(30), <1>0, <2>1, <2>2, <2>3 DEF FilesInv, Jobs!DownloadsServed
  <1>13. ASSUME NEW w \in Workers,
                Jobs!delete_export_file(w) \/ Jobs!redact_result_password(w)
         PROVE  FilesInv'
    <2>1. /\ worker[w].pc \in {"cleanup_row", "redact"} /\ UNCHANGED <<status, stored>>
          /\ export' \in {export, [export EXCEPT ![worker[w].t] = None]}
      BY Zenon, <1>13 DEF Jobs!delete_export_file, Jobs!redact_result_password
    <2>2. /\ worker'[w].pc \in {"redact", "cleanup"} /\ Listed(w)' \subseteq Listed(w)
          /\ \A v \in Workers \ {w} : worker'[v] = worker[v] /\ Listed(v)' = Listed(v)
      BY SMTT(30), <1>0, <1>13 DEF Jobs!delete_export_file, Jobs!redact_result_password, Jobs!NextRow,
          WorkerStates, Listed
    <2> QED BY <1>0, <2>1, <2>2 DEF FilesInv, Jobs!DownloadsServed
  <1>14. ASSUME NEW t \in Jobs!Tasks, Jobs!Expire(t)
         PROVE  FilesInv'
    BY SMTT(30), <1>0, <1>14 DEF Jobs!Expire, FilesInv, Listed, Jobs!DownloadsServed
  <1>15. CASE (\E u \in JobUsers : Jobs!DeleteUser(u)) \/ Jobs!DeleteGroup \/ UNCHANGED Jobs!vars
    BY <1>15 DEF Jobs!DeleteUser, Jobs!DeleteGroup, Jobs!vars, Jobs!files, FilesInv, Listed,
        Jobs!DownloadsServed
  <1> QED BY Zenon, <1>1, <1>2, <1>3, <1>5, <1>6, <1>7, <1>8, <1>9, <1>10, <1>11,
      <1>12, <1>13, <1>14, <1>15
        DEF Jobs!Next, Jobs!Step, Jobs!delete_background_jobs, Jobs!api_delete_jobs,
        Jobs!handle_export_events, Jobs!handle_export_users

(* An export whose row is listed can be downloaded, whichever exports,     *)
(* cleanups and crashes interleave (create_export_file after save,         *)
(* cleanup_expired_exports on expired rows only).                          *)
THEOREM ExportsDownloadable ==
    Jobs!Spec => []DownloadsServed
  <1> USE JobsConstants
  <1>1. Jobs!Init => FilesInv
    BY DEF Jobs!Init, FilesInv, Jobs!DownloadsServed, Jobs!get_download, Jobs!Idle, Early,
        Sweeping, Jobs!JobConstants
  <1>2. JobsInv /\ FilesInv /\ [Jobs!Next]_(Jobs!vars) => FilesInv'
    BY Zenon, NextKeepsFiles
  <1>3. FilesInv => DownloadsServed
    BY Zenon DEF FilesInv, DownloadsServed
  <1> QED BY <1>1, <1>2, <1>3, JobsAlways, PTL DEF Jobs!Spec

=============================================================================
