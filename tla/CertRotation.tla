---------------------------- MODULE CertRotation ----------------------------
(***************************************************************************)
(* The certificates WeftID signs SAML with: one per service provider       *)
(* (sp_signing_certificates) and one per identity provider                 *)
(* (saml_idp_sp_certificates).  Super admins rotate them by hand           *)
(* (services/service_providers/signing_certs.py,                           *)
(* services/saml/idp_sp_certificates.py) and a daily job rotates those     *)
(* that expire soon and forgets the previous certificate when the grace    *)
(* period is over (jobs/rotate_certificates.py).                           *)
(*                                                                         *)
(* Every database call is a transaction of its own, also inside the job's  *)
(* session block.  A day is one unit of time.                              *)
(***************************************************************************)
EXTENDS Integers

CONSTANTS
    Sps,          \* service providers
    Idps,         \* identity providers
    Admins,       \* rotations by hand in progress
    Lifetime,     \* days a new certificate is valid (max_certificate_lifetime_years)
    Windows,      \* values of certificate_rotation_window_days
    Graces,       \* grace periods an admin may choose
    MaxFailures,  \* bound on how many runs in a row fail for one row
    None          \* no row, no grace period

Owners == Sps \cup Idps

CertConstants ==
    /\ Sps \cap Idps = {}
    /\ None \notin Owners \cup Int
    /\ Lifetime \in Nat /\ MaxFailures \in Nat
    /\ Windows \subseteq Nat \ {0} /\ Windows # {}
    /\ Graces \subseteq Nat

(* No two settings make a certificate expire before it can be replaced: it *)
(* is listed two runs before its last day at the latest, and outlives a    *)
(* grace period, the cleanup after it and the failures of either.          *)
CertMargins ==
    \A w \in Windows : /\ MaxFailures + 2 <= w
                       /\ \A g \in Graces \cup Windows : g + 2 * MaxFailures + 3 <= Lifetime

VARIABLES
    window,   \* tenant_security_settings.certificate_rotation_window_days
    row,      \* Owners -> the row of the owner, or None
    byHand,   \* Admins -> the rotation whose row has been read, or None
    job,      \* the run of the job: where it is and the rows it has left
    failed    \* Owners -> runs in a row that failed for the owner's row

vars == <<window, row, byHand, job, failed>>

(* A row by the days its current certificate and its grace period have     *)
(* left; there is a previous certificate exactly while grace is not None.  *)
Row == [left : Int, grace : Int \cup {None}]

JobAt == {"due", "sp", "between", "idp", "done"}

TypeOK ==
    /\ window \in Windows
    /\ row \in [Owners -> Row \cup {None}]
    /\ byHand \in [Admins -> [o : Owners, days : Graces] \cup {None}]
    /\ job \in [at : JobAt, rotate : SUBSET Owners, cleanup : SUBSET Owners,
                o : Owners \cup {None}, days : Windows \cup {None}]
    /\ failed \in [Owners -> 0..MaxFailures]

Init ==
    /\ window \in Windows
    /\ row = [o \in Owners |-> None]
    /\ byHand = [a \in Admins |-> None]
    /\ job = [at |-> "due", rotate |-> {}, cleanup |-> {}, o |-> None, days |-> None]
    /\ failed = [o \in Owners |-> 0]

-----------------------------------------------------------------------------
(* The first certificate, generated with the provider.                     *)
Created(o) ==
    /\ row[o] = None
    /\ row' = [row EXCEPT ![o] = [left |-> Lifetime, grace |-> None]]
    /\ UNCHANGED <<window, byHand, job, failed>>

get_or_create_sp_signing_certificate(o) == o \in Sps /\ Created(o)
get_or_create_idp_sp_certificate(o) == o \in Idps /\ Created(o)

(* Deleting the provider deletes the row (cascade).                        *)
Deleted(o) ==
    /\ row[o] # None
    /\ row' = [row EXCEPT ![o] = None]
    /\ failed' = [failed EXCEPT ![o] = 0]
    /\ UNCHANGED <<window, byHand, job>>

(* UPDATE ... WHERE owner = o: the certificate the caller has read becomes *)
(* the previous one.                                                       *)
Rotated(o, days) ==
    IF row[o] = None THEN UNCHANGED row
    ELSE row' = [row EXCEPT ![o] = [left |-> Lifetime, grace |-> days]]

-----------------------------------------------------------------------------
(* A rotation by hand: the row is read, and refused while a grace period   *)
(* runs; the update follows in its own transaction.                        *)
InGrace(o) == row[o] # None /\ row[o].grace # None /\ row[o].grace > 0

BeginByHand(a, o, days) ==
    /\ byHand[a] = None
    /\ row[o] # None /\ ~InGrace(o)
    /\ byHand' = [byHand EXCEPT ![a] = [o |-> o, days |-> days]]
    /\ UNCHANGED <<window, row, job, failed>>

rotate_sp_signing_certificate(a, o, days) == o \in Sps /\ BeginByHand(a, o, days)
rotate_idp_sp_certificate(a, o, days) ==
    o \in Idps /\ days \in 0..90 /\ BeginByHand(a, o, days)

FinishByHand(a, owners) ==
    /\ byHand[a] # None
    /\ byHand[a].o \in owners
    /\ Rotated(byHand[a].o, byHand[a].days)
    /\ byHand' = [byHand EXCEPT ![a] = None]
    /\ UNCHANGED <<window, job, failed>>

rotate_signing_certificate(a) == FinishByHand(a, Sps)
rotate_idp_sp_certificate_row(a) == FinishByHand(a, Idps)

update_certificate_rotation_window(w) ==
    /\ w \in Windows \ {window}
    /\ window' = w
    /\ UNCHANGED <<row, byHand, job, failed>>

-----------------------------------------------------------------------------
(* The job: list the rows of one kind, work through the list, then the     *)
(* same for the other kind.                                                *)

NeedsRotation_OnLastDay(o) == row[o] # None /\ row[o].grace = None /\ row[o].left < 1

NeedsRotation(o) == row[o] # None /\ row[o].grace = None /\ row[o].left < window

GraceOver(o) == row[o] # None /\ row[o].grace # None /\ row[o].grace < 0

Listed(owners, at) ==
    /\ job' = [job EXCEPT !.at = at, !.rotate = {o \in owners : NeedsRotation(o)},
                          !.cleanup = {o \in owners : GraceOver(o)}]
    /\ UNCHANGED <<window, row, byHand, failed>>

get_certificates_needing_rotation_or_cleanup == job.at = "due" /\ Listed(Sps, "sp")
get_idp_sp_certificates_needing_rotation_or_cleanup == job.at = "between" /\ Listed(Idps, "idp")

(* Row after row, rotations first; a row whose reading is under way is     *)
(* finished before the next.  The grace period is the window as read then. *)
Reading(o) == job.o = None /\ o \in job.rotate
Cleaning(o) == job.o = None /\ job.rotate = {} /\ o \in job.cleanup

read_current(o) ==
    /\ Reading(o)
    /\ job' = IF row[o] = None THEN [job EXCEPT !.rotate = @ \ {o}]
                               ELSE [job EXCEPT !.o = o, !.days = window]
    /\ UNCHANGED <<window, row, byHand, failed>>

RotateListed(o) ==
    /\ job.o = o
    /\ Rotated(o, job.days)
    /\ job' = [job EXCEPT !.rotate = @ \ {o}, !.o = None, !.days = None]
    /\ failed' = [failed EXCEPT ![o] = 0]
    /\ UNCHANGED <<window, byHand>>

rotate_certificate(o) == o \in Sps /\ RotateListed(o)
rotate_idp_sp_certificate_listed(o) == o \in Idps /\ RotateListed(o)

(* The update looks at the grace period again: the list may be stale.      *)
ClearPrevious(o) ==
    IF GraceOver(o) THEN row' = [row EXCEPT ![o].grace = None]
                    ELSE UNCHANGED row

clear_previous_signing_certificate(o) == o \in Sps /\ ClearPrevious(o)
clear_previous_idp_sp_certificate(o) == o \in Idps /\ ClearPrevious(o)

CleanupListed(o) ==
    /\ Cleaning(o)
    /\ job' = [job EXCEPT !.cleanup = @ \ {o}]
    /\ failed' = [failed EXCEPT ![o] = 0]
    /\ UNCHANGED <<window, byHand>>

cleanup_certificate(o) == CleanupListed(o) /\ clear_previous_signing_certificate(o)
cleanup_idp_sp_certificate(o) == CleanupListed(o) /\ clear_previous_idp_sp_certificate(o)

(* An exception on one row is logged, and the run goes on to the next row. *)
RowFails(o) ==
    /\ Reading(o) \/ Cleaning(o) \/ job.o = o
    /\ failed[o] < MaxFailures
    /\ failed' = [failed EXCEPT ![o] = @ + 1]
    /\ job' = [job EXCEPT !.rotate = @ \ {o}, !.o = None, !.days = None,
                          !.cleanup = IF Cleaning(o) THEN @ \ {o} ELSE @]
    /\ UNCHANGED <<window, row, byHand>>

rotate_and_cleanup_certificates ==
    /\ job.at \in {"sp", "idp"}
    /\ job.rotate = {} /\ job.cleanup = {}
    /\ job' = [job EXCEPT !.at = IF job.at = "sp" THEN "between" ELSE "done"]
    /\ UNCHANGED <<window, row, byHand, failed>>

(* The worker starts the job once a day.                                   *)
Older(r) ==
    IF r = None THEN None
    ELSE [left |-> r.left - 1, grace |-> IF r.grace = None THEN None ELSE r.grace - 1]

NextDay ==
    /\ job.at = "done"
    /\ row' = [o \in Owners |-> Older(row[o])]
    /\ job' = [job EXCEPT !.at = "due"]
    /\ UNCHANGED <<window, byHand, failed>>

-----------------------------------------------------------------------------
Job ==
    \/ get_certificates_needing_rotation_or_cleanup
    \/ get_idp_sp_certificates_needing_rotation_or_cleanup
    \/ rotate_and_cleanup_certificates
    \/ \E o \in Owners : \/ read_current(o) \/ RowFails(o)
                         \/ rotate_certificate(o) \/ rotate_idp_sp_certificate_listed(o)
                         \/ cleanup_certificate(o) \/ cleanup_idp_sp_certificate(o)

Admin ==
    \/ \E o \in Owners : \/ get_or_create_sp_signing_certificate(o)
                         \/ get_or_create_idp_sp_certificate(o)
                         \/ Deleted(o)
    \/ \E a \in Admins : \/ rotate_signing_certificate(a) \/ rotate_idp_sp_certificate_row(a)
                         \/ \E o \in Owners, days \in Graces :
                              \/ rotate_sp_signing_certificate(a, o, days)
                              \/ rotate_idp_sp_certificate(a, o, days)
    \/ \E w \in Windows : update_certificate_rotation_window(w)

Next == Job \/ Admin \/ NextDay

Spec == Init /\ [][Next]_vars

-----------------------------------------------------------------------------
(* What the metadata lists: for a service provider only the certificate    *)
(* that signs, for an identity provider the previous one as well.          *)
get_sp_idp_metadata_xml(o) == {"current"}
get_idp_sp_metadata_xml(o) == IF row[o].grace = None THEN {"current"} ELSE {"current", "previous"}

Published(o) ==
    IF row[o] = None THEN {}
    ELSE IF o \in Sps THEN get_sp_idp_metadata_xml(o) ELSE get_idp_sp_metadata_xml(o)

(* With the job running every day and its failures bounded, no certificate *)
(* in use ever reaches its expiry, whatever the admins rotate, delete and  *)
(* set meanwhile and however stale the job's list is when it gets to a row.*)
NeverExpired == \A o \in Owners : row[o] # None => row[o].left > 0

=============================================================================
