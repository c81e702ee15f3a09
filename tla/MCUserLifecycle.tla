------------------------- MODULE MCUserLifecycle -------------------------
(* Accounts and their addresses for model checking; a behaviour is about   *)
(* one of the two.  Two users and two requests, statement by statement.    *)
EXTENDS UserLifecycle, TLC

CONSTANTS u1, u2, p1, p2, r1, r2, a1, a2

VARIABLES
    scenario,
    users, emails, allocated, password, idp, posted, calm

emailVars == <<users, emails, allocated, password, idp, posted, calm>>

(* The addresses: one on a privileged domain, the other's bound to an IdP. *)
Emails == INSTANCE UserEmails WITH
    Users <- {u1, u2}, Rows <- {r1, r2}, Addresses <- {a1, a2}, Privileged <- {a1}, Bound <- {a2},
    Requests <- {p1, p2}, Operations <- {"create", "add", "delete", "promote", "bulk", "verify", "password", "resend"},
    Crashes <- TRUE, MaxNonce <- 1, req <- posted

ASSUME EmailConstants == Emails!EmailConstants

TwoUsers == {u1, u2}
OneRequest == {p1}
TwoRequests == {p1, p2}
Deletions == {"create", "delete"}

(* A crash may come before the row update of an anonymization, when the    *)
(* other statements of the inactivation are done, and before the second    *)
(* statement of a denial.                                                  *)
HalfWay == {"row", "set_denied"}

Symmetry == Permutations({u1, u2}) \cup Permutations({p1, p2}) \cup Permutations({r1, r2})

MCInit ==
    /\ scenario \in {"accounts", "addresses"}
    /\ Init /\ Emails!Init

Accounts == scenario = "accounts" /\ Next /\ UNCHANGED <<scenario, emailVars>>

(* No request begins once one has ended half way or met another: what is   *)
(* said of the addresses is said of what came before.                      *)
MCNext ==
    \/ Accounts /\ Apart'
    \/ /\ scenario = "addresses" /\ Emails!Next /\ UNCHANGED <<scenario, vars>>
       /\ calm \/ \A p \in {p1, p2} : posted[p] = Emails!Idle => posted'[p] = posted[p]

MCSpec == MCInit /\ [][MCNext]_<<scenario, vars, emailVars>>

(* The accounts alone, with requests that meet anywhere.                   *)
AccountsSpec == (MCInit /\ scenario = "accounts") /\ [][Accounts]_<<scenario, vars, emailVars>>

(* The properties of the addresses, of module UserEmails.                  *)
PrimaryWhenQuiet == Emails!PrimaryWhenQuiet
PasswordSetOnceApart == Emails!PasswordSetOnceApart
==========================================================================
