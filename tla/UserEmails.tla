----------------------------- MODULE UserEmails -----------------------------
(***************************************************************************)
(* The email addresses of users and the invitation links that go to them:  *)
(* creation of a user, adding, removing and promoting an address,          *)
(* verification links, set-password links and the two bulk email jobs      *)
(* (services/emails.py, services/users/crud.py, routers/users/,            *)
(* routers/auth/onboarding.py, jobs/bulk_*email*.py).                      *)
(*                                                                         *)
(* A request runs one database call per step, each a transaction of its    *)
(* own.  Nonces are counted per address: a link carries the nonce that was *)
(* current when it was sent.                                               *)
(***************************************************************************)
EXTENDS Naturals, FiniteSets

CONSTANTS
    Users,       \* ids of the users that may be created
    Rows,        \* ids of user_emails rows
    Addresses,   \* email addresses
    Privileged,  \* addresses on a privileged domain
    Bound,       \* addresses whose domain is bound to an enabled SAML IdP
    Requests,    \* HTTP requests and bulk job items in progress
    Operations,  \* the operations the requests perform
    Crashes,     \* may a request end between two statements?
    MaxNonce,    \* bound on how often a nonce is regenerated
    None         \* no user, row or address

AllOperations == {"create", "add", "delete", "promote", "bulk", "verify", "password", "resend"}

EmailConstants ==
    /\ None \notin Users \cup Rows \cup Addresses
    /\ Privileged \subseteq Addresses /\ Bound \subseteq Addresses
    /\ Operations \subseteq AllOperations
    /\ Crashes \in BOOLEAN
    /\ MaxNonce \in Nat

VARIABLES
    users,      \* users that exist
    emails,     \* rows of user_emails
    allocated,  \* row ids that have been used
    password,   \* how often a link has set the user's password
    idp,        \* users with a saml_idp_id
    req,        \* Requests -> the statement the request runs next, and on what
    calm        \* history: no crash, and no two requests at one user or address

rowVars == <<users, emails, allocated, password, idp>>
vars == <<rowVars, req, calm>>

Email == [id : Rows, user : Users, address : Addresses, is_primary : BOOLEAN,
          verified : BOOLEAN, verify_nonce : 0..MaxNonce, set_password_nonce : 0..MaxNonce]
Statements == {"idle", "insert_user", "insert_email", "add_email", "primary", "count", "delete",
               "unset", "set", "disposition", "by_nonce", "verify", "user", "update_password", "spend",
               "resend", "regenerate"}
Dispositions == {"keep", "switch", "remove"}
Request == [pc : Statements, u : Users \cup {None}, r : Rows \cup {None},
            a : Addresses \cup {None}, n : 0..MaxNonce, d : Dispositions]

Idle == [pc |-> "idle", u |-> None, r |-> None, a |-> None, n |-> 0, d |-> "keep"]

TypeOK ==
    /\ users \subseteq Users
    /\ emails \subseteq Email
    /\ allocated \subseteq Rows
    /\ password \in [Users -> Nat]
    /\ idp \subseteq Users
    /\ req \in [Requests -> Request]
    /\ calm \in BOOLEAN

Init ==
    /\ users = {} /\ emails = {} /\ allocated = {}
    /\ password = [u \in Users |-> 0]
    /\ idp = {}
    /\ req = [p \in Requests |-> Idle]
    /\ calm = TRUE

At(p, statement) == req[p].pc = statement
Goto(p, statement) == req' = [req EXCEPT ![p].pc = statement]
Done(p) == req' = [req EXCEPT ![p] = Idle]
Start(p, statement, u, r, a) ==
    /\ req[p] = Idle
    /\ req' = [req EXCEPT ![p] = [Idle EXCEPT !.pc = statement, !.u = u, !.r = r, !.a = a]]
StartLink(p, statement, e, n) ==
    /\ req[p] = Idle
    /\ req' = [req EXCEPT ![p] = [Idle EXCEPT !.pc = statement, !.u = e.user, !.r = e.id, !.n = n]]

list_user_emails(u) == {e \in emails : e.user = u}
get_email(r) == {e \in emails : e.id = r}
email_exists(a) == \E e \in emails : e.address = a
get_primary_email(u) == {e \in emails : e.user = u /\ e.is_primary}
count_user_emails(u) == Cardinality(list_user_emails(u))

(* A link that was sent to the address of row e carries this nonce.        *)
Sent(nonce) == 0..nonce

(* An insert fails on the unique (tenant, address) and on the unique index *)
(* over the primary rows of a user.                                        *)
Insertable(e) ==
    /\ ~email_exists(e.address)
    /\ e.is_primary => get_primary_email(e.user) = {}

NewEmail(r, u, a, primary, verified) ==
    [id |-> r, user |-> u, address |-> a, is_primary |-> primary, verified |-> verified,
     verify_nonce |-> 0, set_password_nonce |-> 0]

InsertEmail(r, u, a, primary, verified) ==
    /\ Insertable(NewEmail(r, u, a, primary, verified))
    /\ emails' = emails \cup {NewEmail(r, u, a, primary, verified)}
    /\ allocated' = allocated \cup {r}

UpdateEmails(rows, Set(_)) ==
    emails' = (emails \ rows) \cup {Set(e) : e \in rows}

-----------------------------------------------------------------------------
(* Creating a user: the API inserts a verified primary address; the page   *)
(* inserts a secondary one, unverified off a privileged domain, and then   *)
(* sets it primary.                                                        *)

create_user(p, u, a) ==
    /\ "create" \in Operations
    /\ u \notin users /\ \A q \in Requests : req[q].pc = "insert_user" => req[q].u # u
    /\ ~email_exists(a)
    /\ Start(p, "insert_user", u, None, a)
    /\ UNCHANGED rowVars

insert_user(p) ==
    /\ At(p, "insert_user")
    /\ users' = users \cup {req[p].u}
    /\ Goto(p, "insert_email")
    /\ UNCHANGED <<emails, allocated, password, idp>>

add_verified_email_as_primary(p, r) ==
    /\ At(p, "insert_email")
    /\ r \notin allocated
    /\ InsertEmail(r, req[p].u, req[p].a, TRUE, TRUE)
    /\ \/ Done(p)
       \/ req[p].a \in Privileged /\ req' = [req EXCEPT ![p].pc = "primary", ![p].r = r]
    /\ UNCHANGED <<users, password, idp>>

add_unverified_email_with_nonce_Secondary(p, r) ==
    /\ At(p, "insert_email")
    /\ r \notin allocated
    /\ req[p].a \notin Privileged
    /\ InsertEmail(r, req[p].u, req[p].a, FALSE, FALSE)
    /\ Done(p)
    /\ UNCHANGED <<users, password, idp>>

add_unverified_email_with_nonce(p, r) ==
    /\ At(p, "insert_email")
    /\ r \notin allocated
    /\ req[p].a \notin Privileged
    /\ InsertEmail(r, req[p].u, req[p].a, FALSE, FALSE)
    /\ req' = [req EXCEPT ![p].pc = "primary", ![p].r = r]
    /\ UNCHANGED <<users, password, idp>>

(* The insert fails on the unique address; the user stays as created.      *)
insert_email_refused(p) ==
    /\ At(p, "insert_email") \/ At(p, "add_email")
    /\ email_exists(req[p].a)
    /\ Done(p)
    /\ UNCHANGED rowVars

-----------------------------------------------------------------------------
(* Adding and removing an address (administrators).                        *)

add_user_email(p, u, a) ==
    /\ "add" \in Operations
    /\ u \in users
    /\ ~email_exists(a)
    /\ Start(p, "add_email", u, None, a)
    /\ UNCHANGED rowVars

(* The page takes addresses on privileged domains only; the API and the    *)
(* bulk job take any.                                                      *)
add_user_email_route(p, u, a) == a \in Privileged /\ add_user_email(p, u, a)

handle_bulk_add_secondary_emails(p, u, a) ==
    /\ "bulk" \in Operations
    /\ u \in users
    /\ ~email_exists(a)
    /\ Start(p, "add_email", u, None, a)
    /\ UNCHANGED rowVars

add_verified_email(p, r) ==
    /\ At(p, "add_email")
    /\ r \notin allocated
    /\ InsertEmail(r, req[p].u, req[p].a, FALSE, TRUE)
    /\ Done(p)
    /\ UNCHANGED <<users, password, idp>>

delete_user_email(p, e) ==
    /\ "delete" \in Operations
    /\ e \in emails /\ ~e.is_primary
    /\ Start(p, "count", e.user, e.id, None)
    /\ UNCHANGED rowVars

delete_user_email_count(p) ==
    /\ At(p, "count")
    /\ IF count_user_emails(req[p].u) <= 1 THEN Done(p) ELSE Goto(p, "delete")
    /\ UNCHANGED rowVars

delete_email(p) ==
    /\ At(p, "delete")
    /\ emails' = emails \ get_email(req[p].r)
    /\ Done(p)
    /\ UNCHANGED <<users, allocated, password, idp>>

-----------------------------------------------------------------------------
(* Promotion, one user at a time or as an item of the bulk job, which goes *)
(* on to apply what the administrator chose for the user's IdP.            *)

set_primary_email(p, e) ==
    /\ "promote" \in Operations
    /\ e \in emails /\ e.verified /\ ~e.is_primary
    /\ Start(p, "unset", e.user, e.id, None)
    /\ UNCHANGED rowVars

check_routing_change(e) == (e.address \in Bound) # (e.user \in idp)

(* A promotion that changes how the user signs in has to be confirmed.     *)
promote_user_email_route(p, e, confirm) ==
    /\ confirm \/ ~check_routing_change(e)
    /\ set_primary_email(p, e)

(* The disposition "remove" needs an IdP when the item starts.             *)
handle_bulk_primary_email_apply(p, e, d) ==
    /\ "bulk" \in Operations
    /\ e \in emails /\ e.verified /\ ~e.is_primary
    /\ d = "switch" => e.address \in Bound
    /\ d = "remove" => e.user \in idp
    /\ req[p] = Idle
    /\ req' = [req EXCEPT ![p] = [Idle EXCEPT !.pc = "unset", !.u = e.user, !.r = e.id, !.d = d]]
    /\ UNCHANGED rowVars

unset_primary_emails(p) ==
    /\ At(p, "unset")
    /\ UpdateEmails(get_primary_email(req[p].u), LAMBDA e : [e EXCEPT !.is_primary = FALSE])
    /\ Goto(p, "set")
    /\ UNCHANGED <<users, allocated, password, idp>>

(* The update by id: nothing when the row is gone, an error when another   *)
(* row of the user is primary already.                                     *)
set_primary(p) ==
    /\ At(p, "set") \/ At(p, "primary")
    /\ IF \E e \in emails : e.user = req[p].u /\ e.is_primary /\ e.id # req[p].r /\ get_email(req[p].r) # {}
       THEN Done(p) /\ UNCHANGED emails
       ELSE /\ UpdateEmails(get_email(req[p].r), LAMBDA e : [e EXCEPT !.is_primary = TRUE])
            /\ IF req[p].d = "keep" THEN Done(p) ELSE Goto(p, "disposition")
    /\ UNCHANGED <<users, allocated, password, idp>>

update_user_saml_idp(p) ==
    /\ At(p, "disposition")
    /\ idp' = IF req[p].d = "switch" THEN idp \cup {req[p].u} ELSE idp \ {req[p].u}
    /\ Done(p)
    /\ UNCHANGED <<users, emails, allocated, password>>

-----------------------------------------------------------------------------
(* Invitation links.                                                       *)

verify_email_public(p, e, n) ==
    /\ "verify" \in Operations
    /\ e \in emails /\ ~e.verified
    /\ n \in Sent(e.verify_nonce) /\ n = e.verify_nonce
    /\ StartLink(p, "by_nonce", e, n)
    /\ UNCHANGED rowVars

verify_email_by_nonce(p) ==
    /\ At(p, "by_nonce")
    /\ IF \E e \in get_email(req[p].r) : e.verify_nonce = req[p].n
       THEN Goto(p, "verify")
       ELSE Done(p)
    /\ UNCHANGED rowVars

verify_email(p) ==
    /\ At(p, "verify")
    /\ \A e \in get_email(req[p].r) : e.verify_nonce < MaxNonce
    /\ UpdateEmails(get_email(req[p].r),
                    LAMBDA e : [e EXCEPT !.verified = TRUE, !.verify_nonce = @ + 1])
    /\ Done(p)
    /\ UNCHANGED <<users, allocated, password, idp>>

(* The form is submitted: the link's nonce first, then the user is read.   *)
set_password(p, e, n) ==
    /\ "password" \in Operations
    /\ e \in emails /\ e.verified
    /\ n \in Sent(e.set_password_nonce) /\ n = e.set_password_nonce
    /\ StartLink(p, "user", e, n)
    /\ UNCHANGED rowVars

(* A user with a password or an IdP is sent to the sign-in page.           *)
set_password_user_Unchecked(p) ==
    /\ At(p, "user")
    /\ Goto(p, "update_password")
    /\ UNCHANGED rowVars

set_password_user(p) ==
    /\ At(p, "user")
    /\ IF password[req[p].u] = 0 /\ req[p].u \notin idp
       THEN Goto(p, "update_password")
       ELSE Done(p)
    /\ UNCHANGED rowVars

update_password(p) ==
    /\ At(p, "update_password")
    /\ password' = [password EXCEPT ![req[p].u] = @ + 1]
    /\ Goto(p, "spend")
    /\ UNCHANGED <<users, emails, allocated, idp>>

(* The link that set the password is replaced.                             *)
regenerate_set_password_nonce(p) ==
    /\ At(p, "spend")
    /\ \A e \in get_email(req[p].r) : e.set_password_nonce < MaxNonce
    /\ UpdateEmails(get_email(req[p].r), LAMBDA e : [e EXCEPT !.set_password_nonce = @ + 1])
    /\ Done(p)
    /\ UNCHANGED <<users, allocated, password, idp>>

(* An administrator sends a fresh link to the primary address of a user    *)
(* who has not set a password.                                             *)
resend_invitation(p, u) ==
    /\ "resend" \in Operations
    /\ u \in users /\ password[u] = 0
    /\ Start(p, "resend", u, None, None)
    /\ UNCHANGED rowVars

get_primary_email_for_resend(p) ==
    /\ At(p, "resend")
    /\ IF get_primary_email(req[p].u) = {}
       THEN Done(p)
       ELSE \E e \in get_primary_email(req[p].u) :
              req' = [req EXCEPT ![p].pc = IF e.verified THEN "spend" ELSE "regenerate",
                                 ![p].r = e.id]
    /\ UNCHANGED rowVars

regenerate_verify_nonce(p) ==
    /\ At(p, "regenerate")
    /\ \A e \in get_email(req[p].r) : e.verify_nonce < MaxNonce
    /\ UpdateEmails(get_email(req[p].r), LAMBDA e : [e EXCEPT !.verify_nonce = @ + 1])
    /\ Done(p)
    /\ UNCHANGED <<users, allocated, password, idp>>

Crash(p) ==
    /\ Crashes
    /\ req[p] # Idle
    /\ Done(p)
    /\ UNCHANGED rowVars

Begin(p) ==
    \/ \E u \in Users, a \in Addresses :
         \/ create_user(p, u, a) \/ add_user_email_route(p, u, a) \/ add_user_email(p, u, a)
         \/ handle_bulk_add_secondary_emails(p, u, a)
    \/ \E e \in emails : delete_user_email(p, e)
    \/ \E e \in emails, confirm \in BOOLEAN : promote_user_email_route(p, e, confirm)
    \/ \E e \in emails, d \in Dispositions : handle_bulk_primary_email_apply(p, e, d)
    \/ \E e \in emails : \E n \in Sent(e.verify_nonce) : verify_email_public(p, e, n)
    \/ \E e \in emails : \E n \in Sent(e.set_password_nonce) : set_password(p, e, n)
    \/ \E u \in Users : resend_invitation(p, u)

Continue(p) ==
    \/ insert_user(p) \/ insert_email_refused(p)
    \/ \E r \in Rows : \/ add_verified_email_as_primary(p, r)
                       \/ add_unverified_email_with_nonce(p, r)
                       \/ add_verified_email(p, r)
    \/ delete_user_email_count(p) \/ delete_email(p)
    \/ unset_primary_emails(p) \/ set_primary(p) \/ update_user_saml_idp(p)
    \/ verify_email_by_nonce(p) \/ verify_email(p)
    \/ set_password_user(p) \/ update_password(p) \/ regenerate_set_password_nonce(p)
    \/ get_primary_email_for_resend(p) \/ regenerate_verify_nonce(p)

(* Two requests in progress are about one user or one address.             *)
Collide(p, q) ==
    /\ req[p] # Idle /\ req[q] # Idle
    /\ req[p].u = req[q].u \/ (req[p].a = req[q].a /\ req[p].a # None)

Collision == \E p, q \in Requests : p # q /\ Collide(p, q)

Next ==
    \E p \in Requests :
        \/ (Begin(p) \/ Continue(p)) /\ calm' = (calm /\ ~Collision')
        \/ Crash(p) /\ calm' = FALSE

Spec == Init /\ [][Next]_vars

-----------------------------------------------------------------------------

Quiet == \A p \in Requests : req[p] = Idle

(* Between requests every user has a primary address: create_user, removal *)
(* and the two statements of a promotion leave none without one, provided  *)
(* no request ended half way and none met another at a user or an address. *)
PrimaryWhenQuiet == calm /\ Quiet => \A u \in users : get_primary_email(u) # {}

(* "A user must always have at least one email address": between requests  *)
(* every user that create_user has created has one.                        *)
EveryUserHasEmail == Quiet => \A u \in users : list_user_emails(u) # {}

(* "A user must always have at least one email address": once a user has   *)
(* one, delete_user_email never takes the last.                            *)
LastEmailStays ==
    [][\A u \in Users : list_user_emails(u) # {} => list_user_emails(u)' # {}]_vars

(* "The primary email cannot be removed": delete_email never deletes the   *)
(* row that is primary.                                                    *)
PrimaryNotRemoved ==
    [][\A e \in emails : e.is_primary => \E f \in emails' : f.id = e.id]_vars

(* "Invitation links are one-time use": links set a user's password once.  *)
PasswordSetOnce == \A u \in Users : password[u] <= 1

(* The same while no two requests meet at a user: neither another link nor *)
(* a resent invitation sets the password of a user who has one.            *)
PasswordSetOnceApart == calm => PasswordSetOnce

(* A fresh invitation "invalidates any previous invitation link": the link *)
(* that verifies an address is the one that is current when it does.       *)
CurrentLinkVerifies ==
    [][\A e \in emails, f \in emails' :
         e.id = f.id /\ ~e.verified /\ f.verified =>
            \E p \in Requests : At(p, "verify") /\ req[p].r = e.id /\ req[p].n = e.verify_nonce]_vars

=============================================================================
