----------------------------- MODULE ScimInbound -----------------------------
(* Inbound SCIM: an upstream directory writes users and groups into WeftID    *)
(* over /scim/v2/inbound/{idp_id}, authenticated by a bearer token of that    *)
(* identity provider.  Every database call commits by itself, so a request is *)
(* a sequence of steps between which the requests of other workers, and SAML  *)
(* sign-ins through the same identity provider, take theirs.                  *)
(*                                                                            *)
(* What the directory says of a person (a payload) is its address, its        *)
(* externalId, whether it carries any attribute that WeftID mirrors, and      *)
(* `active`.  Names and attribute values decide nothing here.                 *)
EXTENDS Naturals, Sequences, FiniteSets

CONSTANTS
    None, Gone, Mixed,  \* no value; a deleted group; a group whose requests have overlapped
    Users, Groups,      \* ids of users and of groups
    Idps, Mails, ExtIds, Names, Tokens, Requests,
    Payloads,           \* the users' payloads: [mail, ext, extras, active]
    Batches             \* the groups' requests: [name, ops], ops a sequence of [op, refs]

VARIABLES
    token,    \* scim_inbound_tokens: None or [idp, revoked]
    rows,     \* users that exist
    idp,      \* users.saml_idp_id
    status,   \* "active", "inactive" or "anonymized"
    denied,   \* users whose reactivation was denied
    live,     \* what a user holds of "tokens", "consents" and "sessions"
    email,    \* user_emails: None or [user, primary]
    ext,      \* user_idp_attributes under __external_id, by user and identity provider
    group,    \* groups: None, Gone or [idp, name]
    members,  \* group_memberships
    req,      \* the request each worker serves
    given,    \* history: the externalId last written for a user at an identity provider
    want      \* history: the members a group's accepted operations ask for

vars == <<token, rows, idp, status, denied, live, email, ext, group, members, req, given, want>>
userVars == <<rows, idp, status, denied, live, email, ext, given>>
groupVars == <<group, members, want>>

Held == {"tokens", "consents", "sessions"}
Idle == [pc |-> "idle"]

TypeOK ==
    /\ token \in [Tokens -> {None} \cup [idp : Idps, revoked : BOOLEAN]]
    /\ rows \subseteq Users /\ denied \subseteq Users
    /\ idp \in [Users -> Idps \cup {None}]
    /\ status \in [Users -> {"active", "inactive", "anonymized"}]
    /\ live \in [Users -> SUBSET Held]
    /\ email \in [Mails -> {None} \cup [user : Users, primary : BOOLEAN]]
    /\ ext \in [Users -> [Idps -> ExtIds \cup {None}]]
    /\ given \in [Users -> [Idps -> ExtIds \cup {None}]]
    /\ group \in [Groups -> {None, Gone} \cup [idp : Idps, name : Names]]
    /\ members \in [Groups -> SUBSET Users]
    /\ want \in [Groups -> {Mixed} \cup SUBSET Users]

(* Nobody, or one user from before whose second address is `m`.               *)
Init ==
    /\ token = [t \in Tokens |-> None]
    /\ \E old \in {{}} \cup {{u} : u \in Users}, m \in Mails :
         /\ rows = old
         /\ email = [a \in Mails |-> IF a = m /\ old # {} THEN [user |-> CHOOSE u \in old : TRUE, primary |-> FALSE] ELSE None]
    /\ idp = [u \in Users |-> None]
    /\ status = [u \in Users |-> "active"]
    /\ denied = {}
    /\ live = [u \in Users |-> {}]
    /\ ext = [u \in Users |-> [i \in Idps |-> None]]
    /\ given = ext
    /\ group = [g \in Groups |-> None]
    /\ members = [g \in Groups |-> {}]
    /\ want = [g \in Groups |-> {}]
    /\ req = [p \in Requests |-> Idle]

----------------------------------------------------------------------------
(* Tokens, which a super admin mints and revokes.                             *)

create_token(t, i) ==
    /\ token[t] = None
    /\ token' = [token EXCEPT ![t] = [idp |-> i, revoked |-> FALSE]]
    /\ UNCHANGED <<userVars, groupVars, req>>

(* Revoking twice finds no row to revoke.                                     *)
revoke_token(t, i) ==
    /\ token[t] = [idp |-> i, revoked |-> FALSE]
    /\ token' = [token EXCEPT ![t].revoked = TRUE]
    /\ UNCHANGED <<userVars, groupVars, req>>

(* The token exists, is not revoked and is one of the URL's provider.         *)
require_inbound_scim_auth(i) ==
    \E t \in Tokens : token[t] = [idp |-> i, revoked |-> FALSE]

----------------------------------------------------------------------------
(* The life of a request.                                                     *)

Begin(p, r) == req[p] = Idle /\ req' = [req EXCEPT ![p] = r]
At(p, pc) == req[p].pc = pc
Goto(p, pc) == req' = [req EXCEPT ![p].pc = pc]
Answer(p) == req' = [req EXCEPT ![p] = Idle]

(* A slip: nothing is tried again.                                            *)
create_or_merge_user_Once(p) == Goto(p, "500")

(* UniqueViolation: a first POST attempt is made again from the lookups, and  *)
(* nothing else catches it, so the request ends in an internal error.         *)
create_or_merge_user(p) ==
    IF req[p].op = "post" /\ ~req[p].again
    THEN req' = [req EXCEPT ![p].pc = "lookup", ![p].again = TRUE]
    ELSE Goto(p, "500")

(* The internal error is answered.                                            *)
Fail(p) == At(p, "500") /\ Answer(p) /\ UNCHANGED <<token, userVars, groupVars>>

----------------------------------------------------------------------------
(* Users.                                                                     *)

HolderOf(i, x) == {u \in Users : x # None /\ ext[u][i] = x}
AddressHolder(m) == {u \in Users : m # None /\ email[m] # None /\ email[m].user = u}
PrimaryHolder(m) == {u \in AddressHolder(m) : email[m].primary}

(* A user is read, and must be bound to the provider that asks.               *)
Bound(u, i) == u \in rows /\ idp[u] = i

UserRequest(op, i, u, b) ==
    [pc |-> "lookup", op |-> op, i |-> i, u |-> u, b |-> b, again |-> FALSE]

(* `active` that is no boolean is refused before anything is written.         *)
create_user(p, i, b) ==
    /\ require_inbound_scim_auth(i)
    /\ b.active # "bad"
    /\ Begin(p, UserRequest("post", i, None, b))
    /\ UNCHANGED <<token, userVars, groupVars>>

replace_user(p, i, u, b) ==
    /\ require_inbound_scim_auth(i)
    /\ Bound(u, i)
    /\ b.active # "bad"
    /\ Begin(p, [UserRequest("put", i, u, b) EXCEPT !.pc = "write"])
    /\ UNCHANGED <<token, userVars, groupVars>>

patch_user(p, i, u, b) ==
    /\ require_inbound_scim_auth(i)
    /\ Bound(u, i)
    /\ Begin(p, [UserRequest("patch", i, u, b) EXCEPT !.pc = "write"])
    /\ UNCHANGED <<token, userVars, groupVars>>

(* DELETE of a user that is inactive already is a success that does nothing.  *)
soft_delete_user(p, i, u) ==
    /\ require_inbound_scim_auth(i)
    /\ Bound(u, i)
    /\ status[u] = "active"
    /\ Begin(p, [UserRequest("delete", i, u, None) EXCEPT !.pc = "inactivate"])
    /\ UNCHANGED <<token, userVars, groupVars>>

(* A sign-in with an assertion that names the address; the provider makes the *)
(* users it does not know (jit_provisioning).                                 *)
authenticate_via_saml(p, i, m) ==
    /\ Begin(p, UserRequest("signin", i, None, [mail |-> m, ext |-> None, extras |-> TRUE, active |-> "absent"]))
    /\ UNCHANGED <<token, userVars, groupVars>>

(* externalId first, then the primary address; a sign-in goes by any address. *)
Match(r) ==
    IF r.op = "signin" THEN AddressHolder(r.b.mail)
    ELSE IF HolderOf(r.i, r.b.ext) # {} THEN HolderOf(r.i, r.b.ext) ELSE PrimaryHolder(r.b.mail)

(* An inactive user does not sign in, and a user without address is not made. *)
_create_or_merge_user_attempt(p) ==
    /\ At(p, "lookup")
    /\ LET r == req[p]  found == Match(r)
       IN  IF found # {}
           THEN \E u \in found :
                  IF r.op = "signin" /\ status[u] # "active" THEN Answer(p)
                  ELSE req' = [req EXCEPT ![p].u = u, ![p].pc = "bind"]
           ELSE IF r.b.mail = None THEN Answer(p)
           ELSE Goto(p, "create")
    /\ UNCHANGED <<token, userVars, groupVars>>

(* A first sign-in looks once more whether the address has come to exist.     *)
jit_provision_user(p) ==
    /\ At(p, "create") /\ req[p].op = "signin"
    /\ \E u \in AddressHolder(req[p].b.mail) : req' = [req EXCEPT ![p].u = u, ![p].pc = "mirror"]
    /\ UNCHANGED <<token, userVars, groupVars>>

(* The user's row, then its address, its provider and its externalId.         *)
_create_user_from_scim(p) ==
    /\ At(p, "create")
    /\ req[p].op = "signin" => AddressHolder(req[p].b.mail) = {}
    /\ \E u \in Users \ rows :
         /\ rows' = rows \cup {u}
         /\ req' = [req EXCEPT ![p].u = u, ![p].pc = "address"]
    /\ UNCHANGED <<token, idp, status, denied, live, email, ext, given, groupVars>>

(* The address is unique in the tenant.                                       *)
add_verified_email(p) ==
    /\ At(p, "address")
    /\ LET r == req[p]
       IN  IF email[r.b.mail] # None
           THEN create_or_merge_user(p) /\ UNCHANGED email
           ELSE email' = [email EXCEPT ![r.b.mail] = [user |-> r.u, primary |-> TRUE]] /\ Goto(p, "link")
    /\ UNCHANGED <<token, rows, idp, status, denied, live, ext, given, groupVars>>

(* A new user is linked; one found is linked anew if it was another           *)
(* provider's (the row is read first, and the value written is the same       *)
(* whatever happens in between).                                              *)
set_user_idp(p) ==
    /\ req[p].pc \in {"link", "bind"}
    /\ idp' = [idp EXCEPT ![req[p].u] = req[p].i]
    /\ Goto(p, IF req[p].op = "signin" THEN "mirror" ELSE IF At(p, "link") THEN "external" ELSE "write")
    /\ UNCHANGED <<token, rows, status, denied, live, email, ext, given, groupVars>>

(* The upsert of the externalId, unique for a provider.  A new user's is      *)
(* written once by the creation and once with the rest of the payload.        *)
set_external_id(p) ==
    /\ req[p].pc \in {"external", "write"}
    /\ LET r == req[p]
       IN  IF r.b.ext = None THEN UNCHANGED <<ext, given>> /\ Goto(p, IF At(p, "external") THEN "write" ELSE "mirror")
           ELSE IF HolderOf(r.i, r.b.ext) \ {r.u} # {} THEN UNCHANGED <<ext, given>> /\ create_or_merge_user(p)
           ELSE /\ ext' = [ext EXCEPT ![r.u][r.i] = r.b.ext]
                /\ given' = [given EXCEPT ![r.u][r.i] = r.b.ext]
                /\ Goto(p, IF At(p, "external") THEN "write" ELSE "mirror")
    /\ UNCHANGED <<token, rows, idp, status, denied, live, email, groupVars>>

(* The mirrored attributes of the provider are replaced as a whole: every     *)
(* row of (user, provider) whose key is not among the new ones is deleted.    *)
apply_idp_attributes(u, i) == ext' = [ext EXCEPT ![u][i] = None]

(* PUT and sign-in always replace them, POST and PATCH if there are any.      *)
_apply_payload_writes(p) ==
    /\ At(p, "mirror")
    /\ LET r == req[p]
       IN  /\ IF r.b.extras \/ r.op = "put" THEN apply_idp_attributes(r.u, r.i) ELSE UNCHANGED ext
           /\ IF r.op = "signin" THEN Answer(p) ELSE Goto(p, "active")
    /\ UNCHANGED <<token, rows, idp, status, denied, live, email, given, groupVars>>

(* `active` against the user as it is now; PATCH finds out only here that it  *)
(* is no boolean.  An anonymized user does not come back.                     *)
_handle_active_transition(p) ==
    /\ At(p, "active")
    /\ LET r == req[p]
       IN  IF r.b.active = "false" /\ status[r.u] = "active" THEN Goto(p, "inactivate")
           ELSE IF r.b.active = "true" /\ status[r.u] = "inactive" THEN Goto(p, "reactivate")
           ELSE Answer(p)
    /\ UNCHANGED <<token, userVars, groupVars>>

inactivate_user(p) ==
    /\ At(p, "inactivate")
    /\ status' = [status EXCEPT ![req[p].u] = IF @ = "active" THEN "inactive" ELSE @]
    /\ Goto(p, "tokens")
    /\ UNCHANGED <<token, rows, idp, denied, live, email, ext, given, groupVars>>

(* Then the tokens, the consents and the sessions, one statement each.        *)
RevokeOrder == [tokens |-> "consents", consents |-> "sessions"]
revoke_all_user_tokens(p) ==
    /\ req[p].pc \in Held
    /\ live' = [live EXCEPT ![req[p].u] = @ \ {req[p].pc}]
    /\ IF req[p].pc \in DOMAIN RevokeOrder THEN Goto(p, RevokeOrder[req[p].pc]) ELSE Answer(p)
    /\ UNCHANGED <<token, rows, idp, status, denied, email, ext, given, groupVars>>

reactivate_user(p) ==
    /\ At(p, "reactivate")
    /\ status' = [status EXCEPT ![req[p].u] = IF @ = "inactive" THEN "active" ELSE @]
    /\ Goto(p, "clear")
    /\ UNCHANGED <<token, rows, idp, denied, live, email, ext, given, groupVars>>

clear_reactivation_denied(p) ==
    /\ At(p, "clear")
    /\ denied' = denied \ {req[p].u}
    /\ Answer(p)
    /\ UNCHANGED <<token, rows, idp, status, live, email, ext, given, groupVars>>

----------------------------------------------------------------------------
(* Groups of the provider.                                                    *)

(* A member is named by its user id or by its externalId, and is bound to the *)
(* provider.                                                                  *)
_resolve_member_ref(i, ref) == {u \in Users : Bound(u, i) /\ (u = ref \/ ext[u][i] = ref)}
_resolve_members(i, refs) == UNION {_resolve_member_ref(i, ref) : ref \in refs}
Resolvable(i, refs) == \A ref \in refs : _resolve_member_ref(i, ref) # {}

_ensure_group_for_idp(g, i) == group[g] \notin {None, Gone} /\ group[g].idp = i
NameTaken(i, n, g) == \E h \in Groups \ {g} : group[h] \notin {None, Gone} /\ group[h] = [idp |-> i, name |-> n]

GroupRequest(op, i, g, b, pc) ==
    [pc |-> pc, op |-> op, i |-> i, g |-> g, name |-> b.name, ops |-> b.ops,
     current |-> {}, target |-> {}, add |-> {}, drop |-> {}]

(* Requests on one group that overlap make what it should hold a matter of    *)
(* opinion.                                                                   *)
BusyOn(g) == {p \in Requests : req[p] # Idle /\ "g" \in DOMAIN req[p] /\ req[p].g = g}
Mark(g) == want' = IF BusyOn(g) = {} THEN want ELSE [want EXCEPT ![g] = Mixed]
Asked(g, members_) == want' = IF want[g] = Mixed THEN want ELSE [want EXCEPT ![g] = members_]

(* POST /Groups: the name is free and the members resolve.                    *)
create_group(p, i, n, refs) ==
    /\ require_inbound_scim_auth(i)
    /\ ~NameTaken(i, n, None)
    /\ Resolvable(i, refs)
    /\ Begin(p, [GroupRequest("post", i, None, [name |-> n, ops |-> <<>>], "insert") EXCEPT !.target = _resolve_members(i, refs)])
    /\ UNCHANGED <<token, userVars, groupVars>>

(* The insertion, refused by the unique index if the name is taken by now.    *)
create_idp_group(p) ==
    /\ At(p, "insert")
    /\ LET r == req[p]
       IN  IF NameTaken(r.i, r.name, None) THEN Answer(p) /\ UNCHANGED <<group, want>>
           ELSE \E g \in {h \in Groups : group[h] = None} :
                  /\ group' = [group EXCEPT ![g] = [idp |-> r.i, name |-> r.name]]
                  /\ Asked(g, r.target)
                  /\ IF r.target = {} THEN Answer(p)
                     ELSE req' = [req EXCEPT ![p].g = g, ![p].pc = "diff"]
    /\ UNCHANGED <<token, userVars, members>>

(* PUT /Groups/{id}: a new name first, then the members as a whole.           *)
replace_group(p, i, g, b) ==
    /\ require_inbound_scim_auth(i)
    /\ _ensure_group_for_idp(g, i)
    /\ Len(b.ops) <= 1 /\ (b.ops # <<>> => b.ops[1].op = "replace")
    /\ Begin(p, GroupRequest("put", i, g, b, IF b.name \in {None, group[g].name} THEN "ops" ELSE "name"))
    /\ Mark(g)
    /\ UNCHANGED <<token, userVars, group, members>>

(* PATCH /Groups/{id}: the operations on members in turn, then the name.      *)
patch_group(p, i, g, b) ==
    /\ require_inbound_scim_auth(i)
    /\ _ensure_group_for_idp(g, i)
    /\ Begin(p, GroupRequest("patch", i, g, b, "ops"))
    /\ Mark(g)
    /\ UNCHANGED <<token, userVars, group, members>>

(* DELETE /Groups/{id}: the members leave one by one, then the row goes.      *)
delete_group(p, i, g) ==
    /\ require_inbound_scim_auth(i)
    /\ _ensure_group_for_idp(g, i)
    /\ Begin(p, GroupRequest("delete", i, g, [name |-> None, ops |-> <<>>], "diff"))
    /\ want' = [want EXCEPT ![g] = IF BusyOn(g) = {} /\ @ # Mixed THEN {} ELSE Mixed]
    /\ UNCHANGED <<token, userVars, group, members>>

(* A name that is another group's is a conflict (409), found by the check or  *)
(* by the index.                                                              *)
_check_display_name_unique(p) ==
    /\ At(p, "name")
    /\ IF NameTaken(req[p].i, req[p].name, req[p].g) THEN Answer(p) ELSE Goto(p, "rename")
    /\ UNCHANGED <<token, userVars, groupVars>>

update_group(p) ==
    /\ At(p, "rename")
    /\ LET r == req[p]
       IN  IF group[r.g] = Gone \/ NameTaken(r.i, r.name, r.g) THEN UNCHANGED group
           ELSE group' = [group EXCEPT ![r.g].name = r.name]
    /\ IF req[p].op = "put" /\ ~NameTaken(req[p].i, req[p].name, req[p].g) THEN Goto(p, "ops") ELSE Answer(p)
    /\ UNCHANGED <<token, userVars, members, want>>

(* What an operation makes of a set of members.                               *)
Applied(o, now, named) ==
    CASE o.op = "add" -> now \cup named
      [] o.op = "remove" -> now \ named
      [] o.op = "replace" -> named
      [] o.op = "clear" -> {}

(* The next operation: the members are read and those it names are resolved;  *)
(* if one does not resolve the request ends here (400), the operations before *)
(* it staying applied.  After the last one PATCH renames.                     *)
_patch_op_members(p) ==
    /\ At(p, "ops")
    /\ LET r == req[p]
       IN  IF r.ops = <<>>
           THEN /\ IF r.op = "patch" /\ r.name # None /\ _ensure_group_for_idp(r.g, r.i) /\ r.name # group[r.g].name
                   THEN Goto(p, "name") ELSE Answer(p)
                /\ UNCHANGED want
           ELSE LET o == Head(r.ops)  named == _resolve_members(r.i, o.refs)
                IN  IF ~Resolvable(r.i, o.refs) THEN Answer(p) /\ UNCHANGED want
                    ELSE /\ req' = [req EXCEPT ![p].target = Applied(o, members[r.g], named),
                                               ![p].ops = Tail(r.ops), ![p].pc = "diff"]
                         /\ Asked(r.g, Applied(o, want[r.g], named))
    /\ UNCHANGED <<token, userVars, group, members>>

(* A slip: who is a member already stays one.                                 *)
_apply_membership_diff_Joins(p) ==
    /\ At(p, "diff")
    /\ req' = [req EXCEPT ![p].add = req[p].target \ members[req[p].g], ![p].target = {}, ![p].pc = "apply"]
    /\ UNCHANGED <<token, userVars, groupVars>>

(* The members are read again and compared with the target.                   *)
_apply_membership_diff(p) ==
    /\ At(p, "diff")
    /\ LET r == req[p]
       IN  req' = [req EXCEPT ![p].add = r.target \ members[r.g], ![p].drop = members[r.g] \ r.target,
                              ![p].target = {}, ![p].pc = "apply"]
    /\ UNCHANGED <<token, userVars, groupVars>>

(* One user after the other; a group that was deleted takes nobody (its       *)
(* foreign key), and the request ends in an internal error.                   *)
apply_membership_additions(p) ==
    /\ At(p, "apply") /\ req[p].add # {}
    /\ LET r == req[p]
       IN  IF group[r.g] = Gone THEN Goto(p, "500") /\ UNCHANGED members
           ELSE \E u \in r.add : /\ members' = [members EXCEPT ![r.g] = @ \cup {u}]
                                  /\ req' = [req EXCEPT ![p].add = @ \ {u}]
    /\ UNCHANGED <<token, userVars, group, want>>

apply_membership_removals(p) ==
    /\ At(p, "apply") /\ req[p].add = {} /\ req[p].drop # {}
    /\ \E u \in req[p].drop : /\ members' = [members EXCEPT ![req[p].g] = @ \ {u}]
                               /\ req' = [req EXCEPT ![p].drop = @ \ {u}]
    /\ UNCHANGED <<token, userVars, group, want>>

(* When all have joined and left: the next operation, the end, or the row's   *)
(* deletion, which takes the memberships that are left with it.               *)
Applying(p) == At(p, "apply") /\ req[p].add = {} /\ req[p].drop = {}

NextOperation(p) ==
    /\ Applying(p) /\ req[p].op # "delete"
    /\ IF req[p].op = "post" THEN Answer(p) ELSE Goto(p, "ops")
    /\ UNCHANGED <<token, userVars, groupVars>>

DeleteRow(p) ==
    /\ Applying(p) /\ req[p].op = "delete"
    /\ group' = [group EXCEPT ![req[p].g] = Gone]
    /\ members' = [members EXCEPT ![req[p].g] = {}]
    /\ Answer(p)
    /\ UNCHANGED <<token, userVars, want>>

----------------------------------------------------------------------------
(* What else happens to a user: it uses applications while it is active, an   *)
(* admin denies its return, or its data are erased.                           *)

Use(u) ==
    /\ u \in rows /\ status[u] = "active"
    /\ live' = [live EXCEPT ![u] = Held]
    /\ UNCHANGED <<token, rows, idp, status, denied, email, ext, given, groupVars, req>>

Deny(u) ==
    /\ status[u] = "inactive"
    /\ denied' = denied \cup {u}
    /\ UNCHANGED <<token, rows, idp, status, live, email, ext, given, groupVars, req>>

Anonymize(u) ==
    /\ status[u] = "inactive"
    /\ status' = [status EXCEPT ![u] = "anonymized"]
    /\ UNCHANGED <<token, rows, idp, denied, live, email, ext, given, groupVars, req>>

UserStep(p) ==
    \/ \E i \in Idps, b \in Payloads :
         create_user(p, i, b) \/ \E u \in Users : replace_user(p, i, u, b) \/ patch_user(p, i, u, b)
    \/ \E i \in Idps, u \in Users : soft_delete_user(p, i, u)
    \/ \E i \in Idps, m \in Mails : authenticate_via_saml(p, i, m)
    \/ _create_or_merge_user_attempt(p) \/ jit_provision_user(p) \/ _create_user_from_scim(p)
    \/ add_verified_email(p) \/ set_user_idp(p) \/ set_external_id(p) \/ _apply_payload_writes(p)
    \/ _handle_active_transition(p) \/ inactivate_user(p) \/ revoke_all_user_tokens(p)
    \/ reactivate_user(p) \/ clear_reactivation_denied(p) \/ Fail(p)

GroupStep(p) ==
    \/ \E i \in Idps, g \in Groups :
         delete_group(p, i, g) \/ \E b \in Batches : replace_group(p, i, g, b) \/ patch_group(p, i, g, b)
    \/ \E i \in Idps, b \in Batches : b.ops # <<>> /\ b.name # None /\ create_group(p, i, b.name, b.ops[1].refs)
    \/ create_idp_group(p) \/ _check_display_name_unique(p) \/ update_group(p) \/ _patch_op_members(p)
    \/ _apply_membership_diff(p) \/ apply_membership_additions(p) \/ apply_membership_removals(p)
    \/ NextOperation(p) \/ DeleteRow(p)

Next ==
    \/ \E t \in Tokens, i \in Idps : create_token(t, i) \/ revoke_token(t, i)
    \/ \E p \in Requests : UserStep(p) \/ GroupStep(p)
    \/ \E u \in Users : Use(u) \/ Deny(u) \/ Anonymize(u)

Spec == Init /\ [][Next]_vars

----------------------------------------------------------------------------
(* Properties.                                                                *)

(* POST /Users never ends in an internal error because another POST or a      *)
(* first sign-in made the same person at the same time: the loser's one retry *)
(* finds the winner's row (create_or_merge_user).  It may where the address   *)
(* is somebody's second address, which the lookup does not see.               *)
PostSettles ==
    \A p \in Requests : (At(p, "500") /\ req[p].op = "post" /\ "b" \in DOMAIN req[p]) =>
        \E u \in AddressHolder(req[p].b.mail) : ~email[req[p].b.mail].primary

(* A group whose requests come one after the other holds, between them, the   *)
(* members they asked for, whatever happens to the users meanwhile and        *)
(* however far a batch of operations came (_patch_op_members,                 *)
(* _apply_membership_diff).                                                   *)
GroupAsAsked ==
    \A g \in Groups : (want[g] # Mixed /\ BusyOn(g) = {}) => members[g] = want[g]

(* The upstream id that the directory gave a user is kept: docs/admin-guide/  *)
(* identity-providers/inbound-scim.md says it is preserved across sign-in,    *)
(* deprovisioning and reactivation.  (apply_idp_attributes deletes it.)       *)
UpstreamIdPreserved ==
    (\A p \in Requests : req[p] = Idle) => ext = given

=============================================================================
