---------------------------- MODULE Credentials ----------------------------
(***************************************************************************)
(* The sign-in credentials of a tenant's users: the password, the          *)
(* two-step verification method with its TOTP secret and backup codes, and *)
(* the passkeys, as services/mfa.py, services/webauthn.py and              *)
(* services/users/password.py keep them in the tables users, mfa_totp,     *)
(* mfa_backup_codes and webauthn_credentials.                              *)
(*                                                                         *)
(* A service call reads the user first and then runs a list of database    *)
(* statements, each its own transaction.  req[p].todo is what is left of   *)
(* that list for the request p, so that whatever was read when the call    *)
(* began may be out of date when a statement runs.                         *)
(***************************************************************************)
EXTENDS Naturals, FiniteSets, Sequences

CONSTANTS
    Users,         \* the users of the tenant
    Browsers,      \* the requests that come from a browser, one at a time each
    Admins,        \* the requests of administrators
    Keys,          \* the authenticators a user may register as a passkey
    MaxPasswords,  \* bound on the passwords a user has had
    None           \* the null of the database

ASSUME NoUser == None \notin Users

VARIABLES
    user,     \* the row of users: password, reset flag, state, IdP, method
    totp,     \* the row of mfa_totp: "none", "pending" or "active"
    codes,    \* the backup code of the user: "none", "unused" or "used"
    passkey,  \* the owner of each registered authenticator, or None
    policy,   \* required_auth_strength of the tenant
    mailed,   \* the users who hold a two-step code that was mailed to them
    req       \* the request in flight of each browser and administrator

credVars == <<user, totp, codes, passkey, policy, mailed>>

Requests == Browsers \cup Admins

NoRequest == [u |-> None, k |-> None, todo |-> <<>>]

UserRow == [pw : Nat, reset : BOOLEAN, inactive : BOOLEAN,
            idp : BOOLEAN, method : {"email", "totp"}, mfa : BOOLEAN]

\* A user who has a password, who is yet to set one, or who is left to an
\* identity provider.
NewUser(n, i) == [pw |-> n, reset |-> FALSE, inactive |-> FALSE, idp |-> i,
                  method |-> "email", mfa |-> n = 1]

CredInit ==
    /\ user \in [Users -> {NewUser(1, FALSE), NewUser(0, FALSE), NewUser(0, TRUE)}]
    /\ totp = [u \in Users |-> "none"]
    /\ codes = [u \in Users |-> "none"]
    /\ passkey = [k \in Keys |-> None]
    /\ policy \in {"baseline", "enhanced"}
    /\ mailed = {}
    /\ req = [p \in Requests |-> NoRequest]

-----------------------------------------------------------------------------
(* The list of statements a request still has to run.                      *)

Idle(p) == req[p].todo = <<>>

BeginWith(p, u, k, todo) ==
    /\ Idle(p)
    /\ req' = [req EXCEPT ![p] = [u |-> u, k |-> k, todo |-> todo]]

Begin(p, u, todo) == BeginWith(p, u, None, todo)

At(p, s) == ~Idle(p) /\ Head(req[p].todo) = s

\* The statement is done; `more` is run before the rest of the list.
ThenDo(p, more) ==
    LET rest == more \o Tail(req[p].todo)
    IN  req' = [req EXCEPT ![p] = IF rest = <<>> THEN NoRequest ELSE [@ EXCEPT !.todo = rest]]

Then(p) == ThenDo(p, <<>>)

PasskeysOf(u) == {k \in Keys : passkey[k] = u}

\* The ten backup codes are deleted and written again, one statement each.
generate_and_store_backup_codes == <<"delete_backup_codes", "create_backup_code">>

-----------------------------------------------------------------------------
(* Statements on the tables.                                               *)

enable_mfa(p) ==
    \E m \in {"totp", "email"} :
        /\ At(p, [totp |-> "enable_mfa_totp", email |-> "enable_mfa_email"][m])
        /\ user' = [user EXCEPT ![req[p].u].mfa = TRUE, ![req[p].u].method = m]
        /\ Then(p) /\ UNCHANGED <<totp, codes, passkey, policy, mailed>>

set_mfa_method(p) ==
    /\ At(p, "set_mfa_method_email")
    /\ user' = [user EXCEPT ![req[p].u].method = "email"]
    /\ Then(p) /\ UNCHANGED <<totp, codes, passkey, policy, mailed>>

update_mfa_status(p) ==
    /\ At(p, "update_mfa_status")
    /\ user' = [user EXCEPT ![req[p].u].mfa = FALSE]
    /\ Then(p) /\ UNCHANGED <<totp, codes, passkey, policy, mailed>>

\* Inserts the secret, or replaces the one there is and marks it unverified.
create_totp_secret(p) ==
    /\ At(p, "create_totp_secret")
    /\ totp' = [totp EXCEPT ![req[p].u] = "pending"]
    /\ Then(p) /\ UNCHANGED <<user, codes, passkey, policy, mailed>>

verify_totp_secret(p) ==
    /\ At(p, "verify_totp_secret")
    /\ totp' = [totp EXCEPT ![req[p].u] = IF @ = "none" THEN @ ELSE "active"]
    /\ Then(p) /\ UNCHANGED <<user, codes, passkey, policy, mailed>>

delete_totp_secrets(p) ==
    /\ At(p, "delete_totp_secrets")
    /\ totp' = [totp EXCEPT ![req[p].u] = "none"]
    /\ Then(p) /\ UNCHANGED <<user, codes, passkey, policy, mailed>>

delete_backup_codes(p) ==
    /\ At(p, "delete_backup_codes")
    /\ codes' = [codes EXCEPT ![req[p].u] = "none"]
    /\ Then(p) /\ UNCHANGED <<user, totp, passkey, policy, mailed>>

create_backup_code(p) ==
    /\ At(p, "create_backup_code")
    /\ codes' = [codes EXCEPT ![req[p].u] = "unused"]
    /\ Then(p) /\ UNCHANGED <<user, totp, passkey, policy, mailed>>

\* The code is marked by its id: it may have been deleted since it was read.
use_backup_code(p) ==
    /\ At(p, "use_backup_code")
    /\ codes' = [codes EXCEPT ![req[p].u] = IF @ = "none" THEN @ ELSE "used"]
    /\ Then(p) /\ UNCHANGED <<user, totp, passkey, policy, mailed>>

\* update_password also clears the reset flag and moves password_changed_at.
update_password(p) ==
    /\ At(p, "update_password")
    /\ user' = [user EXCEPT ![req[p].u].pw = @ + 1, ![req[p].u].reset = FALSE]
    /\ Then(p) /\ UNCHANGED <<totp, codes, passkey, policy, mailed>>

set_password_reset_required(p) ==
    /\ At(p, "set_password_reset_required")
    /\ user' = [user EXCEPT ![req[p].u].reset = TRUE]
    /\ Then(p) /\ UNCHANGED <<totp, codes, passkey, policy, mailed>>

create_credential(p) ==
    \E k \in Keys :
        /\ At(p, "create_credential") /\ passkey[k] = None
        /\ passkey' = [passkey EXCEPT ![k] = req[p].u]
        /\ Then(p) /\ UNCHANGED <<user, totp, codes, policy, mailed>>

delete_credential(p) ==
    /\ At(p, "delete_credential")
    /\ passkey' = [passkey EXCEPT ![req[p].k] = IF @ = req[p].u THEN None ELSE @]
    /\ Then(p) /\ UNCHANGED <<user, totp, codes, policy, mailed>>

\* complete_registration gives backup codes to a user who has none and for
\* whom the credential just written was the first.
initial_backup_codes(p) ==
    /\ At(p, "initial_backup_codes")
    /\ ThenDo(p, IF codes[req[p].u] = "none" THEN generate_and_store_backup_codes ELSE <<>>)
    /\ UNCHANGED credVars

create_email_otp(p) ==
    /\ At(p, "create_email_otp")
    /\ mailed' = mailed \cup {req[p].u}
    /\ Then(p) /\ UNCHANGED <<user, totp, codes, passkey, policy>>

-----------------------------------------------------------------------------
(* The services.  p is the request, u the user it is about; the guards are *)
(* what the call checks on the row read when the request came in.          *)

setup_totp(p, u) ==
    /\ user[u].method # "totp"
    /\ Begin(p, u, <<"create_totp_secret">>)

\* The code the user types is checked against the secret that was read.
verify_totp_and_enable(p, u, next) ==
    /\ totp[u] # "none"
    /\ Begin(p, u, <<"verify_totp_secret", "enable_mfa_totp">>
                       \o generate_and_store_backup_codes \o next)

verify_mfa_downgrade(p, u) ==
    /\ user[u].method = "totp" /\ u \in mailed
    /\ Begin(p, u, <<"set_mfa_method_email", "delete_totp_secrets">>)

disable_mfa(p, u) ==
    Begin(p, u, <<"enable_mfa_email", "update_mfa_status", "delete_totp_secrets",
                  "delete_backup_codes">>)

regenerate_backup_codes(p, u) ==
    /\ user[u].mfa
    /\ Begin(p, u, generate_and_store_backup_codes)

generate_initial_backup_codes(p, u) == Begin(p, u, generate_and_store_backup_codes)

complete_registration(p, u, next) ==
    Begin(p, u, <<"create_credential">>
                    \o (IF PasskeysOf(u) = {} THEN <<"initial_backup_codes">> ELSE <<>>) \o next)

delete_own_credential(p, u) ==
    \E k \in PasskeysOf(u) : BeginWith(p, u, k, <<"delete_credential">>)

change_password(p, u) ==
    /\ ~user[u].idp /\ user[u].pw \in 1..MaxPasswords - 1
    /\ Begin(p, u, <<"update_password">>)

force_password_reset(p, u) ==
    /\ user[u].pw # 0 /\ ~user[u].inactive
    /\ Begin(p, u, <<"set_password_reset_required">>)

reset_user_mfa(p, u) ==
    Begin(p, u, <<"update_mfa_status", "delete_totp_secrets", "delete_backup_codes">>)

\* An administrator's deletion also revokes the user's OAuth2 tokens.
admin_revoke_credential(p, u) ==
    \E k \in PasskeysOf(u) : BeginWith(p, u, k, <<"delete_credential">>)
=============================================================================
