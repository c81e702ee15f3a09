------------------------------- MODULE SignIn -------------------------------
(***************************************************************************)
(* How a browser gets a session: password, two-step verification, passkey, *)
(* the assertion of a SAML identity provider, the forced password reset,   *)
(* the enrolment the enhanced policy asks for, account recovery and        *)
(* sign-out (routers/auth, routers/mfa.py, routers/saml/authentication.py, *)
(* utils/auth.py).                                                         *)
(*                                                                         *)
(* The state of a sign-in under way lives in the session cookie: the user  *)
(* waiting for a second factor, for a new password, for enrolment or for   *)
(* the answer of an authenticator.  Attempts for different users can be    *)
(* begun, left and resumed in any order in one browser.                    *)
(***************************************************************************)
EXTENDS Credentials

CONSTANTS
    Idps,     \* the SAML identity providers
    MfaIdps   \* those with require_platform_mfa

VARIABLES
    cookie,   \* the session cookie of each browser
    link,     \* the account recovery links mailed so far
    proof     \* (history) what the browser has shown since its session was last
              \* cleared: pairs of a user and a factor

vars == <<credVars, req, cookie, link, proof>>

NoSession == [user |-> None,            \* user_id
              mfa |-> None,             \* pending_mfa_user_id
              method |-> None,          \* pending_mfa_method
              reset |-> None,           \* pending_password_reset_user_id
              enroll |-> None,          \* pending_enhanced_enrollment_user_id
              pk |-> None,              \* pending_passkey_user_id
              idp |-> None,             \* saml_idp_id
              name |-> None,            \* saml_name_id: whose, and at which IdP
              stash |-> None,           \* pending_upstream_saml_session
              reg |-> FALSE,            \* webauthn_reg_challenge
              downgrade |-> FALSE]      \* pending_mfa_downgrade

Factors == {"password", "email", "totp", "backup_code", "passkey", "upstream", "upstream_first"}

Init ==
    /\ CredInit
    /\ cookie = [b \in Browsers |-> NoSession]
    /\ link = {}
    /\ proof = [b \in Browsers |-> {}]

Shows(b, u, f) == proof' = [proof EXCEPT ![b] = @ \cup {<<u, f>>}]

-----------------------------------------------------------------------------
(* Completing a sign-in.                                                   *)

\* A variant of pop_fresh_stash: for whoever signs in.
pop_fresh_stash_Any(b, u) == cookie[b].stash

\* The upstream identity is handed over only if it was stashed for this user.
pop_fresh_stash(b, u) ==
    LET s == cookie[b].stash IN IF s # None /\ s.user = u THEN s ELSE None

\* regenerate_session: everything goes but what is handed over.
regenerate_session(b, u, upstream) ==
    /\ cookie' = [cookie EXCEPT ![b] =
                     [NoSession EXCEPT !.user = u, !.name = upstream,
                                       !.idp = IF upstream = None THEN None ELSE upstream.idp]]
    /\ proof' = [proof EXCEPT ![b] = {}]

complete_authenticated_login(b) ==
    /\ At(b, "complete_authenticated_login")
    /\ regenerate_session(b, req[b].u, pop_fresh_stash(b, req[b].u))
    /\ Then(b) /\ UNCHANGED <<credVars, link>>

PendMfa(b, u) == [cookie EXCEPT ![b].mfa = u, ![b].method = user[u].method]

\* The mailed code, when the method is email, is a statement of its own.
MailCode(u) == IF user[u].method = "email" THEN <<"create_email_otp">> ELSE <<>>

-----------------------------------------------------------------------------
(* Password.                                                               *)

\* verify_login_with_status reads the password hash first ...
login(b, u) ==
    /\ user[u].pw # 0
    /\ Begin(b, u, <<"login_status">>) /\ Shows(b, u, "password")
    /\ UNCHANGED <<credVars, cookie, link>>

\* ... and the state of the user after it.
login_status(b) ==
    LET u == req[b].u IN
    /\ At(b, "login_status")
    /\ \/ user[u].inactive /\ cookie' = cookie /\ Then(b)
       \/ /\ ~user[u].inactive /\ user[u].reset
          /\ cookie' = [cookie EXCEPT ![b].reset = u] /\ Then(b)
       \/ /\ ~user[u].inactive /\ ~user[u].reset
          /\ cookie' = PendMfa(b, u) /\ ThenDo(b, MailCode(u))
    /\ UNCHANGED <<credVars, link, proof>>

forced_password_reset(b) ==
    /\ cookie[b].reset # None /\ user[cookie[b].reset].pw < MaxPasswords
    /\ Begin(b, cookie[b].reset, <<"update_password", "pend_mfa">>)
    /\ UNCHANGED <<credVars, cookie, link, proof>>

pend_mfa(b) ==
    /\ At(b, "pend_mfa")
    /\ cookie' = [PendMfa(b, req[b].u) EXCEPT ![b].reset = None]
    /\ ThenDo(b, MailCode(req[b].u))
    /\ UNCHANGED <<credVars, link, proof>>

\* The invitation's set-password link signs the new user on to the second step.
set_password(b, u) ==
    /\ user[u].pw = 0 /\ ~user[u].idp
    /\ Begin(b, u, <<"update_password", "pend_mfa">>) /\ Shows(b, u, "password")
    /\ UNCHANGED <<credVars, cookie, link>>

-----------------------------------------------------------------------------
(* The second step.                                                        *)

\* What the code that was typed is accepted as: the authenticator's code for
\* a pending TOTP method, the mailed code, an unused backup code.
mfa_verify(b) ==
    LET u == cookie[b].mfa IN
    /\ u # None
    /\ \/ /\ cookie[b].method = "totp" /\ totp[u] = "active"
          /\ Begin(b, u, <<"must_enroll_totp">>) /\ Shows(b, u, "totp")
       \/ /\ u \in mailed
          /\ Begin(b, u, <<"must_enroll_email">>) /\ Shows(b, u, "email")
       \/ /\ codes[u] = "unused"
          /\ Begin(b, u, <<"use_backup_code", "must_enroll_backup_code">>)
          /\ Shows(b, u, "backup_code")
    /\ UNCHANGED <<credVars, cookie, link>>

user_must_enroll_enhanced(u, via) ==
    /\ policy = "enhanced"
    /\ via = "email" \/ (user[u].method # "totp" /\ PasskeysOf(u) = {})

mfa_verified(b) ==
    \E via \in {"totp", "email", "backup_code"} :
        /\ At(b, [totp |-> "must_enroll_totp", email |-> "must_enroll_email",
                  backup_code |-> "must_enroll_backup_code"][via])
        /\ \/ /\ user_must_enroll_enhanced(req[b].u, via)
              /\ cookie' = [cookie EXCEPT ![b].enroll = req[b].u] /\ Then(b)
           \/ /\ ~user_must_enroll_enhanced(req[b].u, via)
              /\ ThenDo(b, <<"complete_authenticated_login">>) /\ UNCHANGED cookie
        /\ UNCHANGED <<credVars, link, proof>>

mfa_send_email_code(b) ==
    /\ cookie[b].mfa # None /\ cookie[b].method # "totp"
    /\ Begin(b, cookie[b].mfa, <<"create_email_otp">>)
    /\ UNCHANGED <<credVars, cookie, link, proof>>

-----------------------------------------------------------------------------
(* The enrolment of the enhanced policy.                                   *)

\* Shows a new secret, or the one there is.  A user on TOTP without a secret
\* is taken to be enrolled and is signed in.
enroll_enhanced_auth_page(b, u) ==
    /\ u # None
    /\ \/ setup_totp(b, u) /\ UNCHANGED cookie
       \/ /\ user[u].method = "totp" /\ totp[u] = "none"
          /\ Begin(b, u, <<"complete_authenticated_login">>)
          /\ cookie' = [cookie EXCEPT ![b].enroll = None, ![b].mfa = None, ![b].method = None]
    /\ UNCHANGED <<credVars, link, proof>>

\* A variant of enroll_enhanced_auth: for the user waiting for the second factor.
enroll_enhanced_auth_Pending(b, u) ==
    /\ cookie[b].mfa # None
    /\ verify_totp_and_enable(b, cookie[b].mfa, <<"complete_authenticated_login">>)
    /\ UNCHANGED <<credVars, cookie, link, proof>>

enroll_enhanced_auth(b, u) ==
    /\ u # None
    /\ verify_totp_and_enable(b, u, <<"complete_authenticated_login">>)
    /\ UNCHANGED <<credVars, cookie, link, proof>>

\* The registration challenge of the session is taken by the next completion.
begin_registration(b) ==
    /\ Idle(b) /\ ~cookie[b].reg
    /\ cookie' = [cookie EXCEPT ![b].reg = TRUE]
    /\ UNCHANGED req

PopChallenge(b) == cookie[b].reg /\ cookie' = [cookie EXCEPT ![b].reg = FALSE]

enroll_enhanced_auth_passkey(b, u) ==
    /\ u # None
    /\ \/ begin_registration(b)
       \/ PopChallenge(b) /\ complete_registration(b, u, <<"complete_authenticated_login">>)
    /\ UNCHANGED <<credVars, link, proof>>

-----------------------------------------------------------------------------
(* Passkey.                                                                *)

passkey_begin(b, u) ==
    /\ ~user[u].idp /\ ~user[u].inactive /\ PasskeysOf(u) # {}
    /\ Idle(b) /\ cookie[b].pk # u
    /\ cookie' = [cookie EXCEPT ![b].pk = u]
    /\ UNCHANGED <<credVars, req, link, proof>>

\* The authenticator's answer: good, with a counter that went back (the
\* credential is deleted as a suspected clone), or wrong.
passkey_complete(b) ==
    LET u == cookie[b].pk IN
    /\ u # None
    /\ \E k \in PasskeysOf(u) :
         \/ /\ BeginWith(b, u, k, <<"passkey_eligible">>) /\ Shows(b, u, "passkey")
            /\ UNCHANGED cookie
         \/ /\ BeginWith(b, u, k, <<"delete_credential">>)
            /\ cookie' = [cookie EXCEPT ![b].pk = None] /\ UNCHANGED proof
         \/ /\ Idle(b) /\ cookie' = [cookie EXCEPT ![b].pk = None] /\ UNCHANGED <<req, proof>>
    /\ UNCHANGED <<credVars, link>>

passkey_eligible(b) ==
    LET u == req[b].u IN
    /\ At(b, "passkey_eligible")
    /\ cookie' = [cookie EXCEPT ![b].pk = None]
    /\ \/ (user[u].inactive \/ user[u].idp) /\ Then(b)
       \/ ~user[u].inactive /\ ~user[u].idp /\ ThenDo(b, <<"complete_authenticated_login">>)
    /\ UNCHANGED <<credVars, link, proof>>

-----------------------------------------------------------------------------
(* A SAML identity provider.                                               *)

\* The request under way is kept under the key of a session's own IdP.
saml_login(b, i) ==
    /\ Idle(b) /\ cookie[b].idp # i
    /\ cookie' = [cookie EXCEPT ![b].idp = i]
    /\ UNCHANGED <<credVars, req, link, proof>>

\* The response of i about u, at the provider's own address: the request under
\* way is taken out of the session first, and stays out if the response is not
\* accepted.  authenticate_via_saml assigns an active user to i.
saml_acs_per_idp(b, i, u) ==
    /\ cookie' = [cookie EXCEPT ![b].idp = None]
    /\ \/ /\ ~user[u].inactive
          /\ BeginWith(b, u, i, <<"saml_authenticated">>)
          /\ Shows(b, u, IF i \in MfaIdps THEN "upstream_first" ELSE "upstream")
       \/ Idle(b) /\ cookie[b].idp # None /\ UNCHANGED <<req, proof>>
    /\ UNCHANGED <<credVars, link>>

\* The shared address also refuses a provider other than the one asked.
saml_acs(b, i, u) == cookie[b].idp \in {None, i} /\ saml_acs_per_idp(b, i, u)

\* With require_platform_mfa the sign-in goes on to the second step and what
\* single logout needs is stashed for its end; else the session starts here.
saml_authenticated(b) ==
    LET u == req[b].u
        upstream == [user |-> u, idp |-> req[b].k]
    IN
    /\ At(b, "saml_authenticated")
    /\ user' = [user EXCEPT ![u].idp = TRUE]
    /\ \/ /\ req[b].k \in MfaIdps
          /\ cookie' = [PendMfa(b, u) EXCEPT ![b].stash = upstream] /\ UNCHANGED proof
          /\ ThenDo(b, MailCode(u))
       \/ /\ req[b].k \notin MfaIdps
          /\ regenerate_session(b, u, upstream) /\ Then(b)
    /\ UNCHANGED <<totp, codes, passkey, policy, mailed, link>>

-----------------------------------------------------------------------------
(* Account recovery: the link is bound to the password and the state of    *)
(* the account at the time it was mailed.                                  *)

request_password_reset(b, u) ==
    /\ Idle(b)
    /\ user[u].inactive \/ (~user[u].idp /\ user[u].pw # 0)
    /\ link' = link \cup {[user |-> u, pw |-> user[u].pw, inactive |-> user[u].inactive]}
    /\ UNCHANGED <<credVars, req, cookie, proof>>

validate_recovery_token(l) ==
    /\ l.pw = user[l.user].pw /\ l.inactive = user[l.user].inactive

account_recovery_submit(b) ==
    \E l \in link :
        /\ validate_recovery_token(l) /\ ~l.inactive /\ l.pw < MaxPasswords
        /\ Begin(b, l.user, <<"update_password">>)
        /\ UNCHANGED <<credVars, cookie, link, proof>>

-----------------------------------------------------------------------------
(* A signed-in browser.                                                    *)

Clear(b) ==
    /\ cookie' = [cookie EXCEPT ![b] = NoSession]
    /\ proof' = [proof EXCEPT ![b] = {}]

\* get_current_user drops the session of a user who is inactivated or must
\* reset the password.
CurrentUser(b) ==
    LET u == cookie[b].user
    IN  IF u # None /\ ~user[u].inactive /\ ~user[u].reset THEN u ELSE None

get_current_user(b) ==
    /\ Idle(b) /\ cookie[b].user # None /\ CurrentUser(b) = None
    /\ Clear(b) /\ UNCHANGED <<credVars, req, link>>

logout(b) ==
    /\ Idle(b) /\ cookie[b].user # None
    /\ Clear(b) /\ UNCHANGED <<credVars, req, link>>

\* enable_email_mfa asks a TOTP user for a mailed code before it downgrades.
mfa_setup_email(b, u) ==
    \/ /\ user[u].method # "totp"
       /\ Begin(b, u, <<"enable_mfa_email">>) /\ UNCHANGED cookie
    \/ /\ user[u].method = "totp"
       /\ Begin(b, u, <<"create_email_otp">>)
       /\ cookie' = [cookie EXCEPT ![b].downgrade = TRUE]

mfa_downgrade_verify(b, u) ==
    /\ cookie[b].downgrade
    /\ verify_mfa_downgrade(b, u)
    /\ cookie' = [cookie EXCEPT ![b].downgrade = FALSE]

\* The pages of the account ...
account_mfa(b, u) ==
    \/ /\ \/ setup_totp(b, u)
          \/ verify_totp_and_enable(b, u, <<>>)
          \/ regenerate_backup_codes(b, u)
          \/ generate_initial_backup_codes(b, u)
       /\ UNCHANGED cookie
    \/ mfa_setup_email(b, u)
    \/ mfa_downgrade_verify(b, u)

account_password(b, u) == change_password(b, u) /\ UNCHANGED cookie

account_passkeys(b, u) ==
    \/ begin_registration(b)
    \/ PopChallenge(b) /\ complete_registration(b, u, <<>>)
    \/ delete_own_credential(b, u) /\ UNCHANGED cookie

\* ... and the API, which also turns two-step verification off, and asks for
\* the mailed code of a downgrade without a note in the session.
api_mfa(b, u) ==
    /\ \/ setup_totp(b, u)
       \/ verify_totp_and_enable(b, u, <<>>)
       \/ user[u].method # "totp" /\ Begin(b, u, <<"enable_mfa_email">>)
       \/ user[u].method = "totp" /\ Begin(b, u, <<"create_email_otp">>)
       \/ verify_mfa_downgrade(b, u)
       \/ disable_mfa(b, u)
       \/ regenerate_backup_codes(b, u)
    /\ UNCHANGED cookie

api_password(b, u) == account_password(b, u)

api_passkeys(b, u) == account_passkeys(b, u)

account(b) ==
    LET u == CurrentUser(b) IN
    /\ u # None
    /\ account_mfa(b, u) \/ api_mfa(b, u) \/ api_password(b, u) \/ api_passkeys(b, u)
    /\ UNCHANGED <<credVars, link, proof>>

-----------------------------------------------------------------------------
(* Administrators, and the rest of the system.                             *)

\* Pages and API offer the same.
reset_mfa_route(a, u) == reset_user_mfa(a, u)
api_reset_user_mfa(a, u) == reset_mfa_route(a, u)
api_force_password_reset(a, u) == force_password_reset(a, u)
revoke_user_passkey(a, u) == admin_revoke_credential(a, u)

admin(a, u) ==
    /\ api_reset_user_mfa(a, u) \/ api_force_password_reset(a, u) \/ revoke_user_passkey(a, u)
    /\ UNCHANGED <<credVars, cookie, link, proof>>

\* A change of required_auth_strength by a super administrator.
set_required_auth_strength ==
    /\ policy' = IF policy = "baseline" THEN "enhanced" ELSE "baseline"
    /\ UNCHANGED <<user, totp, codes, passkey, mailed, req, cookie, link, proof>>

\* Inactivation and reactivation, or the assignment to an identity provider.
UserChanges(u) ==
    /\ \/ user' = [user EXCEPT ![u].inactive = ~@]
       \/ user' = [user EXCEPT ![u].idp = ~@]
    /\ UNCHANGED <<totp, codes, passkey, policy, mailed, req, cookie, link, proof>>

\* A mailed code is valid for ten minutes.
CodeExpires(u) ==
    /\ u \in mailed /\ mailed' = mailed \ {u}
    /\ UNCHANGED <<user, totp, codes, passkey, policy, req, cookie, link, proof>>

Statement(p) ==
    /\ \/ enable_mfa(p) \/ set_mfa_method(p) \/ update_mfa_status(p)
       \/ create_totp_secret(p) \/ verify_totp_secret(p) \/ delete_totp_secrets(p)
       \/ delete_backup_codes(p) \/ create_backup_code(p) \/ use_backup_code(p)
       \/ update_password(p) \/ set_password_reset_required(p)
       \/ create_credential(p) \/ delete_credential(p) \/ initial_backup_codes(p)
       \/ create_email_otp(p)
    /\ UNCHANGED <<cookie, link, proof>>

SignInStep(b) ==
    \/ \E u \in Users : login(b, u) \/ set_password(b, u) \/ passkey_begin(b, u)
    \/ login_status(b) \/ forced_password_reset(b) \/ pend_mfa(b)
    \/ mfa_verify(b) \/ mfa_verified(b) \/ mfa_send_email_code(b)
    \/ enroll_enhanced_auth_page(b, cookie[b].enroll)
    \/ enroll_enhanced_auth(b, cookie[b].enroll)
    \/ enroll_enhanced_auth_passkey(b, cookie[b].enroll)
    \/ passkey_complete(b) \/ passkey_eligible(b)
    \/ \E i \in Idps : saml_login(b, i)
    \/ \E i \in Idps, u \in Users : saml_acs(b, i, u) \/ saml_acs_per_idp(b, i, u)
    \/ saml_authenticated(b)
    \/ complete_authenticated_login(b)

SessionStep(b) ==
    \/ \E u \in Users : request_password_reset(b, u)
    \/ account_recovery_submit(b)
    \/ get_current_user(b) \/ logout(b) \/ account(b)

Next ==
    \/ \E b \in Browsers : SignInStep(b) \/ SessionStep(b)
    \/ \E p \in Requests : Statement(p)
    \/ \E a \in Admins, u \in Users : admin(a, u)
    \/ \E u \in Users : UserChanges(u) \/ CodeExpires(u)
    \/ set_required_auth_strength

Spec == Init /\ [][Next]_vars

-----------------------------------------------------------------------------
(* Properties.                                                             *)

TypeOK ==
    /\ user \in [Users -> UserRow]
    /\ totp \in [Users -> {"none", "pending", "active"}]
    /\ codes \in [Users -> {"none", "unused", "used"}]
    /\ passkey \in [Keys -> Users \cup {None}]
    /\ mailed \subseteq Users
    /\ \A b \in Browsers : /\ cookie[b].user \in Users \cup {None}
                           /\ cookie[b].mfa \in Users \cup {None}
                           /\ cookie[b].enroll \in Users \cup {None}
                           /\ proof[b] \subseteq Users \X Factors

\* A sign-in through an identity provider is complete unless that provider
\* asks for the platform's own second step.
SecondStep(b, u) == \E f \in {"email", "totp", "backup_code"} : <<u, f>> \in proof[b]

Proved(b, u) ==
    \/ <<u, "passkey">> \in proof[b]
    \/ <<u, "upstream">> \in proof[b]
    \/ SecondStep(b, u) /\ (<<u, "password">> \in proof[b] \/ <<u, "upstream_first">> \in proof[b])

\* A browser's session is opened only for a user for whom this browser has
\* shown, since its session was last cleared, a passkey, an assertion, or both
\* the password and a second factor, whatever other sign-ins were begun, left
\* and resumed in it (complete_authenticated_login and saml_acs_per_idp).
SessionProved ==
    [][\A b \in Browsers : \A u \in Users :
          cookie'[b].user = u /\ cookie[b].user # u => Proved(b, u)]_vars

\* The name a session is to be ended under at the upstream provider is the
\* name of the session's own user, even when the assertion came in for a
\* sign-in that somebody else then completed (_pop_fresh_stash).
UpstreamMatchesUser ==
    \A b \in Browsers : cookie[b].name # None => cookie[b].name.user = cookie[b].user

\* The documentation of the administrator's reset: with no secret left the
\* user is back on mailed codes at the next sign-in (reset_user_mfa).
ResetRevertsToEmail ==
    \A u \in Users : (~user[u].mfa /\ totp[u] = "none" /\ \A p \in Requests : Idle(p))
                         => user[u].method = "email"

\* The documentation of the forced reset: a session that was open when the
\* reset was asked for is not honoured again (get_current_user).
ForcedResetEndsSessions ==
    [][\A b \in Browsers, u \in Users :
          (cookie[b].user = u /\ user[u].reset /\ ~user'[u].reset) => cookie'[b].user # u]_vars
=============================================================================
