------------------------------ MODULE MCSignIn ------------------------------
(***************************************************************************)
(* Small instances of SignIn and of ForwardAuth, which carries a sign-in   *)
(* to the protected domains, one per scenario.                             *)
(***************************************************************************)
EXTENDS SignIn, TLC

CONSTANTS b1, b2, a1, u1, u2, i1, i2, k1,
          d1, h1, h2, r1, r2, w1, g1, n1, p1, p2, q1, q2, Gone

VARIABLES scenario, row, app, members, active, session, nav, domainCookie, token, nonces,
          spent, callback, adm, since, idle

fwVars == <<row, app, members, active, session, nav, domainCookie, token, nonces, spent,
            callback, adm, since, idle>>

mcVars == <<vars, fwVars, scenario>>

\* One domain with two hosts and one app.
FA == INSTANCE ForwardAuth WITH
          Domains <- {d1}, Hosts <- {h1, h2}, DomainOf <- [h \in {h1, h2} |-> d1],
          Rows <- {r1, r2}, Apps <- {w1}, Users <- {u1}, Groups <- {g1}, Browsers <- {b1},
          Nonces <- {n1}, Admins <- {p1, p2}, Callbacks <- {q1, q2}, TokenTTL <- 2,
          CookieTTL <- 1, cookie <- domainCookie, req <- callback

Local == {"attempts", "upstream", "account", "recovery"}

MCInit ==
    /\ Init /\ FA!Init
    /\ scenario \in {"attempts", "upstream", "account", "recovery", "domains", "handshake"}
    /\ scenario \in {"account", "recovery"} => user[u2] = NewUser(1, FALSE)
    /\ IF scenario \in Local THEN members = {}
       ELSE policy = "baseline" /\ \A u \in Users : user[u] = NewUser(1, FALSE)

\* The others stay out of a scenario.
Only(P, U) ==
    /\ \A p \in Requests \ P : req'[p] = NoRequest
    /\ \A b \in Browsers \ P : cookie'[b] = NoSession
    /\ \A p \in P : req'[p].u \in U \cup {None}
    /\ \A u \in Users \ U : user'[u] = user[u]

\* Codes stay valid and the policy is the one of the initial state.
Settled == mailed \subseteq mailed' /\ policy' = policy

\* The requests of P are about to run only the statements S.
Runs(P, S) == \A p \in P : req'[p].todo # <<>> => Head(req'[p].todo) \in S

\* Two users in one browser, local sign-in only: passwords, codes, passkeys and
\* the enrolment of the enhanced policy, for one of them, in which an
\* administrator resets the user's two-step verification.
Attempts ==
    /\ Only({b1, a1}, {u1, u2}) /\ link' = {} /\ (policy' = policy \/ policy' = "enhanced")
    /\ \A u \in Users : user'[u].pw = 1 /\ ~user'[u].idp
    /\ u2 \in mailed => u2 \in mailed'
    /\ ~user'[u2].inactive /\ totp'[u2] = "none" /\ passkey'[k1] # u2 /\ cookie'[b1].enroll # u2
    /\ cookie'[b1].idp = None /\ ~cookie'[b1].downgrade
    /\ cookie[b1].user # None => cookie'[b1] = NoSession \/ req'[b1] = req[b1]
    /\ Runs({a1}, {"update_mfa_status", "delete_totp_secrets", "delete_backup_codes"})
    /\ req'[a1].u # None => req'[a1].u = cookie'[b1].enroll /\ user[u1].method = "totp"

\* Two users in one browser, who also come from two providers, of which one asks
\* for the second step.
Upstream ==
    /\ Only({b1}, {u1, u2}) /\ Settled /\ link' = {} /\ policy = "baseline"
    /\ \A u \in Users : user'[u].pw = 1 /\ ~user'[u].inactive
    /\ \A u \in Users : user[u].idp => user'[u].idp
    /\ passkey' = passkey /\ ~cookie'[b1].reg
    /\ Runs({b1}, {"login_status", "create_email_otp", "must_enroll_email", "saml_authenticated",
                   "complete_authenticated_login"})

\* One user with a browser, and an administrator.
Account ==
    /\ Only({b1, a1}, {u1}) /\ Settled /\ link' = {} /\ policy = "baseline"
    /\ user'[u1].pw = 1 /\ ~user'[u1].idp /\ ~user'[u1].inactive /\ ~user'[u1].reset
    /\ cookie'[b1].idp = None
    /\ cookie'[b1].user # None => cookie'[b1].mfa = None /\ cookie'[b1].pk = None

\* One user with two browsers, account recovery and forced resets.
Recovery ==
    /\ Only({b1, b2, a1}, {u1}) /\ Settled /\ policy = "baseline"
    /\ Runs(Browsers, {"login_status", "pend_mfa", "create_email_otp", "must_enroll_email",
                       "complete_authenticated_login", "update_password"})
    /\ Runs({a1}, {"set_password_reset_required"}) /\ user[u1].idp = user'[u1].idp
    /\ \A b \in Browsers : ~cookie'[b].reg /\ cookie'[b].idp = None
    /\ req'[b2].todo # <<>> => Head(req'[b2].todo) # "update_password"
    /\ Cardinality(link') <= 1 /\ \A l \in link' : l.user = u1

\* The others of forward auth.
Handshaking == <<active, session, nav, domainCookie, token, nonces, spent, callback, since, idle>>

\* Two administrators, of whom one only registers and verifies.
DomainAdmins == UNCHANGED Handshaking /\ adm'[p2].pc \in {"idle", "register", "verify"}

\* One app is set up for the members of a group; then the handshake, while an
\* administrator moves the app to another host, disables it or deletes its
\* domain.  With its token handed out the browser asks for no other.
Handshake ==
    /\ adm'[p2].pc = "idle" /\ row'[r2] = None /\ (app'[w1] = Gone <=> row'[r1] = Gone)
    /\ IF app[w1] = None \/ (app[w1] # Gone /\ app[w1].grants = {})
       THEN /\ UNCHANGED <<Handshaking, members>> /\ adm'[p1].pc # "update" /\ row'[r1] # Gone
            /\ adm'[p1].pc = "create" =>
                  adm'[p1].app = [row |-> r1, host |-> h1, available_to_all |-> FALSE,
                                  public |-> FALSE, enabled |-> TRUE, grants |-> {}]
            /\ row'[r1] # None => row'[r1].verification_status # "failed"
       ELSE /\ app'[w1] # Gone => app'[w1].grants = {g1}
            /\ adm'[p1].pc \in {"idle", "update"}
            /\ token[n1] # None => nav' = nav
            /\ adm'[p1].pc = "update" => adm'[p1].upd \in [host : {h2}] \cup [enabled : {FALSE}]

MCNext ==
    /\ UNCHANGED scenario
    /\ \/ /\ scenario \in Local /\ Next /\ UNCHANGED fwVars
          /\ CASE scenario = "attempts" -> Attempts
               [] scenario = "upstream" -> Upstream
               [] scenario = "account" -> Account
               [] scenario = "recovery" -> Recovery
       \/ /\ scenario \notin Local /\ FA!Next /\ UNCHANGED vars
          /\ IF scenario = "domains" THEN DomainAdmins ELSE Handshake

MCSpec == MCInit /\ [][MCNext]_mcVars

-----------------------------------------------------------------------------
(* What ForwardAuth states.                                                *)

\* Of the callbacks that open one link, one sets a cookie (consume_nonce).
TokenSpentOnce == FA!TokenSpentOnce

\* A cookie of a protected domain outlives the session and the account it came
\* from by a bounded time (verify_authorization_token, build_forward_auth_identity).
StaleAccessBounded == FA!StaleAccessBounded
=============================================================================
