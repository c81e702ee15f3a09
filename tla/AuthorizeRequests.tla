-------------------------- MODULE AuthorizeRequests --------------------------
(***************************************************************************)
(* From an application's authorization request to the code: the request is *)
(* pushed over the back channel or carried by the browser, may have to     *)
(* wait for a sign-in, for a second one, or for the user's decision, and   *)
(* is kept meanwhile in the browser's cookie or, when it was pushed, as a  *)
(* row of oauth2_pushed_authorization_requests that can be redeemed once.  *)
(*                                                                         *)
(* A browser has one request under way; redeeming a reference and          *)
(* answering are two steps, so that browsers and the administrator         *)
(* interleave.  "login" in prompt stands for prompt=login, select_account  *)
(* and an exceeded max_age; a max_age that is not exceeded asks nothing.   *)
(***************************************************************************)
EXTENDS Naturals, FiniteSets, Sequences

CONSTANTS
    Browsers,
    Users,
    Asks,         \* authorization requests the application may make
    References,   \* references of pushed requests
    Uris,         \* redirect URIs
    MaxLogins,    \* bound on sign-ins
    Prompts,      \* sets of prompt values the application may send
    Edits,        \* TRUE: an administrator edits the application meanwhile
    None,
    Gone          \* a reference that was redeemed or has expired

VARIABLES
    client,       \* the application's row, as these handlers read it
    consented,    \* users whose consent covers the requested scopes
    pushed,       \* pushed request of each reference; Gone once redeemed or expired
    asked,        \* history: what each ask wanted, and the sign-ins there were by then
    issued,       \* history: the codes issued for each ask
    logins,       \* number of sign-ins so far
    cookie,       \* session cookie of each browser
    at            \* request under way in each browser, None when there is none

vars == <<client, consented, pushed, asked, issued, logins, cookie, at>>

Params == [ask : Asks, prompt : SUBSET {"none", "login", "consent"}, hint : Users \cup {None},
           uri : Uris]

(* A relative URL of /oauth2/authorize: by reference or with parameters.   *)
Path == [ref : References \cup {None}, q : Params \cup {None}]

Cookie == [user : Users \cup {None}, start : 0..MaxLogins, pending : Path \cup {None},
           reauth : [path : Path, uri : Uris] \cup {None},
           pages : SUBSET [ask : Asks, uri : Uris], goto : Path \cup {None}]

TypeOK ==
    /\ client \in [active : BOOLEAN, par : BOOLEAN, uris : SUBSET Uris, open : BOOLEAN]
    /\ consented \subseteq Users
    /\ pushed \in [References -> [q : Params, kept : BOOLEAN] \cup {None, Gone}]
    /\ asked \in [Asks -> [prompt : SUBSET {"none", "login", "consent"},
                           hint : Users \cup {None}, since : 0..MaxLogins \cup {None},
                           pushed : BOOLEAN] \cup {None}]
    /\ issued \in [Asks -> Seq([user : Users, start : 0..MaxLogins])]
    /\ logins \in 0..MaxLogins
    /\ cookie \in [Browsers -> Cookie]
    /\ at \in [Browsers -> [q : Params, pushed : BOOLEAN, uris : SUBSET Uris] \cup {None}]

(* What the application may send.                                          *)
Asking == {q \in Params : q.prompt \in Prompts}

Empty == [user |-> None, start |-> 0, pending |-> None, reauth |-> None, pages |-> {},
          goto |-> None]

Init ==
    /\ client \in [active : {TRUE}, par : BOOLEAN, uris : {Uris}, open : {TRUE}]
    /\ consented \in SUBSET Users
    /\ pushed = [r \in References |-> None]
    /\ asked = [a \in Asks |-> None]
    /\ issued = [a \in Asks |-> << >>]
    /\ logins = 0
    /\ cookie = [b \in Browsers |-> Empty]
    /\ at = [b \in Browsers |-> None]

-----------------------------------------------------------------------------
(* services/oauth2_par.py, database/oauth2/pushed.py                       *)

(* Only the browser knows the reference of a request that was kept for it. *)
create_pushed_request(r, q, kept) ==
    pushed[r] = None /\ pushed' = [pushed EXCEPT ![r] = [q |-> q, kept |-> kept]]

(* expires_at: a minute after the push, ten after the request was kept     *)
(* for a sign-in.                                                          *)
Expire(r) ==
    /\ pushed[r] \notin {None, Gone}
    /\ pushed' = [pushed EXCEPT ![r] = Gone]
    /\ UNCHANGED <<client, consented, asked, issued, logins, cookie, at>>

consume_pushed_request_Select(r) == UNCHANGED pushed

(* delete ... returning: of two requests only one gets the parameters.     *)
consume_pushed_request(r) == pushed' = [pushed EXCEPT ![r] = Gone]

(* The parameter checks shared by both endpoints: none stands alone.       *)
_parameter_error(q) == "none" \in q.prompt /\ q.prompt # {"none"}

(* as_query with strip_reauth.                                             *)
as_query(q) == [q EXCEPT !.prompt = @ \ {"login"}]

push_authorization_request(r, q) ==
    /\ asked[q.ask] = None
    /\ create_pushed_request(r, q, FALSE)
    /\ asked' = [asked EXCEPT ![q.ask] = [prompt |-> q.prompt, hint |-> q.hint,
                                          since |-> None, pushed |-> TRUE]]
    /\ UNCHANGED <<client, consented, issued, logins, cookie, at>>

(* POST /oauth2/par, by an application that authenticated.                 *)
pushed_authorization_request_endpoint(r, q) ==
    /\ client.active
    /\ q.uri \in client.uris
    /\ ~_parameter_error(q)
    /\ push_authorization_request(r, q)

-----------------------------------------------------------------------------
(* routers/oauth2.py                                                       *)

Idle(b) == at[b] = None

(* The application's row is read once, at the start.  The history keeps    *)
(* when the browser first brought the ask.                                 *)
Begin(b, q, byReference) ==
    /\ Idle(b)
    /\ client.active
    /\ at' = [at EXCEPT ![b] = [q |-> q, pushed |-> byReference, uris |-> client.uris]]
    /\ cookie' = [cookie EXCEPT ![b].goto = None]
    /\ asked' = [asked EXCEPT ![q.ask] =
         CASE @ = None -> [prompt |-> q.prompt, hint |-> q.hint, since |-> logins,
                           pushed |-> FALSE]
           [] @ # None /\ @.since = None -> [@ EXCEPT !.since = logins]
           [] OTHER -> @]
    /\ UNCHANGED <<client, consented, issued, logins>>

(* A reference is redeemed by the statement that looks it up; one that is  *)
(* used or expired is refused.                                             *)
redeem_pushed_request(b, r) ==
    /\ pushed[r] \notin {None, Gone}
    /\ Begin(b, pushed[r].q, TRUE)
    /\ consume_pushed_request(r)

(* Parameters, or a request object that was resolved to parameters.        *)
resolve_request_object(b, q) ==
    /\ ~client.par
    /\ Begin(b, q, FALSE)
    /\ UNCHANGED pushed

(* GET and POST /oauth2/authorize: an application's new request, a         *)
(* reference (again, or in another browser), or the path a sign-in led to. *)
authorize_page(b) ==
    \/ \E q \in Asking : asked[q.ask] = None /\ resolve_request_object(b, q)
    \/ \E r \in References :
         pushed[r] # None /\ pushed[r] # Gone /\ ~pushed[r].kept /\ redeem_pushed_request(b, r)

authorize_post(b) ==
    /\ cookie[b].goto # None
    /\ IF cookie[b].goto.ref = None
       THEN resolve_request_object(b, cookie[b].goto.q)
       ELSE redeem_pushed_request(b, cookie[b].goto.ref)

(* Where a request is kept: a pushed one as a row under a new reference,   *)
(* any other in the path itself.                                           *)
_pending_authorize_path(q, byReference, path) ==
    IF byReference
    THEN /\ path.q = None /\ path.ref \in References
         /\ create_pushed_request(path.ref, q, TRUE)
    ELSE path = [ref |-> None, q |-> q] /\ UNCHANGED pushed

Answer(b) ==
    /\ at' = [at EXCEPT ![b] = None]
    /\ UNCHANGED <<client, asked, logins>>

_issue_code(b, ask) ==
    issued' = [issued EXCEPT ![ask] = Append(@, [user |-> cookie[b].user,
                                                 start |-> cookie[b].start])]

(* An error: to the application when the redirect URI is registered, else  *)
(* a page; the request is over.                                            *)
Refused(b) == Answer(b) /\ UNCHANGED <<consented, pushed, issued, cookie>>

Paths == [ref : References, q : {None}]

_login_redirect(b) ==
    LET q == at[b].q
    IN  \E path \in Paths \cup {[ref |-> None, q |-> q]} :
          /\ _pending_authorize_path(q, at[b].pushed, path)
          /\ cookie' = [cookie EXCEPT ![b].pending = path]
          /\ Answer(b)
          /\ UNCHANGED <<consented, issued>>

(* The page says who is signed in and asks to sign in again.               *)
_reauthenticate_page(b) ==
    LET q == as_query(at[b].q)
    IN  \E path \in Paths \cup {[ref |-> None, q |-> q]} :
          /\ _pending_authorize_path(q, at[b].pushed, path)
          /\ cookie' = [cookie EXCEPT ![b].reauth = [path |-> path, uri |-> q.uri]]
          /\ Answer(b)
          /\ UNCHANGED <<consented, issued>>

_handle_authorize_request(b) ==
    LET q == at[b].q
        me == cookie[b]
        silent == "none" \in q.prompt
        again == "login" \in q.prompt \/ q.hint \notin {None, me.user}
        covered == me.user \in consented
    IN  /\ at[b] # None
        /\ CASE q.uri \notin at[b].uris \/ _parameter_error(q) -> Refused(b)
             [] OTHER ->
                CASE me.user = None -> IF silent THEN Refused(b) ELSE _login_redirect(b)
                  [] me.user # None /\ again ->
                       IF silent THEN Refused(b) ELSE _reauthenticate_page(b)
                  [] me.user # None /\ ~again /\ (~client.open \/ (silent /\ ~covered)) ->
                       Refused(b)
                  [] OTHER ->
                       /\ Answer(b)
                       /\ IF covered /\ "consent" \notin q.prompt
                          THEN _issue_code(b, q.ask) /\ UNCHANGED cookie
                          ELSE /\ cookie' = [cookie EXCEPT ![b].pages =
                                              @ \cup {[ask |-> q.ask, uri |-> q.uri]}]
                               /\ UNCHANGED issued
                       /\ UNCHANGED <<consented, pushed>>

_reauthenticate_Keep(b) ==
    cookie' = [cookie EXCEPT ![b].goto = cookie[b].reauth.path, ![b].reauth = None]

(* The session ends; only the path is carried into the sign-in.            *)
_reauthenticate(b) ==
    cookie' = [cookie EXCEPT ![b] = [Empty EXCEPT !.pending = cookie[b].reauth.path]]

(* The stored request is popped whatever is posted: another page's id, a   *)
(* late answer and "cancel" end it.                                        *)
authorize_reauthenticate(b) ==
    /\ Idle(b)
    /\ cookie[b].user # None /\ cookie[b].reauth # None
    /\ \/ client.active /\ cookie[b].reauth.uri \in client.uris /\ _reauthenticate(b)
       \/ cookie' = [cookie EXCEPT ![b].reauth = None]
    /\ UNCHANGED <<client, consented, pushed, asked, issued, logins, at>>

(* The consent page is removed first; then the application, the redirect   *)
(* URI and the user's access are looked up again.                          *)
authorize_grant(b, page, allow) ==
    /\ Idle(b)
    /\ cookie[b].user # None
    /\ page \in cookie[b].pages
    /\ cookie' = [cookie EXCEPT ![b].pages = @ \ {page}]
    /\ IF allow /\ client.active /\ page.uri \in client.uris /\ client.open
       THEN _issue_code(b, page.ask) /\ consented' = consented \cup {cookie[b].user}
       ELSE UNCHANGED <<issued, consented>>
    /\ UNCHANGED <<client, pushed, asked, logins, at>>

-----------------------------------------------------------------------------
(* Sign-in and sign-out, as far as the cookie keeps these requests.        *)

(* complete_authenticated_login: the session is new, of what was there     *)
(* only the pending path is carried over, and followed.                    *)
sign_in(b, u) ==
    /\ Idle(b)
    /\ logins < MaxLogins
    /\ logins' = logins + 1
    /\ cookie' = [cookie EXCEPT ![b] = [Empty EXCEPT !.user = u, !.start = logins + 1,
                                                     !.goto = cookie[b].pending]]
    /\ UNCHANGED <<client, consented, pushed, asked, issued, at>>

logout(b) ==
    /\ Idle(b)
    /\ cookie[b].user # None
    /\ cookie' = [cookie EXCEPT ![b] = Empty]
    /\ UNCHANGED <<client, consented, pushed, asked, issued, logins, at>>

(* OAuthClients and the group assignments.                                 *)
Edit ==
    /\ Edits
    /\ client' \in [active : BOOLEAN, par : BOOLEAN, uris : {Uris, {}}, open : BOOLEAN]
    /\ UNCHANGED <<consented, pushed, asked, issued, logins, cookie, at>>

Next ==
    \/ \E r \in References :
         Expire(r) \/ \E q \in Asking : pushed_authorization_request_endpoint(r, q)
    \/ \E b \in Browsers :
         \/ authorize_page(b)
         \/ authorize_post(b)
         \/ _handle_authorize_request(b)
         \/ authorize_reauthenticate(b)
         \/ \E page \in cookie[b].pages, allow \in BOOLEAN : authorize_grant(b, page, allow)
         \/ \E u \in Users : sign_in(b, u)
         \/ logout(b)
    \/ Edit

Spec == Init /\ [][Next]_vars

-----------------------------------------------------------------------------
Live(a) == {r \in References : pushed[r] \notin {None, Gone} /\ pushed[r].q.ask = a}
InFlight(a) == {b \in Browsers : at[b] # None /\ at[b].q.ask = a}
Shown(a) == {b \in Browsers : \E page \in cookie[b].pages : page.ask = a}

(* A pushed request is in one place at a time: one live reference, one     *)
(* browser handling it, one consent page, or the one code it led to, also  *)
(* when the reference is opened in two browsers, and through every sign-in *)
(* it has to wait for (consume_pushed_request, _pending_authorize_path).   *)
PushedServedOnce ==
    \A a \in Asks : asked[a] # None /\ asked[a].pushed =>
       Cardinality(Live(a)) + Cardinality(InFlight(a)) + Cardinality(Shown(a)) + Len(issued[a])
         <= 1

(* A code answers what was asked: after prompt=login it is issued under a  *)
(* session that began after the browser brought the request, and to the    *)
(* user an id_token_hint named, although the path that resumes the request *)
(* after the sign-in no longer says so (_reauthenticate, strip_reauth).    *)
CodeAnswersAsk ==
    \A a \in Asks : \A i \in 1..Len(issued[a]) :
       /\ "login" \in asked[a].prompt => issued[a][i].start > asked[a].since
       /\ asked[a].hint # None => issued[a][i].user = asked[a].hint
=============================================================================
