------------------------- MODULE OAuthGrants_proofs -------------------------
(***************************************************************************)
(* For any number of concurrent requests, codes, device requests and       *)
(* tokens, and with crashes anywhere: a grant holds at most one refresh    *)
(* token, access tokens stand under it, and a grant that is over stays so. *)
(***************************************************************************)
EXTENDS OAuthGrants, TLAPS

Spent == {"redeemed", "gone"}
Finished == {"redeemed", "denied", "gone"}

(* Where a request acts on a grant, or on a token of one.                  *)
Holding == {"refresh", "rotate", "access", "consume", "redeem", "reuse"}

(* Rows: ids are unique, and a token's grant has been redeemed.            *)
RowInv ==
    /\ OneRefreshPerGrant
    /\ \A r1, r2 \in refresh : r1.id = r2.id => r1 = r2
    /\ \A r \in refresh : grant[r.grant] \in Spent

(* The winner of a redemption is alone with its grant until it has         *)
(* inserted the refresh token.                                             *)
WinnerInv ==
    \A p \in Requests : At(p, "refresh") =>
        /\ req[p].g \in Grants /\ grant[req[p].g] \in Spent
        /\ RefreshOf(req[p].g) = {}
        /\ \A q \in Requests : At(q, "refresh") /\ req[q].g = req[p].g => p = q

(* The token a request is about to rotate, or to put an access token       *)
(* under, is of the request's grant if it still exists.                    *)
HeldInv ==
    \A p \in Requests :
        /\ req[p].pc \in {"consume", "redeem", "reuse"} => req[p].g \in Grants
        /\ req[p].pc \in {"rotate", "access"} =>
            /\ req[p].g \in Grants /\ req[p].t \in Tokens
            /\ \A r \in refresh : r.id = req[p].t => r.grant = req[p].g

Inv == TypeOK /\ RowInv /\ WinnerInv /\ HeldInv /\ AccessUnderRefresh

(* What every step that issues no refresh token has in common.             *)
IssuesNothing ==
    /\ refresh' \subseteq refresh
    /\ \A g \in Grants : grant[g] \in Spent => grant'[g] \in Spent
    /\ \A g \in Grants : grant[g] \in Finished => grant'[g] \in Finished
    /\ \A q \in Requests :
        \/ req'[q] = req[q]
        \/ req'[q].pc \notin Holding
        \/ req'[q].pc \in {"consume", "redeem", "reuse"} /\ req'[q].g \in Grants
        \/ /\ req'[q].pc = "rotate" /\ req'[q].g \in Grants /\ req'[q].t \in Tokens
           /\ [id |-> req'[q].t, grant |-> req'[q].g] \in refresh

(* Start, Goto and Done write a request record and no other.               *)
LEMMA ReqStep ==
  ASSUME TypeOK, NEW p \in Requests
  PROVE  /\ \A s \in Statements, g \in Grants \cup {None}, t \in Tokens \cup {None},
               d \in Sessions \cup {None} : Start(p, s, g, t, d) =>
                /\ req' \in [Requests -> Request]
                /\ req'[p].pc = s /\ req'[p].g = g /\ req'[p].t = t
                /\ \A q \in Requests \ {p} : req'[q] = req[q]
         /\ \A s \in Statements : Goto(p, s) =>
                /\ req' \in [Requests -> Request]
                /\ req'[p].pc = s /\ req'[p].g = req[p].g /\ req'[p].t = req[p].t
                /\ \A q \in Requests \ {p} : req'[q] = req[q]
         /\ Done(p) =>
                /\ req' \in [Requests -> Request]
                /\ req'[p].pc = "idle"
                /\ \A q \in Requests \ {p} : req'[q] = req[q]
<1>1. req[p] \in Request
  BY Zenon DEF TypeOK
<1>2. ASSUME NEW s \in Statements, NEW g \in Grants \cup {None}, NEW t \in Tokens \cup {None},
             NEW d \in Sessions \cup {None}, Start(p, s, g, t, d)
      PROVE  /\ req' \in [Requests -> Request]
             /\ req'[p].pc = s /\ req'[p].g = g /\ req'[p].t = t
             /\ \A q \in Requests \ {p} : req'[q] = req[q]
  BY Zenon, <1>2 DEF TypeOK, Start, Request
<1>3. ASSUME NEW s \in Statements, Goto(p, s)
      PROVE  /\ req' \in [Requests -> Request]
             /\ req'[p].pc = s /\ req'[p].g = req[p].g /\ req'[p].t = req[p].t
             /\ \A q \in Requests \ {p} : req'[q] = req[q]
  <2> DEFINE r == [req[p] EXCEPT !.pc = s]
  <2>1. r \in Request /\ r.pc = s /\ r.g = req[p].g /\ r.t = req[p].t
    BY Zenon, <1>1 DEF Request
  <2>2. req' = [req EXCEPT ![p] = r]
    BY Zenon, <1>3 DEF Goto
  <2> HIDE DEF r
  <2> QED BY Zenon, <2>1, <2>2 DEF TypeOK
<1>4. ASSUME Done(p)
      PROVE  /\ req' \in [Requests -> Request]
             /\ req'[p].pc = "idle"
             /\ \A q \in Requests \ {p} : req'[q] = req[q]
  <2>1. Idle \in Request /\ Idle.pc = "idle"
    BY Zenon DEF Idle, Request, Statements
  <2> QED BY Zenon, <1>4, <2>1 DEF TypeOK, Done
<1> QED
  BY Zenon, <1>2, <1>3, <1>4

(* The look-ups that start a request write nothing but the request.        *)
LEMMA LookupStep ==
  ASSUME TypeOK, NEW p \in Requests, Lookups(p)
  PROVE  TypeOK' /\ IssuesNothing /\ UNCHANGED <<refresh, access, grant>>
<1>u. UNCHANGED rowVars
  BY Zenon DEF Lookups, authorize, authorize_grant, token_endpoint_code, token_endpoint_device, token_endpoint_refresh,
      revoke_token
<1>r. /\ req' \in [Requests -> Request]
      /\ \A q \in Requests \ {p} : req'[q] = req[q]
      /\ \/ req'[p].pc \notin Holding
         \/ req'[p].pc \in {"consume", "redeem", "reuse"} /\ req'[p].g \in Grants
         \/ /\ req'[p].pc = "rotate" /\ req'[p].g \in Grants /\ req'[p].t \in Tokens
            /\ [id |-> req'[p].t, grant |-> req'[p].g] \in refresh
  <2>1. ASSUME NEW s \in Sessions \cup {None}, authorize(p, s) \/ authorize_grant(p, s) PROVE <1>r!:
    BY ZenonT(60), <2>1, ReqStep DEF authorize, authorize_grant, Statements, Holding
  <2>2. ASSUME NEW g \in Codes, token_endpoint_code(p, g) PROVE <1>r!:
    BY SMTT(30), <2>2, ReqStep DEF token_endpoint_code, Statements, Grants, Holding
  <2>3. ASSUME NEW g \in Devices, token_endpoint_device(p, g) PROVE <1>r!:
    BY SMTT(30), <2>3, ReqStep DEF token_endpoint_device, Statements, Grants, Holding
  <2>4. ASSUME NEW r \in refresh, token_endpoint_refresh(p, r) \/ revoke_token(p, r) PROVE <1>r!:
    <3>1. r.id \in Tokens /\ r.grant \in Grants /\ r = [id |-> r.id, grant |-> r.grant]
      BY Zenon DEF TypeOK, Refresh
    <3> QED BY <2>4, <3>1, ReqStep DEF token_endpoint_refresh, revoke_token, Statements, Holding
  <2> QED BY Zenon, <2>1, <2>2, <2>3, <2>4 DEF Lookups
<1> QED
  BY Zenon, <1>u, <1>r DEF rowVars, TypeOK, IssuesNothing

(* A request record changes to one that holds no grant.                    *)
Harmlessly == /\ req' \in [Requests -> Request]
              /\ \A q \in Requests :
                   \/ req'[q] = req[q]
                   \/ req'[q].pc \notin Holding

(* Finishing a request, and starting or moving it where it issues nothing. *)
LEMMA HarmlessReq ==
  ASSUME TypeOK, NEW p \in Requests
  PROVE  /\ Done(p) => Harmlessly
         /\ \A s \in Statements \ Holding :
              /\ Goto(p, s) => Harmlessly
              /\ Start(p, s, None, None, None) => Harmlessly
              /\ \A d \in Sessions : Start(p, s, None, None, d) => Harmlessly
<1>1. Done(p) => Harmlessly
  BY Zenon, ReqStep DEF Harmlessly, Holding
<1>2. ASSUME NEW s \in Statements \ Holding, Goto(p, s)
      PROVE  Harmlessly
  BY <1>2, ReqStep DEF Harmlessly
<1>3. ASSUME NEW s \in Statements \ Holding,
             NEW d \in Sessions \cup {None}, Start(p, s, None, None, d)
      PROVE  Harmlessly
  <2>1. /\ req' \in [Requests -> Request] /\ req'[p].pc = s
        /\ \A q \in Requests \ {p} : req'[q] = req[q]
    <3> HIDE DEF Start
    <3> QED BY Zenon, <1>3, ReqStep
  <2> QED BY Zenon, <2>1 DEF Harmlessly
<1> QED
  BY Zenon, <1>1, <1>2, <1>3

(* Decisions begin a request with its first write, which touches no token. *)
LEMMA DecisionStep ==
  ASSUME TypeOK, NEW p \in Requests, Decisions(p)
  PROVE  TypeOK' /\ IssuesNothing /\ UNCHANGED <<refresh, access>>
<1> USE DEF Statements, Holding
<1>1. ASSUME NEW g \in Devices, NEW approved \in BOOLEAN, decide_request(p, g, approved)
      PROVE  TypeOK' /\ IssuesNothing /\ UNCHANGED <<refresh, access>>
  <2>1. g \in Grants /\ grant[g] = "pending"
    BY Zenon, <1>1 DEF Grants, decide_request
  <2>2. /\ req' \in [Requests -> Request]
        /\ \A q \in Requests : req'[q] = req[q] \/ req'[q].pc = "decided"
    <3>1. CASE approved
      <4>1. Start(p, "decided", g, None, None)
        BY Zenon, <1>1, <3>1 DEF decide_request
      <4>2. /\ req' \in [Requests -> Request] /\ req'[p].pc = "decided"
            /\ \A q \in Requests \ {p} : req'[q] = req[q]
        <5> HIDE DEF Start
        <5> QED BY Zenon, <2>1, <4>1, ReqStep
      <4> QED BY Zenon, <4>2
    <3>2. CASE ~approved
      BY Zenon, <1>1, <3>2 DEF decide_request, TypeOK
    <3> QED BY Zenon, <3>1, <3>2
  <2>3. grant' \in [Grants -> GrantStates] /\ \A h \in Grants : h # g => grant'[h] = grant[h]
    BY Zenon, <1>1, <2>1 DEF decide_request, TypeOK, GrantStates
  <2> QED
    BY Zenon, <1>1, <2>1, <2>2, <2>3 DEF decide_request, TypeOK, IssuesNothing, Spent, Finished
<1>2. CASE revoke_consent(p)
  <2>1. Harmlessly
    BY Zenon, <1>2, HarmlessReq DEF revoke_consent
  <2> QED BY Zenon, <1>2, <2>1 DEF revoke_consent, TypeOK, IssuesNothing, Harmlessly
<1>3. CASE inactivate_user(p)
  <2>1. Harmlessly
    BY Zenon, <1>3, HarmlessReq DEF inactivate_user
  <2> QED BY Zenon, <1>3, <2>1 DEF inactivate_user, TypeOK, IssuesNothing, Harmlessly
<1>4. ASSUME NEW s \in Sessions, end_oidc_session(p, s)
      PROVE  TypeOK' /\ IssuesNothing /\ UNCHANGED <<refresh, access>>
  <2>1. Harmlessly
    BY Zenon, <1>4, HarmlessReq DEF end_oidc_session
  <2> QED BY Zenon, <1>4, <2>1 DEF end_oidc_session, TypeOK, IssuesNothing, Harmlessly
<1>5. CASE deactivate_client(p)
  <2>1. Harmlessly
    BY Zenon, <1>5, HarmlessReq DEF deactivate_client
  <2> QED BY Zenon, <1>5, <2>1 DEF deactivate_client, TypeOK, IssuesNothing, Harmlessly
<1> QED
  BY Zenon, <1>1, <1>2, <1>3, <1>4, <1>5 DEF Decisions

Safely == TypeOK' /\ IssuesNothing /\ AccessUnderRefresh'

(* The cascade leaves no access token without its refresh token.           *)
LEMMA CascadeKeeps ==
  ASSUME TypeOK, AccessUnderRefresh
  PROVE  /\ \A rows \in SUBSET refresh : DeleteRefresh(rows) =>
              /\ refresh' \subseteq refresh /\ access' \subseteq access
              /\ AccessUnderRefresh'
         /\ DeleteAllTokens => /\ refresh' \subseteq refresh /\ access' \subseteq access
                               /\ AccessUnderRefresh'
  BY Zenon DEF TypeOK, AccessUnderRefresh, DeleteRefresh, DeleteAllTokens, Refresh, Access

(* Every revocation only deletes.                                          *)
LEMMA RevocationStep ==
  ASSUME TypeOK, AccessUnderRefresh, HeldInv, NEW p \in Requests, RevokeStep(p)
  PROVE  Safely
<1>h. Harmlessly
  <2> USE HarmlessReq DEF Statements, Holding
  <2>1. CASE revoke_grant_tokens(p)
    BY Zenon, <2>1 DEF revoke_grant_tokens
  <2>2. CASE delete_token(p) \/ revoke_user_client_tokens(p) \/ delete_consent_grants_for_user(p)
    BY Zenon, <2>2 DEF delete_token, revoke_user_client_tokens, delete_consent_grants_for_user
  <2>3. CASE revoke_session_refresh_tokens(p) \/ delete_consent_grants_for_client(p)
    BY Zenon, <2>3 DEF revoke_session_refresh_tokens, delete_consent_grants_for_client
  <2>4. CASE revoke_all_user_tokens(p)
    BY Zenon, <2>4 DEF revoke_all_user_tokens
  <2>5. CASE revoke_all_user_tokens_rows(p)
    BY Zenon, <2>5 DEF revoke_all_user_tokens_rows
  <2>6. CASE revoke_all_client_tokens(p)
    BY Zenon, <2>6 DEF revoke_all_client_tokens
  <2> QED BY Zenon, <2>1, <2>2, <2>3, <2>4, <2>5, <2>6 DEF RevokeStep
<1> USE <1>h DEF Harmlessly, Safely, IssuesNothing
<1>1. CASE revoke_grant_tokens(p)
  <2>1. /\ refresh' \subseteq refresh /\ access' \subseteq access
        /\ \A a \in access' : a.grant # req[p].g
    BY Zenon, <1>1 DEF revoke_grant_tokens, AccessOf
  <2>2. AccessUnderRefresh'
    BY Zenon, <1>1, <2>1 DEF revoke_grant_tokens, AccessUnderRefresh, RefreshOf, TypeOK, Access
  <2>3. req[p].g \in Grants
    BY Zenon, <1>1 DEF revoke_grant_tokens, HeldInv, At
  <2>4. TypeOK'
    BY Zenon, <1>1, <2>1, <2>3 DEF revoke_grant_tokens, TypeOK
  <2> QED BY Zenon, <1>1, <2>1, <2>2, <2>4 DEF revoke_grant_tokens
<1>2. CASE delete_token(p)
  BY Zenon, <1>2, CascadeKeeps DEF delete_token, TypeOK
<1>3. CASE revoke_user_client_tokens(p)
  <2>1. /\ grant' \in [Grants -> GrantStates]
        /\ \A g \in Grants : grant[g] \in Finished => grant'[g] = grant[g]
    BY Zenon, <1>3 DEF revoke_user_client_tokens, TypeOK, GrantStates, Finished
  <2> QED BY Zenon, <1>3, <2>1, CascadeKeeps DEF revoke_user_client_tokens, TypeOK, Spent, Finished
<1>4. CASE revoke_all_user_tokens(p)
  <2>1. /\ grant' \in [Grants -> GrantStates]
        /\ \A g \in Grants : grant[g] \in Finished => grant'[g] = grant[g]
    BY Zenon, <1>4 DEF revoke_all_user_tokens, TypeOK, GrantStates, Finished
  <2> QED BY Zenon, <1>4, <2>1 DEF revoke_all_user_tokens, TypeOK, Spent, Finished, AccessUnderRefresh
<1>5. CASE revoke_all_user_tokens_rows(p)
  BY Zenon, <1>5, CascadeKeeps DEF revoke_all_user_tokens_rows, TypeOK
<1>6. CASE delete_consent_grants_for_user(p)
  BY Zenon, <1>6 DEF delete_consent_grants_for_user, TypeOK, AccessUnderRefresh
<1>7. CASE revoke_session_refresh_tokens(p)
  BY Zenon, <1>7, CascadeKeeps DEF revoke_session_refresh_tokens, TypeOK
<1>8. CASE revoke_all_client_tokens(p)
  BY Zenon, <1>8, CascadeKeeps DEF revoke_all_client_tokens, TypeOK
<1>9. CASE delete_consent_grants_for_client(p)
  BY Zenon, <1>9 DEF delete_consent_grants_for_client, TypeOK, AccessUnderRefresh
<1> QED
  BY Zenon, <1>1, <1>2, <1>3, <1>4, <1>5, <1>6, <1>7, <1>8, <1>9 DEF RevokeStep

(* Neither do the passage of time, the sweeps and the steps outside of a   *)
(* request issue anything.                                                 *)
LEMMA ElsewhereStep ==
  ASSUME TypeOK, AccessUnderRefresh, Elsewhere
  PROVE  Safely
<1> USE DEF Safely, IssuesNothing
<1>1. ASSUME NEW g \in Devices, start_device_authorization(g) PROVE Safely
  <2>1. g \in Grants /\ grant[g] = "unused"
    BY Zenon, <1>1 DEF start_device_authorization, Grants
  <2> QED BY Zenon, <1>1, <2>1 DEF start_device_authorization, TypeOK, AccessUnderRefresh, GrantStates,
          Spent, Finished
<1>2. ASSUME NEW a \in access, revoke_access_token(a) \/ ExpireAccess(a) PROVE Safely
  BY Zenon, <1>2 DEF revoke_access_token, ExpireAccess, TypeOK, AccessUnderRefresh
<1>3. CASE reactivate_user \/ reactivate_client
  BY Zenon, <1>3 DEF reactivate_user, reactivate_client, TypeOK, AccessUnderRefresh
<1>4. ASSUME NEW g \in Grants, Lapse(g) PROVE Safely
  BY Zenon, <1>4 DEF Lapse, TypeOK, AccessUnderRefresh
<1>5. CASE cleanup_expired_codes
  BY Zenon, <1>5 DEF cleanup_expired_codes, TypeOK, AccessUnderRefresh, GrantStates, Spent, Finished
<1>6. ASSUME NEW r \in refresh, ExpireRefresh(r) PROVE Safely
  BY Zenon, <1>6 DEF ExpireRefresh, TypeOK, AccessUnderRefresh, Refresh
<1>7. ASSUME NEW r \in refresh, purge_expired_tokens(r) PROVE Safely
  BY Zenon, <1>7, CascadeKeeps DEF purge_expired_tokens, TypeOK
<1> QED
  BY Zenon, <1>1, <1>2, <1>3, <1>4, <1>5, <1>6, <1>7 DEF Elsewhere

(* A step that issues nothing keeps the invariant, and grants that are     *)
(* over stay over.                                                         *)
LEMMA SafelyKeeps ==
  ASSUME Inv, Safely
  PROVE  Inv' /\ \A g \in Grants : Over(g) => Over(g)'
<1> USE DEF Inv, Safely, IssuesNothing
<1>1. RowInv'
  BY Zenon DEF RowInv, OneRefreshPerGrant, TypeOK, Refresh
<1>2. WinnerInv'
  <2> SUFFICES ASSUME NEW p \in Requests, req'[p].pc = "refresh"
               PROVE  /\ req'[p].g \in Grants /\ grant'[req'[p].g] \in Spent
                      /\ {r \in refresh' : r.grant = req'[p].g} = {}
                      /\ \A q \in Requests : req'[q].pc = "refresh" /\ req'[q].g = req'[p].g => p = q
    BY Zenon DEF WinnerInv, At, RefreshOf
  <2>1. \A q \in Requests : req'[q].pc = "refresh" => req'[q] = req[q]
    BY Zenon DEF Holding
  <2> QED BY <2>1 DEF WinnerInv, At, RefreshOf
<1>3. HeldInv'
  <2> SUFFICES ASSUME NEW p \in Requests
               PROVE  /\ req'[p].pc \in {"consume", "redeem", "reuse"} => req'[p].g \in Grants
                      /\ req'[p].pc \in {"rotate", "access"} =>
                          /\ req'[p].g \in Grants /\ req'[p].t \in Tokens
                          /\ \A r \in refresh' : r.id = req'[p].t => r.grant = req'[p].g
    BY Zenon DEF HeldInv
  <2>1. CASE req'[p] = req[p]
    BY <2>1 DEF HeldInv
  <2>2. CASE req'[p].pc \notin Holding
    BY Zenon, <2>2 DEF Holding
  <2>3. CASE req'[p].pc \in {"consume", "redeem", "reuse"} /\ req'[p].g \in Grants
    BY Zenon, <2>3
  <2>4. CASE /\ req'[p].pc = "rotate" /\ req'[p].g \in Grants /\ req'[p].t \in Tokens
             /\ [id |-> req'[p].t, grant |-> req'[p].g] \in refresh
    BY <2>4 DEF RowInv
  <2> QED BY Zenon, <2>1, <2>2, <2>3, <2>4
<1>4. ASSUME NEW g \in Grants, Over(g) PROVE Over(g)'
  <2>1. \A q \in Requests : req'[q].pc = "refresh" => req'[q] = req[q]
    BY Zenon DEF Holding
  <2> QED BY Zenon, <1>4, <2>1 DEF Over, At, RefreshOf, Finished
<1> QED
  BY Zenon, <1>1, <1>2, <1>3, <1>4

(* The steps on the way to a token that write no refresh token.            *)
LEMMA PreparingStep ==
  ASSUME Inv, NEW p \in Requests,
         \/ record_consent(p)
         \/ \E g \in Codes : create_authorization_code(p, g)
         \/ create_access_token(p)
         \/ Crash(p)
  PROVE  Safely
<1> USE DEF Inv, Safely, IssuesNothing
<1>h. Harmlessly
  <2> USE HarmlessReq DEF Statements, Holding
  <2>1. CASE record_consent(p)
    BY Zenon, <2>1 DEF record_consent
  <2>2. CASE \E g \in Codes : create_authorization_code(p, g)
    BY Zenon, <2>2 DEF create_authorization_code
  <2>3. CASE create_access_token(p)
    BY Zenon, <2>3 DEF create_access_token
  <2>4. CASE Crash(p)
    BY Zenon, <2>4 DEF Crash
  <2> QED BY Zenon, <2>1, <2>2, <2>3, <2>4
<1>1. CASE record_consent(p)
  BY Zenon, <1>h, <1>1 DEF record_consent, Harmlessly, TypeOK, AccessUnderRefresh
<1>2. ASSUME NEW g \in Codes, create_authorization_code(p, g) PROVE Safely
  <2>1. g \in Grants /\ grant[g] = "unused" /\ req[p].s \in Sessions \cup {None}
    BY Zenon, <1>2 DEF create_authorization_code, Grants, TypeOK, Request
  <2> QED BY Zenon, <1>h, <1>2, <2>1 DEF create_authorization_code, Harmlessly, TypeOK,
          AccessUnderRefresh, GrantStates, Spent, Finished
<1>3. CASE create_access_token(p)
  <2>1. req[p].g \in Grants /\ req[p].t \in Tokens
    BY Zenon, <1>3 DEF create_access_token, At, HeldInv
  <2>2. HasRefresh(req[p].t) => [id |-> req[p].t, grant |-> req[p].g] \in refresh
    BY <1>3 DEF create_access_token, At, HeldInv, HasRefresh, TypeOK, Refresh
  <2>3. /\ access' \subseteq Access /\ UNCHANGED <<refresh, grant>>
        /\ AccessUnderRefresh'
    BY <1>3, <2>1, <2>2 DEF create_access_token, TypeOK, Access, AccessUnderRefresh
  <2> QED BY Zenon, <1>h, <1>3, <2>3 DEF create_access_token, Harmlessly, TypeOK
<1>4. CASE Crash(p)
  BY Zenon, <1>h, <1>4 DEF Crash, rowVars, Harmlessly, TypeOK, AccessUnderRefresh
<1> QED
  BY Zenon, <1>1, <1>2, <1>3, <1>4

(* The conditional updates: a request wins only a grant that was not spent *)
(* before, so nobody else has won it and it has no token.                  *)
LEMMA RedemptionStep ==
  ASSUME Inv, NEW p \in Requests, validate_and_consume_code(p) \/ redeem_device_code(p)
  PROVE  Inv' /\ \A g \in Grants : Over(g) => Over(g)'
<1> DEFINE h == req[p].g
<1>g. h \in Grants /\ req[p].pc \in {"consume", "redeem"}
  BY Zenon DEF validate_and_consume_code, redeem_device_code, At, Inv, HeldInv
<1>u. UNCHANGED <<active, client, consent, ended, lapsed, sid, refresh, access, expired, reused>>
  BY Zenon DEF validate_and_consume_code, redeem_device_code
<1>1. CASE /\ grant[h] \in {"open", "approved"}
           /\ grant' = [grant EXCEPT ![h] = "redeemed"]
           /\ Goto(p, "refresh")
  <2>r. /\ req' \in [Requests -> Request]
        /\ req'[p].pc = "refresh" /\ req'[p].g = h
        /\ \A q \in Requests \ {p} : req'[q] = req[q]
    BY Zenon, <1>1, ReqStep DEF Inv, Statements
  <2>g. /\ grant' \in [Grants -> GrantStates] /\ grant'[h] = "redeemed"
        /\ \A g \in Grants \ {h} : grant'[g] = grant[g]
    BY Zenon, <1>1, <1>g DEF Inv, TypeOK, GrantStates
  <2>n. /\ \A r \in refresh : r.grant # h
        /\ \A q \in Requests : req[q].pc = "refresh" => req[q].g # h
    BY Zenon, <1>1 DEF Inv, RowInv, WinnerInv, At, Spent
  <2>1. TypeOK'
    BY Zenon, <1>u, <2>r, <2>g DEF Inv, TypeOK
  <2>2. RowInv'
    BY Zenon, <1>u, <2>g DEF Inv, RowInv, OneRefreshPerGrant, Spent, TypeOK, Refresh
  <2>3. WinnerInv'
    <3> SUFFICES ASSUME NEW q \in Requests, req'[q].pc = "refresh"
                 PROVE  /\ req'[q].g \in Grants /\ grant'[req'[q].g] \in Spent
                        /\ {r \in refresh' : r.grant = req'[q].g} = {}
                        /\ \A o \in Requests : req'[o].pc = "refresh" /\ req'[o].g = req'[q].g => q = o
      BY Zenon DEF WinnerInv, At, RefreshOf
    <3>1. CASE q = p
      BY Zenon, <1>g, <1>u, <2>r, <2>g, <2>n, <3>1 DEF Spent
    <3>2. CASE q # p
      BY <1>g, <1>u, <2>r, <2>g, <2>n, <3>2 DEF Inv, WinnerInv, At, RefreshOf
    <3> QED BY Zenon, <3>1, <3>2
  <2>4. HeldInv'
    BY ZenonT(60), <1>u, <2>r DEF Inv, HeldInv
  <2>5. AccessUnderRefresh'
    BY Zenon, <1>u DEF Inv, AccessUnderRefresh
  <2>6. ASSUME NEW g \in Grants, Over(g) PROVE Over(g)'
    <3>1. g # h
      BY Zenon, <1>1, <2>6 DEF Over
    <3> QED BY Zenon, <1>u, <2>6, <2>r, <2>g, <3>1 DEF Over, At, RefreshOf
  <2> QED BY Zenon, <2>1, <2>2, <2>3, <2>4, <2>5, <2>6 DEF Inv
<1>2. CASE UNCHANGED grant /\ (Done(p) \/ Goto(p, "reuse"))
  <2>r. /\ req' \in [Requests -> Request]
        /\ req'[p].pc \in {"idle", "reuse"} /\ (req'[p].pc = "reuse" => req'[p].g = h)
        /\ \A q \in Requests \ {p} : req'[q] = req[q]
    BY Zenon, <1>2, ReqStep DEF Inv, Statements
  <2>1. Safely
    BY Zenon, <1>2, <1>g, <1>u, <2>r DEF Safely, IssuesNothing, Inv, TypeOK, AccessUnderRefresh, Holding
  <2> QED BY Zenon, <2>1, SafelyKeeps
<1> QED
  BY Zenon, <1>1, <1>2 DEF validate_and_consume_code, redeem_device_code

(* The first refresh token of a grant, inserted by the winner.             *)
LEMMA FirstTokenStep ==
  ASSUME Inv, NEW p \in Requests, NEW t \in Tokens, create_refresh_token(p, t)
  PROVE  Inv' /\ \A g \in Grants : Over(g) => Over(g)'
<1> DEFINE h == req[p].g
           new == [id |-> t, grant |-> h]
<1>w. /\ h \in Grants /\ grant[h] \in Spent
      /\ \A r \in refresh : r.grant # h
      /\ \A q \in Requests \ {p} : req[q].pc = "refresh" => req[q].g # h
  BY Zenon DEF create_refresh_token, Inv, WinnerInv, At, RefreshOf
<1>f. /\ \A r \in refresh : r.id # t
      /\ \A q \in Requests : req[q].t # t
  BY Zenon DEF create_refresh_token, Fresh, HasRefresh
<1>u. /\ refresh' = refresh \cup {new} /\ new \in Refresh /\ new.id = t /\ new.grant = h
      /\ UNCHANGED <<active, client, consent, ended, grant, lapsed, sid, access, expired, reused>>
  BY Zenon, <1>w DEF create_refresh_token, Refresh
<1>r. /\ req' \in [Requests -> Request]
      /\ req'[p].pc = "access" /\ req'[p].g = h /\ req'[p].t = t
      /\ \A q \in Requests \ {p} : req'[q] = req[q]
  <2> DEFINE r == [req[p] EXCEPT !.pc = "access", !.t = t]
  <2>1. r \in Request /\ r.pc = "access" /\ r.g = h /\ r.t = t
    BY ZenonT(60) DEF Inv, TypeOK, Request, Statements
  <2>2. req' = [req EXCEPT ![p] = r]
    BY Zenon DEF create_refresh_token
  <2> HIDE DEF r, h
  <2> QED BY Zenon, <2>1, <2>2 DEF Inv, TypeOK
<1> HIDE DEF h, new
<1>1. TypeOK'
  BY Zenon, <1>u, <1>r DEF Inv, TypeOK
<1>2. RowInv'
  BY Zenon, <1>w, <1>f, <1>u DEF Inv, RowInv, OneRefreshPerGrant
<1>3. WinnerInv'
  BY <1>w, <1>u, <1>r DEF Inv, WinnerInv, At, RefreshOf
<1>4. HeldInv'
  <2> SUFFICES ASSUME NEW q \in Requests
               PROVE  /\ req'[q].pc \in {"consume", "redeem", "reuse"} => req'[q].g \in Grants
                      /\ req'[q].pc \in {"rotate", "access"} =>
                          /\ req'[q].g \in Grants /\ req'[q].t \in Tokens
                          /\ \A r \in refresh' : r.id = req'[q].t => r.grant = req'[q].g
    BY Zenon DEF HeldInv
  <2>1. CASE q = p
    BY Zenon, <1>w, <1>f, <1>u, <1>r, <2>1
  <2>2. CASE q # p
    BY ZenonT(60), <1>f, <1>u, <1>r, <2>2 DEF Inv, HeldInv
  <2> QED BY Zenon, <2>1, <2>2
<1>5. AccessUnderRefresh'
  BY Zenon, <1>u DEF Inv, AccessUnderRefresh
<1>6. ASSUME NEW g \in Grants, Over(g) PROVE Over(g)'
  <2>1. g # h
    BY Zenon, <1>6 DEF Over, h, create_refresh_token
  <2> QED BY Zenon, <1>6, <1>u, <1>r, <2>1 DEF Over, At, RefreshOf
<1> QED
  BY Zenon, <1>1, <1>2, <1>3, <1>4, <1>5, <1>6 DEF Inv

(* Rotation replaces the one refresh token of the grant and hands its      *)
(* access tokens over.                                                     *)
LEMMA RotationStep ==
  ASSUME Inv, NEW p \in Requests, NEW n \in Tokens, rotate_refresh_token(p, n)
  PROVE  /\ Inv' /\ \A g \in Grants : Over(g) => Over(g)'
         /\ req'[p].pc = "access" => \A a \in access : \E b \in access' : b.grant = a.grant
<1> DEFINE h == req[p].g
           old == req[p].t
           new == [id |-> n, grant |-> h]
           Handed(a) == IF a.parent = old THEN [a EXCEPT !.parent = n] ELSE a
<1>g. /\ h \in Grants /\ old \in Tokens /\ At(p, "rotate")
      /\ \A r \in refresh : r.id = old => r.grant = h
  BY Zenon DEF rotate_refresh_token, Inv, HeldInv, At
<1>u. UNCHANGED <<active, client, consent, ended, grant, lapsed, sid, expired, reused>>
  BY Zenon DEF rotate_refresh_token
<1>1. CASE HasRefresh(old)
  <2>o. PICK r0 \in refresh : r0.id = old
    BY Zenon, <1>1 DEF HasRefresh
  <2>h. r0.grant = h /\ grant[h] \in Spent /\ r0 = [id |-> old, grant |-> h]
    BY Zenon, <1>g, <2>o DEF Inv, RowInv, TypeOK, Refresh
  <2>f. /\ \A r \in refresh : r.id # n
        /\ \A q \in Requests : req[q].t # n
    BY Zenon, <1>1 DEF rotate_refresh_token, Fresh, HasRefresh
  <2>u. /\ refresh' = {r \in refresh : r.id # old} \cup {new}
        /\ new \in Refresh /\ new.id = n /\ new.grant = h
        /\ access' = {Handed(a) : a \in access}
    BY Zenon, <1>1, <1>g DEF rotate_refresh_token, Refresh
  <2>a. \A a \in access : /\ Handed(a) \in Access /\ Handed(a).grant = a.grant
                         /\ Handed(a).parent = IF a.parent = old THEN n ELSE a.parent
    BY Zenon DEF Inv, TypeOK, Access
  <2>r. /\ req' \in [Requests -> Request]
        /\ req'[p].pc = "access" /\ req'[p].g = h /\ req'[p].t = n
        /\ \A q \in Requests \ {p} : req'[q] = req[q]
    <3> DEFINE r == [req[p] EXCEPT !.pc = "access", !.t = n]
    <3>1. r \in Request /\ r.pc = "access" /\ r.g = h /\ r.t = n
      BY Zenon DEF Inv, TypeOK, Request, Statements
    <3>2. req' = [req EXCEPT ![p] = r]
      BY Zenon, <1>1 DEF rotate_refresh_token
    <3> HIDE DEF r, h
    <3> QED BY Zenon, <3>1, <3>2 DEF Inv, TypeOK
  <2>x. \A r \in refresh : r.grant = h => r.id = old
    BY Zenon, <2>o, <2>h DEF Inv, RowInv, OneRefreshPerGrant
  <2> HIDE DEF h, old, new, Handed
  <2>1. TypeOK'
    <3>1. access' \subseteq Access
      BY Zenon, <2>u, <2>a
    <3> QED BY Zenon, <1>u, <2>u, <2>r, <3>1 DEF Inv, TypeOK
  <2>2. RowInv'
    BY <1>u, <2>h, <2>f, <2>u, <2>x DEF Inv, RowInv, OneRefreshPerGrant
  <2>3. WinnerInv'
    <3>1. \A q \in Requests \ {p} : req[q].pc = "refresh" => req[q].g # h
      BY Zenon, <2>o, <2>h DEF Inv, WinnerInv, At, RefreshOf
    <3> QED BY <1>u, <2>u, <2>r, <3>1 DEF Inv, WinnerInv, At, RefreshOf
  <2>4. HeldInv'
    <3> SUFFICES ASSUME NEW q \in Requests
                 PROVE  /\ req'[q].pc \in {"consume", "redeem", "reuse"} => req'[q].g \in Grants
                        /\ req'[q].pc \in {"rotate", "access"} =>
                            /\ req'[q].g \in Grants /\ req'[q].t \in Tokens
                            /\ \A r \in refresh' : r.id = req'[q].t => r.grant = req'[q].g
      BY Zenon DEF HeldInv
    <3>1. CASE q = p
      BY Zenon, <1>g, <2>f, <2>u, <2>r, <3>1
    <3>2. CASE q # p
      BY <2>f, <2>u, <2>r, <3>2 DEF Inv, HeldInv
    <3> QED BY Zenon, <3>1, <3>2
  <2>5. AccessUnderRefresh'
    <3> SUFFICES ASSUME NEW a \in access
                 PROVE  [id |-> Handed(a).parent, grant |-> Handed(a).grant] \in refresh'
      BY Zenon, <2>u DEF AccessUnderRefresh
    <3>0. [id |-> a.parent, grant |-> a.grant] \in refresh
      BY Zenon DEF Inv, AccessUnderRefresh
    <3>1. CASE a.parent = old
      BY Zenon, <2>a, <2>u, <3>0, <3>1, <1>g DEF new, old, h
    <3>2. CASE a.parent # old
      BY Zenon, <2>a, <2>u, <3>0, <3>2
    <3> QED BY Zenon, <3>1, <3>2
  <2>6. ASSUME NEW g \in Grants, Over(g) PROVE Over(g)'
    <3>1. g # h
      BY Zenon, <2>6, <2>o, <2>h DEF Over, RefreshOf
    <3> QED BY Zenon, <1>u, <2>6, <2>u, <2>r, <3>1 DEF Over, At, RefreshOf
  <2>7. \A a \in access : \E b \in access' : b.grant = a.grant
    BY Zenon, <2>u, <2>a
  <2> QED BY Zenon, <2>1, <2>2, <2>3, <2>4, <2>5, <2>6, <2>7 DEF Inv
<1>2. CASE ~HasRefresh(old)
  <2>1. Done(p) /\ UNCHANGED <<refresh, access>>
    BY Zenon, <1>2 DEF rotate_refresh_token
  <2>2. Harmlessly
    BY Zenon, <2>1, HarmlessReq DEF Inv
  <2>3. Safely
    BY Zenon, <1>u, <2>1, <2>2 DEF Safely, IssuesNothing, Harmlessly, Inv, TypeOK, AccessUnderRefresh
  <2>4. req'[p].pc = "idle"
    BY Zenon, <2>1, ReqStep DEF Inv
  <2> QED BY Zenon, <2>3, <2>4, SafelyKeeps
<1> QED
  BY Zenon, <1>1, <1>2

(* The first state satisfies the invariant.                                *)
LEMMA InitInv == Init => Inv
<1> SUFFICES ASSUME Init PROVE Inv
  BY Zenon
<1>1. Idle \in Request /\ Idle.pc = "idle"
  BY Zenon DEF Idle, Request, Statements
<1>2. req \in [Requests -> Request] /\ \A p \in Requests : req[p].pc = "idle"
  BY Zenon, <1>1 DEF Init
<1> QED
  BY Zenon, <1>2 DEF Init, Inv, TypeOK, RowInv, OneRefreshPerGrant, WinnerInv, HeldInv,
      AccessUnderRefresh, GrantStates, At

(* Every step keeps the invariant and what is over.                        *)
LEMMA InvStep ==
  ASSUME Inv, [Next]_vars
  PROVE  Inv' /\ \A g \in Grants : Over(g) => Over(g)'
<1>1. ASSUME NEW p \in Requests, Lookups(p) \/ Decisions(p) PROVE Safely
  BY Zenon, <1>1, LookupStep, DecisionStep DEF Safely, Inv, AccessUnderRefresh
<1>2. ASSUME NEW p \in Requests, RevokeStep(p) PROVE Safely
  BY Zenon, <1>2, RevocationStep DEF Inv
<1>3. CASE Elsewhere
  BY Zenon, <1>3, ElsewhereStep, SafelyKeeps DEF Inv
<1>4. ASSUME NEW p \in Requests, IssueStep(p)
      PROVE  Inv' /\ \A g \in Grants : Over(g) => Over(g)'
  BY Zenon, <1>4, PreparingStep, SafelyKeeps, RedemptionStep, FirstTokenStep, RotationStep DEF IssueStep
<1>5. CASE UNCHANGED vars
  <2>1. Safely
    BY Zenon, <1>5 DEF vars, rowVars, Safely, IssuesNothing, Inv, TypeOK, AccessUnderRefresh
  <2> QED BY Zenon, <2>1, SafelyKeeps
<1>6. ASSUME NEW p \in Requests, Crash(p) PROVE Safely
  BY Zenon, <1>6, PreparingStep
<1> QED
  BY Zenon, <1>1, <1>2, <1>3, <1>4, <1>5, <1>6, SafelyKeeps DEF Next

(* However many requests redeem a code, poll with a device code, refresh   *)
(* and revoke at once, a grant holds at most one refresh token.            *)
THEOREM GrantsHoldOneRefresh == Spec => []OneRefreshPerGrant
<1>1. Inv => OneRefreshPerGrant
  BY Zenon DEF Inv, RowInv
<1>2. Inv /\ [Next]_vars => Inv'
  BY Zenon, InvStep
<1> QED
  BY InitInv, <1>1, <1>2, PTL DEF Spec

(* No access token ever outlives the refresh token it was minted from, so  *)
(* revoking that one row ends them all.                                    *)
THEOREM AccessStaysUnderRefresh == Spec => []AccessUnderRefresh
<1>1. Inv => AccessUnderRefresh
  BY Zenon DEF Inv
<1>2. Inv /\ [Next]_vars => Inv'
  BY Zenon, InvStep
<1> QED
  BY InitInv, <1>1, <1>2, PTL DEF Spec

(* A used grant without tokens and without a winning request in flight     *)
(* yields no token ever again.                                             *)
THEOREM OverIsForGood == Spec => GrantsEndForGood
<1>1. Inv /\ [Next]_vars => [\A g \in Grants : Over(g) => Over(g)']_vars
  BY Zenon, InvStep
<1>2. Inv /\ [Next]_vars => Inv'
  BY Zenon, InvStep
<1> QED
  BY InitInv, <1>1, <1>2, PTL DEF Spec, GrantsEndForGood

(* Access tokens issued earlier survive every rotation.                    *)
THEOREM RotationsKeepAccess == Spec => RotationKeepsAccess
<1>1. ASSUME Inv, [Next]_vars, NEW p \in Requests, At(p, "rotate"), req'[p].pc = "access",
             NEW a \in access
      PROVE  \E b \in access' : b.grant = a.grant
  <2>1. ASSUME Safely PROVE FALSE
    BY Zenon, <1>1, <2>1 DEF Safely, IssuesNothing, At, Holding
  <2>2. ASSUME NEW q \in Requests,
               \/ Lookups(q) \/ Decisions(q) \/ RevokeStep(q) \/ Crash(q)
               \/ record_consent(q) \/ create_access_token(q)
               \/ \E g \in Codes : create_authorization_code(q, g)
        PROVE  FALSE
    BY Zenon, <1>1, <2>1, <2>2, LookupStep, DecisionStep, RevocationStep, PreparingStep
       DEF Safely, Inv, AccessUnderRefresh
  <2>3. CASE Elsewhere
    BY Zenon, <1>1, <2>1, <2>3, ElsewhereStep DEF Inv
  <2>4. CASE UNCHANGED vars
    BY Zenon, <1>1, <2>4 DEF vars, At
  <2>5. ASSUME NEW q \in Requests, validate_and_consume_code(q) \/ redeem_device_code(q)
        PROVE  FALSE
    <3>1. req[q].pc # "rotate" /\ (Goto(q, "refresh") \/ Goto(q, "reuse") \/ Done(q))
      BY Zenon, <2>5 DEF validate_and_consume_code, redeem_device_code, At
    <3>2. \A o \in Requests \ {q} : req'[o] = req[o]
      BY Zenon, <1>1, <3>1, ReqStep DEF Inv, Statements
    <3> QED BY Zenon, <1>1, <3>1, <3>2 DEF At
  <2>6. ASSUME NEW q \in Requests, NEW t \in Tokens, create_refresh_token(q, t) PROVE FALSE
    BY Zenon, <1>1, <2>6 DEF create_refresh_token, At, Inv, TypeOK
  <2>7. ASSUME NEW q \in Requests, NEW n \in Tokens, rotate_refresh_token(q, n)
        PROVE  \E b \in access' : b.grant = a.grant
    <3>1. CASE q = p
      BY Zenon, <1>1, <2>7, <3>1, RotationStep
    <3>2. CASE q # p
      BY Zenon, <1>1, <2>7, <3>2 DEF rotate_refresh_token, Done, At, Inv, TypeOK
    <3> QED BY Zenon, <3>1, <3>2
  <2> QED BY Zenon, <1>1, <2>2, <2>3, <2>4, <2>5, <2>6, <2>7 DEF Next, IssueStep
<1>2. Inv /\ [Next]_vars =>
        [\A p \in Requests : At(p, "rotate") /\ req'[p].pc = "access" =>
           \A a \in access : \E b \in access' : b.grant = a.grant]_vars
  BY Zenon, <1>1
<1>3. Inv /\ [Next]_vars => Inv'
  BY Zenon, InvStep
<1> QED
  BY InitInv, <1>2, <1>3, PTL DEF Spec, RotationKeepsAccess


-----------------------------------------------------------------------------
(* One request at a time.                                                  *)
OneRequest == \A p, q \in Requests : p = q

(* A code that a request presents is open or finished, and finished when   *)
(* it is reported as reused; a reported code is over.                      *)
ReuseInv ==
    /\ \A p \in Requests :
        /\ At(p, "consume") => grant[req[p].g] \in {"open"} \cup Finished
        /\ At(p, "reuse") => grant[req[p].g] \in Finished
    /\ \A g \in reused : g \in Grants /\ Over(g)

(* Codes and device requests are decided and finish; they never come back. *)
GrantMoves == \A g \in Grants : \/ grant'[g] = grant[g] \/ grant'[g] \in Finished
                                \/ grant[g] \in {"unused", "pending"}

(* What a step may write to a request that presents a code.                *)
PresentMoves == \A p \in Requests :
    \/ req'[p] = req[p]
    \/ req'[p].pc \notin {"consume", "reuse"}
    \/ /\ UNCHANGED grant
       /\ \/ req'[p].pc = "consume" /\ grant[req'[p].g] = "open"
          \/ req'[p].pc = "reuse" /\ grant[req'[p].g] = "redeemed"
          \/ /\ At(p, "consume") /\ req'[p].pc = "reuse"
             /\ req'[p].g = req[p].g /\ grant[req[p].g] # "open"

(* Every step moves grants and requests so.                                *)
LEMMA MovesStep ==
  ASSUME Inv, [Next]_vars
  PROVE  GrantMoves /\ PresentMoves
<1>t. TypeOK
  BY Zenon DEF Inv
<1>q. ASSUME NEW p \in Requests, \A q \in Requests \ {p} : req'[q] = req[q],
             req'[p] = req[p] \/ req'[p].pc \notin {"consume", "reuse"}
      PROVE  PresentMoves
  BY Zenon, <1>q DEF PresentMoves
<1>1. ASSUME NEW p \in Requests, Lookups(p) PROVE GrantMoves /\ PresentMoves
  <2>1. UNCHANGED grant
    BY Zenon, <1>t, <1>1, LookupStep
  <2>2. ASSUME NEW s \in Sessions \cup {None}, authorize(p, s) \/ authorize_grant(p, s)
        PROVE  PresentMoves
    BY ZenonT(60), <1>t, <1>q, <2>2, ReqStep DEF authorize, authorize_grant, Statements
  <2>3. ASSUME NEW g \in Codes, token_endpoint_code(p, g) PROVE PresentMoves
    <3>1. \/ Start(p, "consume", g, None, None) /\ grant[g] = "open"
          \/ Start(p, "reuse", g, None, None) /\ grant[g] = "redeemed"
      BY Zenon, <2>3 DEF token_endpoint_code
    <3>2. /\ \A q \in Requests \ {p} : req'[q] = req[q]
          /\ req'[p].g = g
          /\ \/ req'[p].pc = "consume" /\ grant[g] = "open"
             \/ req'[p].pc = "reuse" /\ grant[g] = "redeemed"
      BY ZenonT(60), <1>t, <3>1, ReqStep DEF Statements, Grants
    <3> QED BY Zenon, <2>1, <3>2 DEF PresentMoves
  <2>4. ASSUME NEW g \in Devices, token_endpoint_device(p, g) PROVE PresentMoves
    BY Zenon, <1>t, <1>q, <2>4, ReqStep DEF token_endpoint_device, Statements, Grants
  <2>5. ASSUME NEW r \in refresh, token_endpoint_refresh(p, r) \/ revoke_token(p, r)
        PROVE  PresentMoves
    <3>1. r.grant \in Grants /\ r.id \in Tokens
      BY Zenon, <1>t DEF TypeOK, Refresh
    <3> QED
      BY Zenon, <1>t, <1>q, <2>5, <3>1, ReqStep DEF token_endpoint_refresh, revoke_token, Statements
  <2> QED BY Zenon, <1>1, <2>1, <2>2, <2>3, <2>4, <2>5 DEF Lookups, GrantMoves
<1>2. ASSUME NEW p \in Requests, Decisions(p) PROVE GrantMoves /\ PresentMoves
  <2>1. ASSUME NEW g \in Devices, NEW approved \in BOOLEAN, decide_request(p, g, approved)
        PROVE  GrantMoves /\ PresentMoves
    <3>1. GrantMoves
      BY Zenon, <1>t, <2>1 DEF decide_request, GrantMoves, TypeOK
    <3>2. UNCHANGED req \/ Start(p, "decided", g, None, None)
      BY Zenon, <2>1 DEF decide_request
    <3>3. PresentMoves
      BY Zenon, <1>t, <1>q, <3>2, ReqStep DEF Statements, Grants
    <3> QED BY Zenon, <3>1, <3>3
  <2>2. CASE revoke_consent(p) \/ inactivate_user(p) \/ deactivate_client(p)
    BY Zenon, <1>t, <1>q, <2>2, ReqStep
    DEF revoke_consent, inactivate_user, deactivate_client, Statements, GrantMoves
  <2>3. ASSUME NEW s \in Sessions, end_oidc_session(p, s) PROVE GrantMoves /\ PresentMoves
    BY Zenon, <1>t, <1>q, <2>3, ReqStep DEF end_oidc_session, Statements, GrantMoves
  <2> QED BY Zenon, <1>2, <2>1, <2>2, <2>3 DEF Decisions
<1>3. ASSUME NEW p \in Requests, IssueStep(p) PROVE GrantMoves /\ PresentMoves
  <2>1. CASE record_consent(p) \/ create_access_token(p)
    BY Zenon, <1>t, <1>q, <2>1, ReqStep
    DEF record_consent, create_access_token, Statements, GrantMoves
  <2>2. ASSUME NEW g \in Codes, create_authorization_code(p, g) PROVE GrantMoves /\ PresentMoves
    <3>1. GrantMoves
      BY Zenon, <1>t, <2>2 DEF create_authorization_code, GrantMoves, TypeOK
    <3>2. PresentMoves
      BY Zenon, <1>t, <1>q, <2>2, ReqStep DEF create_authorization_code
    <3> QED BY Zenon, <3>1, <3>2
  <2>3. CASE validate_and_consume_code(p)
    <3>1. GrantMoves
      BY Zenon, <1>t, <2>3 DEF validate_and_consume_code, GrantMoves, TypeOK, Finished
    <3>2. \/ Goto(p, "refresh")
          \/ Goto(p, "reuse") /\ UNCHANGED grant /\ grant[req[p].g] # "open" /\ At(p, "consume")
      BY Zenon, <2>3 DEF validate_and_consume_code
    <3>3. CASE Goto(p, "refresh")
      BY Zenon, <1>t, <1>q, <3>1, <3>3, ReqStep DEF Statements
    <3>4. CASE Goto(p, "reuse") /\ UNCHANGED grant /\ grant[req[p].g] # "open" /\ At(p, "consume")
      <4>1. /\ \A q \in Requests \ {p} : req'[q] = req[q]
            /\ req'[p].pc = "reuse" /\ req'[p].g = req[p].g
        BY Zenon, <1>t, <3>4, ReqStep DEF Statements
      <4> QED BY Zenon, <3>1, <3>4, <4>1 DEF PresentMoves
    <3> QED BY Zenon, <3>2, <3>3, <3>4
  <2>4. CASE redeem_device_code(p)
    <3>1. GrantMoves
      BY Zenon, <1>t, <2>4 DEF redeem_device_code, GrantMoves, TypeOK, Finished
    <3>2. Goto(p, "refresh") \/ Done(p)
      BY Zenon, <2>4 DEF redeem_device_code
    <3> QED BY Zenon, <1>t, <1>q, <3>1, <3>2, ReqStep DEF Statements
  <2>5. ASSUME NEW t \in Tokens, create_refresh_token(p, t) PROVE GrantMoves /\ PresentMoves
    BY <1>t, <1>q, <2>5 DEF create_refresh_token, TypeOK, Request, GrantMoves
  <2>6. ASSUME NEW n \in Tokens, rotate_refresh_token(p, n) PROVE GrantMoves /\ PresentMoves
    <3>1. UNCHANGED grant
      BY Zenon, <2>6 DEF rotate_refresh_token
    <3>2. Done(p) \/ req' = [req EXCEPT ![p].pc = "access", ![p].t = n]
      BY Zenon, <2>6 DEF rotate_refresh_token
    <3>3. CASE Done(p)
      BY Zenon, <1>t, <1>q, <3>1, <3>3, ReqStep DEF GrantMoves
    <3>4. CASE req' = [req EXCEPT ![p].pc = "access", ![p].t = n]
      BY <1>t, <1>q, <3>1, <3>4 DEF TypeOK, Request, GrantMoves
    <3> QED BY Zenon, <3>2, <3>3, <3>4
  <2> QED BY Zenon, <1>3, <2>1, <2>2, <2>3, <2>4, <2>5, <2>6 DEF IssueStep
<1>4. ASSUME NEW p \in Requests, RevokeStep(p) \/ Crash(p) PROVE GrantMoves /\ PresentMoves
  <2>1. GrantMoves
    BY Zenon, <1>t, <1>4
    DEF RevokeStep, Crash, revoke_grant_tokens, delete_token, revoke_user_client_tokens,
        revoke_all_user_tokens, revoke_all_user_tokens_rows, delete_consent_grants_for_user,
        revoke_session_refresh_tokens, revoke_all_client_tokens,
        delete_consent_grants_for_client, rowVars, GrantMoves, Finished, TypeOK
  <2>2. Done(p) \/ Goto(p, "tokens") \/ Goto(p, "consents") \/ Goto(p, "client_consents")
    BY Zenon, <1>4
    DEF RevokeStep, Crash, revoke_grant_tokens, delete_token, revoke_user_client_tokens,
        revoke_all_user_tokens, revoke_all_user_tokens_rows, delete_consent_grants_for_user,
        revoke_session_refresh_tokens, revoke_all_client_tokens, delete_consent_grants_for_client
  <2>3. PresentMoves
    BY Zenon, <1>t, <1>q, <2>2, ReqStep DEF Statements
  <2> QED BY Zenon, <2>1, <2>3
<1>5. CASE Elsewhere
  <2>1. UNCHANGED req
    BY Zenon, <1>5
    DEF Elsewhere, start_device_authorization, revoke_access_token, ExpireAccess, reactivate_user,
        reactivate_client, Lapse, cleanup_expired_codes, ExpireRefresh, purge_expired_tokens
  <2>2. GrantMoves
    BY Zenon, <1>t, <1>5
    DEF Elsewhere, start_device_authorization, revoke_access_token, ExpireAccess, reactivate_user,
        reactivate_client, Lapse, cleanup_expired_codes, ExpireRefresh, purge_expired_tokens,
        GrantMoves, Finished, TypeOK
  <2> QED BY Zenon, <2>1, <2>2 DEF PresentMoves
<1>6. CASE UNCHANGED vars
  BY Zenon, <1>6 DEF vars, rowVars, GrantMoves, PresentMoves
<1> QED BY Zenon, <1>1, <1>2, <1>3, <1>4, <1>5, <1>6 DEF Next


(* Served one at a time, every step keeps a reported code over.            *)
LEMMA ReuseStep ==
  ASSUME OneRequest, Inv, ReuseInv, [Next]_vars
  PROVE  ReuseInv'
<1>i. Inv' /\ \A g \in Grants : Over(g) => Over(g)'
  BY Zenon, InvStep
<1>m. GrantMoves /\ PresentMoves
  BY Zenon, MovesStep
<1>h. \A p \in Requests : req[p].pc \in {"consume", "reuse"} => req[p].g \in Grants
  BY Zenon DEF Inv, HeldInv
<1>1. ASSUME NEW p \in Requests
      PROVE  /\ At(p, "consume")' => grant'[req'[p].g] \in {"open"} \cup Finished
             /\ At(p, "reuse")' => grant'[req'[p].g] \in Finished
  <2>1. CASE req'[p] = req[p]
    BY Zenon, <1>m, <1>h, <2>1 DEF At, ReuseInv, GrantMoves, Finished
  <2>2. CASE req'[p] # req[p]
    BY Zenon, <1>m, <2>2 DEF At, ReuseInv, PresentMoves, Finished
  <2> QED BY Zenon, <2>1, <2>2
<1>2. CASE UNCHANGED reused
  BY Zenon, <1>i, <1>1, <1>2 DEF ReuseInv
<1>3. ASSUME NEW p \in Requests, revoke_grant_tokens(p)
      PROVE  ReuseInv'
  <2>0. PICK h : h = req[p].g
    BY Zenon
  <2>1. h \in Grants /\ grant[h] \in Finished /\ UNCHANGED grant /\ reused' = reused \cup {h}
    BY Zenon, <1>h, <1>3, <2>0 DEF revoke_grant_tokens, At, ReuseInv
  <2>2. \A r \in refresh' : r.grant # h
    BY Zenon, <1>3, <2>0 DEF revoke_grant_tokens, RefreshOf
  <2>3. \A q \in Requests : req'[q].pc # "refresh"
    <3>1. req'[p].pc # "refresh"
      BY Zenon, <1>3, ReqStep DEF revoke_grant_tokens, Inv
    <3> QED BY Zenon, <3>1 DEF OneRequest
  <2>4. Over(h)'
    BY Zenon, <2>1, <2>2, <2>3 DEF Over, RefreshOf, At, Finished
  <2> QED BY Zenon, <1>i, <1>1, <2>1, <2>4 DEF ReuseInv
<1>4. UNCHANGED reused \/ \E p \in Requests : revoke_grant_tokens(p)
  <2>1. ASSUME NEW p \in Requests, Lookups(p) \/ Decisions(p) PROVE UNCHANGED reused
    BY Zenon, <2>1
    DEF Lookups, Decisions, authorize, authorize_grant, token_endpoint_code, token_endpoint_device,
        token_endpoint_refresh, revoke_token, decide_request, revoke_consent, inactivate_user,
        deactivate_client, end_oidc_session, rowVars
  <2>2. ASSUME NEW p \in Requests, IssueStep(p) \/ Crash(p) PROVE UNCHANGED reused
    BY Zenon, <2>2
    DEF IssueStep, Crash, record_consent, create_authorization_code, validate_and_consume_code,
        redeem_device_code, create_refresh_token, create_access_token, rotate_refresh_token, rowVars
  <2>3. ASSUME NEW p \in Requests, RevokeStep(p) PROVE UNCHANGED reused \/ revoke_grant_tokens(p)
    BY Zenon, <2>3
    DEF RevokeStep, delete_token, revoke_user_client_tokens, revoke_all_user_tokens,
        revoke_all_user_tokens_rows, delete_consent_grants_for_user, revoke_session_refresh_tokens,
        revoke_all_client_tokens, delete_consent_grants_for_client
  <2>4. CASE Elsewhere
    BY Zenon, <2>4
    DEF Elsewhere, start_device_authorization, revoke_access_token, ExpireAccess, reactivate_user,
        reactivate_client, Lapse, cleanup_expired_codes, ExpireRefresh, purge_expired_tokens
  <2>5. CASE UNCHANGED vars
    BY Zenon, <2>5 DEF vars, rowVars
  <2> QED BY Zenon, <2>1, <2>2, <2>3, <2>4, <2>5 DEF Next
<1> QED BY Zenon, <1>2, <1>3, <1>4

(* When requests are served one at a time, even if they may end between    *)
(* two statements, no token of a code that was reported as reused is left  *)
(* (validate_and_consume_code): the tokens issued under the code are       *)
(* revoked with the report, and the spent code never yields another.       *)
THEOREM ReusedCodesHoldNoTokens ==
  ASSUME OneRequest
  PROVE  Spec => []ReusedCodeHoldsNoTokens
<1>1. Init => ReuseInv
  <2>1. Init => reused = {} /\ \A p \in Requests : req[p] = Idle
    BY Zenon DEF Init
  <2>2. Idle.pc \notin {"consume", "reuse"}
    BY Zenon DEF Idle
  <2> QED BY Zenon, <2>1, <2>2 DEF ReuseInv, At
<1>2. Inv /\ ReuseInv => ReusedCodeHoldsNoTokens
  <2> SUFFICES ASSUME Inv, ReuseInv, NEW g \in reused PROVE NoTokensOf(g)
    BY Zenon DEF ReusedCodeHoldsNoTokens
  <2>1. \A r \in refresh : r.grant # g
    BY Zenon DEF ReuseInv, Over, RefreshOf
  <2>2. \A a \in access : a.grant # g
    BY Zenon, <2>1 DEF Inv, AccessUnderRefresh
  <2> QED BY Zenon, <2>1, <2>2 DEF NoTokensOf, RefreshOf, AccessOf
<1>3. Inv /\ ReuseInv /\ [Next]_vars => Inv' /\ ReuseInv'
  BY Zenon, InvStep, ReuseStep
<1> QED BY InitInv, <1>1, <1>2, <1>3, PTL DEF Spec


-----------------------------------------------------------------------------
(* What needs the user's consent, what a request still owes, and the       *)
(* statements that end a user's or a client's access.                      *)
Allowing == {"code", "consume", "redeem", "refresh", "access", "rotate"}
Owing == {"decided", "user_client"}
Ending == {"devices", "tokens", "consents", "client_tokens", "client_consents"}

(* The client holds nothing.                                               *)
Clean ==
    /\ \A g \in Grants : grant[g] \notin {"open", "approved"}
    /\ refresh = {} /\ access = {}

(* The client holds something only under the consent, or while a request   *)
(* is about to record the consent or to delete what was issued.            *)
ConsentInv ==
    /\ consent \/ Clean \/ \E p \in Requests : req[p].pc \in Owing
    /\ \A p \in Requests : req[p].pc \in Allowing => consent
    /\ \A p \in Requests : req[p].pc \notin Ending

(* A step that neither gives nor takes consent.                            *)
Tame == /\ consent' = consent
        /\ consent \/ (Clean => Clean')
        /\ \A q \in Requests :
             \/ req'[q] = req[q]
             \/ /\ req[q].pc \notin Owing
                /\ req'[q].pc \notin Ending
                /\ req'[q].pc \in Allowing => consent

(* The four outcomes of a step that keep the invariant.                    *)
LEMMA ConsentOutcomes ==
  ASSUME OneRequest, ConsentInv, NEW p \in Requests
  PROVE  /\ Tame => ConsentInv'
         /\ req'[p].pc \in Owing => ConsentInv'
         /\ consent' /\ req'[p].pc \notin Ending => ConsentInv'
         /\ Clean' /\ req'[p].pc = "idle" => ConsentInv'
<1> USE DEF ConsentInv, Owing, Allowing, Ending
<1>1. ASSUME Tame PROVE ConsentInv'
  <2>1. consent => consent'
    BY Zenon, <1>1 DEF Tame
  <2>2. \A q \in Requests : req'[q] = req[q] \/ req[q].pc \notin Owing
    BY Zenon, <1>1 DEF Tame
  <2>3. consent \/ (Clean => Clean')
    BY Zenon, <1>1 DEF Tame
  <2>4. consent' \/ Clean' \/ \E q \in Requests : req'[q].pc \in Owing
    BY Zenon, <2>1, <2>2, <2>3
  <2>5. \A q \in Requests : req'[q].pc \in Allowing => consent'
    BY Zenon, <1>1, <2>1 DEF Tame
  <2>6. \A q \in Requests : req'[q].pc \notin Ending
    BY Zenon, <1>1 DEF Tame
  <2> QED BY Zenon, <2>4, <2>5, <2>6
<1>2. \A q \in Requests : q = p
  BY Zenon DEF OneRequest
<1>3. req'[p].pc \in Owing => ConsentInv'
  BY Zenon, <1>2
<1>4. consent' /\ req'[p].pc \notin Ending => ConsentInv'
  BY Zenon, <1>2
<1>5. Clean' /\ req'[p].pc = "idle" => ConsentInv'
  BY Zenon, <1>2
<1> QED BY Zenon, <1>1, <1>3, <1>4, <1>5

(* One at a time, without crashes and without the deactivation of users    *)
(* and clients.                                                            *)
Undisturbed == OneRequest /\ ~Crashes /\ Operations \cap {"user", "client"} = {}

(* Every step keeps what the client holds under the consent.               *)
LEMMA ConsentStep ==
  ASSUME Undisturbed, Inv, ConsentInv, [Next]_vars
  PROVE  ConsentInv'
<1>t. TypeOK /\ OneRequest
  BY Zenon DEF Inv, Undisturbed
<1> USE <1>t, ConsentOutcomes DEF Statements, Owing, Allowing, Ending
<1>e. ASSUME NEW p \in Requests PROVE req[p].pc \notin Ending
  BY Zenon DEF ConsentInv
<1>q. ASSUME NEW p \in Requests, \A q \in Requests \ {p} : req'[q] = req[q],
             consent' = consent, consent \/ (Clean => Clean'),
             /\ req[p].pc \notin Owing /\ req'[p].pc \notin Ending
             /\ req'[p].pc \in Allowing => consent
      PROVE  ConsentInv'
  BY Zenon, <1>q DEF Tame
<1>i. ASSUME NEW p \in Requests, req[p] = Idle
      PROVE  req[p].pc = "idle" /\ (consent \/ Clean)
  <2>0. Idle.pc = "idle"
    BY Zenon DEF Idle
  <2>1. req[p].pc = "idle"
    BY Zenon, <1>i, <2>0
  <2>2. \A q \in Requests : req[q].pc \notin Owing
    BY Zenon, <2>1 DEF OneRequest
  <2> QED BY Zenon, <2>1, <2>2 DEF ConsentInv
<1>1. ASSUME NEW p \in Requests, Lookups(p) PROVE ConsentInv'
  <2>u. UNCHANGED <<consent, grant, refresh, access>> /\ (Clean => Clean')
    BY Zenon, <1>1
    DEF Lookups, authorize, authorize_grant, token_endpoint_code, token_endpoint_device,
        token_endpoint_refresh, revoke_token, rowVars, Clean
  <2>s. ASSUME NEW s \in Statements \ Ending, NEW g \in Grants \cup {None},
               NEW t \in Tokens \cup {None}, NEW d \in Sessions \cup {None}, Start(p, s, g, t, d),
               s \in Allowing => consent
        PROVE  ConsentInv'
    <3>1. req[p] = Idle
      BY Zenon, <2>s DEF Start
    <3>2. req[p].pc \notin Owing
      BY Zenon, <1>i, <3>1
    <3>3. req'[p].pc = s /\ \A q \in Requests \ {p} : req'[q] = req[q]
      BY ZenonT(60), <2>s, ReqStep
    <3> QED BY Zenon, <1>q, <2>u, <2>s, <3>2, <3>3
  <2>1. ASSUME NEW s \in Sessions \cup {None}, authorize(p, s) \/ authorize_grant(p, s)
        PROVE  ConsentInv'
    BY Zenon, <2>s, <2>1 DEF authorize, authorize_grant, consent_covers
  <2>2. ASSUME NEW g \in Codes, token_endpoint_code(p, g) PROVE ConsentInv'
    <3>1. req[p] = Idle /\ g \in Grants
      BY Zenon, <2>2 DEF token_endpoint_code, Start, Grants
    <3>2. CASE grant[g] = "open"
      <4>1. consent
        BY Zenon, <1>i, <3>1, <3>2 DEF Clean
      <4> QED BY Zenon, <2>s, <2>2, <3>1, <3>2, <4>1 DEF token_endpoint_code
    <3>3. CASE grant[g] # "open"
      BY Zenon, <2>s, <2>2, <3>1, <3>3 DEF token_endpoint_code
    <3> QED BY Zenon, <3>2, <3>3
  <2>3. ASSUME NEW g \in Devices, token_endpoint_device(p, g) PROVE ConsentInv'
    <3>1. req[p] = Idle /\ g \in Grants /\ grant[g] = "approved"
      BY Zenon, <2>3 DEF token_endpoint_device, Start, Grants
    <3>2. consent
      BY Zenon, <1>i, <3>1 DEF Clean
    <3> QED BY Zenon, <2>s, <2>3, <3>1, <3>2 DEF token_endpoint_device
  <2>4. ASSUME NEW r \in refresh, token_endpoint_refresh(p, r) \/ revoke_token(p, r)
        PROVE  ConsentInv'
    <3>1. req[p] = Idle /\ r.grant \in Grants /\ r.id \in Tokens
      BY Zenon, <2>4 DEF token_endpoint_refresh, revoke_token, Start, TypeOK, Refresh
    <3>2. consent
      BY Zenon, <1>i, <3>1 DEF Clean
    <3> QED BY Zenon, <2>s, <2>4, <3>1, <3>2 DEF token_endpoint_refresh, revoke_token
  <2> QED BY Zenon, <1>1, <2>1, <2>2, <2>3, <2>4 DEF Lookups
<1>2. ASSUME NEW p \in Requests, Decisions(p) PROVE ConsentInv'
  <2>1. ASSUME NEW g \in Devices, NEW approved \in BOOLEAN, decide_request(p, g, approved)
        PROVE  ConsentInv'
    <3>1. CASE approved
      <4>1. Start(p, "decided", g, None, None) /\ g \in Grants
        BY Zenon, <2>1, <3>1 DEF decide_request, Grants
      <4>2. req'[p].pc \in Owing
        BY Zenon, <4>1, ReqStep
      <4> QED BY Zenon, <4>2
    <3>2. CASE ~approved
      <4>1. Clean => Clean'
        BY Zenon, <2>1, <3>2 DEF decide_request, Clean, TypeOK
      <4> QED BY Zenon, <2>1, <3>2, <4>1 DEF decide_request, Tame
    <3> QED BY Zenon, <3>1, <3>2
  <2>2. CASE revoke_consent(p)
    <3>1. req'[p].pc = "user_client"
      BY Zenon, <2>2, ReqStep DEF revoke_consent
    <3> QED BY Zenon, <3>1
  <2>3. ~inactivate_user(p) /\ ~deactivate_client(p)
    BY Zenon DEF Undisturbed, inactivate_user, deactivate_client
  <2>4. ASSUME NEW s \in Sessions, end_oidc_session(p, s) PROVE ConsentInv'
    <3>1. /\ req[p].pc = "idle" /\ req'[p].pc = "session"
          /\ \A q \in Requests \ {p} : req'[q] = req[q]
      BY Zenon, <1>i, <2>4, ReqStep DEF end_oidc_session, Start
    <3>2. consent' = consent /\ (Clean => Clean')
      BY Zenon, <2>4 DEF end_oidc_session, Clean
    <3> QED BY Zenon, <1>q, <3>1, <3>2
  <2> QED BY Zenon, <1>2, <2>1, <2>2, <2>3, <2>4 DEF Decisions
<1>3. ASSUME NEW p \in Requests, IssueStep(p) PROVE ConsentInv'
  <2>1. CASE record_consent(p)
    <3>1. consent' /\ (Done(p) \/ Goto(p, "code"))
      BY Zenon, <2>1 DEF record_consent
    <3>2. req'[p].pc \notin Ending
      BY Zenon, <3>1, ReqStep
    <3> QED BY Zenon, <3>1, <3>2
  <2>2. CASE ~record_consent(p)
    <3>1. consent' = consent /\ req[p].pc \in Allowing
      BY Zenon, <1>3, <2>2
      DEF IssueStep, create_authorization_code, validate_and_consume_code, redeem_device_code,
          create_refresh_token, create_access_token, rotate_refresh_token, At
    <3>2. consent'
      BY Zenon, <3>1 DEF ConsentInv
    <3>3. \/ Done(p) \/ Goto(p, "refresh") \/ Goto(p, "reuse")
          \/ \E t \in Tokens : req' = [req EXCEPT ![p].pc = "access", ![p].t = t]
      BY Zenon, <1>3, <2>2
      DEF IssueStep, create_authorization_code, validate_and_consume_code, redeem_device_code,
          create_refresh_token, create_access_token, rotate_refresh_token
    <3>4. CASE \E t \in Tokens : req' = [req EXCEPT ![p].pc = "access", ![p].t = t]
      <4>1. req'[p].pc = "access"
        BY <3>4 DEF TypeOK, Request
      <4> QED BY Zenon, <3>2, <4>1
    <3>5. CASE Done(p) \/ Goto(p, "refresh") \/ Goto(p, "reuse")
      <4>1. req'[p].pc \notin Ending
        BY Zenon, <3>5, ReqStep
      <4> QED BY Zenon, <3>2, <4>1
    <3> QED BY Zenon, <3>3, <3>4, <3>5
  <2> QED BY Zenon, <2>1, <2>2
<1>4. ASSUME NEW p \in Requests, RevokeStep(p) PROVE ConsentInv'
  <2>1. CASE revoke_user_client_tokens(p)
    <3>1. Clean'
      BY Zenon, <2>1 DEF revoke_user_client_tokens, DeleteAllTokens, Clean
    <3>2. req'[p].pc = "idle"
      BY Zenon, <2>1, ReqStep DEF revoke_user_client_tokens
    <3> QED BY Zenon, <3>1, <3>2
  <2>2. CASE revoke_grant_tokens(p) \/ delete_token(p) \/ revoke_session_refresh_tokens(p)
    <3>1. Done(p) /\ consent' = consent /\ req[p].pc \notin Owing
      BY Zenon, <2>2 DEF revoke_grant_tokens, delete_token, revoke_session_refresh_tokens, At
    <3>2. Clean => Clean'
      BY Zenon, <2>2
      DEF revoke_grant_tokens, delete_token, revoke_session_refresh_tokens, DeleteRefresh, Clean
    <3>3. req'[p].pc = "idle" /\ \A q \in Requests \ {p} : req'[q] = req[q]
      BY Zenon, <3>1, ReqStep
    <3> QED BY Zenon, <1>q, <3>1, <3>2, <3>3
  <2> QED BY Zenon, <1>4, <1>e, <2>1, <2>2
          DEF RevokeStep, revoke_all_user_tokens, revoke_all_user_tokens_rows, At,
              delete_consent_grants_for_user, revoke_all_client_tokens,
              delete_consent_grants_for_client
<1>5. ASSUME NEW p \in Requests PROVE ~Crash(p)
  BY Zenon DEF Undisturbed, Crash
<1>6. CASE Elsewhere
  <2>1. UNCHANGED <<consent, req>>
    BY Zenon, <1>6
    DEF Elsewhere, start_device_authorization, revoke_access_token, ExpireAccess, reactivate_user,
        reactivate_client, Lapse, cleanup_expired_codes, ExpireRefresh, purge_expired_tokens
  <2>2. Clean => Clean'
    BY Zenon, <1>6
    DEF Elsewhere, start_device_authorization, revoke_access_token, ExpireAccess, reactivate_user,
        reactivate_client, Lapse, cleanup_expired_codes, ExpireRefresh, purge_expired_tokens,
        DeleteRefresh, Clean, TypeOK
  <2> QED BY Zenon, <2>1, <2>2 DEF ConsentInv
<1>7. CASE UNCHANGED vars
  BY Zenon, <1>7 DEF vars, rowVars, ConsentInv, Clean
<1> QED BY Zenon, <1>1, <1>2, <1>3, <1>4, <1>5, <1>6, <1>7 DEF Next

(* When requests are served one at a time and run to their end, the client *)
(* holds codes and tokens between requests only while the user's consent   *)
(* stands (consent._revoke), however grants, refreshes, logouts, expiry    *)
(* and revocations follow one another.                                     *)
THEOREM GrantsStayUnderConsent ==
  ASSUME Undisturbed
  PROVE  Spec => []GrantedUnderConsent
<1>1. Init => ConsentInv
  <2>1. Init => /\ refresh = {} /\ access = {} /\ \A g \in Grants : grant[g] = "unused"
                /\ \A p \in Requests : req[p] = Idle
    BY Zenon DEF Init
  <2>2. Idle.pc = "idle"
    BY Zenon DEF Idle
  <2> QED BY Zenon, <2>1, <2>2 DEF ConsentInv, Clean, Owing, Allowing, Ending
<1>2. ConsentInv => GrantedUnderConsent
  <2>1. Idle.pc \notin Owing
    BY Zenon DEF Idle, Owing
  <2> QED BY Zenon, <2>1
          DEF ConsentInv, GrantedUnderConsent, Quiet, Clean, NoTokensOf, RefreshOf, AccessOf
<1>3. Inv /\ ConsentInv /\ [Next]_vars => Inv' /\ ConsentInv'
  BY Zenon, InvStep, ConsentStep
<1> QED BY InitInv, <1>1, <1>2, <1>3, PTL DEF Spec

====
