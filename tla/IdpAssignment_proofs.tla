------------------------ MODULE IdpAssignment_proofs ------------------------
(***************************************************************************)
(* What holds of users and their identity providers for any number of      *)
(* users, domains, providers and requests: unlinking the last link         *)
(* deactivates the account, and an assigned user is in the base group.     *)
(***************************************************************************)
EXTENDS IdpAssignment, TLAPS

-----------------------------------------------------------------------------
(* What a request holds at each of its statements.                         *)

Req(pcs, ops, us, ds, is, olds) ==
    [pc : pcs, op : ops, u : us, d : ds, i : is, old : olds,
     us : SUBSET Users, todo : SUBSET Users]

AnIdp == Idps \cup {None}

OfDomain == Req({"bind_users", "bulk_assign", "move", "leave", "base_group", "bind"},
                {"saml_domain"}, {None}, Domains, Idps, AnIdp)
OfRemoval == Req({"unverify", "inactivate"}, {"assign"}, Users, {None}, {None}, AnIdp)
OfAssign == Req({"update", "leave"}, {"assign"}, Users, {None}, AnIdp, AnIdp)
OfJoin == Req({"base_group"}, {"assign", "saml_sign_in"}, Users, {None}, Idps, AnIdp)
OfSignIn == Req({"verify", "verify_only", "set_user_idp"}, {"saml_sign_in"}, Users, {None}, Idps, AnIdp)
OfScim == Req({"scim_set"}, {"scim"}, Users, {None}, Idps, AnIdp)
OfBulk == Req({"bulk_set"}, {"bulk"}, Users, {None}, AnIdp, AnIdp)
OfDelete == Req({"count_users", "count_domains", "invalidate", "delete"}, {"provider"},
                {None}, {None}, Idps, {None})
OfConnection == Req({"delete_connection"}, {"provider"}, {None}, {None}, Connections, {None})
OfBinding == Req({"bind_connection"}, {"oidc_domain"}, {None}, Domains, Connections, {None})
OfLink == Req({"oidc_verify", "create_link"}, {"oidc_sign_in"}, Users, {None}, Connections, {None})
OfUnlink == Req({"delete_link", "list_links", "unverify", "inactivate"}, {"unlink"},
                Users, {None}, Connections, {None})

RequestState ==
    UNION {{Idle}, OfDomain, OfRemoval, OfAssign, OfJoin, OfSignIn, OfScim, OfBulk, OfDelete,
           OfConnection, OfBinding, OfLink, OfUnlink}

(* Users in hand: those of a domain, or the one user of the request.       *)
InHand(r) ==
    /\ r.todo \subseteq r.us
    /\ r.pc \notin {"move", "leave", "base_group"} => r.todo = r.us
    /\ r.op # "saml_domain" => r.us = {r.u} \ {None}

TypeInv ==
    /\ provider \in [Providers -> {"enabled", "disabled", "gone"}]
    /\ samlBinding \in [Domains -> AnIdp]
    /\ saml_idp_id \in [Users -> AnIdp]
    /\ links \subseteq Users \X Connections
    /\ verified \subseteq Users
    /\ members \subseteq Users \X Idps
    /\ req \in [Requests -> RequestState]
    /\ \A p \in Requests : InHand(req[p])

(* The record of a request by its statement.                               *)
LEMMA Holds ==
  ASSUME TypeInv, NEW p \in Requests
  PROVE  /\ req[p].pc \in {"bind_users", "bulk_assign", "move", "bind"} => req[p] \in OfDomain
         /\ req[p].pc = "leave" => req[p] \in OfDomain \cup OfAssign
         /\ req[p].pc = "base_group" => req[p] \in OfDomain \cup OfJoin
         /\ req[p].pc = "update" => req[p] \in OfAssign
         /\ req[p].pc \in {"unverify", "inactivate"} => req[p] \in OfRemoval \cup OfUnlink
         /\ req[p].pc \in {"verify", "verify_only", "set_user_idp"} => req[p] \in OfSignIn
         /\ req[p].pc = "scim_set" => req[p] \in OfScim
         /\ req[p].pc = "bulk_set" => req[p] \in OfBulk
         /\ req[p].pc \in {"count_users", "count_domains", "invalidate", "delete"} => req[p] \in OfDelete
         /\ req[p].pc = "delete_connection" => req[p] \in OfConnection
         /\ req[p].pc = "bind_connection" => req[p] \in OfBinding
         /\ req[p].pc \in {"oidc_verify", "create_link"} => req[p] \in OfLink
         /\ req[p].pc \in {"delete_link", "list_links"} => req[p] \in OfUnlink
         /\ req[p].pc = "idle" => req[p] = Idle
<1>1. \/ req[p] = Idle \/ req[p] \in OfDomain \/ req[p] \in OfRemoval \/ req[p] \in OfAssign
      \/ req[p] \in OfJoin \/ req[p] \in OfSignIn \/ req[p] \in OfScim \/ req[p] \in OfBulk
      \/ req[p] \in OfDelete \/ req[p] \in OfConnection \/ req[p] \in OfBinding
      \/ req[p] \in OfLink \/ req[p] \in OfUnlink
  BY DEF TypeInv, RequestState
<1>2. Idle.pc = "idle"
  BY Zenon DEF Idle
<1>3. /\ \A r \in OfDomain :
           r.pc \in {"bind_users", "bulk_assign", "move", "leave", "base_group", "bind"}
      /\ \A r \in OfRemoval : r.pc \in {"unverify", "inactivate"}
      /\ \A r \in OfAssign : r.pc \in {"update", "leave"}
      /\ \A r \in OfJoin : r.pc = "base_group"
      /\ \A r \in OfSignIn : r.pc \in {"verify", "verify_only", "set_user_idp"}
      /\ \A r \in OfScim : r.pc = "scim_set"
      /\ \A r \in OfBulk : r.pc = "bulk_set"
  BY Zenon DEF OfDomain, OfRemoval, OfAssign, OfJoin, OfSignIn, OfScim, OfBulk, Req
<1>4. /\ \A r \in OfDelete : r.pc \in {"count_users", "count_domains", "invalidate", "delete"}
      /\ \A r \in OfConnection : r.pc = "delete_connection"
      /\ \A r \in OfBinding : r.pc = "bind_connection"
      /\ \A r \in OfLink : r.pc \in {"oidc_verify", "create_link"}
      /\ \A r \in OfUnlink : r.pc \in {"delete_link", "list_links", "unverify", "inactivate"}
  BY Zenon DEF OfDelete, OfConnection, OfBinding, OfLink, OfUnlink, Req
<1> QED
  BY <1>1, <1>2, <1>3, <1>4

OnlyReq(p) == /\ req' \in [Requests -> RequestState]
              /\ \A q \in Requests : InHand(req'[q])
              /\ \A q \in Requests : q # p => req'[q] = req[q]

(* A request writes its own record.                                        *)
LEMMA ReqMoves ==
  ASSUME TypeInv, NEW p \in Requests, NEW new \in RequestState, InHand(new),
         req' = [req EXCEPT ![p] = new]
  PROVE  OnlyReq(p) /\ req'[p] = new
  BY Zenon DEF TypeInv, OnlyReq

(* A request that ends.                                                    *)
LEMMA ReqEnds ==
  ASSUME TypeInv, NEW p \in Requests, Done(p)
  PROVE  OnlyReq(p) /\ req'[p] = Idle /\ Idle.pc = "idle"
<1>1. Idle \in RequestState /\ InHand(Idle) /\ Idle.pc = "idle"
  BY Zenon DEF RequestState, InHand, Idle
<1> QED
  BY Zenon, <1>1, ReqMoves DEF Done

(* Every record is one of the type the module declares.                    *)
LEMMA StatesAreRequests == RequestState \subseteq Request
<1> USE DEF Request, Req, Statements, AllOperations, Providers, AnIdp
<1>1. Idle \in Request
  BY Zenon DEF Idle
<1>2. OfDomain \subseteq Request /\ OfRemoval \subseteq Request /\ OfAssign \subseteq Request
  BY DEF OfDomain, OfRemoval, OfAssign
<1>3. OfJoin \subseteq Request /\ OfSignIn \subseteq Request /\ OfScim \subseteq Request
  BY DEF OfJoin, OfSignIn, OfScim
<1>4. OfBulk \subseteq Request /\ OfDelete \subseteq Request /\ OfConnection \subseteq Request
  BY DEF OfBulk, OfDelete, OfConnection
<1>5. OfBinding \subseteq Request /\ OfLink \subseteq Request /\ OfUnlink \subseteq Request
  BY DEF OfBinding, OfLink, OfUnlink
<1> HIDE DEF Request, Req, Statements, AllOperations, Providers, AnIdp
<1> QED
  BY Zenon, <1>1, <1>2, <1>3, <1>4, <1>5 DEF RequestState

SameSubject(r, s) ==
    /\ r.op = s.op /\ r.u = s.u /\ r.d = s.d /\ r.i = s.i /\ r.old = s.old
    /\ r.us = s.us /\ r.todo = s.todo

(* A request that goes on to another statement on the same subject.        *)
LEMMA ReqGoes ==
  ASSUME TypeInv, NEW p \in Requests, NEW st, Goto(p, st),
         [req[p] EXCEPT !.pc = st] \in RequestState,
         st \in {"move", "leave", "base_group"} \/ req[p].todo = req[p].us
  PROVE  OnlyReq(p) /\ req'[p].pc = st /\ SameSubject(req'[p], req[p])
<1> DEFINE new == [req[p] EXCEPT !.pc = st]
<1>1. req[p] \in Request /\ InHand(req[p])
  BY Zenon, StatesAreRequests DEF TypeInv
<1>2. new.pc = st /\ SameSubject(new, req[p])
  BY Zenon, <1>1 DEF Request, SameSubject
<1>3. req' = [req EXCEPT ![p] = new]
  BY Zenon DEF Goto, TypeInv
<1>4. new \in RequestState
  BY Zenon
<1> HIDE DEF new
<1>5. InHand(new)
  BY Zenon, <1>1, <1>2 DEF InHand, SameSubject
<1> QED
  BY Zenon, <1>2, <1>3, <1>4, <1>5, ReqMoves

(* A request that starts, and the record it starts with.                   *)
LEMMA ReqStarts ==
  ASSUME TypeInv, NEW p \in Requests, NEW st, NEW op, NEW u \in Users \cup {None}, NEW d, NEW i, NEW old,
         Start(p, st, op, u, d, i, old),
         st \notin {"move", "leave"},
         [pc |-> st, op |-> op, u |-> u, d |-> d, i |-> i, old |-> old,
          us |-> {u} \ {None}, todo |-> {u} \ {None}] \in RequestState,
         op = "saml_domain" => u = None
  PROVE  /\ OnlyReq(p) /\ req[p] = Idle /\ UNCHANGED rowVars
         /\ req'[p] = [pc |-> st, op |-> op, u |-> u, d |-> d, i |-> i, old |-> old,
                       us |-> {u} \ {None}, todo |-> {u} \ {None}]
<1> DEFINE new == [pc |-> st, op |-> op, u |-> u, d |-> d, i |-> i, old |-> old,
                   us |-> {u} \ {None}, todo |-> {u} \ {None}]
<1>2. InHand(new)
  BY Zenon DEF InHand
<1> HIDE DEF new
<1>1. req' = [req EXCEPT ![p] = new] /\ req[p] = Idle /\ UNCHANGED rowVars
  BY Zenon DEF Start, new
<1>3. new \in RequestState
  BY Zenon DEF new
<1> QED
  BY Zenon, <1>1, <1>2, <1>3, ReqMoves DEF new

(* The next of the users in hand, or the next statement after the last.    *)
Follows(p, u, next) ==
    /\ OnlyReq(p)
    /\ \/ /\ req[p].todo # {u} /\ req'[p].pc = req[p].pc
          /\ req'[p].todo = req[p].todo \ {u}
          /\ req'[p].us = req[p].us /\ req'[p].op = req[p].op /\ req'[p].i = req[p].i
          /\ req'[p].old = req[p].old
       \/ next = "idle" /\ req[p].todo = {u} /\ req'[p] = Idle
       \/ /\ next # "idle" /\ req[p].todo = {u} /\ req'[p].pc = next
          /\ req'[p].todo = req[p].us
          /\ req'[p].us = req[p].us /\ req'[p].op = req[p].op /\ req'[p].i = req[p].i
          /\ req'[p].old = req[p].old

(* The next of the users in hand.                                          *)
LEMMA ReqFollows ==
  ASSUME TypeInv, NEW p \in Requests, NEW u \in Users, u \in req[p].todo, NEW next,
         req[p].pc \in {"move", "leave", "base_group"},
         Following(p, u, next),
         next = "idle" \/ [req[p] EXCEPT !.pc = next] \in OfDomain \cup OfAssign \cup OfJoin
  PROVE  Follows(p, u, next)
<1>1. req[p] \in Request /\ InHand(req[p]) /\ req[p] \in RequestState
  BY Zenon, StatesAreRequests DEF TypeInv
<1>2. req[p] \in OfDomain \cup OfAssign \cup OfJoin
  BY Zenon, Holds
<1> DEFINE val == IF req[p].todo # {u} THEN [req[p] EXCEPT !.todo = req[p].todo \ {u}]
                  ELSE IF next = "idle" THEN Idle
                  ELSE [req[p] EXCEPT !.pc = next, !.todo = req[p].us]
<1>v. req' = [req EXCEPT ![p] = val]
  BY Zenon DEF Following
<1> HIDE DEF val
<1>3. CASE req[p].todo # {u}
  <2> DEFINE new == [req[p] EXCEPT !.todo = req[p].todo \ {u}]
  <2>1. val = new
    BY Zenon, <1>3 DEF val
  <2>2. /\ new.pc = req[p].pc /\ new.op = req[p].op /\ new.u = req[p].u /\ new.i = req[p].i
        /\ new.old = req[p].old /\ new.us = req[p].us /\ new.todo = req[p].todo \ {u}
    BY Zenon, <1>1 DEF Request
  <2>3. new \in OfDomain \cup OfAssign \cup OfJoin
    BY <1>2 DEF OfDomain, OfAssign, OfJoin, Req
  <2> HIDE DEF new
  <2>4. new \in RequestState
    BY Zenon, <2>3 DEF RequestState
  <2>5. InHand(new)
    BY Zenon, <1>1, <2>2 DEF InHand
  <2> QED
    BY Zenon, <1>v, <1>3, <2>1, <2>2, <2>4, <2>5, ReqMoves DEF Follows
<1>4. CASE req[p].todo = {u} /\ next = "idle"
  <2>1. Done(p)
    BY Zenon, <1>v, <1>4 DEF val, Done
  <2> QED
    BY Zenon, <1>4, <2>1, ReqEnds DEF Follows
<1>5. CASE req[p].todo = {u} /\ next # "idle"
  <2> DEFINE mid == [req[p] EXCEPT !.pc = next]
             new == [req[p] EXCEPT !.pc = next, !.todo = req[p].us]
  <2>1. val = new
    BY Zenon, <1>5 DEF val
  <2>2. /\ new.pc = next /\ new.op = req[p].op /\ new.u = req[p].u /\ new.i = req[p].i
        /\ new.old = req[p].old /\ new.us = req[p].us /\ new.todo = req[p].us
        /\ new = [mid EXCEPT !.todo = mid.us]
    BY Zenon, <1>1 DEF Request
  <2>3. mid \in OfDomain \cup OfAssign \cup OfJoin
    BY Zenon, <1>5
  <2> HIDE DEF mid
  <2>4. [mid EXCEPT !.todo = mid.us] \in OfDomain \cup OfAssign \cup OfJoin
    BY <2>3 DEF OfDomain, OfAssign, OfJoin, Req
  <2> HIDE DEF new
  <2>6. new \in RequestState
    BY Zenon, <2>2, <2>4 DEF RequestState
  <2>7. InHand(new)
    BY Zenon, <1>1, <2>2 DEF InHand
  <2> QED
    BY Zenon, <1>v, <1>5, <2>1, <2>2, <2>6, <2>7, ReqMoves DEF Follows
<1> QED
  BY Zenon, <1>3, <1>4, <1>5

-----------------------------------------------------------------------------
(* How requests begin.                                                     *)

SamlOps == {"saml_domain", "assign", "saml_sign_in", "scim", "bulk"}

(* What a request has checked when it begins: a SAML request names an IdP  *)
(* that exists, and an assignment remembers the IdP the user has.          *)
BeginFacts(p) ==
    /\ OnlyReq(p) /\ req[p] = Idle /\ UNCHANGED rowVars
    /\ req'[p].pc \notin {"idle", "bulk_assign", "move", "leave", "bind", "inactivate", "list_links",
                           "count_domains", "invalidate", "delete"}
    /\ req'[p].op \in SamlOps /\ req'[p].i # None => Exists(req'[p].i)
    /\ req'[p].op = "assign" => saml_idp_id[req'[p].u] = req'[p].old
    /\ req'[p].pc = "unverify" => req'[p].op = "assign"

(* A record that begins.                                                   *)
First(st, op, u, d, i, old) ==
    [pc |-> st, op |-> op, u |-> u, d |-> d, i |-> i, old |-> old,
     us |-> {u} \ {None}, todo |-> {u} \ {None}]

(* A start with a record of the right shape establishes what was checked.  *)
LEMMA StartEffect ==
  ASSUME TypeInv, NEW p \in Requests, NEW st, NEW op, NEW u \in Users \cup {None}, NEW d, NEW i, NEW old,
         Start(p, st, op, u, d, i, old),
         First(st, op, u, d, i, old) \in RequestState,
         st \notin {"idle", "bulk_assign", "move", "leave", "bind", "inactivate", "list_links",
                    "count_domains", "invalidate", "delete"},
         op = "saml_domain" => u = None,
         op \in SamlOps /\ i # None => Exists(i),
         op = "assign" => saml_idp_id[u] = old,
         st = "unverify" => op = "assign"
  PROVE  BeginFacts(p)
<1>1. /\ OnlyReq(p) /\ req[p] = Idle /\ UNCHANGED rowVars
      /\ req'[p] = First(st, op, u, d, i, old)
  BY ReqStarts DEF First
<1>2. /\ First(st, op, u, d, i, old).pc = st /\ First(st, op, u, d, i, old).op = op
      /\ First(st, op, u, d, i, old).u = u /\ First(st, op, u, d, i, old).i = i
      /\ First(st, op, u, d, i, old).old = old
  BY Zenon DEF First
<1> QED
  BY Zenon, <1>1, <1>2 DEF BeginFacts

(* The users in hand of a record that begins.                              *)
LEMMA FirstShape ==
  ASSUME NEW pcs, NEW ops, NEW us, NEW ds, NEW is, NEW olds,
         NEW st \in pcs, NEW op \in ops, NEW u \in us, NEW d \in ds, NEW i \in is, NEW old \in olds,
         us \subseteq Users \cup {None}
  PROVE  First(st, op, u, d, i, old) \in Req(pcs, ops, us, ds, is, olds)
  BY Zenon DEF First, Req

(* Domains, assignments, sign-ins, SCIM and the bulk job.                  *)
LEMMA BeginSaml ==
  ASSUME TypeInv, NEW p \in Requests,
         \/ \E d \in Domains, i \in Idps : bind_domain_to_idp(p, d, i) \/ rebind_domain_to_idp(p, d, i)
         \/ \E u \in Users :
              \/ \E i \in Idps \cup {None} : assign_user_idp(p, u, i)
              \/ \E i \in Idps : authenticate_via_saml(p, u, i) \/ create_or_merge_user(p, u, i)
              \/ handle_bulk_primary_email_apply(p, u)
  PROVE  BeginFacts(p)
<1>n. \A i \in Idps : i # None
  BY Zenon, IdpConstants DEF Providers
<1>s. \A u \in Users : saml_idp_id[u] \in AnIdp
  BY Zenon DEF TypeInv
<1>1. ASSUME NEW d \in Domains, NEW i \in Idps,
             bind_domain_to_idp(p, d, i) \/ rebind_domain_to_idp(p, d, i)
      PROVE  BeginFacts(p)
  <2>1. PICK old \in AnIdp : Exists(i) /\ Start(p, "bind_users", "saml_domain", None, d, i, old)
    BY Zenon, <1>1 DEF bind_domain_to_idp, rebind_domain_to_idp, TypeInv, AnIdp
  <2>2. First("bind_users", "saml_domain", None, d, i, old) \in OfDomain
    BY Zenon, FirstShape DEF OfDomain
  <2>3. First("bind_users", "saml_domain", None, d, i, old) \in RequestState
    BY Zenon, <2>2 DEF RequestState
  <2> QED
    BY Zenon, <2>1, <2>3, StartEffect
<1>2. ASSUME NEW u \in Users, NEW i \in Idps \cup {None}, assign_user_idp(p, u, i)
      PROVE  BeginFacts(p)
  <2> DEFINE old == saml_idp_id[u]
             st == IF old # None /\ i = None THEN "unverify" ELSE "update"
  <2>1. Start(p, st, "assign", u, None, i, old) /\ (i # None => Exists(i))
    BY Zenon, <1>2 DEF assign_user_idp
  <2>2. old \in AnIdp /\ st \in {"unverify", "update"} /\ (st = "unverify" => i = None)
    BY Zenon, <1>s
  <2> HIDE DEF st
  <2>3. First(st, "assign", u, None, i, old) \in OfRemoval \cup OfAssign
    <3>1. CASE st = "unverify"
      BY Zenon, <2>2, <3>1, FirstShape DEF OfRemoval
    <3>2. CASE st = "update"
      BY Zenon, <2>2, <3>2, FirstShape DEF OfAssign, AnIdp
    <3> QED
      BY Zenon, <2>2, <3>1, <3>2
  <2>4. First(st, "assign", u, None, i, old) \in RequestState
    BY Zenon, <2>3 DEF RequestState
  <2> QED
    BY <2>1, <2>2, <2>4, StartEffect
<1>3. ASSUME NEW u \in Users, NEW i \in Idps, authenticate_via_saml(p, u, i)
      PROVE  BeginFacts(p)
  <2>1. PICK st \in {"set_user_idp", "base_group", "verify", "verify_only"} :
          Exists(i) /\ Start(p, st, "saml_sign_in", u, None, i, saml_idp_id[u])
    BY Zenon, <1>3 DEF authenticate_via_saml, AfterLookup, Enabled, Exists
  <2>2. First(st, "saml_sign_in", u, None, i, saml_idp_id[u]) \in OfSignIn \cup OfJoin
    <3>1. CASE st = "base_group"
      BY Zenon, <1>s, <3>1, FirstShape DEF OfJoin
    <3>2. CASE st # "base_group"
      BY Zenon, <1>s, <2>1, <3>2, FirstShape DEF OfSignIn
    <3> QED
      BY Zenon, <3>1, <3>2
  <2>3. First(st, "saml_sign_in", u, None, i, saml_idp_id[u]) \in RequestState
    BY Zenon, <2>2 DEF RequestState
  <2> QED
    BY <2>1, <2>3, StartEffect
<1>4. ASSUME NEW u \in Users, NEW i \in Idps, create_or_merge_user(p, u, i)
      PROVE  BeginFacts(p)
  <2>1. Exists(i) /\ Start(p, "scim_set", "scim", u, None, i, saml_idp_id[u])
    BY Zenon, <1>4 DEF create_or_merge_user
  <2>2. First("scim_set", "scim", u, None, i, saml_idp_id[u]) \in OfScim
    BY Zenon, <1>s, FirstShape DEF OfScim
  <2>3. First("scim_set", "scim", u, None, i, saml_idp_id[u]) \in RequestState
    BY Zenon, <2>2 DEF RequestState
  <2> QED
    BY <2>1, <2>3, StartEffect
<1>5. ASSUME NEW u \in Users, handle_bulk_primary_email_apply(p, u)
      PROVE  BeginFacts(p)
  <2>1. PICK i \in AnIdp : (i # None => Exists(i)) /\ Start(p, "bulk_set", "bulk", u, None, i, saml_idp_id[u])
    BY Zenon, <1>5, IdpConstants DEF handle_bulk_primary_email_apply, TypeInv, AnIdp, Enabled, Exists
  <2>2. First("bulk_set", "bulk", u, None, i, saml_idp_id[u]) \in OfBulk
    BY Zenon, <1>s, FirstShape DEF OfBulk
  <2>3. First("bulk_set", "bulk", u, None, i, saml_idp_id[u]) \in RequestState
    BY Zenon, <2>2 DEF RequestState
  <2> QED
    BY <2>1, <2>3, StartEffect
<1> QED
  BY Zenon, <1>1, <1>2, <1>3, <1>4, <1>5

(* OIDC, and the deletion of providers.                                    *)
LEMMA BeginOther ==
  ASSUME TypeInv, NEW p \in Requests,
         \/ \E d \in Domains, c \in Connections :
              bind_domain_to_connection(p, d, c) \/ rebind_domain_to_connection(p, d, c)
         \/ \E u \in Users, c \in Connections :
              authenticate_via_oidc(p, u, c) \/ unlink_user_from_connection(p, u, c)
         \/ \E i \in Idps : delete_identity_provider(p, i)
         \/ \E c \in Connections : delete_connection(p, c)
  PROVE  BeginFacts(p)
<1>1. ASSUME NEW d \in Domains, NEW c \in Connections,
             bind_domain_to_connection(p, d, c) \/ rebind_domain_to_connection(p, d, c)
      PROVE  BeginFacts(p)
  <2>1. Start(p, "bind_connection", "oidc_domain", None, d, c, None)
    BY Zenon, <1>1 DEF bind_domain_to_connection, rebind_domain_to_connection
  <2>2. First("bind_connection", "oidc_domain", None, d, c, None) \in OfBinding
    BY Zenon, FirstShape DEF OfBinding
  <2>3. First("bind_connection", "oidc_domain", None, d, c, None) \in RequestState
    BY Zenon, <2>2 DEF RequestState
  <2> QED
    BY <2>1, <2>3, StartEffect DEF SamlOps
<1>2. ASSUME NEW u \in Users, NEW c \in Connections, authenticate_via_oidc(p, u, c)
      PROVE  BeginFacts(p)
  <2>1. PICK st \in {"create_link", "oidc_verify"} : Start(p, st, "oidc_sign_in", u, None, c, None)
    BY Zenon, <1>2 DEF authenticate_via_oidc
  <2>2. First(st, "oidc_sign_in", u, None, c, None) \in OfLink
    BY Zenon, FirstShape DEF OfLink
  <2>3. First(st, "oidc_sign_in", u, None, c, None) \in RequestState
    BY Zenon, <2>2 DEF RequestState
  <2> QED
    BY <2>1, <2>3, StartEffect DEF SamlOps
<1>3. ASSUME NEW u \in Users, NEW c \in Connections, unlink_user_from_connection(p, u, c)
      PROVE  BeginFacts(p)
  <2>1. Start(p, "delete_link", "unlink", u, None, c, None)
    BY Zenon, <1>3 DEF unlink_user_from_connection
  <2>2. First("delete_link", "unlink", u, None, c, None) \in OfUnlink
    BY Zenon, FirstShape DEF OfUnlink
  <2>3. First("delete_link", "unlink", u, None, c, None) \in RequestState
    BY Zenon, <2>2 DEF RequestState
  <2> QED
    BY <2>1, <2>3, StartEffect DEF SamlOps
<1>4. ASSUME NEW i \in Idps, delete_identity_provider(p, i)
      PROVE  BeginFacts(p)
  <2>1. Start(p, "count_users", "provider", None, None, i, None)
    BY Zenon, <1>4 DEF delete_identity_provider
  <2>2. First("count_users", "provider", None, None, i, None) \in OfDelete
    BY Zenon, FirstShape DEF OfDelete
  <2>3. First("count_users", "provider", None, None, i, None) \in RequestState
    BY Zenon, <2>2 DEF RequestState
  <2> QED
    BY <2>1, <2>3, StartEffect DEF SamlOps
<1>5. ASSUME NEW c \in Connections, delete_connection(p, c)
      PROVE  BeginFacts(p)
  <2>1. Start(p, "delete_connection", "provider", None, None, c, None)
    BY Zenon, <1>5 DEF delete_connection
  <2>2. First("delete_connection", "provider", None, None, c, None) \in OfConnection
    BY Zenon, FirstShape DEF OfConnection
  <2>3. First("delete_connection", "provider", None, None, c, None) \in RequestState
    BY Zenon, <2>2 DEF RequestState
  <2> QED
    BY <2>1, <2>3, StartEffect DEF SamlOps
<1> QED
  BY Zenon, <1>1, <1>2, <1>3, <1>4, <1>5

(* Every way a request begins.                                             *)
LEMMA BeginEffect ==
  ASSUME TypeInv, NEW p \in Requests, Begin(p)
  PROVE  BeginFacts(p)
<1>1. \/ \/ \E d \in Domains, i \in Idps : bind_domain_to_idp(p, d, i) \/ rebind_domain_to_idp(p, d, i)
         \/ \E u \in Users :
              \/ \E i \in Idps \cup {None} : assign_user_idp(p, u, i)
              \/ \E i \in Idps : authenticate_via_saml(p, u, i) \/ create_or_merge_user(p, u, i)
              \/ handle_bulk_primary_email_apply(p, u)
      \/ \/ \E d \in Domains, c \in Connections :
              bind_domain_to_connection(p, d, c) \/ rebind_domain_to_connection(p, d, c)
         \/ \E u \in Users, c \in Connections :
              authenticate_via_oidc(p, u, c) \/ unlink_user_from_connection(p, u, c)
         \/ \E i \in Idps : delete_identity_provider(p, i)
         \/ \E c \in Connections : delete_connection(p, c)
  BY Zenon DEF Begin
<1> QED
  BY Zenon, <1>1, BeginSaml, BeginOther

-----------------------------------------------------------------------------
(* How requests go on.                                                     *)

To(p, st) == [req[p] EXCEPT !.pc = st]

(* The record after each statement has the shape of the next one.          *)
LEMMA Successors ==
  ASSUME TypeInv, NEW p \in Requests
  PROVE  /\ req[p].pc = "bulk_assign" => To(p, "base_group") \in RequestState
         /\ req[p].pc = "move" => To(p, "leave") \in OfDomain
         /\ req[p].pc = "leave" /\ req[p].i # None => To(p, "base_group") \in OfDomain \cup OfJoin
         /\ req[p].pc = "base_group" /\ req[p].op = "saml_domain" => To(p, "bind") \in OfDomain
         /\ req[p].pc = "unverify" => To(p, "inactivate") \in RequestState
         /\ req[p].pc = "inactivate" /\ req[p].op = "assign" => To(p, "update") \in RequestState
         /\ req[p].pc = "update" => To(p, "leave") \in RequestState
         /\ req[p].pc = "update" /\ req[p].i # None => To(p, "base_group") \in RequestState
         /\ req[p].pc = "verify" => /\ To(p, "set_user_idp") \in RequestState
                                    /\ To(p, "base_group") \in RequestState
         /\ req[p].pc = "set_user_idp" => To(p, "base_group") \in RequestState
         /\ req[p].pc \in {"count_users", "count_domains", "invalidate"} =>
              \A st \in {"count_domains", "invalidate", "delete"} : To(p, st) \in RequestState
         /\ req[p].pc = "oidc_verify" => To(p, "create_link") \in RequestState
         /\ req[p].pc = "delete_link" => To(p, "list_links") \in RequestState
         /\ req[p].pc = "list_links" => To(p, "unverify") \in RequestState
<1> USE DEF To, Req
<1> HIDE DEF RequestState
<1>r. /\ OfDomain \subseteq RequestState /\ OfRemoval \subseteq RequestState
      /\ OfAssign \subseteq RequestState /\ OfJoin \subseteq RequestState
      /\ OfSignIn \subseteq RequestState /\ OfDelete \subseteq RequestState
      /\ OfLink \subseteq RequestState /\ OfUnlink \subseteq RequestState
  BY Zenon DEF RequestState
<1>1. /\ req[p].pc = "bulk_assign" => To(p, "base_group") \in RequestState
      /\ req[p].pc = "move" => To(p, "leave") \in OfDomain
  <2>1. req[p] \in OfDomain =>
          To(p, "base_group") \in OfDomain /\ To(p, "leave") \in OfDomain
    BY Zenon DEF OfDomain
  <2> QED
    BY Zenon, <1>r, <2>1, Holds
<1>2. req[p].pc = "leave" /\ req[p].i # None => To(p, "base_group") \in OfDomain \cup OfJoin
  <2>1. CASE req[p] \in OfDomain
    BY Zenon, <2>1 DEF OfDomain
  <2>2. CASE req[p] \in OfAssign
    BY Zenon, <2>2 DEF OfAssign, OfJoin, AnIdp
  <2> QED
    BY Zenon, <2>1, <2>2, Holds
<1>3. req[p].pc = "base_group" /\ req[p].op = "saml_domain" => To(p, "bind") \in OfDomain
  <2>1. CASE req[p] \in OfDomain
    BY Zenon, <2>1 DEF OfDomain
  <2>2. CASE req[p] \in OfJoin
    BY Zenon, <2>2 DEF OfJoin
  <2> QED
    BY Zenon, <2>1, <2>2, Holds
<1>4. /\ req[p].pc = "unverify" => To(p, "inactivate") \in RequestState
      /\ req[p].pc = "inactivate" /\ req[p].op = "assign" => To(p, "update") \in RequestState
  <2>1. CASE req[p] \in OfRemoval
    <3>1. To(p, "inactivate") \in OfRemoval /\ To(p, "update") \in OfAssign
      BY Zenon, <2>1 DEF OfRemoval, OfAssign, AnIdp
    <3> QED
      BY Zenon, <1>r, <3>1
  <2>2. CASE req[p] \in OfUnlink
    <3>1. To(p, "inactivate") \in OfUnlink /\ req[p].op = "unlink"
      BY Zenon, <2>2 DEF OfUnlink
    <3> QED
      BY Zenon, <1>r, <3>1
  <2> QED
    BY Zenon, <2>1, <2>2, Holds
<1>5. /\ req[p].pc = "update" => To(p, "leave") \in RequestState
      /\ req[p].pc = "update" /\ req[p].i # None => To(p, "base_group") \in RequestState
  <2>1. req[p] \in OfAssign => /\ To(p, "leave") \in OfAssign
                               /\ req[p].i # None => To(p, "base_group") \in OfJoin
    BY Zenon DEF OfAssign, OfJoin, AnIdp
  <2> QED
    BY Zenon, <1>r, <2>1, Holds
<1>6. req[p].pc \in {"verify", "set_user_idp"} =>
        To(p, "set_user_idp") \in RequestState /\ To(p, "base_group") \in RequestState
  <2>1. req[p] \in OfSignIn => To(p, "set_user_idp") \in OfSignIn /\ To(p, "base_group") \in OfJoin
    BY Zenon DEF OfSignIn, OfJoin
  <2> QED
    BY Zenon, <1>r, <2>1, Holds
<1>7. req[p].pc \in {"count_users", "count_domains", "invalidate"} =>
        \A st \in {"count_domains", "invalidate", "delete"} : To(p, st) \in RequestState
  <2>1. req[p] \in OfDelete =>
          \A st \in {"count_domains", "invalidate", "delete"} : To(p, st) \in OfDelete
    BY Zenon DEF OfDelete
  <2> QED
    BY Zenon, <1>r, <2>1, Holds
<1>8. req[p].pc = "oidc_verify" => To(p, "create_link") \in RequestState
  <2>1. req[p] \in OfLink => To(p, "create_link") \in OfLink
    BY Zenon DEF OfLink
  <2> QED
    BY Zenon, <1>r, <2>1, Holds
<1>9. /\ req[p].pc = "delete_link" => To(p, "list_links") \in RequestState
      /\ req[p].pc = "list_links" => To(p, "unverify") \in RequestState
  <2>1. req[p] \in OfUnlink => To(p, "list_links") \in OfUnlink /\ To(p, "unverify") \in OfUnlink
    BY Zenon DEF OfUnlink
  <2> QED
    BY Zenon, <1>r, <2>1, Holds
<1> HIDE DEF To
<1> QED
  BY Zenon, <1>1, <1>2, <1>3, <1>4, <1>5, <1>6, <1>7, <1>8, <1>9

(* A request goes on from a statement at which all users are in hand.      *)
LEMMA GoesOn ==
  ASSUME TypeInv, NEW p \in Requests, NEW st, Goto(p, st), To(p, st) \in RequestState,
         req[p].pc \notin {"move", "leave", "base_group"}
  PROVE  OnlyReq(p) /\ req'[p].pc = st /\ SameSubject(req'[p], req[p])
<1>1. req[p].todo = req[p].us
  BY Zenon DEF TypeInv, InHand
<1> QED
  BY Zenon, <1>1, ReqGoes DEF To

Ends(p) == OnlyReq(p) /\ req'[p] = Idle
Goes(p, st) == OnlyReq(p) /\ req'[p].pc = st /\ SameSubject(req'[p], req[p])

(* The users of a domain are taken in hand.                                *)
LEMMA BindUsersEffect ==
  ASSUME TypeInv, NEW p \in Requests, bind_users(p)
  PROVE  /\ OnlyReq(p) /\ UNCHANGED rowVars
         /\ req'[p].pc \in {"bind", "bulk_assign", "move"}
         /\ req'[p].op = req[p].op /\ req'[p].i = req[p].i /\ req'[p].us = req'[p].todo
<1> DEFINE here == get_users_by_email_domain(req[p].d)
           us == IF req[p].old = None THEN {u \in here : saml_idp_id[u] # req[p].i}
                                      ELSE {u \in here : saml_idp_id[u] = req[p].old}
           next == IF us = {} THEN "bind"
                   ELSE IF req[p].old = None THEN "bulk_assign" ELSE "move"
           new == [req[p] EXCEPT !.us = us, !.todo = us, !.pc = next]
<1>1. req' = [req EXCEPT ![p] = new] /\ UNCHANGED rowVars
  BY Zenon DEF bind_users
<1>2. req[p] \in OfDomain
  BY Zenon, Holds DEF bind_users, At
<1>3. us \in SUBSET Users /\ next \in {"bind", "bulk_assign", "move"}
  BY Zenon DEF TypeInv, get_users_by_email_domain
<1> HIDE DEF us, next
<1>4. /\ new \in OfDomain /\ new.pc = next /\ new.us = us /\ new.todo = us
      /\ new.op = req[p].op /\ new.i = req[p].i /\ new.op = "saml_domain"
  BY Zenon, <1>2, <1>3 DEF OfDomain, Req
<1> HIDE DEF new
<1>5. new \in RequestState /\ InHand(new)
  BY Zenon, <1>4 DEF RequestState, InHand
<1> QED
  BY Zenon, <1>1, <1>3, <1>4, <1>5, ReqMoves

(* The statements for one user after the other.                            *)
LEMMA FollowEffect ==
  ASSUME TypeInv, NEW p \in Requests, NEW u \in Users
  PROVE  /\ update_user_saml_idp_moving(p, u) => Follows(p, u, "leave")
         /\ remove_user_from_all_idp_groups(p, u) =>
              Follows(p, u, IF req[p].i = None THEN "idle" ELSE "base_group")
         /\ ensure_user_in_base_group(p, u) =>
              Follows(p, u, IF req[p].op = "saml_domain" THEN "bind" ELSE "idle")
<1>1. ASSUME update_user_saml_idp_moving(p, u) PROVE Follows(p, u, "leave")
  <2>1. u \in req[p].todo /\ req[p].pc = "move" /\ Following(p, u, "leave")
    BY Zenon, <1>1 DEF update_user_saml_idp_moving, At
  <2>2. [req[p] EXCEPT !.pc = "leave"] \in OfDomain
    BY Zenon, <2>1, Successors DEF To
  <2> QED
    BY Zenon, <2>1, <2>2, ReqFollows
<1>2. ASSUME remove_user_from_all_idp_groups(p, u)
      PROVE  Follows(p, u, IF req[p].i = None THEN "idle" ELSE "base_group")
  <2> DEFINE next == IF req[p].i = None THEN "idle" ELSE "base_group"
  <2>1. u \in req[p].todo /\ req[p].pc = "leave" /\ Following(p, u, next)
    BY Zenon, <1>2 DEF remove_user_from_all_idp_groups, At
  <2>2. next = "idle" \/ (next = "base_group" /\ req[p].i # None)
    BY Zenon
  <2> HIDE DEF next
  <2>3. next = "idle" \/ [req[p] EXCEPT !.pc = next] \in OfDomain \cup OfJoin
    BY Zenon, <2>1, <2>2, Successors DEF To
  <2>4. Follows(p, u, next)
    BY <2>1, <2>3, ReqFollows
  <2> QED
    BY Zenon, <2>4 DEF next
<1>3. ASSUME ensure_user_in_base_group(p, u)
      PROVE  Follows(p, u, IF req[p].op = "saml_domain" THEN "bind" ELSE "idle")
  <2> DEFINE next == IF req[p].op = "saml_domain" THEN "bind" ELSE "idle"
  <2>1. u \in req[p].todo /\ req[p].pc = "base_group" /\ Following(p, u, next)
    BY Zenon, <1>3 DEF ensure_user_in_base_group, At
  <2>2. next = "idle" \/ (next = "bind" /\ req[p].op = "saml_domain")
    BY Zenon
  <2> HIDE DEF next
  <2>3. next = "idle" \/ [req[p] EXCEPT !.pc = next] \in OfDomain
    BY Zenon, <2>1, <2>2, Successors DEF To
  <2>4. Follows(p, u, next)
    BY <2>1, <2>3, ReqFollows
  <2> QED
    BY Zenon, <2>4 DEF next
<1> QED
  BY Zenon, <1>1, <1>2, <1>3

(* The other statements: where the request goes.                           *)
LEMMA StatementMoves ==
  ASSUME TypeInv, NEW p \in Requests
  PROVE  /\ bulk_assign_users_to_idp(p) => Goes(p, "base_group")
         /\ unverify_user_emails(p) => Goes(p, "inactivate")
         /\ inactivate_user(p) => IF req[p].op = "assign" THEN Goes(p, "update") ELSE Ends(p)
         /\ update_user_saml_idp(p) =>
              IF req[p].i = req[p].old THEN Ends(p)
              ELSE Goes(p, IF req[p].old = None THEN "base_group" ELSE "leave")
         /\ verify_email(p) =>
              IF req[p].pc = "verify_only" THEN Ends(p) ELSE Goes(p, "set_user_idp") \/ Goes(p, "base_group")
         /\ set_user_idp(p) => Goes(p, "base_group")
         /\ oidc_verify_email(p) => Goes(p, "create_link")
         /\ delete_link_for_user_idp(p) => Goes(p, "list_links")
         /\ list_links_for_user(p) => IF LinksOf(req[p].u) = {} THEN Goes(p, "unverify") ELSE Ends(p)
         /\ count_users_with_idp(p) =>
              IF \E u \in Users : saml_idp_id[u] = req[p].i THEN Ends(p) ELSE Goes(p, "count_domains")
         /\ count_domain_bindings_for_idp(p) => Ends(p) \/ Goes(p, "invalidate")
         /\ invalidate_idp_groups(p) => Goes(p, "delete")
<1>d. Done(p) => Ends(p)
  BY Zenon, ReqEnds DEF Ends
<1>g. ASSUME NEW st, Goto(p, st), To(p, st) \in RequestState,
             req[p].pc \notin {"move", "leave", "base_group"}
      PROVE  Goes(p, st)
  BY Zenon, <1>g, GoesOn DEF Goes
<1>1. bulk_assign_users_to_idp(p) => Goes(p, "base_group")
  BY Zenon, <1>g, Successors DEF bulk_assign_users_to_idp, At
<1>2. unverify_user_emails(p) => Goes(p, "inactivate")
  BY Zenon, <1>g, Successors DEF unverify_user_emails, At
<1>3. inactivate_user(p) => IF req[p].op = "assign" THEN Goes(p, "update") ELSE Ends(p)
  BY Zenon, <1>d, <1>g, Successors DEF inactivate_user, At
<1>4. update_user_saml_idp(p) =>
        IF req[p].i = req[p].old THEN Ends(p)
        ELSE Goes(p, IF req[p].old = None THEN "base_group" ELSE "leave")
  BY Zenon, <1>d, <1>g, Successors DEF update_user_saml_idp, At
<1>5. verify_email(p) =>
        IF req[p].pc = "verify_only" THEN Ends(p) ELSE Goes(p, "set_user_idp") \/ Goes(p, "base_group")
  BY Zenon, <1>d, <1>g, Successors DEF verify_email, At
<1>6. set_user_idp(p) => Goes(p, "base_group")
  BY Zenon, <1>g, Successors DEF set_user_idp, At
<1>7. oidc_verify_email(p) => Goes(p, "create_link")
  BY Zenon, <1>g, Successors DEF oidc_verify_email, At
<1>8. delete_link_for_user_idp(p) => Goes(p, "list_links")
  BY Zenon, <1>g, Successors DEF delete_link_for_user_idp, At
<1>9. list_links_for_user(p) => IF LinksOf(req[p].u) = {} THEN Goes(p, "unverify") ELSE Ends(p)
  BY Zenon, <1>d, <1>g, Successors DEF list_links_for_user, At
<1>10. count_users_with_idp(p) =>
         IF \E u \in Users : saml_idp_id[u] = req[p].i THEN Ends(p) ELSE Goes(p, "count_domains")
  BY Zenon, <1>d, <1>g, Successors DEF count_users_with_idp, At
<1>11. count_domain_bindings_for_idp(p) => Ends(p) \/ Goes(p, "invalidate")
  BY Zenon, <1>d, <1>g, Successors DEF count_domain_bindings_for_idp, At
<1>12. invalidate_idp_groups(p) => Goes(p, "delete")
  BY Zenon, <1>g, Successors DEF invalidate_idp_groups, At
<1> QED
  BY Zenon, <1>1, <1>2, <1>3, <1>4, <1>5, <1>6, <1>7, <1>8, <1>9, <1>10, <1>11, <1>12

(* The statements a request ends with.                                     *)
LEMMA LastStatements ==
  ASSUME TypeInv, NEW p \in Requests,
         \/ bind_domain(p) \/ scim_set_user_idp(p) \/ bulk_set_user_idp(p) \/ delete_idp_row(p)
         \/ delete_connection_row(p) \/ bind_connection(p) \/ create_link(p) \/ Refused(p) \/ Crash(p)
  PROVE  Ends(p)
<1>1. Done(p)
  BY Zenon DEF bind_domain, scim_set_user_idp, bulk_set_user_idp, delete_idp_row, delete_connection_row,
         bind_connection, create_link, Refused, Crash
<1> QED
  BY Zenon, <1>1, ReqEnds DEF Ends

(* What the record of a request names.                                     *)
LEMMA Named ==
  ASSUME TypeInv, NEW p \in Requests
  PROVE  /\ req[p].pc \in {"bulk_assign", "move", "base_group", "bind", "set_user_idp", "scim_set"} =>
              req[p].i \in Idps /\ req[p].op \in SamlOps
         /\ req[p].pc \in {"leave", "update", "bulk_set"} => req[p].i \in AnIdp /\ req[p].op \in SamlOps
         /\ req[p].pc = "bind" => req[p].d \in Domains
         /\ req[p].pc \in {"update", "set_user_idp", "scim_set", "bulk_set"} => req[p].us = {req[p].u}
         /\ req[p].pc \in {"count_users", "count_domains", "invalidate", "delete"} =>
              req[p].i \in Idps /\ req[p].op = "provider"
         /\ req[p].pc = "delete_connection" => req[p].i \in Connections /\ req[p].op = "provider"
         /\ req[p].pc \in {"create_link", "delete_link", "list_links"} => req[p].i \in Connections
         /\ req[p].pc \in {"delete_link", "list_links"} => req[p].op = "unlink"
         /\ req[p].pc \in {"update", "set_user_idp", "scim_set", "bulk_set", "unverify", "inactivate",
                           "verify", "verify_only", "oidc_verify", "create_link", "delete_link",
                           "list_links"} => req[p].u \in Users
<1>n. None \notin Users
  BY Zenon, IdpConstants
<1>h. req[p].op # "saml_domain" => req[p].us = {req[p].u} \ {None}
  BY Zenon DEF TypeInv, InHand
<1>1. /\ req[p] \in OfDomain => req[p].i \in Idps /\ req[p].op \in SamlOps /\ req[p].d \in Domains
      /\ req[p] \in OfJoin => req[p].i \in Idps /\ req[p].op \in SamlOps
  BY Zenon DEF OfDomain, OfJoin, Req, SamlOps
<1>2. /\ req[p] \in OfAssign =>
           /\ req[p].i \in AnIdp /\ req[p].op \in SamlOps /\ req[p].op # "saml_domain" /\ req[p].u \in Users
      /\ req[p] \in OfBulk =>
           /\ req[p].i \in AnIdp /\ req[p].op \in SamlOps /\ req[p].op # "saml_domain" /\ req[p].u \in Users
  BY Zenon DEF OfAssign, OfBulk, Req, SamlOps
<1>3. /\ req[p] \in OfSignIn =>
           /\ req[p].i \in Idps /\ req[p].op \in SamlOps /\ req[p].op # "saml_domain" /\ req[p].u \in Users
      /\ req[p] \in OfScim =>
           /\ req[p].i \in Idps /\ req[p].op \in SamlOps /\ req[p].op # "saml_domain" /\ req[p].u \in Users
  BY Zenon DEF OfSignIn, OfScim, Req, SamlOps
<1>4. /\ req[p] \in OfDelete => req[p].i \in Idps /\ req[p].op = "provider"
      /\ req[p] \in OfConnection => req[p].i \in Connections /\ req[p].op = "provider"
      /\ req[p] \in OfRemoval => req[p].u \in Users
      /\ req[p] \in OfLink => req[p].u \in Users /\ req[p].i \in Connections
      /\ req[p] \in OfUnlink => req[p].u \in Users /\ req[p].i \in Connections /\ req[p].op = "unlink"
  BY Zenon DEF OfDelete, OfConnection, OfRemoval, OfLink, OfUnlink, Req
<1>a. Idps \subseteq AnIdp
  BY Zenon DEF AnIdp
<1>5. /\ req[p].pc \in {"bulk_assign", "move", "base_group", "bind", "set_user_idp", "scim_set"} =>
           req[p].i \in Idps /\ req[p].op \in SamlOps
      /\ req[p].pc \in {"leave", "update", "bulk_set"} => req[p].i \in AnIdp /\ req[p].op \in SamlOps
      /\ req[p].pc = "bind" => req[p].d \in Domains
  BY Zenon, <1>a, <1>1, <1>2, <1>3, Holds
<1>6. req[p].pc \in {"update", "set_user_idp", "scim_set", "bulk_set"} =>
        req[p].us = {req[p].u} /\ req[p].u \in Users
  BY Zenon, <1>n, <1>h, <1>2, <1>3, Holds
<1>7. /\ req[p].pc \in {"count_users", "count_domains", "invalidate", "delete"} =>
           req[p].i \in Idps /\ req[p].op = "provider"
      /\ req[p].pc = "delete_connection" => req[p].i \in Connections /\ req[p].op = "provider"
      /\ req[p].pc \in {"create_link", "delete_link", "list_links"} => req[p].i \in Connections
      /\ req[p].pc \in {"delete_link", "list_links"} => req[p].op = "unlink"
      /\ req[p].pc \in {"unverify", "inactivate", "verify", "verify_only", "oidc_verify", "create_link",
                        "delete_link", "list_links"} => req[p].u \in Users
  BY Zenon, <1>3, <1>4, Holds
<1> QED
  BY Zenon, <1>5, <1>6, <1>7

(* Assignments as the tables show them.                                    *)
LEMMA AssignedEffect ==
  ASSUME TypeInv, NEW us, NEW i \in AnIdp, Assigned(us, i)
  PROVE  /\ saml_idp_id' \in [Users -> AnIdp]
         /\ \A u \in Users : saml_idp_id'[u] = IF u \in us THEN i ELSE saml_idp_id[u]
  BY Zenon DEF TypeInv, Assigned

-----------------------------------------------------------------------------
(* Types.                                                                  *)

RowTypes ==
    /\ provider \in [Providers -> {"enabled", "disabled", "gone"}]
    /\ samlBinding \in [Domains -> AnIdp]
    /\ saml_idp_id \in [Users -> AnIdp]
    /\ links \subseteq Users \X Connections
    /\ verified \subseteq Users
    /\ members \subseteq Users \X Idps

LEMMA TypeKeeps ==
  ASSUME NEW p \in Requests, OnlyReq(p), RowTypes'
  PROVE  TypeInv'
  BY Zenon DEF OnlyReq, RowTypes, TypeInv

(* A request that takes a step.                                            *)
LEMMA ContinueTypes ==
  ASSUME TypeInv, NEW p \in Requests, Continue(p)
  PROVE  OnlyReq(p) /\ RowTypes'
<1>r. RowTypes
  BY Zenon DEF TypeInv, RowTypes
<1>1. CASE \/ bind_users(p) \/ list_links_for_user(p) \/ count_users_with_idp(p)
           \/ count_domain_bindings_for_idp(p) \/ Refused(p) \/ Crash(p)
  <2>1. OnlyReq(p)
    BY Zenon, <1>1, BindUsersEffect, StatementMoves, LastStatements DEF Ends, Goes
  <2>2. UNCHANGED rowVars
    BY Zenon, <1>1 DEF bind_users, list_links_for_user, count_users_with_idp, count_domain_bindings_for_idp,
                Refused, Crash
  <2> QED
    BY Zenon, <1>r, <2>1, <2>2 DEF rowVars, RowTypes
<1>2. CASE \/ bulk_assign_users_to_idp(p) \/ update_user_saml_idp(p) \/ set_user_idp(p)
           \/ scim_set_user_idp(p) \/ bulk_set_user_idp(p)
           \/ \E u \in Users : update_user_saml_idp_moving(p, u)
  <2>1. OnlyReq(p)
    BY Zenon, <1>2, StatementMoves, LastStatements, FollowEffect DEF Ends, Goes, Follows
  <2>2. PICK us : Assigned(us, req[p].i)
    BY Zenon, <1>2 DEF bulk_assign_users_to_idp, update_user_saml_idp, set_user_idp, scim_set_user_idp,
                bulk_set_user_idp, update_user_saml_idp_moving
  <2>3. req[p].i \in AnIdp
    BY Zenon, <1>2, Named DEF bulk_assign_users_to_idp, update_user_saml_idp, set_user_idp, scim_set_user_idp,
                bulk_set_user_idp, update_user_saml_idp_moving, At, AnIdp
  <2>4. UNCHANGED <<provider, samlBinding, links, verified, members>>
    BY Zenon, <1>2 DEF bulk_assign_users_to_idp, update_user_saml_idp, set_user_idp, scim_set_user_idp,
                bulk_set_user_idp, update_user_saml_idp_moving
  <2>5. saml_idp_id' \in [Users -> AnIdp]
    BY Zenon, <2>2, <2>3, AssignedEffect
  <2> QED
    BY Zenon, <1>r, <2>1, <2>4, <2>5 DEF RowTypes
<1>3. CASE \/ \E u \in Users : remove_user_from_all_idp_groups(p, u)
           \/ invalidate_idp_groups(p)
  <2>1. OnlyReq(p)
    BY Zenon, <1>3, StatementMoves, FollowEffect DEF Goes, Follows
  <2>2. members' \subseteq members /\ UNCHANGED <<provider, samlBinding, saml_idp_id, links, verified>>
    BY Zenon, <1>3 DEF remove_user_from_all_idp_groups, invalidate_idp_groups
  <2> QED
    BY Zenon, <1>r, <2>1, <2>2 DEF RowTypes
<1>4. ASSUME NEW u \in Users, ensure_user_in_base_group(p, u) PROVE OnlyReq(p) /\ RowTypes'
  <2>1. OnlyReq(p)
    BY Zenon, <1>4, FollowEffect DEF Follows
  <2>2. members' = members \cup {<<u, req[p].i>>} /\ req[p].i \in Idps
    BY Zenon, <1>4, Named DEF ensure_user_in_base_group, At
  <2>3. UNCHANGED <<provider, samlBinding, saml_idp_id, links, verified>>
    BY Zenon, <1>4 DEF ensure_user_in_base_group
  <2> QED
    BY <1>r, <2>1, <2>2, <2>3 DEF RowTypes
<1>5. CASE bind_domain(p)
  <2>1. OnlyReq(p)
    BY Zenon, <1>5, LastStatements DEF Ends
  <2>2. samlBinding' = [samlBinding EXCEPT ![req[p].d] = req[p].i] /\ req[p].i \in AnIdp
    BY Zenon, <1>5, Named DEF bind_domain, At, AnIdp
  <2>3. UNCHANGED <<provider, members, saml_idp_id, links, verified>>
    BY Zenon, <1>5 DEF bind_domain
  <2> QED
    BY Zenon, <1>r, <2>1, <2>2, <2>3 DEF RowTypes
<1>6. CASE unverify_user_emails(p) \/ verify_email(p) \/ oidc_verify_email(p)
  <2>1. OnlyReq(p)
    BY Zenon, <1>6, StatementMoves DEF Ends, Goes
  <2>2. req[p].u \in Users
    BY Zenon, <1>6, Named DEF unverify_user_emails, verify_email, oidc_verify_email, At
  <2>3. verified' \subseteq verified \cup {req[p].u}
    BY Zenon, <1>6 DEF unverify_user_emails, verify_email, oidc_verify_email
  <2>4. UNCHANGED <<provider, samlBinding, members, saml_idp_id, links>>
    BY Zenon, <1>6 DEF unverify_user_emails, verify_email, oidc_verify_email
  <2> QED
    BY Zenon, <1>r, <2>1, <2>2, <2>3, <2>4 DEF RowTypes
<1>7. CASE inactivate_user(p) \/ bind_connection(p)
  <2>1. OnlyReq(p)
    BY Zenon, <1>7, StatementMoves, LastStatements DEF Ends, Goes
  <2>2. UNCHANGED <<provider, samlBinding, members, saml_idp_id, links, verified>>
    BY Zenon, <1>7 DEF inactivate_user, bind_connection
  <2> QED
    BY Zenon, <1>r, <2>1, <2>2 DEF RowTypes
<1>8. CASE delete_idp_row(p)
  <2>1. OnlyReq(p)
    BY Zenon, <1>8, LastStatements DEF Ends
  <2>2. provider' \in [Providers -> {"enabled", "disabled", "gone"}]
    BY Zenon, <1>r, <1>8 DEF delete_idp_row, RowTypes
  <2>3. samlBinding' \in [Domains -> AnIdp] /\ saml_idp_id' \in [Users -> AnIdp]
    BY Zenon, <1>r, <1>8 DEF delete_idp_row, RowTypes, AnIdp
  <2>4. members' \subseteq members /\ UNCHANGED <<links, verified>>
    BY Zenon, <1>8 DEF delete_idp_row
  <2> QED
    BY Zenon, <1>r, <2>1, <2>2, <2>3, <2>4 DEF RowTypes
<1>9. CASE delete_connection_row(p)
  <2>1. OnlyReq(p)
    BY Zenon, <1>9, LastStatements DEF Ends
  <2>2. provider' \in [Providers -> {"enabled", "disabled", "gone"}]
    BY Zenon, <1>r, <1>9 DEF delete_connection_row, RowTypes
  <2>3. links' \subseteq links /\ UNCHANGED <<samlBinding, saml_idp_id, members, verified>>
    BY Zenon, <1>9 DEF delete_connection_row
  <2> QED
    BY Zenon, <1>r, <2>1, <2>2, <2>3 DEF RowTypes
<1>10. CASE create_link(p) \/ delete_link_for_user_idp(p)
  <2>1. OnlyReq(p)
    BY Zenon, <1>10, StatementMoves, LastStatements DEF Ends, Goes
  <2>2. /\ links' \subseteq links \cup {<<req[p].u, req[p].i>>}
        /\ UNCHANGED <<provider, samlBinding, saml_idp_id, members, verified>>
    BY Zenon, <1>10 DEF create_link, delete_link_for_user_idp, Unlinked
  <2>3. req[p].u \in Users /\ req[p].i \in Connections
    BY Zenon, <1>10, Named DEF create_link, delete_link_for_user_idp, At
  <2> QED
    BY <1>r, <2>1, <2>2, <2>3 DEF RowTypes
<1> QED
  BY Zenon, <1>1, <1>2, <1>3, <1>4, <1>5, <1>6, <1>7, <1>8, <1>9, <1>10 DEF Continue

(* Operations of one write.                                                *)
LEMMA InstantTypes ==
  ASSUME TypeInv, Instant
  PROVE  /\ TypeInv' /\ UNCHANGED <<req, links, saml_idp_id, members, bypassed>>
         /\ \A i \in Providers : Exists(i)' <=> Exists(i)
         /\ \/ UNCHANGED <<active, dropped>>
            \/ \E u \in Users : active' = active \cup {u} /\ dropped' = dropped \ {u}
<1>1. ASSUME NEW d \in Domains, unbind_domain_from_idp(d) \/ unbind_domain_from_connection(d)
      PROVE  /\ UNCHANGED <<req, links, saml_idp_id, members, bypassed, active, dropped, provider, verified>>
             /\ samlBinding' \in [Domains -> AnIdp]
  BY Zenon, <1>1 DEF unbind_domain_from_idp, unbind_domain_from_connection, TypeInv, AnIdp
<1>2. ASSUME NEW u \in Users, reactivate_user(u)
      PROVE  /\ UNCHANGED <<req, links, saml_idp_id, members, bypassed, provider, verified, samlBinding>>
             /\ active' = active \cup {u} /\ dropped' = dropped \ {u}
  BY Zenon, <1>2 DEF reactivate_user
<1>3. ASSUME NEW i \in Providers, set_idp_enabled(i)
      PROVE  /\ UNCHANGED <<req, links, saml_idp_id, members, bypassed, active, dropped, verified, samlBinding>>
             /\ provider' \in [Providers -> {"enabled", "disabled", "gone"}]
             /\ \A j \in Providers : Exists(j)' <=> Exists(j)
  BY Zenon, <1>3 DEF set_idp_enabled, TypeInv, Exists
<1>4. CASE \E d \in Domains : unbind_domain_from_idp(d) \/ unbind_domain_from_connection(d)
  BY Zenon, <1>1, <1>4 DEF TypeInv, Exists
<1>5. CASE \E u \in Users : reactivate_user(u)
  BY Zenon, <1>2, <1>5 DEF TypeInv, Exists
<1>6. CASE \E i \in Providers : set_idp_enabled(i)
  BY Zenon, <1>3, <1>6 DEF TypeInv
<1> QED
  BY Zenon, <1>4, <1>5, <1>6 DEF Instant

LEMMA TypeStep ==
  ASSUME TypeInv, [Next]_vars
  PROVE  TypeInv'
<1>1. ASSUME NEW p \in Requests, Begin(p) PROVE TypeInv'
  <2>1. OnlyReq(p) /\ UNCHANGED rowVars
    BY Zenon, <1>1, BeginEffect DEF BeginFacts
  <2>2. RowTypes'
    BY Zenon, <2>1 DEF rowVars, RowTypes, TypeInv
  <2> QED
    BY Zenon, <2>1, <2>2, TypeKeeps
<1>2. ASSUME NEW p \in Requests, Continue(p) PROVE TypeInv'
  BY Zenon, <1>2, ContinueTypes, TypeKeeps
<1>3. CASE Instant
  BY Zenon, <1>3, InstantTypes
<1>4. CASE UNCHANGED vars
  BY Zenon, <1>4 DEF vars, rowVars, TypeInv
<1> QED
  BY Zenon, <1>1, <1>2, <1>3, <1>4 DEF Next

LEMMA InitTypes ==
  ASSUME Init
  PROVE  TypeInv
<1>1. Idle \in RequestState /\ InHand(Idle)
  BY Zenon DEF RequestState, InHand, Idle
<1> QED
  BY Zenon, <1>1 DEF Init, TypeInv, AnIdp

-----------------------------------------------------------------------------
(* The last unlink.                                                        *)

(* The statements of an unlink that has deleted the link.                  *)
Dropping == {"list_links", "unverify", "inactivate"}

Closing(p, u) == req[p].op = "unlink" /\ req[p].u = u /\ req[p].pc \in Dropping

(* A user whose last link was unlinked has no link, and is inactive or     *)
(* about to be: the unlink that found the last link is under way.          *)
DropInv ==
    \A u \in dropped : /\ LinksOf(u) = {}
                       /\ u \in active => \E p \in Requests : Closing(p, u)

(* A step that leaves accounts and links alone, of a request that is not   *)
(* closing one.                                                            *)
LEMMA DropKeeps ==
  ASSUME DropInv, NEW p \in Requests, OnlyReq(p), UNCHANGED <<links, active, dropped>>,
         \A u \in dropped : Closing(p, u) => Closing(p, u)'
  PROVE  DropInv'
<1>1. ASSUME NEW u \in dropped, u \in active, NEW q \in Requests, Closing(q, u) PROVE Closing(q, u)'
  BY Zenon, <1>1 DEF OnlyReq, Closing
<1> QED
  BY Zenon, <1>1 DEF DropInv, LinksOf

LEMMA DropStep ==
  ASSUME CrashPoints \cap Dropping = {}, TypeInv, DropInv, [Next]_vars
  PROVE  DropInv'
<1>i. Idle.pc \notin Dropping
  BY Zenon DEF Idle, Dropping
<1>n. ASSUME NEW p \in Requests, OnlyReq(p), UNCHANGED <<links, active, dropped>>, req[p].pc \notin Dropping
      PROVE  DropInv'
  BY Zenon, <1>n, DropKeeps DEF Closing
<1>1. ASSUME NEW p \in Requests, Begin(p) PROVE DropInv'
  BY Zenon, <1>1, <1>n, <1>i, BeginEffect DEF BeginFacts, rowVars
<1>2. ASSUME NEW p \in Requests,
             \/ bind_users(p) \/ bulk_assign_users_to_idp(p) \/ bind_domain(p)
             \/ \E u \in Users : \/ update_user_saml_idp_moving(p, u)
                                 \/ remove_user_from_all_idp_groups(p, u)
                                 \/ ensure_user_in_base_group(p, u)
      PROVE  DropInv'
  <2>1. OnlyReq(p)
    BY Zenon, <1>2, ContinueTypes DEF Continue
  <2>2. UNCHANGED <<links, active, dropped>> /\ req[p].pc \notin Dropping
    BY Zenon, <1>2 DEF bind_users, bulk_assign_users_to_idp, bind_domain, update_user_saml_idp_moving,
                remove_user_from_all_idp_groups, ensure_user_in_base_group, rowVars, At, Dropping
  <2> QED
    BY Zenon, <1>n, <2>1, <2>2
<1>3. ASSUME NEW p \in Requests,
             \/ update_user_saml_idp(p) \/ verify_email(p) \/ set_user_idp(p) \/ scim_set_user_idp(p)
             \/ bulk_set_user_idp(p) \/ count_users_with_idp(p) \/ count_domain_bindings_for_idp(p)
             \/ invalidate_idp_groups(p) \/ delete_idp_row(p) \/ bind_connection(p) \/ oidc_verify_email(p)
             \/ Refused(p) \/ Crash(p)
      PROVE  DropInv'
  <2>1. OnlyReq(p)
    BY Zenon, <1>3, ContinueTypes DEF Continue
  <2>2. CASE \/ update_user_saml_idp(p) \/ verify_email(p) \/ set_user_idp(p) \/ scim_set_user_idp(p)
             \/ bulk_set_user_idp(p) \/ count_users_with_idp(p) \/ count_domain_bindings_for_idp(p)
    <3>1. UNCHANGED <<links, active, dropped>> /\ req[p].pc \notin Dropping
      BY Zenon, <2>2 DEF update_user_saml_idp, verify_email, set_user_idp, scim_set_user_idp, bulk_set_user_idp,
                  count_users_with_idp, count_domain_bindings_for_idp, rowVars, At, Dropping
    <3> QED
      BY Zenon, <1>n, <2>1, <3>1
  <2>3. CASE \/ invalidate_idp_groups(p) \/ delete_idp_row(p) \/ bind_connection(p) \/ oidc_verify_email(p)
             \/ Refused(p) \/ Crash(p)
    <3>1. UNCHANGED <<links, active, dropped>> /\ req[p].pc \notin Dropping
      BY Zenon, <2>3 DEF invalidate_idp_groups, delete_idp_row, bind_connection, oidc_verify_email, Refused, Crash,
                  rowVars, At, Dropping
    <3> QED
      BY Zenon, <1>n, <2>1, <3>1
  <2> QED
    BY Zenon, <1>3, <2>2, <2>3
<1>4. ASSUME NEW p \in Requests, unverify_user_emails(p) PROVE DropInv'
  <2>1. Goes(p, "inactivate") /\ UNCHANGED <<links, active, dropped>>
    BY Zenon, <1>4, StatementMoves DEF unverify_user_emails
  <2> QED
    BY Zenon, <2>1, DropKeeps DEF Goes, SameSubject, Closing, Dropping
<1>5. ASSUME NEW p \in Requests, inactivate_user(p) PROVE DropInv'
  <2>1. OnlyReq(p) /\ active' = active \ {req[p].u} /\ UNCHANGED <<links, dropped>>
    BY Zenon, <1>5, StatementMoves DEF inactivate_user, Goes, Ends
  <2>2. ASSUME NEW u \in dropped, u \in active' PROVE \E q \in Requests : Closing(q, u)'
    <3>1. PICK q \in Requests : Closing(q, u)
      BY Zenon, <2>1, <2>2 DEF DropInv
    <3>2. q # p
      BY Zenon, <2>1, <2>2, <3>1 DEF Closing
    <3> QED
      BY Zenon, <2>1, <3>1, <3>2 DEF OnlyReq, Closing
  <2> QED
    BY Zenon, <2>1, <2>2 DEF DropInv, LinksOf
<1>6. ASSUME NEW p \in Requests, list_links_for_user(p) PROVE DropInv'
  <2>1. UNCHANGED <<links, active, dropped>>
    BY Zenon, <1>6 DEF list_links_for_user, rowVars
  <2>2. IF LinksOf(req[p].u) = {} THEN Goes(p, "unverify") ELSE Ends(p)
    BY Zenon, <1>6, StatementMoves
  <2>3. \A u \in dropped : Closing(p, u) => Goes(p, "unverify")
    BY Zenon, <2>2 DEF DropInv, Closing
  <2>4. \A u \in dropped : Closing(p, u) => Closing(p, u)'
    BY Zenon, <2>3 DEF Goes, SameSubject, Closing, Dropping
  <2>5. OnlyReq(p)
    BY Zenon, <2>2 DEF Goes, Ends
  <2> QED
    BY Zenon, <2>1, <2>4, <2>5, DropKeeps
<1>7. ASSUME NEW p \in Requests, delete_link_for_user_idp(p) PROVE DropInv'
  <2>0. PICK v \in Users : v = req[p].u
    BY Zenon, <1>7, Named DEF delete_link_for_user_idp, At
  <2> DEFINE l == <<v, req[p].i>>
  <2>1. /\ links' = links \ {l} /\ active' = active
        /\ dropped' = IF LinksOf(v) = {l} THEN dropped \cup {v} ELSE dropped
    BY Zenon, <1>7, <2>0 DEF delete_link_for_user_idp, Unlinked
  <2>2. Goes(p, "list_links") /\ req[p].op = "unlink" /\ req[p].pc = "delete_link"
    BY Zenon, <1>7, StatementMoves, Named DEF delete_link_for_user_idp, At
  <2>3. OnlyReq(p) /\ Closing(p, v)'
    BY Zenon, <2>0, <2>2 DEF Goes, SameSubject, Closing, Dropping
  <2>4. ASSUME NEW u \in dropped'
        PROVE  LinksOf(u)' = {} /\ (u \in active' => \E q \in Requests : Closing(q, u)')
    <3>1. CASE u \in dropped
      <4>1. LinksOf(u)' = {}
        BY Zenon, <2>1, <3>1 DEF DropInv, LinksOf
      <4>2. ASSUME u \in active PROVE \E q \in Requests : Closing(q, u)'
        <5>1. PICK q \in Requests : Closing(q, u)
          BY Zenon, <3>1, <4>2 DEF DropInv
        <5>2. q # p
          BY Zenon, <2>2, <5>1 DEF Closing, Dropping
        <5> QED
          BY Zenon, <2>3, <5>1, <5>2 DEF OnlyReq, Closing
      <4> QED
        BY Zenon, <2>1, <4>1, <4>2
    <3>2. CASE u \notin dropped
      <4>1. u = v /\ LinksOf(v) = {l}
        BY Zenon, <2>1, <2>4, <3>2
      <4>2. LinksOf(v)' = {}
        BY Zenon, <2>1, <4>1 DEF LinksOf
      <4> QED
        BY Zenon, <2>3, <4>1, <4>2
    <3> QED
      BY Zenon, <3>1, <3>2
  <2> QED
    BY Zenon, <2>4 DEF DropInv
<1>8. ASSUME NEW p \in Requests, create_link(p) PROVE DropInv'
  <2>1. /\ links' = links \cup {<<req[p].u, req[p].i>>} /\ dropped' = dropped \ {req[p].u}
        /\ active' = active /\ req[p].pc = "create_link"
    BY Zenon, <1>8 DEF create_link, At
  <2>2. OnlyReq(p)
    BY Zenon, <1>8, LastStatements DEF Ends
  <2>3. ASSUME NEW u \in dropped'
        PROVE  LinksOf(u)' = {} /\ (u \in active' => \E q \in Requests : Closing(q, u)')
    <3>1. u \in dropped /\ u # req[p].u
      BY Zenon, <2>1, <2>3
    <3>2. LinksOf(u)' = {}
      BY <2>1, <3>1 DEF DropInv, LinksOf
    <3>3. ASSUME u \in active PROVE \E q \in Requests : Closing(q, u)'
      <4>1. PICK q \in Requests : Closing(q, u)
        BY Zenon, <3>1, <3>3 DEF DropInv
      <4>2. q # p
        BY Zenon, <2>1, <4>1 DEF Closing, Dropping
      <4> QED
        BY Zenon, <2>2, <4>1, <4>2 DEF OnlyReq, Closing
    <3> QED
      BY Zenon, <2>1, <3>2, <3>3
  <2> QED
    BY Zenon, <2>3 DEF DropInv
<1>9. ASSUME NEW p \in Requests, delete_connection_row(p) PROVE DropInv'
  <2>1. links' \subseteq links /\ UNCHANGED <<active, dropped>> /\ req[p].pc = "delete_connection"
    BY Zenon, <1>9 DEF delete_connection_row, At
  <2>2. OnlyReq(p)
    BY Zenon, <1>9, LastStatements DEF Ends
  <2>3. ASSUME NEW u \in Users, NEW q \in Requests, Closing(q, u) PROVE Closing(q, u)'
    BY Zenon, <2>1, <2>2, <2>3 DEF OnlyReq, Closing, Dropping
  <2>4. \A u \in dropped : LinksOf(u)' = {}
    BY Zenon, <2>1 DEF DropInv, LinksOf
  <2>5. \A u \in dropped, q \in Requests : Closing(q, u) => Closing(q, u)'
    BY Zenon, <2>1, <2>2 DEF OnlyReq, Closing, Dropping
  <2> QED
    BY Zenon, <2>1, <2>4, <2>5 DEF DropInv
<1>10. CASE Instant
  <2>1. \/ UNCHANGED <<active, dropped>>
        \/ \E u \in Users : active' = active \cup {u} /\ dropped' = dropped \ {u}
    BY Zenon, <1>10, InstantTypes
  <2>2. UNCHANGED <<req, links>>
    BY Zenon, <1>10, InstantTypes
  <2> QED
    BY <2>1, <2>2 DEF DropInv, LinksOf, Closing
<1>11. CASE UNCHANGED vars
  BY Zenon, <1>11 DEF vars, rowVars, DropInv, LinksOf, Closing
<1>c. ASSUME NEW p \in Requests, Continue(p) PROVE DropInv'
  BY Zenon, <1>c, <1>2, <1>3, <1>4, <1>5, <1>6, <1>7, <1>8, <1>9 DEF Continue
<1> QED
  BY Zenon, <1>1, <1>c, <1>10, <1>11 DEF Next

(* Unlinking the last link of a user deactivates the account               *)
(* (unlink_user_from_connection), for any number of users, connections and *)
(* overlapping requests, as long as no unlink that has deleted a link dies *)
(* before it has deactivated the account.                                  *)
THEOREM LastUnlink ==
  ASSUME CrashPoints \cap Dropping = {}
  PROVE  Spec => []LastUnlinkDeactivates
<1>1. Init => TypeInv /\ DropInv
  <2>1. Init => DropInv
    BY Zenon DEF Init, DropInv
  <2> QED
    BY Zenon, <2>1, InitTypes
<1>2. TypeInv /\ DropInv /\ [Next]_vars => TypeInv' /\ DropInv'
  BY Zenon, TypeStep, DropStep
<1>3. TypeInv /\ DropInv => LastUnlinkDeactivates
  <2> SUFFICES ASSUME DropInv, Quiet, NEW u \in dropped, u \in active PROVE FALSE
    BY Zenon DEF LastUnlinkDeactivates
  <2>1. PICK p \in Requests : Closing(p, u)
    BY Zenon DEF DropInv
  <2> QED
    BY <2>1 DEF Quiet, Closing, Dropping, Idle
<1> QED
  BY <1>1, <1>2, <1>3, PTL DEF Spec

-----------------------------------------------------------------------------
(* Base groups, when requests about the same thing come one after another. *)

(* The request still has to put the user into the group of the IdP it has  *)
(* assigned the user to.                                                   *)
Owes(p, u) ==
    /\ req[p].i = saml_idp_id[u] /\ u \in req[p].us
    /\ \/ req[p].pc = "base_group" /\ u \in req[p].todo
       \/ req[p].pc = "leave"
       \/ req[p].pc = "move" /\ u \notin req[p].todo

(* What a request relies on while it runs: the users it has moved are      *)
(* still where it put them, an assignment still starts from the IdP it     *)
(* read, nobody is assigned to an IdP under deletion once that was         *)
(* checked, and the IdP a request names exists.                            *)
Own(p) ==
    /\ req[p].pc = "leave" => \A u \in req[p].us : saml_idp_id[u] = req[p].i
    /\ req[p].pc = "move" => \A u \in req[p].us \ req[p].todo : saml_idp_id[u] = req[p].i
    /\ req[p].op = "assign" /\ req[p].pc \in {"unverify", "inactivate", "update"} =>
         saml_idp_id[req[p].u] = req[p].old
    /\ req[p].pc \in {"count_domains", "invalidate", "delete"} =>
         \A u \in Users : saml_idp_id[u] # req[p].i
    /\ req[p].op \in SamlOps /\ req[p].i # None => Exists(req[p].i)

MemberInv ==
    /\ \A u \in Users \ bypassed : saml_idp_id[u] # None =>
         <<u, saml_idp_id[u]>> \in members \/ \E p \in Requests : Owes(p, u)
    /\ \A m \in members : Exists(m[2])
    /\ \A p \in Requests : Own(p)
    /\ Apart

LEMMA IdleFacts == Idle.pc = "idle" /\ Idle.i = None /\ Idle.us = {} /\ Idle.todo = {}
  BY Zenon DEF Idle

(* Requests about SAML name SAML IdPs.                                     *)
LEMMA SamlNamed ==
  ASSUME TypeInv, NEW p \in Requests, req[p] # Idle, req[p].op \in SamlOps
  PROVE  req[p].i \in AnIdp
<1>1. \/ req[p] \in OfDomain \/ req[p] \in OfRemoval \/ req[p] \in OfAssign
      \/ req[p] \in OfJoin \/ req[p] \in OfSignIn \/ req[p] \in OfScim \/ req[p] \in OfBulk
      \/ req[p] \in OfDelete \/ req[p] \in OfConnection \/ req[p] \in OfBinding
      \/ req[p] \in OfLink \/ req[p] \in OfUnlink
  BY DEF TypeInv, RequestState
<1>2. /\ \A r \in OfDomain : r.i \in AnIdp
      /\ \A r \in OfRemoval : r.i \in AnIdp
      /\ \A r \in OfAssign : r.i \in AnIdp
      /\ \A r \in OfJoin : r.i \in AnIdp
      /\ \A r \in OfSignIn : r.i \in AnIdp
      /\ \A r \in OfScim : r.i \in AnIdp
      /\ \A r \in OfBulk : r.i \in AnIdp
  BY Zenon DEF OfDomain, OfRemoval, OfAssign, OfJoin, OfSignIn, OfScim, OfBulk, Req, AnIdp
<1>3. /\ \A r \in OfDelete : r.op \notin SamlOps
      /\ \A r \in OfConnection : r.op \notin SamlOps
      /\ \A r \in OfBinding : r.op \notin SamlOps
      /\ \A r \in OfLink : r.op \notin SamlOps
      /\ \A r \in OfUnlink : r.op \notin SamlOps
  BY Zenon DEF OfDelete, OfConnection, OfBinding, OfLink, OfUnlink, Req, SamlOps
<1> QED
  BY Zenon, <1>1, <1>2, <1>3

(* Requests apart: a request about SAML shares neither a user nor an IdP   *)
(* with another request.                                                   *)
LEMMA Separate ==
  ASSUME TypeInv, Apart, NEW p \in Requests, NEW q \in Requests, p # q,
         req[p] # Idle, req[p].op \in SamlOps, req[q] # Idle
  PROVE  /\ req[p].us \cap req[q].us = {}
         /\ req[p].i = req[q].i => req[p].i = None
<1>1. \/ Subjects(p) \cap Subjects(q) = {}
      \/ {req[p].op, req[q].op} \subseteq {"unlink", "oidc_sign_in"}
      \/ {req[p].op, req[q].op} = {"oidc_domain", "provider"}
  BY Zenon DEF Apart
<1>2. Subjects(p) \cap Subjects(q) = {}
  <2>1. req[p].op \notin {"unlink", "oidc_sign_in", "oidc_domain", "provider"}
    BY Zenon DEF SamlOps
  <2>2. req[p].op \in {req[p].op, req[q].op}
    BY Zenon
  <2> QED
    BY Zenon, <1>1, <2>1, <2>2
<1>3. /\ req[p].us \subseteq Subjects(p) /\ req[q].us \subseteq Subjects(q)
      /\ req[p].i # None => req[p].i \in Subjects(p)
      /\ req[q].i # None => req[q].i \in Subjects(q)
  BY Zenon DEF Subjects
<1> QED
  BY Zenon, <1>2, <1>3

(* What a request relies on survives the step of another request: users    *)
(* are reassigned only by the request that has them in hand, and IdPs      *)
(* deleted only by the request about them.                                 *)
LEMMA OthersKeep ==
  ASSUME TypeInv, MemberInv, NEW p \in Requests, OnlyReq(p), NEW q \in Requests, q # p,
         \A u \in Users : saml_idp_id'[u] # saml_idp_id[u] =>
            /\ req[p] # Idle /\ req[p].op \in SamlOps
            /\ u \in req[p].us /\ saml_idp_id'[u] = req[p].i,
         \A i \in Idps : Exists(i) /\ ~Exists(i)' => req[p] # Idle /\ req[p].i = i
  PROVE  Own(q)'
<1>a. Own(q) /\ Apart /\ req'[q] = req[q]
  BY Zenon DEF MemberInv, OnlyReq
<1>u. req[q].us \subseteq Users
  <2>1. req[q] \in Request
    BY Zenon, StatesAreRequests DEF TypeInv
  <2> QED
    BY Zenon, <2>1 DEF Request
<1>1. CASE req[q] = Idle
  BY Zenon, <1>a, <1>1, IdleFacts DEF Own
<1>2. CASE req[q] # Idle
  <2>1. \A u \in req[q].us : saml_idp_id'[u] = saml_idp_id[u]
    <3> SUFFICES ASSUME NEW u \in req[q].us, saml_idp_id'[u] # saml_idp_id[u] PROVE FALSE
      BY Zenon
    <3>1. req[p] # Idle /\ req[p].op \in SamlOps /\ u \in req[p].us
      BY Zenon, <1>u
    <3>2. req[p].us \cap req[q].us = {}
      BY Zenon, <1>a, <1>2, <3>1, Separate
    <3> QED
      BY Zenon, <3>1, <3>2
  <2>2. req[q].op = "assign" /\ req[q].pc \in {"unverify", "inactivate", "update"} =>
          req[q].u \in req[q].us
    <3>1. req[q].pc \in {"unverify", "inactivate", "update"} => req[q].u \in Users
      BY Zenon, Named
    <3>2. req[q].op # "saml_domain" => req[q].us = {req[q].u} \ {None}
      BY Zenon DEF TypeInv, InHand
    <3>3. None \notin Users
      BY Zenon, IdpConstants
    <3> QED
      BY Zenon, <3>1, <3>2, <3>3
  <2>3. ASSUME req[q].pc \in {"count_domains", "invalidate", "delete"}, NEW u \in Users
        PROVE  saml_idp_id'[u] # req[q].i
    <3> SUFFICES ASSUME saml_idp_id'[u] = req[q].i PROVE FALSE
      BY Zenon
    <3>1. saml_idp_id[u] # req[q].i
      BY Zenon, <1>a, <2>3 DEF Own
    <3>2. req[p] # Idle /\ req[p].op \in SamlOps /\ req[p].i = req[q].i
      BY Zenon, <3>1
    <3>3. req[p].i = None
      BY Zenon, <1>a, <1>2, <3>2, Separate
    <3>4. req[q].i \in Idps
      BY Zenon, <2>3, Named
    <3> QED
      BY Zenon, <3>2, <3>3, <3>4, IdpConstants DEF Providers
  <2>4. ASSUME req[q].op \in SamlOps, req[q].i # None PROVE Exists(req[q].i)'
    <3>1. req[q].i \in Idps /\ Exists(req[q].i)
      BY Zenon, <1>2, <1>a, <2>4, SamlNamed DEF Own, AnIdp
    <3>2. PICK i \in Idps : i = req[q].i
      BY Zenon, <3>1
    <3>3. ASSUME ~Exists(i)' PROVE FALSE
      <4>1. req[p] # Idle /\ req[p].i = i
        BY Zenon, <3>1, <3>2, <3>3
      <4> QED
        BY Zenon, <1>a, <1>2, <2>4, <3>2, <4>1, Separate
    <3> QED
      BY Zenon, <1>a, <3>2, <3>3
  <2> QED
    BY <1>a, <2>1, <2>2, <2>3, <2>4 DEF Own
<1> QED
  BY Zenon, <1>1, <1>2

(* A step of one request keeps the invariant when it changes assignments   *)
(* of its users only, and owes or gives the membership for what it assigns.*)
LEMMA MemberKeeps ==
  ASSUME TypeInv, MemberInv, Apart', NEW p \in Requests, OnlyReq(p), Own(p)',
         \A u \in Users : saml_idp_id'[u] # saml_idp_id[u] =>
            /\ req[p] # Idle /\ req[p].op \in SamlOps
            /\ u \in req[p].us /\ saml_idp_id'[u] = req[p].i,
         \A i \in Idps : Exists(i) /\ ~Exists(i)' => req[p] # Idle /\ req[p].i = i,
         \A u \in Users \ bypassed' : saml_idp_id'[u] # None =>
            \/ <<u, saml_idp_id'[u]>> \in members'
            \/ Owes(p, u)'
            \/ /\ u \notin bypassed /\ saml_idp_id'[u] = saml_idp_id[u] /\ ~Owes(p, u)
               /\ <<u, saml_idp_id[u]>> \in members => <<u, saml_idp_id[u]>> \in members',
         \A m \in members' : Exists(m[2])'
  PROVE  MemberInv'
<1>1. \A q \in Requests : Own(q)'
  BY Zenon, OthersKeep
<1>2. ASSUME NEW u \in Users \ bypassed', saml_idp_id'[u] # None
      PROVE  <<u, saml_idp_id'[u]>> \in members' \/ \E q \in Requests : Owes(q, u)'
  <2>1. CASE <<u, saml_idp_id'[u]>> \in members' \/ Owes(p, u)'
    BY Zenon, <2>1
  <2>2. CASE /\ u \notin bypassed /\ saml_idp_id'[u] = saml_idp_id[u] /\ ~Owes(p, u)
             /\ <<u, saml_idp_id[u]>> \in members => <<u, saml_idp_id[u]>> \in members'
    <3>1. <<u, saml_idp_id[u]>> \in members \/ \E q \in Requests : Owes(q, u)
      BY Zenon, <1>2, <2>2 DEF MemberInv
    <3>2. ASSUME NEW q \in Requests, Owes(q, u) PROVE Owes(q, u)'
      <4>1. q # p
        BY Zenon, <2>2, <3>2
      <4>2. req'[q] = req[q]
        BY Zenon, <4>1 DEF OnlyReq
      <4> QED
        BY Zenon, <2>2, <3>2, <4>2 DEF Owes
    <3> QED
      BY Zenon, <2>2, <3>1, <3>2
  <2> QED
    BY Zenon, <1>2, <2>1, <2>2
<1> QED
  BY Zenon, <1>1, <1>2 DEF MemberInv

(* A step that leaves assignments and groups alone and still owes all that *)
(* it owed.                                                                *)
LEMMA NeutralKeeps ==
  ASSUME TypeInv, MemberInv, Apart', NEW p \in Requests, OnlyReq(p), Own(p)',
         UNCHANGED <<saml_idp_id, members, bypassed>>,
         \A i \in Idps : Exists(i) => Exists(i)',
         \A u \in Users : Owes(p, u) => Owes(p, u)' \/ saml_idp_id[u] = None
  PROVE  MemberInv'
<1>1. \A m \in members' : Exists(m[2])'
  <2>1. \A m \in members : m[2] \in Idps
    BY Zenon DEF TypeInv
  <2> QED
    BY Zenon, <2>1 DEF MemberInv
<1>2. \A u \in Users \ bypassed' : saml_idp_id'[u] # None =>
        \/ <<u, saml_idp_id'[u]>> \in members'
        \/ Owes(p, u)'
        \/ /\ u \notin bypassed /\ saml_idp_id'[u] = saml_idp_id[u] /\ ~Owes(p, u)
           /\ <<u, saml_idp_id[u]>> \in members => <<u, saml_idp_id[u]>> \in members'
  BY Zenon
<1>3. \A u \in Users : saml_idp_id'[u] = saml_idp_id[u]
  BY Zenon
<1> QED
  BY Zenon, <1>1, <1>2, <1>3, MemberKeeps

(* A request that goes on relies on what it relied on.                     *)
LEMMA GoesOwn ==
  ASSUME NEW p \in Requests, Own(p), NEW st, Goes(p, st),
         UNCHANGED <<saml_idp_id, provider>>, st \notin {"leave", "move"},
         req[p].op = "assign" /\ st \in {"unverify", "inactivate", "update"} =>
            saml_idp_id[req[p].u] = req[p].old,
         st \in {"count_domains", "invalidate", "delete"} => \A u \in Users : saml_idp_id[u] # req[p].i
  PROVE  Own(p)'
  BY Zenon DEF Own, Goes, SameSubject, Exists

LEMMA EndsOwn ==
  ASSUME NEW p \in Requests, Ends(p)
  PROVE  Own(p)'
  BY Zenon, IdleFacts DEF Own, Ends

Owing == {"base_group", "leave", "move"}

(* Requests that owe nothing.                                              *)
LEMMA OwesNothing ==
  ASSUME NEW p \in Requests, req[p].pc \notin Owing
  PROVE  \A u \in Users : ~Owes(p, u)
  BY Zenon DEF Owes, Owing

(* A request that owes nothing ends without writing assignments or groups. *)
LEMMA EndKeeps ==
  ASSUME TypeInv, MemberInv, Apart', NEW p \in Requests, Ends(p), req[p].pc \notin Owing,
         UNCHANGED <<saml_idp_id, members, bypassed>>, \A i \in Idps : Exists(i) => Exists(i)'
  PROVE  MemberInv'
<1>1. Own(p)' /\ OnlyReq(p)
  BY Zenon, EndsOwn DEF Ends
<1>2. \A u \in Users : ~Owes(p, u)
  BY Zenon, OwesNothing
<1> QED
  BY Zenon, <1>1, <1>2, NeutralKeeps

(* A request that owes nothing goes on likewise.                           *)
LEMMA GoKeeps ==
  ASSUME TypeInv, MemberInv, Apart', NEW p \in Requests, NEW st, Goes(p, st), req[p].pc \notin Owing,
         UNCHANGED <<saml_idp_id, members, bypassed, provider>>, st \notin {"leave", "move"},
         req[p].op = "assign" /\ st \in {"unverify", "inactivate", "update"} =>
            saml_idp_id[req[p].u] = req[p].old,
         st \in {"count_domains", "invalidate", "delete"} => \A u \in Users : saml_idp_id[u] # req[p].i
  PROVE  MemberInv'
<1>1. Own(p)
  BY Zenon DEF MemberInv
<1>2. Own(p)' /\ OnlyReq(p)
  BY Zenon, <1>1, GoesOwn DEF Goes
<1>3. \A u \in Users : ~Owes(p, u)
  BY Zenon, OwesNothing
<1>4. \A i \in Idps : Exists(i) => Exists(i)'
  BY Zenon DEF Exists
<1> QED
  BY Zenon, <1>2, <1>3, <1>4, NeutralKeeps

(* Requests that begin, and the statements that write neither assignments  *)
(* nor groups.                                                             *)
LEMMA NeutralStep ==
  ASSUME CrashPoints \cap Owing = {}, TypeInv, MemberInv, Apart', NEW p \in Requests,
         \/ Begin(p) \/ bind_users(p) \/ bind_domain(p) \/ unverify_user_emails(p) \/ inactivate_user(p)
         \/ verify_email(p) \/ count_users_with_idp(p) \/ count_domain_bindings_for_idp(p)
         \/ bind_connection(p) \/ oidc_verify_email(p) \/ create_link(p) \/ delete_link_for_user_idp(p)
         \/ list_links_for_user(p) \/ delete_connection_row(p) \/ Refused(p) \/ Crash(p)
  PROVE  MemberInv'
<1>o. Own(p)
  BY Zenon DEF MemberInv
<1>x. ASSUME UNCHANGED provider PROVE \A i \in Idps : Exists(i) => Exists(i)'
  BY Zenon, <1>x DEF Exists
<1>1. CASE Begin(p)
  <2>1. BeginFacts(p)
    BY Zenon, <1>1, BeginEffect
  <2>2. UNCHANGED <<saml_idp_id, members, bypassed, provider>> /\ OnlyReq(p) /\ req[p].pc \notin Owing
    BY Zenon, <2>1, IdleFacts DEF BeginFacts, rowVars, Owing
  <2>3. Own(p)'
    BY Zenon, <2>1, <2>2 DEF BeginFacts, Own, Exists
  <2>4. \A u \in Users : ~Owes(p, u)
    BY Zenon, <2>2, OwesNothing
  <2> QED
    BY Zenon, <1>x, <2>2, <2>3, <2>4, NeutralKeeps
<1>2. CASE bind_users(p)
  <2>1. /\ OnlyReq(p) /\ UNCHANGED <<saml_idp_id, members, bypassed, provider>>
        /\ req[p].pc \notin Owing
    BY Zenon, <1>2, BindUsersEffect DEF bind_users, At, Owing, rowVars
  <2>2. Own(p)'
    BY Zenon, <1>o, <1>2, <2>1, BindUsersEffect DEF Own, Exists
  <2>3. \A u \in Users : ~Owes(p, u)
    BY Zenon, <2>1, OwesNothing
  <2> QED
    BY Zenon, <1>x, <2>1, <2>2, <2>3, NeutralKeeps
<1>3. CASE bind_domain(p) \/ bind_connection(p) \/ create_link(p)
  <2>1. /\ UNCHANGED <<saml_idp_id, members, bypassed, provider>> /\ req[p].pc \notin Owing
    BY Zenon, <1>3 DEF bind_domain, bind_connection, create_link, At, Owing
  <2>2. Ends(p)
    BY Zenon, <1>3, LastStatements
  <2> QED
    BY Zenon, <1>x, <2>1, <2>2, EndKeeps
<1>4. CASE unverify_user_emails(p)
  <2>1. /\ UNCHANGED <<saml_idp_id, members, bypassed, provider>> /\ req[p].pc = "unverify"
    BY Zenon, <1>4 DEF unverify_user_emails, At
  <2>2. Goes(p, "inactivate")
    BY Zenon, <1>4, StatementMoves
  <2> QED
    BY Zenon, <1>o, <2>1, <2>2, GoKeeps DEF Owing, Own
<1>5. CASE inactivate_user(p)
  <2>1. /\ UNCHANGED <<saml_idp_id, members, bypassed, provider>> /\ req[p].pc = "inactivate"
    BY Zenon, <1>5 DEF inactivate_user, At
  <2>2. CASE req[p].op = "assign"
    <3>1. Goes(p, "update")
      BY Zenon, <1>5, <2>2, StatementMoves
    <3> QED
      BY Zenon, <1>o, <2>1, <3>1, GoKeeps DEF Owing, Own
  <2>3. CASE req[p].op # "assign"
    <3>1. Ends(p)
      BY Zenon, <1>5, <2>3, StatementMoves
    <3> QED
      BY Zenon, <1>x, <2>1, <3>1, EndKeeps DEF Owing
  <2> QED
    BY Zenon, <2>2, <2>3
<1>6. CASE verify_email(p)
  <2>1. /\ UNCHANGED <<saml_idp_id, members, bypassed, provider>> /\ req[p].pc \notin Owing
    BY Zenon, <1>6 DEF verify_email, At, Owing
  <2>2. Ends(p) \/ Goes(p, "set_user_idp") \/ Goes(p, "base_group")
    BY Zenon, <1>6, StatementMoves
  <2> QED
    BY Zenon, <1>x, <2>1, <2>2, GoKeeps, EndKeeps
<1>7. CASE count_users_with_idp(p)
  <2>1. /\ UNCHANGED <<saml_idp_id, members, bypassed, provider>> /\ req[p].pc \notin Owing
    BY Zenon, <1>7 DEF count_users_with_idp, At, Owing, rowVars
  <2>2. CASE \E u \in Users : saml_idp_id[u] = req[p].i
    <3>1. Ends(p)
      BY Zenon, <1>7, <2>2, StatementMoves
    <3> QED
      BY Zenon, <1>x, <2>1, <3>1, EndKeeps
  <2>3. CASE ~\E u \in Users : saml_idp_id[u] = req[p].i
    <3>1. Goes(p, "count_domains")
      BY Zenon, <1>7, <2>3, StatementMoves
    <3> QED
      BY Zenon, <2>1, <2>3, <3>1, GoKeeps
  <2> QED
    BY Zenon, <2>2, <2>3
<1>8. CASE count_domain_bindings_for_idp(p)
  <2>1. /\ UNCHANGED <<saml_idp_id, members, bypassed, provider>> /\ req[p].pc = "count_domains"
    BY Zenon, <1>8 DEF count_domain_bindings_for_idp, At, rowVars
  <2>2. Ends(p) \/ Goes(p, "invalidate")
    BY Zenon, <1>8, StatementMoves
  <2>3. \A u \in Users : saml_idp_id[u] # req[p].i
    BY Zenon, <1>o, <2>1 DEF Own
  <2>4. req[p].pc \notin Owing
    BY Zenon, <2>1 DEF Owing
  <2>5. CASE Ends(p)
    BY Zenon, <1>x, <2>1, <2>4, <2>5, EndKeeps
  <2>6. CASE Goes(p, "invalidate")
    BY Zenon, <2>1, <2>3, <2>4, <2>6, GoKeeps
  <2> QED
    BY Zenon, <2>2, <2>5, <2>6
<1>9. CASE oidc_verify_email(p)
  <2>1. UNCHANGED <<saml_idp_id, members, bypassed, provider>> /\ req[p].pc \notin Owing
    BY Zenon, <1>9 DEF oidc_verify_email, At, Owing
  <2>2. Goes(p, "create_link")
    BY Zenon, <1>9, StatementMoves
  <2> QED
    BY Zenon, <2>1, <2>2, GoKeeps
<1>10. CASE delete_link_for_user_idp(p)
  <2>1. UNCHANGED <<saml_idp_id, members, bypassed, provider>> /\ req[p].pc \notin Owing
    BY Zenon, <1>10 DEF delete_link_for_user_idp, At, Owing
  <2>2. Goes(p, "list_links")
    BY Zenon, <1>10, StatementMoves
  <2> QED
    BY Zenon, <2>1, <2>2, GoKeeps
<1>11. CASE list_links_for_user(p)
  <2>1. /\ UNCHANGED <<saml_idp_id, members, bypassed, provider>> /\ req[p].pc \notin Owing
        /\ req[p].op = "unlink"
    BY Zenon, <1>11, Named DEF list_links_for_user, At, Owing, rowVars
  <2>2. Ends(p) \/ Goes(p, "unverify")
    BY Zenon, <1>11, StatementMoves
  <2>3. CASE Ends(p)
    BY Zenon, <1>x, <2>1, <2>3, EndKeeps
  <2>4. CASE Goes(p, "unverify")
    BY Zenon, <2>1, <2>4, GoKeeps
  <2> QED
    BY Zenon, <2>2, <2>3, <2>4
<1>12. CASE delete_connection_row(p)
  <2>1. /\ UNCHANGED <<saml_idp_id, members, bypassed>> /\ req[p].pc = "delete_connection"
        /\ provider' = [provider EXCEPT ![req[p].i] = "gone"]
    BY Zenon, <1>12 DEF delete_connection_row, At
  <2>2. req[p].i \in Connections /\ Ends(p)
    BY Zenon, <1>12, <2>1, Named, LastStatements
  <2>3. \A i \in Idps : Exists(i) => Exists(i)'
    BY Zenon, <2>1, <2>2, IdpConstants DEF Exists, TypeInv, Providers
  <2>4. req[p].pc \notin Owing
    BY Zenon, <2>1 DEF Owing
  <2> QED
    BY Zenon, <2>1, <2>2, <2>3, <2>4, EndKeeps
<1>13. CASE Refused(p)
  <2>1. UNCHANGED <<saml_idp_id, members, bypassed, provider>> /\ Ends(p)
    BY Zenon, <1>13, LastStatements DEF Refused, rowVars
  <2>2. req[p].i # None /\ ~Exists(req[p].i)
    BY Zenon, <1>13 DEF Refused, Dangling
  <2>3. req[p].pc \in {"base_group", "move"} => req[p].op \in SamlOps
    BY Zenon, Named
  <2>4. req[p].pc \notin {"base_group", "move"}
    BY Zenon, <1>o, <2>2, <2>3 DEF Own
  <2>5. req[p].pc \notin Owing
    BY Zenon, <1>13, <2>4 DEF Refused, Owing
  <2> QED
    BY Zenon, <1>x, <2>1, <2>5, EndKeeps
<1>14. CASE Crash(p)
  <2>1. UNCHANGED <<saml_idp_id, members, bypassed, provider>> /\ Ends(p) /\ req[p].pc \notin Owing
    BY Zenon, <1>14, LastStatements DEF Crash, rowVars
  <2> QED
    BY Zenon, <1>x, <2>1, EndKeeps
<1> QED
  BY Zenon, <1>1, <1>2, <1>3, <1>4, <1>5, <1>6, <1>7, <1>8, <1>9, <1>10, <1>11, <1>12, <1>13, <1>14

(* A request assigns users it has in hand: it owes the memberships, unless *)
(* it has put the users on the list of bypassed ones or nothing changes.   *)
LEMMA AssignKeeps ==
  ASSUME TypeInv, MemberInv, Apart', NEW p \in Requests, OnlyReq(p), Own(p)',
         req[p].pc # "idle", req[p].op \in SamlOps, req[p].i \in AnIdp,
         NEW us, us \subseteq req[p].us, Assigned(us, req[p].i), UNCHANGED <<members, provider>>,
         \A u \in us \ bypassed' : req[p].i # None =>
            Owes(p, u)' \/ (u \notin bypassed /\ saml_idp_id[u] = req[p].i /\ ~Owes(p, u)),
         \A u \in Users \ us : Owes(p, u) => Owes(p, u)',
         \A u \in Users \ us : u \in bypassed => u \in bypassed'
  PROVE  MemberInv'
<1>1. \A u \in Users : saml_idp_id'[u] = IF u \in us THEN req[p].i ELSE saml_idp_id[u]
  BY Zenon, AssignedEffect
<1>2. req[p] # Idle
  BY Zenon, IdleFacts
<1>3. \A u \in Users \ bypassed' : saml_idp_id'[u] # None =>
        \/ <<u, saml_idp_id'[u]>> \in members'
        \/ Owes(p, u)'
        \/ /\ u \notin bypassed /\ saml_idp_id'[u] = saml_idp_id[u] /\ ~Owes(p, u)
           /\ <<u, saml_idp_id[u]>> \in members => <<u, saml_idp_id[u]>> \in members'
  <2> SUFFICES ASSUME NEW u \in Users, u \notin bypassed', saml_idp_id'[u] # None, ~Owes(p, u)'
               PROVE  u \notin bypassed /\ saml_idp_id'[u] = saml_idp_id[u] /\ ~Owes(p, u)
    BY Zenon
  <2>1. CASE u \in us
    BY Zenon, <1>1, <2>1
  <2>2. CASE u \notin us
    BY Zenon, <1>1, <2>2
  <2> QED
    BY Zenon, <2>1, <2>2
<1>4. \A m \in members' : Exists(m[2])'
  BY Zenon DEF MemberInv, Exists
<1>5. \A i \in Idps : Exists(i) => Exists(i)'
  BY Zenon DEF Exists
<1>6. \A u \in Users : saml_idp_id'[u] # saml_idp_id[u] =>
        req[p] # Idle /\ req[p].op \in SamlOps /\ u \in req[p].us /\ saml_idp_id'[u] = req[p].i
  BY Zenon, <1>1, <1>2
<1> QED
  BY Zenon, <1>3, <1>4, <1>5, <1>6, MemberKeeps

(* The statements that assign.                                             *)
LEMMA AssignStep ==
  ASSUME TypeInv, MemberInv, Apart', NEW p \in Requests,
         \/ bulk_assign_users_to_idp(p) \/ update_user_saml_idp(p) \/ set_user_idp(p)
         \/ scim_set_user_idp(p) \/ bulk_set_user_idp(p)
         \/ \E u \in Users : update_user_saml_idp_moving(p, u)
  PROVE  MemberInv'
<1>o. Own(p) /\ InHand(req[p])
  BY Zenon DEF MemberInv, TypeInv
<1>s. req[p].us \subseteq Users
  <2>1. req[p] \in Request
    BY Zenon, StatesAreRequests DEF TypeInv
  <2> QED
    BY Zenon, <2>1 DEF Request
<1>i. Idps \subseteq AnIdp
  BY Zenon DEF AnIdp
<1>1. CASE bulk_assign_users_to_idp(p)
  <2>1. /\ req[p].pc = "bulk_assign" /\ Assigned(req[p].us, req[p].i)
        /\ bypassed' = bypassed \ req[p].us /\ UNCHANGED <<members, provider>>
    BY Zenon, <1>1 DEF bulk_assign_users_to_idp, At
  <2>2. Goes(p, "base_group") /\ req[p].op \in SamlOps /\ req[p].i \in AnIdp /\ req[p].todo = req[p].us
    BY Zenon, <1>1, <1>i, <1>o, <2>1, StatementMoves, Named DEF InHand
  <2>3. Own(p)' /\ OnlyReq(p)
    BY Zenon, <1>o, <2>1, <2>2 DEF Own, Goes, SameSubject, Exists
  <2>4. \A u \in req[p].us : Owes(p, u)'
    BY Zenon, <1>s, <2>1, <2>2, AssignedEffect DEF Owes, Goes, SameSubject
  <2>5. \A u \in Users : ~Owes(p, u)
    BY Zenon, <2>1, OwesNothing DEF Owing
  <2> QED
    BY Zenon, <2>1, <2>2, <2>3, <2>4, <2>5, AssignKeeps
<1>2. CASE update_user_saml_idp(p)
  <2>1. /\ req[p].pc = "update" /\ Assigned({req[p].u}, req[p].i) /\ UNCHANGED <<members, provider>>
        /\ bypassed' = IF req[p].i = req[p].old THEN bypassed ELSE bypassed \ {req[p].u}
    BY Zenon, <1>2 DEF update_user_saml_idp, At
  <2>2. /\ req[p].op \in SamlOps /\ req[p].i \in AnIdp
        /\ req[p].us = {req[p].u} /\ req[p].u \in Users /\ req[p].todo = req[p].us
    BY Zenon, <1>o, <2>1, Named DEF InHand
  <2>3. \A u \in Users : ~Owes(p, u)
    BY Zenon, <2>1, OwesNothing DEF Owing
  <2>4. saml_idp_id'[req[p].u] = req[p].i
    BY SMTT(30), <2>1, <2>2, AssignedEffect
  <2>5. CASE req[p].i = req[p].old
    <3>1. Ends(p) /\ OnlyReq(p) /\ Own(p)'
      BY Zenon, <1>2, <2>5, StatementMoves, EndsOwn DEF Ends
    <3>2. saml_idp_id[req[p].u] = req[p].i
      <4>1. req[p].op = "assign"
        <5>1. req[p] \in OfAssign
          BY Zenon, <2>1, Holds
        <5> QED
          BY Zenon, <5>1 DEF OfAssign, Req
      <4> QED
        BY Zenon, <1>o, <2>1, <2>5, <4>1 DEF Own
    <3> QED
      BY <2>1, <2>2, <2>3, <2>5, <3>1, <3>2, AssignKeeps
  <2>6. CASE req[p].i # req[p].old
    <3> DEFINE st == IF req[p].old = None THEN "base_group" ELSE "leave"
    <3>1. Goes(p, st)
      BY Zenon, <1>2, <2>6, StatementMoves
    <3>2. st \in {"base_group", "leave"}
      BY Zenon
    <3> HIDE DEF st
    <3>3. Owes(p, req[p].u)' /\ Own(p)' /\ OnlyReq(p)
      BY Zenon, <1>o, <2>1, <2>2, <2>4, <3>1, <3>2 DEF Owes, Own, Goes, SameSubject, Exists
    <3>4. \A u \in {req[p].u} : Owes(p, u)'
      BY Zenon, <2>2, <2>4, <3>1, <3>2 DEF Owes, Goes, SameSubject
    <3> QED
      BY <2>1, <2>2, <2>3, <2>6, <3>3, <3>4, AssignKeeps
  <2> QED
    BY Zenon, <2>5, <2>6
<1>3. CASE set_user_idp(p)
  <2>1. /\ req[p].pc = "set_user_idp" /\ Assigned({req[p].u}, req[p].i) /\ UNCHANGED <<members, provider>>
        /\ bypassed' = bypassed \ {req[p].u}
    BY Zenon, <1>3 DEF set_user_idp, At
  <2>2. /\ req[p].op \in SamlOps /\ req[p].i \in AnIdp /\ Goes(p, "base_group")
        /\ req[p].us = {req[p].u} /\ req[p].u \in Users /\ req[p].todo = req[p].us
    BY Zenon, <1>3, <1>i, <1>o, <2>1, Named, StatementMoves DEF InHand
  <2>3. \A u \in Users : ~Owes(p, u)
    BY Zenon, <2>1, OwesNothing DEF Owing
  <2>4. \A u \in {req[p].u} : Owes(p, u)'
    BY <2>1, <2>2, AssignedEffect DEF Owes, Goes, SameSubject
  <2>5. Own(p)' /\ OnlyReq(p)
    BY Zenon, <1>o, <2>1, <2>2 DEF Own, Goes, SameSubject, Exists
  <2> QED
    BY ZenonT(60), <2>1, <2>2, <2>3, <2>4, <2>5, AssignKeeps
<1>4. CASE scim_set_user_idp(p) \/ bulk_set_user_idp(p)
  <2>1. /\ req[p].pc \in {"scim_set", "bulk_set"} /\ Assigned({req[p].u}, req[p].i)
        /\ UNCHANGED <<members, provider>> /\ bypassed' = bypassed \cup {req[p].u}
    BY Zenon, <1>4 DEF scim_set_user_idp, bulk_set_user_idp, At
  <2>2. /\ req[p].op \in SamlOps /\ req[p].i \in AnIdp /\ req[p].us = {req[p].u}
    BY Zenon, <1>i, <2>1, Named
  <2>3. \A u \in Users : ~Owes(p, u)
    BY Zenon, <2>1, OwesNothing DEF Owing
  <2>4. Own(p)' /\ OnlyReq(p)
    BY Zenon, <1>4, LastStatements, EndsOwn DEF Ends
  <2> QED
    BY Zenon, <2>1, <2>2, <2>3, <2>4, AssignKeeps
<1>5. ASSUME NEW u \in Users, update_user_saml_idp_moving(p, u) PROVE MemberInv'
  <2>1. /\ req[p].pc = "move" /\ Assigned({u}, req[p].i) /\ UNCHANGED <<members, provider>>
        /\ bypassed' = bypassed \ {u} /\ u \in req[p].todo
    BY Zenon, <1>5 DEF update_user_saml_idp_moving, At
  <2>2. /\ req[p].op \in SamlOps /\ req[p].i \in AnIdp /\ Follows(p, u, "leave")
        /\ u \in req[p].us /\ req[p].todo \subseteq req[p].us
    BY Zenon, <1>5, <1>i, <1>o, <2>1, Named, FollowEffect DEF InHand
  <2>3. \A v \in Users : saml_idp_id'[v] = IF v = u THEN req[p].i ELSE saml_idp_id[v]
    BY <2>1, <2>2, AssignedEffect
  <2>4. \A v \in req[p].us : v = u \/ v \notin req[p].todo => saml_idp_id'[v] = req[p].i
    BY Zenon, <1>o, <1>s, <2>1, <2>3 DEF Own
  <2>5. /\ OnlyReq(p) /\ req'[p].us = req[p].us /\ req'[p].i = req[p].i /\ req'[p].op = req[p].op
        /\ \/ req'[p].pc = "move" /\ req'[p].todo = req[p].todo \ {u}
           \/ req'[p].pc = "leave" /\ req[p].todo = {u} /\ req'[p].todo = req[p].us
    BY Zenon, <2>1, <2>2 DEF Follows
  <2>6. Own(p)'
    BY Zenon, <1>o, <2>1, <2>4, <2>5 DEF Own, Exists
  <2>7. \A v \in {u} : Owes(p, v)'
    BY Zenon, <2>2, <2>3, <2>5 DEF Owes
  <2>8. \A v \in Users \ {u} : Owes(p, v) => Owes(p, v)'
    BY Zenon, <2>1, <2>3, <2>5 DEF Owes
  <2> QED
    BY SMTT(30), <2>1, <2>2, <2>5, <2>6, <2>7, <2>8, AssignKeeps
<1> QED
  BY Zenon, <1>1, <1>2, <1>3, <1>4, <1>5

(* The statements that write groups, and the deletion of an IdP.           *)
LEMMA GroupStep ==
  ASSUME TypeInv, MemberInv, Apart', NEW p \in Requests,
         \/ \E u \in Users : remove_user_from_all_idp_groups(p, u) \/ ensure_user_in_base_group(p, u)
         \/ invalidate_idp_groups(p) \/ delete_idp_row(p)
  PROVE  MemberInv'
<1>o. Own(p) /\ InHand(req[p])
  BY Zenon DEF MemberInv, TypeInv
<1>m. \A m \in members : Exists(m[2]) /\ m[2] \in Idps
  BY Zenon DEF MemberInv, TypeInv
<1>n. \A i \in Idps : i # None
  BY Zenon, IdpConstants DEF Providers
<1>1. ASSUME NEW u \in Users, remove_user_from_all_idp_groups(p, u) PROVE MemberInv'
  <2>1. /\ req[p].pc = "leave" /\ u \in req[p].todo /\ members' = members \ {<<u, req[p].old>>}
        /\ UNCHANGED <<saml_idp_id, provider, bypassed>>
    BY Zenon, <1>1 DEF remove_user_from_all_idp_groups, At
  <2>2. u \in req[p].us /\ \A v \in req[p].us : saml_idp_id[v] = req[p].i
    BY Zenon, <1>o, <2>1 DEF InHand, Own
  <2>3. Follows(p, u, IF req[p].i = None THEN "idle" ELSE "base_group")
    BY Zenon, <1>1, FollowEffect
  <2>4. /\ OnlyReq(p)
        /\ \/ /\ req'[p].pc = "leave" /\ req'[p].us = req[p].us /\ req'[p].i = req[p].i
              /\ req'[p].op = req[p].op
           \/ req[p].i = None /\ req'[p] = Idle
           \/ /\ req'[p].pc = "base_group" /\ req'[p].us = req[p].us /\ req'[p].todo = req[p].us
              /\ req'[p].i = req[p].i /\ req'[p].op = req[p].op
    BY Zenon, <2>1, <2>3 DEF Follows
  <2>5. Own(p)'
    BY Zenon, <1>o, <2>1, <2>2, <2>4, IdleFacts DEF Own, Exists
  <2>6. \A v \in Users : v \in req[p].us /\ saml_idp_id[v] # None => Owes(p, v)'
    BY Zenon, <2>1, <2>2, <2>4 DEF Owes
  <2>7. \A v \in Users : v \notin req[p].us =>
          /\ ~Owes(p, v)
          /\ <<v, saml_idp_id[v]>> \in members => <<v, saml_idp_id[v]>> \in members'
    BY Zenon, <2>1, <2>2 DEF Owes
  <2>8. \A v \in Users \ bypassed' : saml_idp_id'[v] # None =>
          \/ <<v, saml_idp_id'[v]>> \in members'
          \/ Owes(p, v)'
          \/ /\ v \notin bypassed /\ saml_idp_id'[v] = saml_idp_id[v] /\ ~Owes(p, v)
             /\ <<v, saml_idp_id[v]>> \in members => <<v, saml_idp_id[v]>> \in members'
    BY Zenon, <2>1, <2>6, <2>7
  <2>9. /\ \A m \in members' : Exists(m[2])'
        /\ \A i \in Idps : Exists(i) => Exists(i)'
        /\ \A v \in Users : saml_idp_id'[v] = saml_idp_id[v]
    BY Zenon, <1>m, <2>1 DEF Exists
  <2> QED
    BY Zenon, <2>4, <2>5, <2>8, <2>9, MemberKeeps
<1>2. ASSUME NEW u \in Users, ensure_user_in_base_group(p, u) PROVE MemberInv'
  <2>1. /\ req[p].pc = "base_group" /\ u \in req[p].todo /\ members' = members \cup {<<u, req[p].i>>}
        /\ UNCHANGED <<saml_idp_id, provider, bypassed>> /\ ~Dangling(p)
    BY Zenon, <1>2 DEF ensure_user_in_base_group, At
  <2>2. req[p].i \in Idps /\ Exists(req[p].i)
    BY Zenon, <1>n, <2>1, Named DEF Dangling
  <2>3. Follows(p, u, IF req[p].op = "saml_domain" THEN "bind" ELSE "idle")
    BY Zenon, <1>2, FollowEffect
  <2>4. /\ OnlyReq(p)
        /\ \/ /\ req'[p].pc = "base_group" /\ req'[p].us = req[p].us /\ req'[p].i = req[p].i
              /\ req'[p].op = req[p].op /\ req'[p].todo = req[p].todo \ {u}
           \/ req[p].todo = {u} /\ req'[p] = Idle
           \/ /\ req'[p].pc = "bind" /\ req[p].todo = {u}
              /\ req'[p].i = req[p].i /\ req'[p].op = req[p].op
    BY Zenon, <2>1, <2>3 DEF Follows
  <2>5. Own(p)'
    BY Zenon, <1>o, <2>1, <2>4, IdleFacts DEF Own, Exists
  <2>6. \A v \in Users : Owes(p, v) => Owes(p, v)' \/ <<v, saml_idp_id[v]>> \in members'
    <3> SUFFICES ASSUME NEW v \in Users, Owes(p, v) PROVE Owes(p, v)' \/ <<v, saml_idp_id[v]>> \in members'
      BY Zenon
    <3>1. v \in req[p].todo /\ v \in req[p].us /\ saml_idp_id[v] = req[p].i
      BY Zenon, <2>1 DEF Owes
    <3>2. CASE v = u
      BY Zenon, <2>1, <3>1, <3>2
    <3>3. CASE v # u
      BY Zenon, <2>1, <2>4, <3>1, <3>3 DEF Owes
    <3> QED
      BY Zenon, <3>2, <3>3
  <2>7. \A v \in Users \ bypassed' : saml_idp_id'[v] # None =>
          \/ <<v, saml_idp_id'[v]>> \in members'
          \/ Owes(p, v)'
          \/ /\ v \notin bypassed /\ saml_idp_id'[v] = saml_idp_id[v] /\ ~Owes(p, v)
             /\ <<v, saml_idp_id[v]>> \in members => <<v, saml_idp_id[v]>> \in members'
    BY Zenon, <2>1, <2>6
  <2>8. /\ \A m \in members' : Exists(m[2])'
        /\ \A i \in Idps : Exists(i) => Exists(i)'
        /\ \A v \in Users : saml_idp_id'[v] = saml_idp_id[v]
    BY <1>m, <2>1, <2>2 DEF Exists
  <2> QED
    BY Zenon, <2>4, <2>5, <2>7, <2>8, MemberKeeps
<1>3. CASE invalidate_idp_groups(p)
  <2>1. /\ req[p].pc = "invalidate" /\ members' = {m \in members : m[2] # req[p].i}
        /\ UNCHANGED <<saml_idp_id, provider, bypassed>>
    BY Zenon, <1>3 DEF invalidate_idp_groups, At
  <2>2. Goes(p, "delete") /\ OnlyReq(p)
    BY Zenon, <1>3, StatementMoves DEF Goes
  <2>3. \A v \in Users : saml_idp_id[v] # req[p].i
    BY Zenon, <1>o, <2>1 DEF Own
  <2>4. Own(p)'
    BY Zenon, <1>o, <2>1, <2>2, <2>3, GoesOwn
  <2>5. \A v \in Users : ~Owes(p, v)
    BY Zenon, <2>1, OwesNothing DEF Owing
  <2>6. \A v \in Users : <<v, saml_idp_id[v]>> \in members => <<v, saml_idp_id[v]>> \in members'
    BY Zenon, <2>1, <2>3
  <2>7. /\ \A m \in members' : Exists(m[2])'
        /\ \A i \in Idps : Exists(i) => Exists(i)'
        /\ \A v \in Users : saml_idp_id'[v] = saml_idp_id[v]
    BY Zenon, <1>m, <2>1 DEF Exists
  <2> QED
    BY Zenon, <2>1, <2>2, <2>4, <2>5, <2>6, <2>7, MemberKeeps
<1>4. CASE delete_idp_row(p)
  <2>1. /\ req[p].pc = "delete" /\ members' = {m \in members : m[2] # req[p].i}
        /\ provider' = [provider EXCEPT ![req[p].i] = "gone"] /\ bypassed' = bypassed
        /\ saml_idp_id' = [u \in Users |-> IF saml_idp_id[u] = req[p].i THEN None ELSE saml_idp_id[u]]
    BY Zenon, <1>4 DEF delete_idp_row, At
  <2>2. Ends(p) /\ OnlyReq(p) /\ Own(p)'
    BY Zenon, <1>4, LastStatements, EndsOwn DEF Ends
  <2>3. \A v \in Users : saml_idp_id[v] # req[p].i
    BY Zenon, <1>o, <2>1 DEF Own
  <2>4. \A v \in Users : saml_idp_id'[v] = saml_idp_id[v]
    BY Zenon, <2>1, <2>3
  <2>5. \A v \in Users : ~Owes(p, v)
    BY Zenon, <2>1, OwesNothing DEF Owing
  <2>6. \A v \in Users : <<v, saml_idp_id[v]>> \in members => <<v, saml_idp_id[v]>> \in members'
    BY Zenon, <2>1, <2>3
  <2>7. \A i \in Idps : i # req[p].i => (Exists(i)' <=> Exists(i))
    BY Zenon, <2>1 DEF Exists, TypeInv, Providers
  <2>8. req[p] # Idle
    BY Zenon, <2>1, IdleFacts
  <2>9. \A m \in members' : Exists(m[2])'
    BY Zenon, <1>m, <2>1, <2>7
  <2> QED
    BY Zenon, <2>1, <2>2, <2>4, <2>5, <2>6, <2>7, <2>8, <2>9, MemberKeeps
<1> QED
  BY Zenon, <1>1, <1>2, <1>3, <1>4

LEMMA MemberStep ==
  ASSUME CrashPoints \cap Owing = {}, TypeInv, MemberInv, [ApartNext]_vars
  PROVE  MemberInv'
<1>1. ASSUME NEW p \in Requests, Begin(p) \/ Continue(p), Apart' PROVE MemberInv'
  <2>1. CASE \/ Begin(p) \/ bind_users(p) \/ bind_domain(p) \/ unverify_user_emails(p) \/ inactivate_user(p)
             \/ verify_email(p) \/ count_users_with_idp(p) \/ count_domain_bindings_for_idp(p)
             \/ bind_connection(p) \/ oidc_verify_email(p) \/ create_link(p) \/ delete_link_for_user_idp(p)
             \/ list_links_for_user(p) \/ delete_connection_row(p) \/ Refused(p) \/ Crash(p)
    BY Zenon, <1>1, <2>1, NeutralStep
  <2>2. CASE \/ bulk_assign_users_to_idp(p) \/ update_user_saml_idp(p) \/ set_user_idp(p)
             \/ scim_set_user_idp(p) \/ bulk_set_user_idp(p)
             \/ \E u \in Users : update_user_saml_idp_moving(p, u)
    BY Zenon, <1>1, <2>2, AssignStep
  <2>3. CASE \/ \E u \in Users : remove_user_from_all_idp_groups(p, u) \/ ensure_user_in_base_group(p, u)
             \/ invalidate_idp_groups(p) \/ delete_idp_row(p)
    BY Zenon, <1>1, <2>3, GroupStep
  <2> QED
    BY Zenon, <1>1, <2>1, <2>2, <2>3 DEF Continue
<1>2. CASE Instant
  <2>1. /\ UNCHANGED <<req, saml_idp_id, members, bypassed>>
        /\ \A i \in Idps : Exists(i)' <=> Exists(i)
    BY Zenon, <1>2, InstantTypes DEF Providers
  <2>2. \A m \in members : m[2] \in Idps
    BY Zenon DEF TypeInv
  <2>3. \A p \in Requests : Own(p)'
    <3> SUFFICES ASSUME NEW p \in Requests PROVE Own(p)'
      BY Zenon
    <3>1. Own(p)
      BY Zenon DEF MemberInv
    <3>2. req[p].op \in SamlOps /\ req[p].i # None => req[p].i \in Idps
      BY Zenon, SamlNamed, IdleFacts DEF AnIdp
    <3>3. PICK i : i = req[p].i
      BY Zenon
    <3>4. req[p].op \in SamlOps /\ req[p].i # None => Exists(i)'
      BY Zenon, <2>1, <3>1, <3>2, <3>3 DEF Own
    <3> QED
      BY Zenon, <2>1, <3>1, <3>3, <3>4 DEF Own, Exists
  <2>4. Apart'
    BY SMTT(30), <2>1 DEF MemberInv, Apart, Subjects
  <2>5. \A u \in Users \ bypassed' : saml_idp_id'[u] # None =>
          <<u, saml_idp_id'[u]>> \in members' \/ \E p \in Requests : Owes(p, u)'
    BY Zenon, <2>1 DEF MemberInv, Owes
  <2>6. \A m \in members' : Exists(m[2])'
    BY Zenon, <2>1, <2>2 DEF MemberInv
  <2> QED
    BY Zenon, <2>3, <2>4, <2>5, <2>6 DEF MemberInv
<1>3. CASE UNCHANGED vars
  <2>1. UNCHANGED <<req, saml_idp_id, members, bypassed, provider>>
    BY Zenon, <1>3 DEF vars, rowVars
  <2>2. /\ \A p \in Requests : Own(p)'
        /\ \A p \in Requests, u \in Users : Owes(p, u) => Owes(p, u)'
    BY SMTT(30), <2>1 DEF MemberInv, Own, Owes, Exists
  <2>3. Apart'
    BY <2>1 DEF MemberInv, Apart, Subjects
  <2>4. \A m \in members' : Exists(m[2])'
    BY Zenon, <2>1 DEF MemberInv, Exists
  <2> QED
    BY Zenon, <2>1, <2>2, <2>3, <2>4 DEF MemberInv
<1> QED
  BY Zenon, <1>1, <1>2, <1>3 DEF ApartNext

(* Between requests an assigned user is in the base group of the IdP, and  *)
(* no group of a deleted IdP has members (services/groups/idp.py), for any *)
(* number of users, domains, IdPs and requests: requests about different   *)
(* users and IdPs interleave freely, those about the same come one after   *)
(* the other, and none dies between the assignment and the group.          *)
THEOREM AssignedIsMember ==
  ASSUME CrashPoints \cap Owing = {}
  PROVE  ApartSpec => []AssignedInBaseGroup
<1>1. Init => TypeInv /\ MemberInv
  <2>1. Init => MemberInv
    BY Zenon, IdleFacts DEF Init, MemberInv, Own, Apart
  <2> QED
    BY Zenon, <2>1, InitTypes
<1>2. TypeInv /\ MemberInv /\ [ApartNext]_vars => TypeInv' /\ MemberInv'
  <2>1. ApartNext => Next
    BY Zenon DEF ApartNext, Next
  <2> QED
    BY Zenon, <2>1, TypeStep, MemberStep
<1>3. TypeInv /\ MemberInv => AssignedInBaseGroup
  <2> SUFFICES ASSUME MemberInv, Quiet, NEW p \in Requests, NEW u \in Users, Owes(p, u) PROVE FALSE
    BY Zenon DEF AssignedInBaseGroup, MemberInv
  <2> QED
    BY Zenon, IdleFacts DEF Quiet, Owes
<1> QED
  BY <1>1, <1>2, <1>3, PTL DEF ApartSpec

=============================================================================
