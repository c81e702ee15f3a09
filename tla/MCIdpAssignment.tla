-------------------------- MODULE MCIdpAssignment --------------------------
(* Identity providers and their users for model checking: how domains and  *)
(* requests assign users (module IdpAssignment), and what a provider's     *)
(* directory writes by itself (module ScimInbound), in three scenarios:    *)
(*   people  POSTs of one person race each other and the person's sign-ins *)
(*           through two providers; an older user may have the person's    *)
(*           address as a second one;                                      *)
(*   status  one user is written, deactivated, brought back, denied and    *)
(*           erased by two requests at a time while it signs in and uses   *)
(*           applications;                                                 *)
(*   groups  two groups of two users, to which two requests write at a     *)
(*           time, while sign-ins and PUTs change what users are named by. *)
EXTENDS IdpAssignment, TLC

CONSTANTS
    u1, d1, i1, i2, c1, c2, p1, p2,
    Gone, Mixed, a1, a2, a3, g1, g2, e1, e2, m1, m2, x1, n1, n2, q1, q2, t1

VARIABLES
    scenario,
    token, rows, idp, status, denied, live, email, ext, group, memberships, served, given, want

OneDomain == [u \in Users |-> d1]

(* A crash when the users have been moved and the binding is not written.  *)
HalfWay == {"bind"}

Symmetry == Permutations({i1, i2}) \cup Permutations({c1, c2})
            \cup Permutations({p1, p2})

Person(m, x, extras, on) == [mail |-> m, ext |-> x, extras |-> extras, active |-> on]
People ==
    {Person(m1, x1, FALSE, "absent"), Person(m1, None, FALSE, "true"),
     Person(None, x1, TRUE, "false"), Person(None, None, FALSE, "bad")}

Op(op, refs) == [op |-> op, refs |-> refs]
Changes ==
    {[name |-> n1, ops |-> <<Op("replace", {a1, a2})>>],
     [name |-> n2, ops |-> <<Op("remove", {a1}), Op("add", {x1})>>],
     [name |-> n2, ops |-> <<Op("clear", {})>>],
     [name |-> n2, ops |-> <<>>]}

Inbound == INSTANCE ScimInbound WITH
    Users <- {a1, a2, a3}, Groups <- {g1, g2}, Idps <- {e1, e2}, Mails <- {m1, m2}, ExtIds <- {x1},
    Names <- {n1, n2}, Tokens <- {t1}, Requests <- {q1, q2}, Payloads <- People, Batches <- Changes,
    members <- memberships, req <- served

inboundVars == <<token, rows, idp, status, denied, live, email, ext, group, memberships, served, given, want>>
AllServed == served = [p \in {q1, q2} |-> Inbound!Idle]

(* Two users that POSTs of e1 have made, one with an externalId.               *)
Provisioned ==
    /\ token = [t \in {t1} |-> [idp |-> e1, revoked |-> FALSE]]
    /\ rows = {a1, a2}
    /\ email = [m \in {m1, m2} |-> [user |-> IF m = m1 THEN a1 ELSE a2, primary |-> TRUE]]
    /\ ext = [u \in {a1, a2, a3} |-> [i \in {e1, e2} |-> IF u = a1 /\ i = e1 THEN x1 ELSE None]]
    /\ given = ext
    /\ idp = [u \in {a1, a2, a3} |-> IF u \in rows THEN e1 ELSE None]
    /\ status = [u \in {a1, a2, a3} |-> "active"] /\ denied = {} /\ live = [u \in {a1, a2, a3} |-> {}]
    /\ group = [g \in {g1, g2} |-> None] /\ memberships = [g \in {g1, g2} |-> {}] /\ want = memberships
    /\ AllServed

(* The scenarios that start before any user was written.                       *)
Unwritten == {"people", "status"}

MCInit ==
    /\ scenario \in {"assignment", "people", "status", "groups"}
    /\ Init
    /\ IF scenario \in Unwritten THEN Inbound!Init /\ rows \subseteq {a1} ELSE Provisioned

(* What the requests may be after a step.                                       *)
Only(p, P(_)) == served'[p] # Inbound!Idle => P(served'[p])
OfUser(r) == "b" \in DOMAIN r

RacingPosts(r) == OfUser(r) /\ r.op \in {"post", "signin"} /\ r.b.mail = m1 /\ r.b.active = "absent"
FromOne(r) == r.i = e1
Written(r) == OfUser(r) /\ r.i = e1 /\ r.op # "signin"
WrittenBeside(r) == OfUser(r) /\ r.i = e1 /\ (r.op \in {"put", "delete"} \/ (r.op = "signin" /\ r.b.mail = m1))
OfGroup(r) == ~OfUser(r) /\ r.i = e1
Beside(r) ==
    /\ r.i = e1
    /\ IF OfUser(r) THEN \/ r.op = "signin" /\ r.b.mail = m1
                         \/ r.op = "put" /\ r.u = a2 /\ r.b.active = "absent"
       ELSE r.op \in {"put", "delete"} /\ group[g2] = None

Bounds ==
    /\ token' # token => AllServed
    /\ CASE scenario = "people" ->
              Only(q1, RacingPosts) /\ Only(q2, RacingPosts) /\ Only(q1, FromOne) /\ live' = live
         [] scenario = "status" ->
              /\ Only(q1, Written) /\ Only(q2, WrittenBeside)
              /\ rows' \subseteq {a1} /\ email[m2] = None
              /\ \A t \in {t1} : token'[t] # None => token'[t].idp = e1
              /\ token[t1] = None => served' = served
         [] scenario = "groups" ->
              /\ Only(q1, OfGroup) /\ Only(q2, Beside)
              /\ UNCHANGED <<rows, live, status, denied, token>>

(* The directory's requests, and what else happens to the users and tokens *)
(* that the scenario is about.                                             *)
InboundNext ==
    /\ UNCHANGED vars
    /\ \/ scenario = "groups" /\ (Inbound!GroupStep(q1) \/ Inbound!GroupStep(q2) \/ Inbound!UserStep(q2))
       \/ scenario \in Unwritten /\ (Inbound!UserStep(q1) \/ Inbound!UserStep(q2))
       \/ scenario \in Unwritten /\ \E i \in {e1, e2} : Inbound!create_token(t1, i) \/ Inbound!revoke_token(t1, i)
       \/ scenario = "status" /\ (Inbound!Use(a1) \/ Inbound!Deny(a1) \/ Inbound!Anonymize(a1))
    /\ Bounds

(* A second switch brings a provider back.                                 *)
SwitchedBack == switches' = 2 => \A i \in Providers : provider'[i] # "disabled"

MCNext ==
    /\ scenario' = scenario
    /\ \/ scenario = "assignment" /\ ApartNext /\ SwitchedBack /\ UNCHANGED inboundVars
       \/ scenario # "assignment" /\ InboundNext

MCSpec == MCInit /\ [][MCNext]_<<scenario, vars, inboundVars>>

(* The directory alone.                                                    *)
InboundSpec ==
    (MCInit /\ scenario # "assignment")
    /\ [][scenario' = scenario /\ InboundNext]_<<scenario, vars, inboundVars>>

(* The properties of the directory's writes, of module ScimInbound.        *)
PostSettles == Inbound!PostSettles
GroupAsAsked == Inbound!GroupAsAsked
UpstreamIdPreserved == Inbound!UpstreamIdPreserved
=============================================================================
