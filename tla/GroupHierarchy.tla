--------------------------- MODULE GroupHierarchy ---------------------------
(***************************************************************************)
(* The group graph and its closure table.  group_relationships holds the   *)
(* edges of a DAG; group_lineage holds one row with a depth for each       *)
(* ancestor-or-self of each group, and every question of access or         *)
(* inherited membership is answered from it (services/groups/hierarchy.py, *)
(* crud.py and idp.py over database/groups/).                              *)
(*                                                                         *)
(* A request checks, and later runs a transaction of several statements.   *)
(* Other requests see a transaction's rows when it commits; what its       *)
(* statements compute, they compute from what was committed before.        *)
(***************************************************************************)
EXTENDS Naturals, FiniteSets

CONSTANTS
    Groups,         \* ids of groups
    Umbrella,       \* ids that name the base group of the identity provider
    Assertion,      \* ids that name groups the provider reports
    Requests,       \* requests of admins and sign-ins in progress
    IdpDeletion,    \* do super admins delete the identity provider?
    MaxDepth,       \* bound: no transaction adds a row deeper than this
    None            \* no group

ASSUME HierarchyConstants ==
    /\ Umbrella \subseteq Groups /\ Assertion \subseteq Groups
    /\ Umbrella \cap Assertion = {}
    /\ None \notin Groups
    /\ IdpDeletion \in BOOLEAN
    /\ MaxDepth \in Nat

VARIABLES
    groups,   \* rows of groups
    edges,    \* rows of group_relationships: <<parent, child>>
    lineage,  \* rows of group_lineage: <<ancestor, descendant>> to depth
    req,      \* Requests -> where the request is and what it has read
    rows      \* Requests -> rows of lineage the request's transaction has added

vars == <<groups, edges, lineage, req, rows>>

Idle == [pc |-> "idle", p |-> None, c |-> None, below |-> {}, todo |-> {}]
IdpGroups == Umbrella \cup Assertion
Pairs == Groups \X Groups

Init ==
    /\ groups = {}
    /\ edges = {}
    /\ lineage = <<>>
    /\ req = [r \in Requests |-> Idle]
    /\ rows = [r \in Requests |-> <<>>]

-----------------------------------------------------------------------------
(* Paths *)

\* b can be reached from a by one or more edges of E: it is in every set that
\* holds the children of a and is closed under E.
Reaches(E, a, b) ==
    \A S \in SUBSET Groups :
        /\ \A y \in Groups : <<a, y>> \in E => y \in S
        /\ \A x \in S, y \in Groups : <<x, y>> \in E => y \in S
        => b \in S

\* The groups at the end of a path of n edges from a, and the length of a
\* shortest path.
Sphere(E, a) ==
    LET s[n \in Nat] == IF n = 0 THEN {a}
                        ELSE {y \in Groups : \E x \in s[n - 1] : <<x, y>> \in E}
    IN  s
Distance(E, a, b) ==
    CHOOSE n \in 0 .. Cardinality(Groups) :
        /\ b \in Sphere(E, a)[n]
        /\ \A m \in 0 .. n - 1 : b \notin Sphere(E, a)[m]

Cyclic(E) == \E g \in Groups : Reaches(E, g, g)

-----------------------------------------------------------------------------
(* The closure table *)

\* A slip the checks must notice: an existing row keeps its depth.
Upsert_KeepsDepth(old, new) ==
    [x \in DOMAIN old \cup DOMAIN new |-> IF x \in DOMAIN old THEN old[x] ELSE new[x]]

\* insert ... on conflict do update set depth = least(...)
Upsert(old, new) ==
    [x \in DOMAIN old \cup DOMAIN new |->
        IF x \in DOMAIN old /\ (x \in DOMAIN new => old[x] <= new[x])
        THEN old[x] ELSE new[x]]

\* A slip: only the child itself is connected.
NewRows_ChildOnly(p, c) ==
    LET up == {a \in Groups : <<a, p>> \in DOMAIN lineage}
    IN  [x \in up \X {c} |-> lineage[<<x[1], p>>] + 1]

\* Every ancestor of the parent with every descendant of the child.
NewRows(p, c) ==
    LET up == {a \in Groups : <<a, p>> \in DOMAIN lineage}
        down == {d \in Groups : <<c, d>> \in DOMAIN lineage}
    IN  [x \in up \X down |-> lineage[<<x[1], p>>] + lineage[<<c, x[2]>>] + 1]

\* The rows that the recursive query finds for the groups below.
Rebuilt(E, below) ==
    [x \in {y \in Pairs : y[2] \in below /\ Reaches(E, y[1], y[2])} |->
        Distance(E, x[1], x[2])]

\* That query counts depths, and does not end when it meets a cycle.
Endless(E, below) ==
    \E g \in Groups, d \in below : Reaches(E, g, g) /\ Reaches(E, g, d)

\* The foreign keys cascade: the rows that name a deleted group go with it.
Without(gone) ==
    /\ groups' = groups \ gone
    /\ edges' = {e \in edges : e[1] \notin gone /\ e[2] \notin gone}
    /\ lineage' = [x \in {y \in DOMAIN lineage : y[1] \notin gone /\ y[2] \notin gone} |->
                       lineage[x]]

\* A transaction that has inserted rows naming a group holds a key-share lock
\* on it, one that has deleted an edge holds the edge: a deletion waits.
Locked(g) ==
    \E r \in Requests :
        /\ req[r].pc \in {"commit", "rebuild"}
        /\ g \in {req[r].p, req[r].c} \/ \E x \in DOMAIN rows[r] : g \in {x[1], x[2]}

\* No request in progress names the group, so that its id can stand for a new one.
Unused(g) ==
    \A r \in Requests : /\ g \notin {req[r].p, req[r].c}
                        /\ \A e \in req[r].todo : g \notin {e[1], e[2]}

-----------------------------------------------------------------------------
(* Groups *)

\* create_group, or create_idp_group for the base group: the group and its
\* self row, in one transaction.
create_group(g) ==
    /\ g \notin groups /\ g \notin Assertion /\ Unused(g)
    /\ groups' = groups \cup {g}
    /\ lineage' = Upsert(lineage, [x \in {<<g, g>>} |-> 0])
    /\ UNCHANGED <<edges, req, rows>>

\* delete_group: no relationships are left, says the first read.
CheckDelete(r, g) ==
    /\ req[r].pc = "idle"
    /\ g \in groups \ IdpGroups
    /\ \A e \in edges : g \notin {e[1], e[2]}
    /\ req' = [req EXCEPT ![r] = [Idle EXCEPT !.pc = "delete", !.p = g]]
    /\ UNCHANGED <<groups, edges, lineage, rows>>

delete_group(r) ==
    /\ req[r].pc = "delete"
    /\ ~Locked(req[r].p)
    /\ Without({req[r].p})
    /\ req' = [req EXCEPT ![r] = Idle]
    /\ UNCHANGED rows

\* invalidate_idp_groups, on the way to deleting the provider.
delete_groups_by_idp ==
    /\ IdpDeletion
    /\ groups \cap IdpGroups # {}
    /\ \A g \in IdpGroups : ~Locked(g)
    /\ Without(IdpGroups)
    /\ UNCHANGED <<req, rows>>

-----------------------------------------------------------------------------
(* Relationships *)

\* A slip: no cycle check.
add_child_NoCycleCheck(r, p, c) ==
    /\ req[r].pc = "idle"
    /\ p # c /\ p \in groups /\ c \in groups
    /\ p \notin Assertion
    /\ <<p, c>> \notin edges
    /\ req' = [req EXCEPT ![r] = [Idle EXCEPT !.pc = "add", !.p = p, !.c = c]]
    /\ UNCHANGED <<groups, edges, lineage, rows>>

\* The checks of add_child.  The transaction repeats what the earlier ones
\* say (foreign keys, the unique edge); only the answer of would_create_cycle,
\* the last one, is relied on afterwards.
add_child(r, p, c) ==
    /\ req[r].pc = "idle"
    /\ p # c /\ p \in groups /\ c \in groups
    /\ p \notin Assertion
    /\ <<p, c>> \notin edges
    /\ <<c, p>> \notin DOMAIN lineage
    /\ req' = [req EXCEPT ![r] = [Idle EXCEPT !.pc = "add", !.p = p, !.c = c]]
    /\ UNCHANGED <<groups, edges, lineage, rows>>

\* get_or_create_idp_group at a sign-in: the reported group is created ...
get_or_create_idp_group(r, g) ==
    /\ req[r].pc = "idle"
    /\ g \in Assertion
    /\ IF g \in groups
       THEN UNCHANGED <<groups, lineage>>
       ELSE /\ Unused(g)
            /\ groups' = groups \cup {g}
            /\ lineage' = Upsert(lineage, [x \in {<<g, g>>} |-> 0])
    /\ req' = [req EXCEPT ![r] = [Idle EXCEPT !.pc = "wire", !.c = g]]
    /\ UNCHANGED <<edges, rows>>

\* ... and wired under the base group, if there is one and the edge is new.
_ensure_umbrella_relationship(r) ==
    /\ req[r].pc = "wire"
    /\ \/ \E u \in Umbrella \cap groups :
           /\ <<u, req[r].c>> \notin edges
           /\ req' = [req EXCEPT ![r].pc = "add", ![r].p = u]
       \/ /\ \A u \in Umbrella \cap groups : <<u, req[r].c>> \in edges
          /\ req' = [req EXCEPT ![r] = Idle]
    /\ UNCHANGED <<groups, edges, lineage, rows>>

\* The statements of add_group_relationship; a conflicting edge of another
\* transaction is waited for.
add_group_relationship(r) ==
    LET p == req[r].p
        c == req[r].c
    IN
    /\ req[r].pc = "add"
    /\ \A s \in Requests : req[s].pc = "commit" => <<req[s].p, req[s].c>> # <<p, c>>
    /\ \A x \in DOMAIN NewRows(p, c) : NewRows(p, c)[x] <= MaxDepth
    /\ IF p \in groups /\ c \in groups /\ <<p, c>> \notin edges
       THEN /\ req' = [req EXCEPT ![r].pc = "commit"]
            /\ rows' = [rows EXCEPT ![r] = NewRows(p, c)]
       ELSE /\ req' = [req EXCEPT ![r] = Idle]
            /\ UNCHANGED rows
    /\ UNCHANGED <<groups, edges, lineage>>

CommitAdd(r) ==
    /\ req[r].pc = "commit"
    /\ edges' = edges \cup {<<req[r].p, req[r].c>>}
    /\ lineage' = Upsert(lineage, rows[r])
    /\ req' = [req EXCEPT ![r] = Idle]
    /\ rows' = [rows EXCEPT ![r] = <<>>]
    /\ UNCHANGED groups

\* Edges that only the provider's synchronisation may change.
_is_idp_managed_relationship(e) == e[1] \in Umbrella /\ e[2] \in Assertion

remove_child(r, p, c) ==
    /\ req[r].pc = "idle"
    /\ p \in groups /\ c \in groups /\ ~_is_idp_managed_relationship(<<p, c>>)
    /\ <<p, c>> \in edges
    /\ req' = [req EXCEPT ![r] = [Idle EXCEPT !.pc = "remove", !.p = p, !.c = c]]
    /\ UNCHANGED <<groups, edges, lineage, rows>>

\* remove_all_relationships reads the parents and the children once ...
remove_all_relationships(r, g) ==
    LET found == {e \in edges : g \in {e[1], e[2]} /\ ~_is_idp_managed_relationship(e)} IN
    /\ req[r].pc = "idle"
    /\ g \in groups
    /\ found # {}
    /\ req' = [req EXCEPT ![r] = [Idle EXCEPT !.pc = "next", !.p = g, !.todo = found]]
    /\ UNCHANGED <<groups, edges, lineage, rows>>

\* ... and removes one edge after the other, parents first.
NextRemoval(r) ==
    LET above == {e \in req[r].todo : \A f \in req[r].todo : e[1] = f[2] \/ f[2] = e[2]}
    IN
    /\ req[r].pc = "next"
    /\ \E e \in IF above = {} THEN req[r].todo ELSE above :
           req' = [req EXCEPT ![r].pc = "remove", ![r].p = e[1], ![r].c = e[2],
                              ![r].todo = @ \ {e}]
    /\ UNCHANGED <<groups, edges, lineage, rows>>

Removed(r) ==
    IF req[r].todo = {} THEN Idle
    ELSE [Idle EXCEPT !.pc = "next", !.p = req[r].p, !.todo = req[r].todo]

\* remove_group_relationship: the edge is deleted and the descendants of the
\* child are read ...
remove_group_relationship(r) ==
    LET c == req[r].c IN
    /\ req[r].pc = "remove"
    /\ \A s \in Requests : req[s].pc = "rebuild" => <<req[s].p, req[s].c>> # <<req[r].p, c>>
    /\ req' = [req EXCEPT ![r] =
           IF <<req[r].p, c>> \in edges
           THEN [@ EXCEPT !.pc = "rebuild",
                          !.below = {d \in Groups : <<c, d>> \in DOMAIN lineage}]
           ELSE Removed(r)]
    /\ UNCHANGED <<groups, edges, lineage, rows>>

\* A slip: the rows above the descendants are deleted and not rebuilt.
Rebuild_Forgets(r) ==
    LET below == req[r].below IN
    /\ req[r].pc = "rebuild"
    /\ edges' = edges \ {<<req[r].p, req[r].c>>}
    /\ lineage' = [x \in {y \in DOMAIN lineage : y[2] \notin below \/ y[1] = y[2]} |->
                       lineage[x]]
    /\ req' = [req EXCEPT ![r] = Removed(r)]
    /\ UNCHANGED <<groups, rows>>

\* ... their rows are deleted, and rebuilt from the edges that are left.
Rebuild(r) ==
    LET below == req[r].below
        E == edges \ {<<req[r].p, req[r].c>>}
        kept == [x \in {y \in DOMAIN lineage : y[2] \notin below \/ y[1] = y[2]} |->
                     lineage[x]]
    IN
    /\ req[r].pc = "rebuild"
    /\ ~Endless(E, below)
    /\ edges' = E
    /\ lineage' = Upsert(kept, Rebuilt(E, below))
    /\ req' = [req EXCEPT ![r] = Removed(r)]
    /\ UNCHANGED <<groups, rows>>

Request(r) ==
    \/ \E g \in Groups : \/ CheckDelete(r, g)
                         \/ get_or_create_idp_group(r, g)
                         \/ remove_all_relationships(r, g)
    \/ \E p, c \in Groups : add_child(r, p, c) \/ remove_child(r, p, c)
    \/ delete_group(r) \/ _ensure_umbrella_relationship(r)
    \/ add_group_relationship(r) \/ CommitAdd(r)
    \/ NextRemoval(r) \/ remove_group_relationship(r) \/ Rebuild(r)

Next ==
    \/ \E g \in Groups : create_group(g)
    \/ delete_groups_by_idp
    \/ \E r \in Requests : Request(r)

Spec == Init /\ [][Next]_vars

-----------------------------------------------------------------------------
(* Properties *)

\* Rows name groups that exist, each group has its self row (which the cross
\* join of add_group_relationship needs), and no group is its own child.
TypeOK ==
    /\ groups \subseteq Groups
    /\ edges \subseteq {e \in groups \X groups : e[1] # e[2]}
    /\ DOMAIN lineage \subseteq groups \X groups
    /\ \A g \in groups : <<g, g>> \in DOMAIN lineage
    /\ req \in [Requests -> [pc : {"idle", "add", "wire", "commit", "remove", "next",
                                   "rebuild", "delete"},
                             p : Groups \cup {None}, c : Groups \cup {None},
                             below : SUBSET Groups, todo : SUBSET Pairs]]
    /\ DOMAIN rows = Requests

\* The closure table is the reflexive and transitive closure of the edges, no
\* more and no less: members of a descendant group, and no others, have what
\* is granted to an ancestor.
ClosureExact ==
    \A a, b \in groups :
        <<a, b>> \in DOMAIN lineage <=> (a = b \/ Reaches(edges, a, b))

\* The depth of a row is the length of a shortest path.
DepthIsDistance ==
    \A x \in DOMAIN lineage : lineage[x] = Distance(edges, x[1], x[2])

\* "A group cannot be both an ancestor and a descendant of the same group."
NoCycles == ~Cyclic(edges)

\* With any interleaving of requests, a direct parent is an ancestor.
EdgesInLineage == edges \subseteq DOMAIN lineage
=============================================================================
