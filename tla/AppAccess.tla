----------------------------- MODULE AppAccess -----------------------------
(***************************************************************************)
(* Who may use which application: rows of sp_group_assignments grant a     *)
(* group and all its descendants (group_lineage) access to a SAML service  *)
(* provider, a proxy app or an OIDC client; an application can also be     *)
(* open to everybody (database/sp_group_assignments.py).  One resolver     *)
(* serves the three kinds.                                                 *)
(***************************************************************************)
CONSTANTS
    Apps,      \* applications of one kind
    Users,     \* users of the tenant
    Groups,    \* groups of the tenant
    Lineage    \* <<ancestor, descendant>> rows of group_lineage, self rows included

VARIABLES
    assigned,  \* <<application, group>> rows of sp_group_assignments
    member     \* <<user, group>> rows of group_memberships

AccessTypeOK ==
    /\ assigned \subseteq Apps \X Groups
    /\ member \subseteq Users \X Groups

AccessInit == assigned = {} /\ member = {}

(* Groups whose assignment reaches the user.                               *)
Granting(u) == {ga[1] : ga \in {l \in Lineage : <<u, l[2]>> \in member}}

(* open: applications with available_to_all.                               *)
user_can_access_app(u, a, open) ==
    a \in open \/ \E g \in Granting(u) : <<a, g>> \in assigned

-----------------------------------------------------------------------------
(* The statements on the table.  A second row for the same pair violates   *)
(* the unique index: the plain insert fails, the others do nothing.        *)
create_assignment(a, g) == assigned' = assigned \cup {<<a, g>>}

bulk_create_assignments(a, gs) == assigned' = assigned \cup {<<a, g>> : g \in gs}

delete_assignment(a, g) == assigned' = assigned \ {<<a, g>>}

(* Rows of a deleted application go with it.                               *)
Cascade(a) == assigned' = {x \in assigned : x[1] # a}

(* Memberships change elsewhere.                                           *)
MembershipChanges(u, g) ==
    /\ member' = IF <<u, g>> \in member THEN member \ {<<u, g>>} ELSE member \cup {<<u, g>>}
    /\ UNCHANGED assigned

=============================================================================
