-------------------------- MODULE MCGroupHierarchy --------------------------
(* Four groups are the fewest with two paths between two of them: there     *)
(* requests come one after the other.  With three groups, one of them the   *)
(* base group of an identity provider and one that it reports, there are    *)
(* two requests at a time, and the provider may be deleted.                 *)
EXTENDS GroupHierarchy, TLC

CONSTANTS g1, g2, g3, g4, u, a, r1, r2

VARIABLES
    together,                                            \* two requests at a time?
    groupsOfTwo, edgesOfTwo, lineageOfTwo, reqOfTwo, rowsOfTwo

twoVars == <<groupsOfTwo, edgesOfTwo, lineageOfTwo, reqOfTwo, rowsOfTwo>>

Two == INSTANCE GroupHierarchy WITH
    Groups <- {g4, u, a}, Requests <- {r1, r2}, IdpDeletion <- TRUE, MaxDepth <- 3,
    groups <- groupsOfTwo, edges <- edgesOfTwo, lineage <- lineageOfTwo,
    req <- reqOfTwo, rows <- rowsOfTwo

Symmetry == Permutations({g1, g2, g3}) \cup Permutations({r1, r2})

(* Two requests wait where only a row beyond the bound could follow.        *)
Bounded == \A r \in {r1, r2} : reqOfTwo[r].pc # "idle"

MCInit == together \in BOOLEAN /\ Init /\ Two!Init

MCNext ==
    /\ UNCHANGED together
    /\ \/ ~together /\ Next /\ UNCHANGED twoVars
       \/ together /\ Two!Next /\ UNCHANGED vars
       \/ together /\ Bounded /\ UNCHANGED <<vars, twoVars>>

MCSpec == MCInit /\ [][MCNext]_<<together, vars, twoVars>>

(* Whatever two requests do at a time, no edge is left without its row of   *)
(* group_lineage (add_group_relationship, delete_group).                    *)
EdgesInLineageTogether == Two!EdgesInLineage
=============================================================================
