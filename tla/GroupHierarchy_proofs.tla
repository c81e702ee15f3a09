----------------------- MODULE GroupHierarchy_proofs -----------------------
(***************************************************************************)
(* With one request at a time and no identity provider deleted, the        *)
(* closure table is exact and the graph has no cycle, for any number of    *)
(* groups.  The graph lemmas come first: adding an edge joins everything   *)
(* above the parent to everything below the child, and removing one can    *)
(* only disturb what lies below the child.                                 *)
(***************************************************************************)
EXTENDS GroupHierarchy, TLAPS

OneRequest == \A r, s \in Requests : r = s

(* L is the reflexive and transitive closure of the acyclic edges E on G.  *)
Exact(G, E, L) ==
    /\ E \subseteq G \X G
    /\ L \subseteq G \X G
    /\ \A a, b \in G : <<a, b>> \in L <=> (a = b \/ Reaches(E, a, b))
    /\ \A g \in Groups : ~Reaches(E, g, g)

-----------------------------------------------------------------------------
(* Paths *)

(* An edge is a path.                                                      *)
LEMMA EdgeReaches ==
  ASSUME NEW E, NEW a \in Groups, NEW b \in Groups, <<a, b>> \in E
  PROVE  Reaches(E, a, b)
BY Zenon DEF Reaches

(* Paths compose.                                                          *)
LEMMA ReachesTrans ==
  ASSUME NEW E, NEW a \in Groups, NEW b \in Groups, NEW c \in Groups,
         Reaches(E, a, b), Reaches(E, b, c)
  PROVE  Reaches(E, a, c)
BY Zenon DEF Reaches

(* More edges, more paths.                                                 *)
LEMMA ReachesMono ==
  ASSUME NEW E, NEW F, E \subseteq F, NEW a \in Groups, NEW b \in Groups, Reaches(E, a, b)
  PROVE  Reaches(F, a, b)
BY Zenon DEF Reaches

(* A set that holds the children of a and is closed holds what a reaches.  *)
LEMMA ReachesLeast ==
  ASSUME NEW E, NEW a \in Groups, NEW b \in Groups, Reaches(E, a, b),
         NEW S \in SUBSET Groups,
         \A y \in Groups : <<a, y>> \in E => y \in S,
         \A x \in S, y \in Groups : <<x, y>> \in E => y \in S
  PROVE  b \in S
BY Zenon DEF Reaches

(* Paths stay among the groups whose edges they use.                       *)
LEMMA ReachesInside ==
  ASSUME NEW G \in SUBSET Groups, NEW E, E \subseteq G \X G,
         NEW a \in Groups, NEW b \in Groups, Reaches(E, a, b)
  PROVE  a \in G /\ b \in G
<1>1. b \in {y \in Groups : y \in G /\ a \in G}
  <2> DEFINE S == {y \in Groups : y \in G /\ a \in G}
  <2>1. S \in SUBSET Groups
    BY Zenon
  <2>2. \A y \in Groups : <<a, y>> \in E => y \in S
    BY Zenon
  <2>3. \A x \in S, y \in Groups : <<x, y>> \in E => y \in S
    BY Zenon
  <2> HIDE DEF S
  <2>4. b \in S
    BY Zenon, <2>1, <2>2, <2>3, ReachesLeast
  <2> QED BY Zenon, <2>4 DEF S
<1> QED BY Zenon, <1>1

(* A closure is transitive and contains the edges.                         *)
LEMMA ExactFacts ==
  ASSUME NEW G \in SUBSET Groups, NEW E, NEW L, Exact(G, E, L)
  PROVE  /\ \A a, b, c \in G : <<a, b>> \in L /\ <<b, c>> \in L => <<a, c>> \in L
         /\ \A a, b \in G : <<a, b>> \in E => <<a, b>> \in L
         /\ \A a, b \in G : <<a, b>> \in L /\ <<b, a>> \in L => a = b
<1>1. \A a, b, c \in G : <<a, b>> \in L /\ <<b, c>> \in L => <<a, c>> \in L
  <2> SUFFICES ASSUME NEW a \in G, NEW b \in G, NEW c \in G, <<a, b>> \in L, <<b, c>> \in L
               PROVE  <<a, c>> \in L
    BY Zenon
  <2>1. CASE a = b \/ b = c
    BY Zenon, <2>1
  <2>2. CASE Reaches(E, a, b) /\ Reaches(E, b, c)
    BY Zenon, <2>2, ReachesTrans DEF Exact
  <2> QED BY Zenon, <2>1, <2>2 DEF Exact
<1>2. \A a, b \in G : <<a, b>> \in E => <<a, b>> \in L
  BY Zenon, EdgeReaches DEF Exact
<1>3. \A a, b \in G : <<a, b>> \in L /\ <<b, a>> \in L => a = b
  <2> SUFFICES ASSUME NEW a \in G, NEW b \in G, <<a, b>> \in L, <<b, a>> \in L, a # b
               PROVE  FALSE
    BY Zenon
  <2>1. Reaches(E, a, b) /\ Reaches(E, b, a)
    BY Zenon DEF Exact
  <2>2. Reaches(E, a, a)
    BY Zenon, <2>1, ReachesTrans
  <2> QED BY Zenon, <2>2 DEF Exact
<1> QED BY Zenon, <1>1, <1>2, <1>3

(* The rows of add_group_relationship are the ones that were missing, and  *)
(* the cycle check it follows is enough.                                   *)
LEMMA AddEdge ==
  ASSUME NEW G \in SUBSET Groups, NEW E, NEW L, Exact(G, E, L),
         NEW p \in G, NEW c \in G, p # c, <<c, p>> \notin L
  PROVE  Exact(G, E \cup {<<p, c>>},
               L \cup ({a \in Groups : <<a, p>> \in L} \X {d \in Groups : <<c, d>> \in L}))
<1> DEFINE up == {a \in Groups : <<a, p>> \in L}
           down == {d \in Groups : <<c, d>> \in L}
           F == E \cup {<<p, c>>}
           M == L \cup (up \X down)
<1>0. /\ E \subseteq G \X G /\ L \subseteq G \X G
      /\ \A a, b \in G : <<a, b>> \in L <=> (a = b \/ Reaches(E, a, b))
      /\ \A g \in Groups : ~Reaches(E, g, g)
  BY Zenon DEF Exact
<1>1. /\ \A a, b, d \in G : <<a, b>> \in L /\ <<b, d>> \in L => <<a, d>> \in L
      /\ \A a, b \in G : <<a, b>> \in E => <<a, b>> \in L
      /\ \A a, b \in G : <<a, b>> \in L /\ <<b, a>> \in L => a = b
  BY ZenonT(60), ExactFacts
<1>2. up \subseteq G /\ down \subseteq G /\ p \in up /\ c \in down
  BY Zenon, <1>0
<1>3. F \subseteq G \X G /\ M \subseteq G \X G
  BY <1>0, <1>2
<1>m. \A a, b \in G : <<a, b>> \in M <=> <<a, b>> \in L \/ (<<a, p>> \in L /\ <<c, b>> \in L)
  BY Zenon
<1>f. \A a, b \in G : <<a, b>> \in F <=> <<a, b>> \in E \/ (a = p /\ b = c)
  BY Zenon
<1>g. E \subseteq F
  BY Zenon
<1>h. <<p, c>> \in F
  BY Zenon
<1> HIDE DEF M, F
<1>4. \A a, b \in G : <<a, b>> \in M => (a = b \/ Reaches(F, a, b))
  <2> SUFFICES ASSUME NEW a \in G, NEW b \in G, <<a, b>> \in M, a # b
               PROVE  Reaches(F, a, b)
    BY Zenon
  <2>1. CASE <<a, b>> \in L
    BY Zenon, <2>1, <1>0, <1>g, ReachesMono
  <2>2. CASE <<a, p>> \in L /\ <<c, b>> \in L
    <3>1. Reaches(F, p, c)
      BY Zenon, <1>h, EdgeReaches
    <3>2. a = p \/ Reaches(F, a, p)
      BY Zenon, <2>2, <1>0, <1>g, ReachesMono
    <3>3. c = b \/ Reaches(F, c, b)
      BY Zenon, <2>2, <1>0, <1>g, ReachesMono
    <3>4. Reaches(F, a, c)
      BY Zenon, <3>1, <3>2, ReachesTrans
    <3> QED BY Zenon, <3>3, <3>4, ReachesTrans
  <2> QED BY Zenon, <2>1, <2>2, <1>m
<1>5. \A a \in G, x \in G, y \in G : <<a, x>> \in M /\ <<x, y>> \in F => <<a, y>> \in M
  BY ZenonT(40), <1>m, <1>f, <1>1, <1>0
<1>6. \A a, b \in G : a # b /\ Reaches(F, a, b) => <<a, b>> \in M
  <2> SUFFICES ASSUME NEW a \in G, NEW b \in G, Reaches(F, a, b) PROVE <<a, b>> \in M
    BY Zenon
  <2> DEFINE S == {y \in Groups : <<a, y>> \in M}
  <2>0. <<a, a>> \in M
    BY Zenon, <1>0, <1>m
  <2>1. S \in SUBSET Groups
    BY Zenon
  <2>2. \A y \in Groups : <<a, y>> \in F => y \in S
    BY Zenon, <2>0, <1>5, <1>3
  <2>3. \A x \in S, y \in Groups : <<x, y>> \in F => y \in S
    BY Zenon, <1>5, <1>3
  <2> HIDE DEF S
  <2>4. b \in S
    BY Zenon, <2>1, <2>2, <2>3, ReachesLeast
  <2> QED BY Zenon, <2>4 DEF S
<1>7. \A g \in Groups : ~Reaches(F, g, g)
  <2> SUFFICES ASSUME NEW g \in Groups, Reaches(F, g, g) PROVE FALSE
    BY Zenon
  <2>g. g \in G
    BY Zenon, <1>3, ReachesInside
  <2> DEFINE S == {y \in G : <<g, y>> \in M /\ y # g}
  <2>0. <<g, g>> \in M
    BY Zenon, <1>0, <1>m, <2>g
  <2>e. \A y \in G : <<y, y>> \notin F
    BY Zenon, <1>f, <1>0, EdgeReaches
  <2>1. S \in SUBSET Groups
    BY Zenon
  <2>2. \A y \in Groups : <<g, y>> \in F => y \in S
    BY Zenon, <2>0, <2>e, <2>g, <1>5, <1>3
  <2>3. ASSUME NEW x \in G, <<g, x>> \in M, x # g, <<x, g>> \in F PROVE FALSE
    <3>1. CASE <<x, g>> \in E /\ <<g, x>> \in L
      BY Zenon, <3>1, <2>3, <2>g, <1>1
    <3>2. CASE <<x, g>> \in E /\ <<g, p>> \in L /\ <<c, x>> \in L
      <4>1. <<x, g>> \in L
        BY Zenon, <3>2, <2>g, <1>1
      <4>2. <<c, g>> \in L
        BY Zenon, <4>1, <3>2, <2>g, <1>1
      <4> QED BY Zenon, <4>2, <3>2, <2>g, <1>1
    <3>3. CASE x = p /\ g = c
      BY Zenon, <3>3, <2>3, <1>m
    <3> QED BY Zenon, <2>3, <2>g, <3>1, <3>2, <3>3, <1>m, <1>f
  <2>4. \A x \in S, y \in Groups : <<x, y>> \in F => y \in S
    BY Zenon, <2>3, <2>g, <1>5, <1>3
  <2> HIDE DEF S
  <2>5. g \in S
    BY Zenon, <2>1, <2>2, <2>4, ReachesLeast
  <2> QED BY Zenon, <2>5 DEF S
<1>8. Exact(G, F, M)
  <2>1. \A a \in G : <<a, a>> \in M
    BY Zenon, <1>0, <1>m
  <2> QED BY Zenon, <2>1, <1>3, <1>4, <1>6, <1>7 DEF Exact
<1> QED BY Zenon, <1>8 DEF F, M

(* The rows that are left of L and the ones computed afresh.               *)
KeptOrRebuilt(L, F, below) ==
    {y \in L : y[2] \notin below \/ y[1] = y[2]}
    \cup {y \in Pairs : y[2] \in below /\ Reaches(F, y[1], y[2])}

(* Removing an edge disturbs only the rows whose descendant lies below the *)
(* child: the others are kept, and those are computed afresh.              *)
LEMMA RemoveEdge ==
  ASSUME NEW G \in SUBSET Groups, NEW E, NEW L, Exact(G, E, L), NEW p, NEW c \in G,
         NEW below, below = {d \in Groups : <<c, d>> \in L}
  PROVE  Exact(G, E \ {<<p, c>>}, KeptOrRebuilt(L, E \ {<<p, c>>}, below))
<1> DEFINE F == E \ {<<p, c>>}
           M == KeptOrRebuilt(L, F, below)
<1>0. /\ E \subseteq G \X G /\ L \subseteq G \X G
      /\ \A a, b \in G : <<a, b>> \in L <=> (a = b \/ Reaches(E, a, b))
      /\ \A g \in Groups : ~Reaches(E, g, g)
  BY Zenon DEF Exact
<1>1. /\ \A a, b, d \in G : <<a, b>> \in L /\ <<b, d>> \in L => <<a, d>> \in L
      /\ \A a, b \in G : <<a, b>> \in E => <<a, b>> \in L
  BY Zenon, ExactFacts
<1>2. F \subseteq G \X G /\ F \subseteq E /\ below \subseteq G /\ c \in below
  BY Zenon, <1>0
<1>f. \A x, y \in G : <<x, y>> \in E => <<x, y>> \in F \/ y = c
  BY Zenon
<1>m. \A a, b \in G :
        <<a, b>> \in M <=> \/ <<a, b>> \in L /\ (b \notin below \/ a = b)
                           \/ b \in below /\ Reaches(F, a, b)
  BY Zenon DEF Pairs, KeptOrRebuilt
<1> HIDE DEF F
<1>3. M \subseteq G \X G
  <2> SUFFICES ASSUME NEW y \in Pairs, Reaches(F, y[1], y[2]) PROVE y \in G \X G
    BY Zenon, <1>0 DEF KeptOrRebuilt
  <2>1. y[1] \in Groups /\ y[2] \in Groups /\ y = <<y[1], y[2]>>
    BY DEF Pairs
  <2>2. y[1] \in G /\ y[2] \in G
    BY Zenon, <2>1, <1>2, ReachesInside
  <2> QED BY Zenon, <2>1, <2>2
<1> HIDE DEF M
<1>4. \A g \in Groups : ~Reaches(F, g, g)
  BY Zenon, <1>0, <1>2, ReachesMono
<1>5. ASSUME NEW a \in G, NEW b \in G, Reaches(E, a, b), b \notin below
      PROVE  Reaches(F, a, b)
  <2> DEFINE S == {y \in G : Reaches(F, a, y) \/ y \in below}
  <2>1. S \in SUBSET Groups
    BY Zenon
  <2>2. \A y \in Groups : <<a, y>> \in E => y \in S
    BY Zenon, <1>0, <1>2, <1>f, EdgeReaches
  <2>3. ASSUME NEW x \in S, NEW y \in Groups, <<x, y>> \in E PROVE y \in S
    <3>1. x \in G /\ y \in G
      BY Zenon, <1>0, <2>3
    <3>2. CASE y = c
      BY Zenon, <3>2, <1>2
    <3>3. CASE x \in below
      <4>1. <<c, x>> \in L /\ <<x, y>> \in L
        BY Zenon, <3>1, <3>3, <2>3, <1>1
      <4>2. <<c, y>> \in L
        BY Zenon, <4>1, <3>1, <1>1
      <4> QED BY Zenon, <4>2, <3>1
    <3>4. CASE Reaches(F, a, x) /\ <<x, y>> \in F
      <4>1. Reaches(F, x, y)
        BY Zenon, <3>1, <3>4, EdgeReaches
      <4>2. Reaches(F, a, y)
        BY Zenon, <3>1, <3>4, <4>1, ReachesTrans
      <4> QED BY Zenon, <4>2, <3>1
    <3> QED BY Zenon, <2>3, <3>1, <3>2, <3>3, <3>4, <1>f
  <2> HIDE DEF S
  <2>4. b \in S
    BY Zenon, <1>5, <2>1, <2>2, <2>3, ReachesLeast
  <2> QED BY Zenon, <2>4, <1>5 DEF S
<1>6. \A a, b \in G : <<a, b>> \in M <=> (a = b \/ Reaches(F, a, b))
  <2> SUFFICES ASSUME NEW a \in G, NEW b \in G
               PROVE  <<a, b>> \in M <=> (a = b \/ Reaches(F, a, b))
    BY Zenon
  <2>1. Reaches(F, a, b) => Reaches(E, a, b)
    BY Zenon, <1>2, ReachesMono
  <2>2. CASE b \in below
    BY Zenon, <2>2, <1>m, <1>0, <1>4
  <2>3. CASE b \notin below
    BY Zenon, <2>1, <2>3, <1>5, <1>m, <1>0
  <2> QED BY Zenon, <2>2, <2>3
<1> QED BY Zenon, <1>2, <1>3, <1>4, <1>6 DEF Exact, F, M

(* A new group, joined to nothing.                                         *)
LEMMA AddGroup ==
  ASSUME NEW G \in SUBSET Groups, NEW E, NEW L, Exact(G, E, L), NEW g \in Groups, g \notin G
  PROVE  Exact(G \cup {g}, E, L \cup {<<g, g>>})
<1>0. /\ E \subseteq G \X G /\ L \subseteq G \X G
      /\ \A a, b \in G : <<a, b>> \in L <=> (a = b \/ Reaches(E, a, b))
      /\ \A h \in Groups : ~Reaches(E, h, h)
  BY Zenon DEF Exact
<1>1. \A a, b \in Groups : Reaches(E, a, b) => a \in G /\ b \in G
  BY Zenon, <1>0, ReachesInside
<1> DEFINE H == G \cup {g}
           M == L \cup {<<g, g>>}
<1>2. E \subseteq H \X H /\ M \subseteq H \X H
  BY <1>0
<1>3. \A a, b \in H : <<a, b>> \in M <=> (a = b \/ Reaches(E, a, b))
  BY Zenon, <1>0, <1>1
<1> HIDE DEF H, M
<1>4. Exact(H, E, M)
  BY Zenon, <1>0, <1>2, <1>3 DEF Exact
<1> QED BY Zenon, <1>4 DEF H, M

(* A group joined to nothing can go, with its self row.                    *)
LEMMA DropGroup ==
  ASSUME NEW G \in SUBSET Groups, NEW E, NEW L, Exact(G, E, L), NEW g \in Groups,
         \A e \in E : g \notin {e[1], e[2]}
  PROVE  Exact(G \ {g}, {e \in E : e[1] \notin {g} /\ e[2] \notin {g}},
               {y \in L : y[1] \notin {g} /\ y[2] \notin {g}})
<1> DEFINE H == G \ {g}
           F == {e \in E : e[1] \notin {g} /\ e[2] \notin {g}}
           M == {y \in L : y[1] \notin {g} /\ y[2] \notin {g}}
<1>0. /\ E \subseteq G \X G /\ L \subseteq G \X G
      /\ \A a, b \in G : <<a, b>> \in L <=> (a = b \/ Reaches(E, a, b))
      /\ \A h \in Groups : ~Reaches(E, h, h)
  BY Zenon DEF Exact
<1>1. F = E
  BY Zenon
<1>2. E \subseteq H \X H
  <2> SUFFICES ASSUME NEW e \in E PROVE e \in H \X H
    BY Zenon
  <2>1. e \in G \X G /\ e[1] # g /\ e[2] # g
    BY Zenon, <1>0
  <2> QED BY Zenon, <2>1
<1>3. M \subseteq H \X H
  BY Zenon, <1>0
<1>4. \A a, b \in H : <<a, b>> \in M <=> <<a, b>> \in L
  BY Zenon
<1>5. \A a, b \in H : <<a, b>> \in M <=> (a = b \/ Reaches(E, a, b))
  BY Zenon, <1>0, <1>4
<1> HIDE DEF H, M, F
<1>6. Exact(H, E, M)
  BY Zenon, <1>0, <1>2, <1>3, <1>5 DEF Exact
<1> QED BY Zenon, <1>6, <1>1 DEF H, M, F

-----------------------------------------------------------------------------
(* The invariant *)

Stored == Exact(groups, edges, DOMAIN lineage)

(* Groups that the provider reports have no children: so wiring them needs *)
(* no cycle check.                                                         *)
ReportedAreLeaves == \A e \in edges : e[1] \notin Assertion

(* What a request has checked or read is still so.                         *)
StillSo(r) ==
    /\ req[r].pc \in {"add", "commit"} =>
        /\ req[r].p \in groups /\ req[r].c \in groups
        /\ req[r].p # req[r].c /\ req[r].p \notin Assertion
        /\ <<req[r].c, req[r].p>> \notin DOMAIN lineage
    /\ req[r].pc = "wire" => req[r].c \in Assertion /\ req[r].c \in groups
    /\ req[r].pc = "commit" =>
        DOMAIN rows[r] = {a \in Groups : <<a, req[r].p>> \in DOMAIN lineage}
                         \X {d \in Groups : <<req[r].c, d>> \in DOMAIN lineage}
    /\ req[r].pc = "rebuild" =>
        /\ req[r].c \in groups
        /\ req[r].below = {d \in Groups : <<req[r].c, d>> \in DOMAIN lineage}
    /\ req[r].pc = "delete" =>
        /\ req[r].p \in groups
        /\ \A e \in edges : req[r].p \notin {e[1], e[2]}

ReqType == [pc : {"idle", "add", "wire", "commit", "remove", "next", "rebuild", "delete"},
            p : Groups \cup {None}, c : Groups \cup {None},
            below : SUBSET Groups, todo : SUBSET Pairs]

Inv == TypeOK /\ Stored /\ ReportedAreLeaves /\ \A r \in Requests : StillSo(r)

(* The first state satisfies the invariant.                                *)
LEMMA InitInv == Init => Inv
<1> SUFFICES ASSUME Init PROVE Inv
  BY Zenon
<1>1. DOMAIN lineage = {}
  BY DEF Init
<1>2. \A g \in Groups : ~Reaches({}, g, g)
  <2>1. {} \in SUBSET Groups
    BY Zenon
  <2> QED BY Zenon, <2>1, ReachesInside
<1>3. Stored
  BY Zenon, <1>1, <1>2 DEF Init, Stored, Exact
<1>4. TypeOK
  BY Zenon, <1>1 DEF Init, TypeOK, Idle
<1> QED BY Zenon, <1>3, <1>4 DEF Init, Inv, ReportedAreLeaves, StillSo, Idle

(* One step per action.  A request that reads or checks changes no table;  *)
(* the ones that do are the graph lemmas.                                  *)
LEMMA InvStep ==
  ASSUME OneRequest, ~IdpDeletion
  PROVE  Inv /\ [Next]_vars => Inv'
<1> SUFFICES ASSUME Inv, [Next]_vars PROVE Inv'
  BY Zenon
<1> USE HierarchyConstants
<1> USE DEF ReqType
<1>i. Idle \in ReqType /\ Idle.pc = "idle"
  BY Zenon DEF Idle
<1>t. /\ groups \subseteq Groups /\ edges \subseteq groups \X groups
      /\ req \in [Requests -> ReqType] /\ DOMAIN rows = Requests
      /\ Stored /\ ReportedAreLeaves /\ \A r \in Requests : StillSo(r)
  BY Zenon DEF Inv, TypeOK
<1>one. \A r, s \in Requests : r = s
  BY Zenon, OneRequest DEF OneRequest
<1>new. ASSUME NEW g \in Groups, g \notin groups,
               groups' = groups \cup {g}, edges' = edges,
               lineage' = Upsert(lineage, [x \in {<<g, g>>} |-> 0])
        PROVE  /\ Stored' /\ DOMAIN lineage' = DOMAIN lineage \cup {<<g, g>>}
  <2>1. DOMAIN lineage' = DOMAIN lineage \cup {<<g, g>>}
    BY Zenon, <1>new DEF Upsert
  <2>2. Exact(groups \cup {g}, edges, DOMAIN lineage \cup {<<g, g>>})
    BY Zenon, <1>t, <1>new, AddGroup DEF Stored
  <2> QED BY Zenon, <2>1, <2>2, <1>new DEF Stored
<1>table. ASSUME groups' \subseteq Groups, Stored', ReportedAreLeaves',
                req' \in [Requests -> ReqType], DOMAIN rows' = Requests,
                \A r \in Requests : StillSo(r)'
         PROVE  Inv'
  <2>1. edges' \subseteq groups' \X groups' /\ DOMAIN lineage' \subseteq groups' \X groups'
    BY Zenon, <1>table DEF Stored, Exact
  <2>2. \A g \in groups' : <<g, g>> \in DOMAIN lineage'
    BY Zenon, <1>table DEF Stored, Exact
  <2>3. ASSUME NEW e \in edges' PROVE e[1] # e[2]
    <3>1. e = <<e[1], e[2]>> /\ e[1] \in Groups /\ e[2] \in Groups
      BY <2>1, <1>table
    <3>2. Reaches(edges', e[1], e[2])
      BY Zenon, <3>1, EdgeReaches
    <3>3. \A g \in Groups : ~Reaches(edges', g, g)
      BY Zenon, <1>table DEF Stored, Exact
    <3> QED BY Zenon, <3>1, <3>2, <3>3
  <2>4. TypeOK'
    BY Zenon, <2>1, <2>2, <2>3, <1>table DEF TypeOK
  <2> QED BY Zenon, <2>4, <1>table DEF Inv
<1>read. ASSUME NEW r \in Requests, UNCHANGED <<groups, edges, lineage>>,
                req' \in [Requests -> ReqType], DOMAIN rows' = Requests, StillSo(r)'
         PROVE  Inv'
  <2>1. \A s \in Requests : StillSo(s)'
    BY Zenon, <1>read, <1>one
  <2>2. Stored' /\ ReportedAreLeaves'
    BY Zenon, <1>read, <1>t DEF Stored, ReportedAreLeaves
  <2> QED BY Zenon, <2>1, <2>2, <1>read, <1>table, <1>t
<1> HIDE DEF ReqType
<1>p. ASSUME NEW x \in ReqType
      PROVE  /\ x.pc \in {"idle", "add", "wire", "commit", "remove", "next", "rebuild", "delete"}
             /\ x.p \in Groups \cup {None} /\ x.c \in Groups \cup {None}
             /\ x.below \in SUBSET Groups /\ x.todo \in SUBSET Pairs
             /\ x = [pc |-> x.pc, p |-> x.p, c |-> x.c, below |-> x.below, todo |-> x.todo]
  BY Zenon, <1>p DEF ReqType
<1>1. ASSUME NEW g \in Groups, create_group(g) PROVE Inv'
  <2>1. /\ g \notin groups /\ groups' = groups \cup {g} /\ edges' = edges
        /\ lineage' = Upsert(lineage, [x \in {<<g, g>>} |-> 0])
        /\ req' = req /\ rows' = rows
    BY Zenon, <1>1 DEF create_group
  <2>2. Stored' /\ DOMAIN lineage' = DOMAIN lineage \cup {<<g, g>>}
    BY Zenon, <2>1, <1>new
  <2>3. ASSUME NEW r \in Requests PROVE StillSo(r)'
    <3>1. StillSo(r)
      BY Zenon, <1>t
    <3> QED BY Zenon, <2>1, <2>2, <3>1 DEF StillSo
  <2>4. ReportedAreLeaves'
    BY Zenon, <2>1, <1>t DEF ReportedAreLeaves
  <2> QED BY Zenon, <1>t, <2>1, <2>2, <2>3, <2>4, <1>table
<1>2. ASSUME NEW r \in Requests, NEW g \in Groups, CheckDelete(r, g) PROVE Inv'
  <2>1. req'[r] = [Idle EXCEPT !.pc = "delete", !.p = g]
    BY Zenon, <1>2, <1>t DEF CheckDelete
  <2>2. req'[r].pc = "delete" /\ req'[r].p = g
    BY Zenon, <2>1 DEF Idle
  <2>3. StillSo(r)'
    BY <1>2, <2>2 DEF CheckDelete, StillSo
  <2>4. [Idle EXCEPT !.pc = "delete", !.p = g] \in ReqType
    BY Zenon, <1>i DEF Idle, ReqType
  <2> QED BY Zenon, <1>2, <2>3, <2>4, <1>t, <1>read DEF CheckDelete
<1>3. ASSUME NEW r \in Requests, delete_group(r) PROVE Inv'
  <2> DEFINE g == req[r].p
  <2>1. g \in groups /\ \A e \in edges : g \notin {e[1], e[2]}
    BY Zenon, <1>3, <1>t DEF delete_group, StillSo
  <2>2. /\ groups' = groups \ {g}
        /\ edges' = {e \in edges : e[1] \notin {g} /\ e[2] \notin {g}}
        /\ DOMAIN lineage' = {y \in DOMAIN lineage : y[1] \notin {g} /\ y[2] \notin {g}}
        /\ req' = [req EXCEPT ![r] = Idle] /\ rows' = rows
    BY Zenon, <1>3 DEF delete_group, Without
  <2> HIDE DEF g
  <2>3. Exact(groups \ {g}, {e \in edges : e[1] \notin {g} /\ e[2] \notin {g}},
              {y \in DOMAIN lineage : y[1] \notin {g} /\ y[2] \notin {g}})
    BY <1>t, <2>1, DropGroup DEF Stored
  <2>4. Stored'
    BY Zenon, <2>2, <2>3 DEF Stored
  <2>5. StillSo(r)'
    BY Zenon, <2>2, <1>t, <1>i DEF StillSo
  <2>6. \A s \in Requests : StillSo(s)'
    BY Zenon, <2>5, <1>one
  <2>7. ReportedAreLeaves'
    BY Zenon, <2>2, <1>t DEF ReportedAreLeaves
  <2>8. req' \in [Requests -> ReqType] /\ DOMAIN rows' = Requests /\ groups' \subseteq Groups
    BY Zenon, <2>2, <1>t, <1>i
  <2> QED BY Zenon, <2>4, <2>6, <2>7, <2>8, <1>table
<1>4. ASSUME NEW r \in Requests, NEW p \in Groups, NEW c \in Groups, add_child(r, p, c) PROVE Inv'
  <2>1. req'[r] = [Idle EXCEPT !.pc = "add", !.p = p, !.c = c]
    BY Zenon, <1>4, <1>t DEF add_child
  <2>2. req'[r].pc = "add" /\ req'[r].p = p /\ req'[r].c = c
    BY Zenon, <2>1 DEF Idle
  <2>3. StillSo(r)'
    BY <1>4, <2>2 DEF add_child, StillSo
  <2>4. [Idle EXCEPT !.pc = "add", !.p = p, !.c = c] \in ReqType
    BY Zenon, <1>i DEF Idle, ReqType
  <2> QED BY Zenon, <1>4, <2>3, <2>4, <1>t, <1>read DEF add_child
<1>5. ASSUME NEW r \in Requests, NEW g \in Groups, get_or_create_idp_group(r, g) PROVE Inv'
  <2>1. /\ g \in Assertion /\ edges' = edges /\ rows' = rows
        /\ req' = [req EXCEPT ![r] = [Idle EXCEPT !.pc = "wire", !.c = g]]
    BY Zenon, <1>5 DEF get_or_create_idp_group
  <2>2. req'[r].pc = "wire" /\ req'[r].c = g
    BY Zenon, <2>1, <1>t DEF Idle
  <2>3. [Idle EXCEPT !.pc = "wire", !.c = g] \in ReqType
    BY Zenon, <1>i DEF Idle, ReqType
  <2>4. req' \in [Requests -> ReqType] /\ DOMAIN rows' = Requests
    BY Zenon, <2>1, <2>3, <1>t
  <2>5. CASE g \in groups
    <3>1. UNCHANGED <<groups, edges, lineage>>
      BY Zenon, <1>5, <2>5 DEF get_or_create_idp_group
    <3>2. StillSo(r)'
      BY <2>1, <2>2, <2>5, <3>1 DEF StillSo
    <3> QED BY Zenon, <2>4, <3>1, <3>2, <1>read
  <2>6. CASE g \notin groups
    <3>1. /\ groups' = groups \cup {g}
          /\ lineage' = Upsert(lineage, [x \in {<<g, g>>} |-> 0])
      BY Zenon, <1>5, <2>6 DEF get_or_create_idp_group
    <3>2. Stored'
      BY Zenon, <2>1, <2>6, <3>1, <1>new
    <3>3. StillSo(r)'
      BY <2>1, <2>2, <3>1 DEF StillSo
    <3>4. \A s \in Requests : StillSo(s)'
      BY Zenon, <3>3, <1>one
    <3>5. ReportedAreLeaves'
      BY Zenon, <2>1, <1>t DEF ReportedAreLeaves
    <3> QED BY Zenon, <2>4, <3>1, <3>2, <3>4, <3>5, <1>t, <1>table
  <2> QED BY Zenon, <2>5, <2>6
<1>6. ASSUME NEW r \in Requests, _ensure_umbrella_relationship(r) PROVE Inv'
  <2>0. /\ req[r] \in ReqType /\ req[r].c \in Assertion /\ req[r].c \in groups
        /\ UNCHANGED <<groups, edges, lineage, rows>>
    BY Zenon, <1>6, <1>t DEF _ensure_umbrella_relationship, StillSo
  <2>1. CASE req' = [req EXCEPT ![r] = Idle]
    <3>1. StillSo(r)'
      BY Zenon, <2>1, <1>t, <1>i DEF StillSo
    <3> QED BY Zenon, <2>0, <2>1, <3>1, <1>t, <1>i, <1>read
  <2>2. ASSUME NEW u \in Umbrella \cap groups, req' = [req EXCEPT ![r].pc = "add", ![r].p = u]
        PROVE  Inv'
    <3>1. req'[r] = [req[r] EXCEPT !.pc = "add", !.p = u]
      BY Zenon, <2>2, <1>t
    <3>2. req'[r].pc = "add" /\ req'[r].p = u /\ req'[r].c = req[r].c
      BY Zenon, <3>1, <2>0 DEF ReqType
    <3>3. [req[r] EXCEPT !.pc = "add", !.p = u] \in ReqType
      BY Zenon, <2>0, <1>t DEF ReqType
    <3>4. ~Reaches(edges, req[r].c, u)
      <4> SUFFICES ASSUME Reaches(edges, req[r].c, u) PROVE FALSE
        BY Zenon
      <4>1. \A y \in Groups : <<req[r].c, y>> \notin edges
        BY Zenon, <2>0, <1>t DEF ReportedAreLeaves
      <4> DEFINE S == {}
      <4>2. S \in SUBSET Groups /\ (\A y \in Groups : <<req[r].c, y>> \in edges => y \in S)
            /\ (\A x \in S, y \in Groups : <<x, y>> \in edges => y \in S)
        BY Zenon, <4>1
      <4>3. req[r].c \in Groups /\ u \in Groups
        BY Zenon, <2>0, <1>t
      <4> HIDE DEF S
      <4>4. u \in S
        BY <4>2, <4>3, ReachesLeast
      <4> QED BY Zenon, <4>4 DEF S
    <3>5. <<req[r].c, u>> \notin DOMAIN lineage
      BY Zenon, <3>4, <2>0, <1>t DEF Stored, Exact
    <3>6. StillSo(r)'
      BY Zenon, <2>0, <3>2, <3>5, <1>t DEF StillSo
    <3> QED BY Zenon, <2>0, <2>2, <3>1, <3>3, <3>6, <1>t, <1>read
  <2> QED BY Zenon, <1>6, <2>1, <2>2 DEF _ensure_umbrella_relationship
<1>7. ASSUME NEW r \in Requests, add_group_relationship(r) PROVE Inv'
  <2>0. /\ req[r] \in ReqType /\ req[r].pc = "add" /\ StillSo(r)
        /\ UNCHANGED <<groups, edges, lineage>>
    BY Zenon, <1>7, <1>t DEF add_group_relationship
  <2>1. CASE req' = [req EXCEPT ![r] = Idle] /\ rows' = rows
    <3>1. StillSo(r)'
      BY Zenon, <2>1, <1>t, <1>i DEF StillSo
    <3> QED BY Zenon, <2>0, <2>1, <3>1, <1>t, <1>i, <1>read
  <2>2. CASE /\ req' = [req EXCEPT ![r].pc = "commit"]
             /\ rows' = [rows EXCEPT ![r] = NewRows(req[r].p, req[r].c)]
    <3>1. req'[r] = [req[r] EXCEPT !.pc = "commit"]
      BY Zenon, <2>2, <1>t
    <3>2. req'[r].pc = "commit" /\ req'[r].p = req[r].p /\ req'[r].c = req[r].c
      BY Zenon, <3>1, <2>0 DEF ReqType
    <3>3. [req[r] EXCEPT !.pc = "commit"] \in ReqType
      BY Zenon, <2>0 DEF ReqType
    <3>4. DOMAIN rows'[r] = {a \in Groups : <<a, req[r].p>> \in DOMAIN lineage}
                            \X {d \in Groups : <<req[r].c, d>> \in DOMAIN lineage}
      BY Zenon, <2>2, <1>t DEF NewRows
    <3>5. StillSo(r)'
      BY Zenon, <2>0, <3>2, <3>4 DEF StillSo
    <3> QED BY Zenon, <2>0, <2>2, <3>1, <3>3, <3>5, <1>t, <1>read
  <2> QED BY Zenon, <1>7, <2>1, <2>2 DEF add_group_relationship
<1>8. ASSUME NEW r \in Requests, CommitAdd(r) PROVE Inv'
  <2> DEFINE p == req[r].p
             c == req[r].c
             L == DOMAIN lineage
             M == L \cup ({a \in Groups : <<a, p>> \in L} \X {d \in Groups : <<c, d>> \in L})
  <2>1. /\ p \in groups /\ c \in groups /\ p # c /\ p \notin Assertion /\ <<c, p>> \notin L
        /\ DOMAIN rows[r] = {a \in Groups : <<a, p>> \in L} \X {d \in Groups : <<c, d>> \in L}
    BY Zenon, <1>8, <1>t DEF CommitAdd, StillSo
  <2>2. /\ groups' = groups /\ edges' = edges \cup {<<p, c>>} /\ DOMAIN lineage' = M
        /\ req' = [req EXCEPT ![r] = Idle] /\ DOMAIN rows' = Requests
    BY Zenon, <1>8, <1>t, <2>1 DEF CommitAdd, Upsert
  <2> HIDE DEF p, c
  <2>3. Exact(groups, edges \cup {<<p, c>>}, M)
    <3>1. groups \in SUBSET Groups /\ Exact(groups, edges, L)
      BY Zenon, <1>t DEF Stored
    <3> HIDE DEF L
    <3> QED BY ONLY <3>1, <2>1, AddEdge
  <2> HIDE DEF M
  <2>4. Stored'
    BY Zenon, <2>2, <2>3 DEF Stored
  <2>5. StillSo(r)'
    BY Zenon, <2>2, <1>t, <1>i DEF StillSo
  <2>6. \A s \in Requests : StillSo(s)'
    BY Zenon, <2>5, <1>one
  <2>7. ReportedAreLeaves'
    BY <2>1, <2>2, <1>t DEF ReportedAreLeaves
  <2>8. req' \in [Requests -> ReqType] /\ groups' \subseteq Groups
    BY Zenon, <2>2, <1>t, <1>i
  <2> QED BY Zenon, <2>2, <2>4, <2>6, <2>7, <2>8, <1>table
<1>9. ASSUME NEW r \in Requests, NEW p \in Groups, NEW c \in Groups, remove_child(r, p, c)
      PROVE  Inv'
  <2>1. req'[r] = [Idle EXCEPT !.pc = "remove", !.p = p, !.c = c]
    BY Zenon, <1>9, <1>t DEF remove_child
  <2>2. req'[r].pc = "remove"
    BY Zenon, <2>1 DEF Idle
  <2>3. StillSo(r)'
    BY Zenon, <2>2 DEF StillSo
  <2>4. [Idle EXCEPT !.pc = "remove", !.p = p, !.c = c] \in ReqType
    BY Zenon, <1>i DEF Idle, ReqType
  <2> QED BY Zenon, <1>9, <2>3, <2>4, <1>t, <1>read DEF remove_child
<1>10. ASSUME NEW r \in Requests, NEW g \in Groups, remove_all_relationships(r, g) PROVE Inv'
  <2> DEFINE found == {e \in edges : g \in {e[1], e[2]} /\ ~_is_idp_managed_relationship(e)}
  <2>0. found \in SUBSET Pairs
    BY Zenon, <1>t DEF Pairs
  <2>1. /\ req' = [req EXCEPT ![r] = [Idle EXCEPT !.pc = "next", !.p = g, !.todo = found]]
        /\ UNCHANGED <<groups, edges, lineage, rows>>
    BY Zenon, <1>10 DEF remove_all_relationships
  <2> HIDE DEF found
  <2>2. req'[r].pc = "next"
    BY Zenon, <2>1, <1>t DEF Idle
  <2>3. StillSo(r)'
    BY Zenon, <2>2 DEF StillSo
  <2>4. [Idle EXCEPT !.pc = "next", !.p = g, !.todo = found] \in ReqType
    BY Zenon, <2>0, <1>i DEF Idle, ReqType
  <2> QED BY Zenon, <2>1, <2>3, <2>4, <1>t, <1>read
<1>11. ASSUME NEW r \in Requests, NextRemoval(r) PROVE Inv'
  <2>1. PICK e \in req[r].todo :
           /\ req' = [req EXCEPT ![r].pc = "remove", ![r].p = e[1], ![r].c = e[2],
                                 ![r].todo = @ \ {e}]
           /\ UNCHANGED <<groups, edges, lineage, rows>>
    BY Zenon, <1>11 DEF NextRemoval
  <2>2. req[r] \in ReqType /\ e \in Pairs
    BY Zenon, <1>t, <1>p
  <2>3. e[1] \in Groups /\ e[2] \in Groups
    BY Zenon, <2>2 DEF Pairs
  <2>4. req'[r] = [req[r] EXCEPT !.pc = "remove", !.p = e[1], !.c = e[2], !.todo = @ \ {e}]
    BY Zenon, <2>1, <1>t
  <2>5. [req[r] EXCEPT !.pc = "remove", !.p = e[1], !.c = e[2], !.todo = @ \ {e}] \in ReqType
    BY Zenon, <2>2, <2>3 DEF ReqType
  <2>6. req'[r].pc = "remove"
    BY Zenon, <2>2, <2>4 DEF ReqType
  <2>7. StillSo(r)'
    BY Zenon, <2>6 DEF StillSo
  <2>8. req' \in [Requests -> ReqType]
    BY Zenon, <2>1, <2>4, <2>5, <1>t
  <2> QED BY Zenon, <2>1, <2>7, <2>8, <1>t, <1>read
<1>r. ASSUME NEW r \in Requests
      PROVE  Removed(r) \in ReqType /\ Removed(r).pc \in {"idle", "next"}
  <2>1. req[r] \in ReqType
    BY Zenon, <1>t
  <2> QED BY Zenon, <2>1, <1>i DEF Removed, Idle, ReqType
<1>12. ASSUME NEW r \in Requests, remove_group_relationship(r) PROVE Inv'
  <2> DEFINE below == {d \in Groups : <<req[r].c, d>> \in DOMAIN lineage}
  <2>0. req[r] \in ReqType /\ UNCHANGED <<groups, edges, lineage, rows>>
    BY Zenon, <1>12, <1>t DEF remove_group_relationship
  <2>1. CASE /\ <<req[r].p, req[r].c>> \in edges
             /\ req' = [req EXCEPT ![r] = [@ EXCEPT !.pc = "rebuild", !.below = below]]
    <3> HIDE DEF below
    <3>1. req'[r] = [req[r] EXCEPT !.pc = "rebuild", !.below = below]
      BY Zenon, <2>1, <1>t
    <3>2. req'[r].pc = "rebuild" /\ req'[r].below = below /\ req'[r].c = req[r].c
      BY Zenon, <3>1, <2>0 DEF ReqType
    <3>3. below \in SUBSET Groups
      BY Zenon DEF below
    <3>4. [req[r] EXCEPT !.pc = "rebuild", !.below = below] \in ReqType
      BY Zenon, <2>0, <3>3 DEF ReqType
    <3>5. req[r].c \in groups
      BY Zenon, <2>1, <1>t
    <3>6. StillSo(r)'
      BY Zenon, <2>0, <3>2, <3>5 DEF StillSo, below
    <3>7. req' \in [Requests -> ReqType]
      BY Zenon, <2>1, <3>1, <3>4, <1>t
    <3> QED BY Zenon, <2>0, <3>6, <3>7, <1>t, <1>read
  <2>2. CASE req' = [req EXCEPT ![r] = Removed(r)]
    <3>1. StillSo(r)'
      BY Zenon, <2>2, <1>t, <1>r DEF StillSo
    <3> QED BY Zenon, <2>0, <2>2, <3>1, <1>t, <1>r, <1>read
  <2> QED BY Zenon, <1>12, <2>1, <2>2 DEF remove_group_relationship
<1>13. ASSUME NEW r \in Requests, Rebuild(r) PROVE Inv'
  <2> DEFINE p == req[r].p
             c == req[r].c
             below == req[r].below
             E == edges \ {<<p, c>>}
             M == KeptOrRebuilt(DOMAIN lineage, E, below)
  <2>1. c \in groups /\ below = {d \in Groups : <<c, d>> \in DOMAIN lineage}
    BY Zenon, <1>13, <1>t DEF Rebuild, StillSo
  <2>2. /\ groups' = groups /\ edges' = E /\ DOMAIN lineage' = M
        /\ req' = [req EXCEPT ![r] = Removed(r)] /\ rows' = rows
    BY Zenon, <1>13 DEF Rebuild, Upsert, Rebuilt, KeptOrRebuilt
  <2> HIDE DEF p, c, below
  <2>3. Exact(groups, E, M)
    <3>1. groups \in SUBSET Groups /\ Exact(groups, edges, DOMAIN lineage)
      BY Zenon, <1>t DEF Stored
    <3> QED BY ONLY Zenon, <3>1, <2>1, RemoveEdge
  <2> HIDE DEF M
  <2>4. Stored'
    BY Zenon, <2>2, <2>3 DEF Stored
  <2>5. StillSo(r)'
    BY Zenon, <2>2, <1>t, <1>r DEF StillSo
  <2>6. \A s \in Requests : StillSo(s)'
    BY Zenon, <2>5, <1>one
  <2>7. ReportedAreLeaves'
    BY Zenon, <2>2, <1>t DEF ReportedAreLeaves
  <2>8. req' \in [Requests -> ReqType] /\ groups' \subseteq Groups /\ DOMAIN rows' = Requests
    BY Zenon, <2>2, <1>t, <1>r
  <2> QED BY Zenon, <2>4, <2>6, <2>7, <2>8, <1>table
<1>14. CASE delete_groups_by_idp
  BY Zenon, <1>14 DEF delete_groups_by_idp
<1>15. CASE UNCHANGED vars
  <2>1. \A r \in Requests : StillSo(r)'
    BY ZenonT(60), <1>15, <1>t DEF vars, StillSo
  <2>2. Stored' /\ ReportedAreLeaves'
    BY Zenon, <1>15, <1>t DEF vars, Stored, ReportedAreLeaves
  <2>3. req' \in [Requests -> ReqType] /\ groups' \subseteq Groups /\ DOMAIN rows' = Requests
    BY Zenon, <1>15, <1>t DEF vars
  <2> QED BY Zenon, <2>1, <2>2, <2>3, <1>table
<1> QED
  BY Zenon, <1>1, <1>2, <1>3, <1>4, <1>5, <1>6, <1>7, <1>8, <1>9, <1>10, <1>11, <1>12, <1>13,
     <1>14, <1>15 DEF Next, Request

(* Requests one after the other, no provider deleted: what group_lineage   *)
(* says is what the edges of group_relationships say, through every        *)
(* sequence of add_child, remove_child, remove_all_relationships,          *)
(* delete_group and sign-ins that report groups.                           *)
THEOREM ClosureStaysExact ==
  ASSUME OneRequest, ~IdpDeletion
  PROVE  Spec => [](TypeOK /\ ClosureExact)
<1>1. Inv => TypeOK /\ ClosureExact
  BY Zenon DEF Inv, Stored, Exact, ClosureExact
<1> QED BY InitInv, InvStep, <1>1, PTL DEF Spec

(* Under the same assumptions would_create_cycle, which reads the closure  *)
(* table and not the edges, keeps the graph acyclic; and the wiring of     *)
(* reported groups, which does not call it, needs no check.                *)
THEOREM GraphStaysAcyclic ==
  ASSUME OneRequest, ~IdpDeletion
  PROVE  Spec => []NoCycles
<1>1. Inv => NoCycles
  BY Zenon DEF Inv, Stored, Exact, NoCycles, Cyclic
<1> QED BY InitInv, InvStep, <1>1, PTL DEF Spec

-----------------------------------------------------------------------------
(* Any number of requests at a time, and the provider may be deleted       *)

(* What a transaction has inserted and not committed names groups that its *)
(* locks keep, and the row of its edge is among it.                        *)
Pending(r) ==
    /\ req[r].pc \in {"add", "commit"} => req[r].p # req[r].c
    /\ req[r].pc = "wire" => req[r].c \in Assertion
    /\ req[r].pc = "commit" =>
        /\ req[r].p \in groups /\ req[r].c \in groups
        /\ DOMAIN rows[r] \subseteq groups \X groups
        /\ <<req[r].p, req[r].c>> \in DOMAIN rows[r]

Together == TypeOK /\ EdgesInLineage /\ \A r \in Requests : Pending(r)

(* What the types say, apart.                                              *)
LEMMA TypeFacts ==
  ASSUME TypeOK
  PROVE  /\ groups \subseteq Groups /\ edges \subseteq groups \X groups
         /\ \A e \in edges : e[1] # e[2]
         /\ DOMAIN lineage \subseteq groups \X groups
         /\ \A g \in groups : <<g, g>> \in DOMAIN lineage
         /\ req \in [Requests -> ReqType] /\ DOMAIN rows = Requests
         /\ Idle \in ReqType /\ Idle.pc = "idle"
         /\ \A r \in Requests : req[r] \in ReqType
BY Zenon DEF TypeOK, ReqType, Idle

(* It stays so for a request that waits while groups are kept.             *)
LEMMA StillPending ==
  ASSUME NEW s \in Requests, Pending(s), req'[s] = req[s], rows'[s] = rows[s], groups \subseteq groups'
  PROVE  Pending(s)'
<1>1. groups \X groups \subseteq groups' \X groups'
  BY Zenon
<1>2. CASE req[s].pc # "commit"
  BY Zenon, <1>2 DEF Pending
<1>3. CASE req[s].pc = "commit"
  <2>1. /\ req'[s].p \in groups' /\ req'[s].c \in groups'
        /\ DOMAIN rows'[s] \subseteq groups' \X groups'
        /\ <<req'[s].p, req'[s].c>> \in DOMAIN rows'[s]
    BY Zenon, <1>1, <1>3 DEF Pending
  <2> QED BY Zenon, <1>3, <2>1 DEF Pending
<1> QED BY Zenon, <1>2, <1>3

(* A request that reads or checks, and inserts nothing.                    *)
LEMMA Reads ==
  ASSUME Together, NEW r \in Requests, NEW x \in ReqType, req' = [req EXCEPT ![r] = x],
         UNCHANGED <<groups, edges, lineage, rows>>,
         x.pc # "commit", x.pc = "add" => x.p # x.c, x.pc = "wire" => x.c \in Assertion
  PROVE  Together'
<1>1. TypeOK /\ EdgesInLineage /\ req \in [Requests -> ReqType]
  BY Zenon, TypeFacts DEF Together
<1>2. req' \in [Requests -> ReqType]
  BY Zenon, <1>1
<1>3. TypeOK'
  BY Zenon, <1>1, <1>2 DEF TypeOK, ReqType
<1>4. ASSUME NEW s \in Requests PROVE Pending(s)'
  <2>1. CASE s = r
    <3>1. req'[s] = x
      BY Zenon, <2>1, <1>1
    <3> QED BY Zenon, <3>1 DEF Pending
  <2>2. CASE s # r
    <3>1. req'[s] = req[s] /\ rows'[s] = rows[s] /\ Pending(s)
      BY Zenon, <2>2, <1>1 DEF Together
    <3> QED BY Zenon, <3>1, StillPending
  <2> QED BY Zenon, <2>1, <2>2
<1>5. EdgesInLineage'
  BY Zenon, <1>1 DEF EdgesInLineage
<1> QED BY Zenon, <1>3, <1>4, <1>5 DEF Together

(* A new group with its self row; requests may go on, inserting nothing.   *)
LEMMA NewGroup ==
  ASSUME Together, NEW g \in Groups, g \notin groups,
         groups' = groups \cup {g}, UNCHANGED <<edges, rows>>,
         lineage' = Upsert(lineage, [x \in {<<g, g>>} |-> 0]),
         req' \in [Requests -> ReqType],
         \A s \in Requests : \/ req'[s] = req[s]
                             \/ req'[s].pc = "wire" /\ req'[s].c \in Assertion
  PROVE  Together'
<1>1. DOMAIN lineage' = DOMAIN lineage \cup {<<g, g>>}
  BY Zenon DEF Upsert
<1>2. TypeOK /\ EdgesInLineage
  BY Zenon DEF Together
<1>3. EdgesInLineage'
  BY Zenon, <1>1, <1>2 DEF EdgesInLineage
<1>4. TypeOK'
  <2>1. groups' \subseteq Groups /\ edges' \subseteq {e \in groups' \X groups' : e[1] # e[2]}
    BY Zenon, <1>2 DEF TypeOK
  <2>2. DOMAIN lineage' \subseteq groups' \X groups'
    <3>1. DOMAIN lineage \subseteq groups \X groups /\ groups \subseteq groups' /\ g \in groups'
      BY Zenon, <1>2, TypeFacts
    <3>2. DOMAIN lineage \subseteq groups' \X groups' /\ <<g, g>> \in groups' \X groups'
      BY Zenon, <3>1
    <3> QED BY Zenon, <1>1, <3>2
  <2>3. \A h \in groups' : <<h, h>> \in DOMAIN lineage'
    BY Zenon, <1>1, <1>2, TypeFacts
  <2> QED BY Zenon, <1>2, <2>1, <2>2, <2>3 DEF TypeOK, ReqType
<1>5. ASSUME NEW s \in Requests PROVE Pending(s)'
  <2>1. CASE req'[s].pc = "wire" /\ req'[s].c \in Assertion
    BY Zenon, <2>1 DEF Pending
  <2>2. CASE req'[s] = req[s]
    <3>1. Pending(s) /\ rows'[s] = rows[s] /\ groups \subseteq groups'
      BY Zenon DEF Together
    <3> QED BY Zenon, <2>2, <3>1, StillPending
  <2> QED BY Zenon, <2>1, <2>2
<1> QED BY Zenon, <1>3, <1>4, <1>5 DEF Together

(* The deletion of groups that no transaction has locked.                  *)
LEMMA DropGroups ==
  ASSUME Together, NEW gone, \A g \in gone : ~Locked(g), Without(gone), rows' = rows,
         req' \in [Requests -> ReqType],
         \A s \in Requests : req'[s] = req[s] \/ req'[s] = Idle
  PROVE  Together'
<1>1. TypeOK /\ EdgesInLineage
  BY Zenon DEF Together
<1>2. /\ groups' = groups \ gone
      /\ edges' = {e \in edges : e[1] \notin gone /\ e[2] \notin gone}
      /\ DOMAIN lineage' = {y \in DOMAIN lineage : y[1] \notin gone /\ y[2] \notin gone}
  BY Zenon DEF Without
<1>3. EdgesInLineage'
  BY Zenon, <1>1, <1>2 DEF EdgesInLineage
<1>p. ASSUME NEW y \in groups \X groups, y[1] \notin gone, y[2] \notin gone
      PROVE  y \in groups' \X groups'
  BY Zenon, <1>2, <1>p
<1>4. TypeOK'
  <2>1. groups' \subseteq Groups /\ edges' \subseteq {e \in groups' \X groups' : e[1] # e[2]}
    BY Zenon, <1>1, <1>2, <1>p, TypeFacts
  <2>2. DOMAIN lineage' \subseteq groups' \X groups'
    BY Zenon, <1>1, <1>2, <1>p, TypeFacts
  <2>3. \A h \in groups' : <<h, h>> \in DOMAIN lineage'
    BY Zenon, <1>1, <1>2, TypeFacts
  <2> QED BY Zenon, <1>1, <2>1, <2>2, <2>3 DEF TypeOK, ReqType
<1>5. ASSUME NEW s \in Requests PROVE Pending(s)'
  <2>1. CASE req'[s] = Idle
    BY Zenon, <2>1, <1>1, TypeFacts DEF Pending
  <2>2. CASE req'[s] = req[s] /\ req[s].pc # "commit"
    <3>1. Pending(s)
      BY Zenon DEF Together
    <3> QED BY Zenon, <2>2, <3>1 DEF Pending
  <2>3. CASE req'[s] = req[s] /\ req[s].pc = "commit"
    <3>1. Pending(s) /\ rows'[s] = rows[s]
      BY Zenon DEF Together
    <3>2. /\ req[s].p \notin gone /\ req[s].c \notin gone
          /\ \A x \in DOMAIN rows[s] : x[1] \notin gone /\ x[2] \notin gone
      BY Zenon, <2>3 DEF Locked
    <3>3. req[s].p \in groups' /\ req[s].c \in groups'
      BY Zenon, <3>1, <3>2, <2>3, <1>2 DEF Pending
    <3>4. DOMAIN rows[s] \subseteq groups' \X groups'
      BY Zenon, <3>1, <3>2, <2>3, <1>p DEF Pending
    <3> QED BY Zenon, <3>1, <3>3, <3>4, <2>3 DEF Pending
  <2> QED BY Zenon, <2>1, <2>2, <2>3
<1> QED BY Zenon, <1>3, <1>4, <1>5 DEF Together

(* The transaction that adds an edge: its rows, and the commit.            *)
LEMMA AddsEdge ==
  ASSUME Together, NEW r \in Requests, add_group_relationship(r) \/ CommitAdd(r)
  PROVE  Together'
<1>1. /\ TypeOK /\ EdgesInLineage /\ Pending(r) /\ req \in [Requests -> ReqType]
      /\ req[r] \in ReqType /\ Idle \in ReqType /\ Idle.pc = "idle" /\ DOMAIN rows = Requests
      /\ groups \subseteq Groups /\ DOMAIN lineage \subseteq groups \X groups
      /\ \A g \in groups : <<g, g>> \in DOMAIN lineage
  BY Zenon, TypeFacts DEF Together
<1> DEFINE p == req[r].p
           c == req[r].c
<1>2. CASE add_group_relationship(r) /\ req' = [req EXCEPT ![r] = Idle]
  <2>1. UNCHANGED <<groups, edges, lineage>> /\ req[r].pc = "add"
    BY Zenon, <1>2 DEF add_group_relationship
  <2>2. rows' = rows
    <3>1. [req EXCEPT ![r] = Idle] # [req EXCEPT ![r].pc = "commit"]
      <4>1. [req EXCEPT ![r] = Idle][r].pc = "idle"
        BY Zenon, <1>1
      <4>2. [req EXCEPT ![r].pc = "commit"][r].pc = "commit"
        BY Zenon, <1>1 DEF ReqType
      <4> QED BY Zenon, <4>1, <4>2
    <3> QED BY Zenon, <1>2, <3>1 DEF add_group_relationship
  <2> QED BY Zenon, <1>1, <1>2, <2>1, <2>2, Reads
<1>3. CASE /\ p \in groups /\ c \in groups /\ req[r].pc = "add"
           /\ req' = [req EXCEPT ![r].pc = "commit"]
           /\ rows' = [rows EXCEPT ![r] = NewRows(p, c)]
           /\ UNCHANGED <<groups, edges, lineage>>
  <2>1. req'[r] = [req[r] EXCEPT !.pc = "commit"]
    BY Zenon, <1>1, <1>3
  <2>2. [req[r] EXCEPT !.pc = "commit"] \in ReqType
    BY Zenon, <1>1 DEF ReqType
  <2>3. req'[r].pc = "commit" /\ req'[r].p = p /\ req'[r].c = c
    BY Zenon, <1>1, <2>1 DEF ReqType
  <2>4. DOMAIN rows'[r] = {a \in Groups : <<a, p>> \in DOMAIN lineage}
                          \X {d \in Groups : <<c, d>> \in DOMAIN lineage}
    BY Zenon, <1>1, <1>3 DEF NewRows
  <2> HIDE DEF p, c
  <2>5. DOMAIN rows'[r] \subseteq groups \X groups
    BY Zenon, <1>1, <2>4
  <2>6. <<p, c>> \in DOMAIN rows'[r]
    BY Zenon, <1>1, <1>3, <2>4
  <2>7. p # c
    BY Zenon, <1>1, <1>3 DEF Pending, p, c
  <2>8. Pending(r)'
    BY Zenon, <1>3, <2>3, <2>5, <2>6, <2>7 DEF Pending
  <2>9. ASSUME NEW s \in Requests, s # r PROVE Pending(s)'
    <3>1. req'[s] = req[s] /\ rows'[s] = rows[s] /\ Pending(s)
      BY Zenon, <2>9, <1>1, <1>3 DEF Together
    <3> QED BY Zenon, <3>1, <1>3, StillPending
  <2>10. req' \in [Requests -> ReqType] /\ DOMAIN rows' = Requests
    BY Zenon, <1>1, <1>3, <2>1, <2>2
  <2>11. TypeOK' /\ EdgesInLineage'
    BY Zenon, <1>1, <1>3, <2>10 DEF TypeOK, EdgesInLineage, ReqType
  <2> QED BY Zenon, <2>8, <2>9, <2>11 DEF Together
<1>4. CASE CommitAdd(r)
  <2>1. /\ req[r].pc = "commit" /\ groups' = groups /\ edges' = edges \cup {<<p, c>>}
        /\ DOMAIN lineage' = DOMAIN lineage \cup DOMAIN rows[r]
        /\ req' = [req EXCEPT ![r] = Idle] /\ rows' = [rows EXCEPT ![r] = <<>>]
    BY Zenon, <1>4 DEF CommitAdd, Upsert
  <2>2. /\ p \in groups /\ c \in groups /\ p # c /\ <<p, c>> \in DOMAIN rows[r]
        /\ DOMAIN rows[r] \subseteq groups \X groups
    BY Zenon, <1>1, <2>1 DEF Pending
  <2> HIDE DEF p, c
  <2>3. EdgesInLineage'
    BY Zenon, <1>1, <2>1, <2>2 DEF EdgesInLineage
  <2>4. edges' \subseteq {e \in groups' \X groups' : e[1] # e[2]}
    <3>1. edges \subseteq {e \in groups \X groups : e[1] # e[2]}
      BY Zenon, <1>1 DEF TypeOK
    <3>2. <<p, c>> \in {e \in groups \X groups : e[1] # e[2]}
      BY <2>2
    <3> QED BY Zenon, <3>1, <3>2, <2>1
  <2>5. req' \in [Requests -> ReqType] /\ DOMAIN rows' = Requests
    BY Zenon, <1>1, <2>1
  <2>6. DOMAIN lineage' \subseteq groups' \X groups' /\ \A g \in groups' : <<g, g>> \in DOMAIN lineage'
    BY Zenon, <1>1, <2>1, <2>2
  <2>7. TypeOK'
    BY Zenon, <1>1, <2>1, <2>4, <2>5, <2>6 DEF TypeOK, ReqType
  <2>8. ASSUME NEW s \in Requests PROVE Pending(s)'
    <3>1. CASE s = r
      BY Zenon, <3>1, <1>1, <2>1 DEF Pending
    <3>2. CASE s # r
      <4>1. req'[s] = req[s] /\ rows'[s] = rows[s] /\ Pending(s)
        BY Zenon, <3>2, <1>1, <2>1 DEF Together
      <4> QED BY Zenon, <4>1, <2>1, StillPending
    <3> QED BY Zenon, <3>1, <3>2
  <2> QED BY Zenon, <2>3, <2>7, <2>8 DEF Together
<1> QED BY Zenon, <1>2, <1>3, <1>4 DEF add_group_relationship

(* The transaction that removes an edge: the rows of the edges that are    *)
(* left are kept or computed afresh, whatever was read before.             *)
LEMMA RemovesEdge ==
  ASSUME Together, NEW r \in Requests, Rebuild(r)
  PROVE  Together'
<1>1. /\ TypeOK /\ EdgesInLineage /\ req \in [Requests -> ReqType] /\ req[r] \in ReqType
      /\ Idle \in ReqType /\ groups \subseteq Groups /\ edges \subseteq groups \X groups
      /\ DOMAIN lineage \subseteq groups \X groups
      /\ \A g \in groups : <<g, g>> \in DOMAIN lineage
  BY Zenon, TypeFacts DEF Together
<1> DEFINE below == req[r].below
           E == edges \ {<<req[r].p, req[r].c>>}
<1>2. /\ groups' = groups /\ edges' = E /\ DOMAIN lineage' = KeptOrRebuilt(DOMAIN lineage, E, below)
      /\ req' = [req EXCEPT ![r] = Removed(r)] /\ rows' = rows
  BY Zenon DEF Rebuild, Upsert, Rebuilt, KeptOrRebuilt
<1>3. E \subseteq edges
  BY Zenon
<1> HIDE DEF E, below
<1>4. ASSUME NEW e \in E PROVE e \in KeptOrRebuilt(DOMAIN lineage, E, below)
  <2>1. e \in DOMAIN lineage /\ e \in groups \X groups
    BY Zenon, <1>1, <1>3 DEF EdgesInLineage
  <2>2. e \in Pairs /\ e = <<e[1], e[2]>> /\ e[1] \in Groups /\ e[2] \in Groups
    BY <1>1, <2>1 DEF Pairs
  <2>3. Reaches(E, e[1], e[2])
    BY Zenon, <2>2, EdgeReaches
  <2> QED BY Zenon, <2>1, <2>2, <2>3 DEF KeptOrRebuilt
<1>5. KeptOrRebuilt(DOMAIN lineage, E, below) \subseteq groups \X groups
  <2> SUFFICES ASSUME NEW y \in Pairs, Reaches(E, y[1], y[2]) PROVE y \in groups \X groups
    BY Zenon, <1>1 DEF KeptOrRebuilt
  <2>1. y[1] \in Groups /\ y[2] \in Groups /\ y = <<y[1], y[2]>>
    BY DEF Pairs
  <2>2. E \subseteq groups \X groups
    BY Zenon, <1>1, <1>3
  <2>3. y[1] \in groups /\ y[2] \in groups
    BY Zenon, <1>1, <2>1, <2>2, ReachesInside
  <2> QED BY Zenon, <2>1, <2>3
<1>6. \A g \in groups : <<g, g>> \in KeptOrRebuilt(DOMAIN lineage, E, below)
  BY Zenon, <1>1 DEF KeptOrRebuilt
<1>7. Removed(r) \in ReqType /\ Removed(r).pc \in {"idle", "next"}
  BY Zenon, <1>1 DEF Removed, Idle, ReqType
<1>8. req' \in [Requests -> ReqType]
  BY Zenon, <1>1, <1>2, <1>7
<1>9. EdgesInLineage'
  BY Zenon, <1>2, <1>4 DEF EdgesInLineage
<1>10. TypeOK'
  BY Zenon, <1>1, <1>2, <1>3, <1>5, <1>6, <1>8 DEF TypeOK, ReqType
<1>11. ASSUME NEW s \in Requests PROVE Pending(s)'
  <2>1. CASE s = r
    BY Zenon, <2>1, <1>1, <1>2, <1>7 DEF Pending
  <2>2. CASE s # r
    <3>1. req'[s] = req[s] /\ rows'[s] = rows[s] /\ Pending(s)
      BY Zenon, <2>2, <1>1, <1>2 DEF Together
    <3> QED BY Zenon, <3>1, <1>2, StillPending
  <2> QED BY Zenon, <2>1, <2>2
<1> QED BY Zenon, <1>9, <1>10, <1>11 DEF Together

(* Every step of any request keeps it.                                     *)
LEMMA TogetherStep == Together /\ [Next]_vars => Together'
<1> SUFFICES ASSUME Together, [Next]_vars PROVE Together'
  BY Zenon
<1> USE HierarchyConstants
<1>t. /\ TypeOK /\ req \in [Requests -> ReqType] /\ edges \subseteq groups \X groups
      /\ groups \subseteq Groups /\ Idle \in ReqType /\ Idle.pc = "idle"
      /\ \A r \in Requests : req[r] \in ReqType /\ Pending(r)
  BY Zenon, TypeFacts DEF Together
<1>1. ASSUME NEW g \in Groups, create_group(g) PROVE Together'
  BY Zenon, <1>1, <1>t, NewGroup DEF create_group
<1>2. CASE delete_groups_by_idp
  BY Zenon, <1>2, <1>t, DropGroups DEF delete_groups_by_idp
<1>3. ASSUME NEW r \in Requests, NEW g \in Groups, CheckDelete(r, g) PROVE Together'
  <2> DEFINE x == [Idle EXCEPT !.pc = "delete", !.p = g]
  <2>1. x \in ReqType /\ x.pc = "delete"
    BY Zenon, <1>t DEF Idle, ReqType
  <2>2. req' = [req EXCEPT ![r] = x] /\ UNCHANGED <<groups, edges, lineage, rows>>
    BY Zenon, <1>3 DEF CheckDelete
  <2> HIDE DEF x
  <2> QED BY Zenon, <2>1, <2>2, Reads
<1>4. ASSUME NEW r \in Requests, delete_group(r) PROVE Together'
  <2>1. req' \in [Requests -> ReqType] /\ \A s \in Requests : req'[s] = req[s] \/ req'[s] = Idle
    BY Zenon, <1>4, <1>t DEF delete_group
  <2>2. \A g \in {req[r].p} : ~Locked(g)
    BY Zenon, <1>4 DEF delete_group
  <2> QED BY Zenon, <1>4, <2>1, <2>2, DropGroups DEF delete_group
<1>5. ASSUME NEW r \in Requests, NEW p \in Groups, NEW c \in Groups, add_child(r, p, c)
      PROVE  Together'
  <2> DEFINE x == [Idle EXCEPT !.pc = "add", !.p = p, !.c = c]
  <2>1. x \in ReqType /\ x.pc = "add" /\ x.p = p /\ x.c = c
    BY Zenon, <1>t DEF Idle, ReqType
  <2>2. /\ p # c /\ req' = [req EXCEPT ![r] = x] /\ UNCHANGED <<groups, edges, lineage, rows>>
    BY Zenon, <1>5 DEF add_child
  <2> HIDE DEF x
  <2> QED BY Zenon, <2>1, <2>2, Reads
<1>6. ASSUME NEW r \in Requests, NEW g \in Groups, get_or_create_idp_group(r, g) PROVE Together'
  <2> DEFINE x == [Idle EXCEPT !.pc = "wire", !.c = g]
  <2>1. x \in ReqType /\ x.pc = "wire" /\ x.c = g
    BY Zenon, <1>t DEF Idle, ReqType
  <2>2. g \in Assertion /\ req' = [req EXCEPT ![r] = x] /\ UNCHANGED <<edges, rows>>
    BY Zenon, <1>6 DEF get_or_create_idp_group
  <2> HIDE DEF x
  <2>3. CASE g \in groups
    <3>1. UNCHANGED <<groups, edges, lineage, rows>>
      BY Zenon, <1>6, <2>2, <2>3 DEF get_or_create_idp_group
    <3> QED BY Zenon, <2>1, <2>2, <3>1, Reads
  <2>4. CASE g \notin groups
    <3>1. groups' = groups \cup {g} /\ lineage' = Upsert(lineage, [y \in {<<g, g>>} |-> 0])
      BY Zenon, <1>6, <2>4 DEF get_or_create_idp_group
    <3>2. /\ req' \in [Requests -> ReqType]
          /\ \A s \in Requests : \/ req'[s] = req[s]
                                 \/ req'[s].pc = "wire" /\ req'[s].c \in Assertion
      BY Zenon, <1>t, <2>1, <2>2
    <3> QED BY Zenon, <2>2, <2>4, <3>1, <3>2, NewGroup
  <2> QED BY Zenon, <2>3, <2>4
<1>7. ASSUME NEW r \in Requests, _ensure_umbrella_relationship(r) PROVE Together'
  <2>1. /\ req[r] \in ReqType /\ req[r].c \in Assertion
        /\ UNCHANGED <<groups, edges, lineage, rows>>
    BY Zenon, <1>7, <1>t DEF _ensure_umbrella_relationship, Pending
  <2>2. CASE req' = [req EXCEPT ![r] = Idle]
    BY Zenon, <2>1, <2>2, <1>t, Reads
  <2>3. ASSUME NEW u \in Umbrella \cap groups, req' = [req EXCEPT ![r].pc = "add", ![r].p = u]
        PROVE  Together'
    <3> DEFINE x == [req[r] EXCEPT !.pc = "add", !.p = u]
    <3>1. x \in ReqType /\ x.pc = "add" /\ x.p = u /\ x.c = req[r].c
      BY Zenon, <2>1, <1>t DEF ReqType
    <3>2. req' = [req EXCEPT ![r] = x]
      BY Zenon, <2>3, <1>t
    <3> HIDE DEF x
    <3>3. x.p # x.c
      BY Zenon, <2>1, <3>1
    <3> QED BY Zenon, <2>1, <3>1, <3>2, <3>3, Reads
  <2> QED BY Zenon, <1>7, <2>2, <2>3 DEF _ensure_umbrella_relationship
<1>8. ASSUME NEW r \in Requests, NEW p \in Groups, NEW c \in Groups, remove_child(r, p, c)
      PROVE  Together'
  <2> DEFINE x == [Idle EXCEPT !.pc = "remove", !.p = p, !.c = c]
  <2>1. x \in ReqType /\ x.pc = "remove"
    BY Zenon, <1>t DEF Idle, ReqType
  <2>2. req' = [req EXCEPT ![r] = x] /\ UNCHANGED <<groups, edges, lineage, rows>>
    BY Zenon, <1>8 DEF remove_child
  <2> HIDE DEF x
  <2> QED BY Zenon, <2>1, <2>2, Reads
<1>9. ASSUME NEW r \in Requests, NEW g \in Groups, remove_all_relationships(r, g) PROVE Together'
  <2> DEFINE found == {e \in edges : g \in {e[1], e[2]} /\ ~_is_idp_managed_relationship(e)}
             x == [Idle EXCEPT !.pc = "next", !.p = g, !.todo = found]
  <2>1. found \in SUBSET Pairs
    BY Zenon, <1>t DEF Pairs
  <2>2. req' = [req EXCEPT ![r] = x] /\ UNCHANGED <<groups, edges, lineage, rows>>
    BY Zenon, <1>9 DEF remove_all_relationships
  <2> HIDE DEF found
  <2>3. x \in ReqType /\ x.pc = "next"
    BY Zenon, <2>1, <1>t DEF Idle, ReqType
  <2> HIDE DEF x
  <2> QED BY Zenon, <2>2, <2>3, Reads
<1>10. ASSUME NEW r \in Requests, NextRemoval(r) PROVE Together'
  <2>1. PICK e \in req[r].todo :
           /\ req' = [req EXCEPT ![r].pc = "remove", ![r].p = e[1], ![r].c = e[2],
                                 ![r].todo = @ \ {e}]
           /\ UNCHANGED <<groups, edges, lineage, rows>>
    BY Zenon, <1>10 DEF NextRemoval
  <2> DEFINE x == [req[r] EXCEPT !.pc = "remove", !.p = e[1], !.c = e[2], !.todo = @ \ {e}]
  <2>2. req[r] \in ReqType /\ e \in Pairs
    BY Zenon, <1>t DEF ReqType
  <2>3. e[1] \in Groups /\ e[2] \in Groups
    BY Zenon, <2>2 DEF Pairs
  <2>4. x \in ReqType /\ x.pc = "remove"
    BY Zenon, <2>2, <2>3 DEF ReqType
  <2>5. req' = [req EXCEPT ![r] = x]
    BY Zenon, <2>1, <1>t
  <2> HIDE DEF x
  <2> QED BY Zenon, <2>1, <2>4, <2>5, Reads
<1>11. ASSUME NEW r \in Requests, remove_group_relationship(r) PROVE Together'
  <2> DEFINE below == {d \in Groups : <<req[r].c, d>> \in DOMAIN lineage}
             x == [req[r] EXCEPT !.pc = "rebuild", !.below = below]
  <2>1. req[r] \in ReqType /\ UNCHANGED <<groups, edges, lineage, rows>>
    BY Zenon, <1>11, <1>t DEF remove_group_relationship
  <2>2. req' = [req EXCEPT ![r] = x] \/ req' = [req EXCEPT ![r] = Removed(r)]
    BY Zenon, <1>11 DEF remove_group_relationship
  <2>3. Removed(r) \in ReqType /\ Removed(r).pc \in {"idle", "next"}
    BY Zenon, <2>1, <1>t DEF Removed, Idle, ReqType
  <2>4. below \in SUBSET Groups
    BY Zenon
  <2> HIDE DEF below
  <2>5. x \in ReqType /\ x.pc = "rebuild"
    BY Zenon, <2>1, <2>4 DEF ReqType
  <2> HIDE DEF x
  <2>6. PICK y \in ReqType : y.pc \in {"idle", "next", "rebuild"} /\ req' = [req EXCEPT ![r] = y]
    BY Zenon, <2>2, <2>3, <2>5
  <2> QED BY Zenon, <2>1, <2>6, Reads
<1>12. CASE UNCHANGED vars
  <2>1. TypeOK' /\ EdgesInLineage'
    BY Zenon, <1>12 DEF vars, Together, TypeOK, EdgesInLineage
  <2>2. \A r \in Requests : Pending(r)'
    BY Zenon, <1>12, <1>t DEF vars, Pending
  <2> QED BY Zenon, <2>1, <2>2 DEF Together
<1> QED
  BY Zenon, <1>1, <1>2, <1>3, <1>4, <1>5, <1>6, <1>7, <1>8, <1>9, <1>10, <1>11, <1>12,
     AddsEdge, RemovesEdge DEF Next, Request

(* Whatever add_child, remove_child, remove_all_relationships,             *)
(* delete_group, sign-ins that report groups and the deletion of the       *)
(* provider do at the same time: a direct parent always has its row of     *)
(* group_lineage, no row or edge names a group that is gone, and every     *)
(* group has its self row.                                                 *)
THEOREM EdgesStayInLineage == Spec => [](TypeOK /\ EdgesInLineage)
<1>1. Init => Together
  <2> SUFFICES ASSUME Init PROVE Together
    BY Zenon
  <2>1. TypeOK
    BY Zenon, InitInv DEF Inv
  <2> QED BY Zenon, <2>1 DEF Init, Together, EdgesInLineage, Pending, Idle
<1>2. Together => TypeOK /\ EdgesInLineage
  BY Zenon DEF Together
<1> QED BY <1>1, <1>2, TogetherStep, PTL DEF Spec
====
