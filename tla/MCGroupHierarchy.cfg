SPECIFICATION MCSpec
CONSTANTS
    g1 = g1
    g2 = g2
    g3 = g3
    g4 = g4
    u = u
    a = a
    r1 = r1
    r2 = r2
    Groups = {g1, g2, g3, u, a}
    Umbrella = {u}
    Assertion = {a}
    Requests = {r1}
    IdpDeletion = FALSE
    MaxDepth = 5
    None = None
SYMMETRY Symmetry
INVARIANTS    EdgesInLineageTogether
