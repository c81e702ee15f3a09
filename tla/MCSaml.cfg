SPECIFICATION MCSpec
CONSTANTS
    s1 = s1
    s2 = s2
    e1 = e1
    e2 = e2
    u1 = u1
    g1 = g1
    g2 = g2
    p1 = p1
    p2 = p2
    b1 = b1
    b2 = b2
    t1 = t1
    t2 = t2
    i1 = i1
    i2 = i2
    Apps = {s1, s2}
    Users = {u1}
    Groups = {g1, g2}
    Lineage <- TwoGroups
    Entities = {e1, e2}
    Requests = {p1, p2}
    None = None
    Gone = Gone
    Browsers = {b1, b2}
    OneAtATime = TRUE
    Tabs = {t1, t2}
    MaxNames = 2
SYMMETRY Symmetry
INVARIANTS  NameIdStable 
PROPERTY TrustEstablishedOnce
CHECK_DEADLOCK FALSE
