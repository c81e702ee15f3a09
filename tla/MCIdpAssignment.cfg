SPECIFICATION MCSpec
CONSTANTS
    u1 = u1
    d1 = d1
    i1 = i1
    i2 = i2
    c1 = c1
    c2 = c2
    p1 = p1
    p2 = p2
    None = None
    Gone = Gone
    Mixed = Mixed
    a1 = a1
    a2 = a2
    a3 = a3
    g1 = g1
    g2 = g2
    e1 = e1
    e2 = e2
    m1 = m1
    m2 = m2
    x1 = x1
    n1 = n1
    n2 = n2
    q1 = q1
    q2 = q2
    t1 = t1
    Users = {u1}
    Domains = {d1}
    DomainOf <- OneDomain
    Idps = {i1, i2}
    Connections = {c1, c2}
    Requests = {p1, p2}
    Operations <- AllOperations
    CrashPoints <- HalfWay
    MaxSwitches = 2
SYMMETRY Symmetry
INVARIANT LastUnlinkDeactivates
 
INVARIANT PostSettles
 
CHECK_DEADLOCK FALSE
