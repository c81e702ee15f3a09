SPECIFICATION MCSpec
CONSTANTS
    i1 = i1
    i2 = i2
    m1 = m1
    c1 = c1
    n1 = n1
    n2 = n2
    p1 = p1
    p2 = p2
    fb = fb
    idp = idp
    ap = ap
    gh = gh
    ds = ds
    gx = gx
    gr = gr
    dx = dx
    sx = sx
    sy = sy
    tx = tx
    ty = ty
    tz = tz
    ax = ax
    u1 = u1
    u2 = u2
    u3 = u3
    x = x
    y = y
    s1 = s1
    s2 = s2
    k1 = k1
    k2 = k2
    t1 = t1
    Gone = Gone
    None = None
    Preset = Preset
    Shared = Shared
    HandSet = HandSet
    Connections = {c1}
    Names = {n1, n2}
    Issuers = {i1, i2}
    Mirrors = {m1}
    IssuerOf <- Mirrored
    Requests = {p1, p2}
INVARIANT EndpointsOfSource
 
 
CHECK_DEADLOCK FALSE
