SPECIFICATION MCSpec
CONSTANTS
    c1 = c1
    d1 = d1
    s1 = s1
    t1 = t1
    t2 = t2
    t3 = t3
    p1 = p1
    p2 = p2
    h1 = h1
    h2 = h2
    k1 = k1
    g1 = g1
    Gone = Gone
    none = none
    None = None
    Codes = {c1}
    Devices = {d1}
    Tokens = {t1, t2, t3}
    Sessions = {}
    Requests = {p1, p2}
    Operations <- Contended
    Crashes = TRUE
    Clients = {c1}
    Hosts = {h1, h2}
    Groups = {g1}
    MaxRat = 3
    b1 = b1
    b2 = b2
    u1 = u1
    u2 = u2
    a1 = a1
    r1 = r1
    r2 = r2
    r3 = r3
    k2 = k2
    MaxLogins = 3
    MaxInFlight = 1
SYMMETRY Symmetry
INVARIANT OneRefreshPerGrant
INVARIANT AccessUnderRefresh
INVARIANT GrantedUnderConsentOneByOne
INVARIANT ReusedCodeHoldsNoTokensOneByOne
INVARIANT UrisFit
INVARIANT PushedServedOnce
INVARIANT CodeAnswersAsk
INVARIANT OwnKeysOnly
CHECK_DEADLOCK FALSE
