SPECIFICATION MCSpec
CONSTANTS
    Signers = {s1, s2}
    Rotators = {ra}
    Graces = {1, 3, 4}
    MinGrace = 3
    MaxGrace = 4
    IdTokenExpiry = 2
    MaxDelay = 1
    MaxTime = 8
    MaxKeys = 3
    Sps = {sp}
    Idps = {idp}
    Admins = {sa}
    Lifetime = 9
    Windows = {3, 4}
    CertGraces = {0, 3}
    MaxFailures = 1
    None = None
    JobUsers = {u1, u2}
    JobAdmins = {u1}
    Exempt = {u1}
    Workers = {b1, b2}
    MaxTasks = 2
    MaxCrashes = 1
INVARIANTS
    
    NeverExpired
    DownloadsServed
PROPERTIES
    JobsServed
