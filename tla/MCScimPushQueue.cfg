SPECIFICATION Spec
CONSTANTS
    Users = {u1, u2}
    Workers = {w1}
    Versions = {v1, v2}
    RowIds = {1, 2, 3, 4}
    RemoteIds = {1, 2, 3, 4, 5, 6, 7}
    MaxAttempts = 2
    HttpTries = 2
    DrainLimit = 2
    KeysOnExternalId = TRUE
    LossyResponses = TRUE
    MaxChanges = 2
    MaxCrashes = 1
SYMMETRY Symmetry
INVARIANT LastStateWins
