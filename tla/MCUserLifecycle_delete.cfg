SPECIFICATION AccountsSpec
CONSTANTS
  u1 = u1
  u2 = u2
  p1 = p1
  p2 = p2
  r1 = r1
  r2 = r2
  a1 = a1
  a2 = a2
  None = None
  Users <- TwoUsers
  Requests <- OneRequest
  Operations <- Deletions
  CrashPoints = {}
SYMMETRY Symmetry
INVARIANT SuperAdminRemains
CHECK_DEADLOCK FALSE
