SPECIFICATION MCSpec
CONSTANTS
  u1 = u1
  u2 = u2
  p1 = p1
  p2 = p2
  r1 = r1
  r2 = r2
  a1 = a1
  a2 = a2
  None = None
  Users <- TwoUsers
  Requests <- TwoRequests
  Operations <- AllOperations
  CrashPoints <- HalfWay
SYMMETRY Symmetry
INVARIANTS
  
  PrimaryWhenQuiet
  PasswordSetOnceApart
PROPERTIES
  CountsKeepSuperAdmin
CHECK_DEADLOCK FALSE
