SPECIFICATION MCSpec
CONSTANTS b1=b1 b2=b2 a1=a1 u1=u1 u2=u2 i1=i1 i2=i2 k1=k1
Users={u1,u2} Browsers={b1,b2} Admins={a1} Keys={k1} MaxPasswords=2 None=None Idps={i1,i2} MfaIdps={i1}
d1=d1 h1=h1 h2=h2 r1=r1 r2=r2 w1=w1 g1=g1 n1=n1 p1=p1 p2=p2 q1=q1 q2=q2 Gone=Gone
INVARIANT UpstreamMatchesUser TokenSpentOnce StaleAccessBounded
PROPERTY SessionProved
CHECK_DEADLOCK FALSE
