SPECIFICATION Spec
CONSTANTS
  Threads = {t1}
  Posters = {p1, p2}
  nMaxValue = 60
  Modulus = 64
INVARIANT NoLostPost
PROPERTY ImplementsCounting
