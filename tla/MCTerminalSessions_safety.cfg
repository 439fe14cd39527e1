SPECIFICATION Spec
CONSTANTS
  Sessions = {s1, s2}
  Sockets = {k1, k2}
  Benches = {b1}
  Tokens = {t1}
  None = None
SYMMETRY Symmetry
VIEW Reachable
CONSTRAINT Bounded
INVARIANT TokenReachesOwner
INVARIANT FilesAreSessions
INVARIANT IdleIsTimed
CHECK_DEADLOCK FALSE
