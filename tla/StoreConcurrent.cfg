\* Two overlapping invocations.
SPECIFICATION Spec
CONSTANTS
  Handler = {p1, p2}
  Request = {r1}
  Code = {c1, c2}
  Cookie = {k1}
  Timeout = {1}
  None = None
  MaxClock = 2
  MaxAborts = 0
SYMMETRY Symmetry
INVARIANTS TypeOK NoStaleRevival LinkedActiveCodeListed
PROPERTY ImplementsLifecycle
