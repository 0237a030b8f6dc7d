\* One invocation at a time, which may die half way.
SPECIFICATION Spec
CONSTANTS
  Handler = {p1}
  Request = {r1, r2}
  Code = {c1, c2}
  Cookie = {k1, k2}
  Timeout = {1}
  None = None
  MaxClock = 3
  MaxAborts = 1
SYMMETRY Symmetry
INVARIANTS LinksSound StoreExact OneCodePerRequest
PROPERTIES DeniedIsTerminal RevokedIsTerminal
