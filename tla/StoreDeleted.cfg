\* Two overlapping invocations on one request.
SPECIFICATION Spec
CONSTANTS
  Handler = {p1, p2}
  Request = {r1}
  Code = {c1}
  Cookie = {k1}
  Timeout = {1}
  None = None
  MaxClock = 2
  MaxAborts = 0
PROPERTY DeletedStaysDeleted
