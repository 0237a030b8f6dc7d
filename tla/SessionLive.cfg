\* Two codes; each property states the fairness it needs.
SPECIFICATION Spec
CONSTANTS
  c1 = c1
  c2 = c2
  Code = {c1, c2}
  Expiry <- ShortExpiries
  Guest = {}
  Caller = {v1}
  None = None
  Torn = Torn
  Forged = Forged
  Refusal = Refusal
  TickMs = 2
  GraceMs = 1
  MarginMs = 1
  MaxDelay = 1
  MaxTime = 3
  MaxHistory = 0
  MaxRestarts = 0
PROPERTIES SessionEnds RevokedEnds
