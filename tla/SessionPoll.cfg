\* A late answer about an earlier code.
SPECIFICATION Spec
CONSTANTS
  c1 = c1
  c2 = c2
  Code = {c1, c2}
  Expiry <- TwoExpiries
  Guest = {}
  Caller = {v1}
  None = None
  Torn = Torn
  Forged = Forged
  Refusal = Refusal
  TickMs = 2
  GraceMs = 1
  MarginMs = 1
  MaxDelay = 3
  MaxTime = 4
  MaxHistory = 12
  MaxRestarts = 0
PROPERTY RefusalIsOwn
