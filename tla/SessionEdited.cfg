\* session.json is edited while the CLI runs.
SPECIFICATION Spec
CONSTANTS
  c1 = c1
  c2 = c2
  Code = {c1}
  Expiry <- OneExpiry
  Guest = {}
  Caller = {v1}
  None = None
  Torn = Torn
  Forged = Forged
  Refusal = Refusal
  TickMs = 2
  GraceMs = 1
  MarginMs = 1
  MaxDelay = 2
  MaxTime = 4
  MaxHistory = 12
  MaxRestarts = 0
PROPERTY EditKillsSession
