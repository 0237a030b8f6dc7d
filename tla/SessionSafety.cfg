\* A code, a guest, two validations at once, one restart, a clock the user sets at will.
SPECIFICATION Spec
CONSTANTS
  c1 = c1
  c2 = c2
  Code = {c1}
  Expiry <- OneExpiry
  Guest = {g1}
  Caller = {v1, v2}
  None = None
  Torn = Torn
  Forged = Forged
  Refusal = Refusal
  TickMs = 2
  GraceMs = 1
  MarginMs = 1
  MaxDelay = 2
  MaxTime = 4
  MaxHistory = 12
  MaxRestarts = 1
SYMMETRY Symmetry
INVARIANTS TypeOK DiskMirrorsMemory GuestsSlaved EnforcedWithinTick RuntimeCapped
PROPERTIES ImplementsRoom
