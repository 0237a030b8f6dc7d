\* Three releases; every call may fail.
SPECIFICATION Spec
CONSTANTS
  NaN = NaN
  None = None
  Torn = Torn
  MaxFaults = 3
  Version <- Releases
  Ships <- Bundles
  Rival <- Compared
  Radix = 11
INVARIANTS TypeOK UpdatedIsWhole NeverDowngrade NewerIsOrder
PROPERTIES LastCopyKept
