\* A tab that reconnects at will, one guest.
SPECIFICATION Spec
CONSTANTS
  Tab = {t1}
  HostConn = {h1, h2}
  Guest = {g1}
  Button = {b1}
  PaletteSize = 2
  None = None
  MaxEvents = 3
SYMMETRY Symmetry
INVARIANTS TypeOK OnlyAllowedSee ColorsConverge NobodyWaitsUnseen NobodyLeftHanging HostsAreCurrent
PROPERTIES AllowStands ImplementsRoom
