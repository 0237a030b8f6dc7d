\* Fairness of the process, the browsers and the sockets; nobody has to act.
SPECIFICATION FairSpec
CONSTANTS
  Tab = {t1}
  HostConn = {h1}
  Guest = {g1}
  Button = {b1}
  PaletteSize = 2
  None = None
  MaxEvents = 2
PROPERTIES GuestFallsBack PageLocks RoomForgets
