\* Two sessions and a click of a guest who was thrown out in between.
SPECIFICATION Spec
CONSTANTS
  Tab = {t1}
  HostConn = {h1}
  Guest = {g1}
  Button = {b1}
  PaletteSize = 2
  None = None
  MaxEvents = 3
PROPERTIES GoneGuestsAreMute
