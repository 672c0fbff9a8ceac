CONSTANTS
  Pins = {g4, g17}
  NoPin = NoPin
  Browsers = {me, you}
  Me = me
  MaxSockets = 2
  MaxClicks = 4
  MaxFaults = 1
SYMMETRY Symmetry
SPECIFICATION Spec
INVARIANTS
  TypeOK
  SocketsAreHeld
  SavesAreWhole
  FormMatchesTarget
PROPERTIES
  PinsAreAskedFor
