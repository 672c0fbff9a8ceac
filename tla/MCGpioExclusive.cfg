CONSTANTS
  p1 = p1
  p2 = p2
  Pins = {p1, p2}
  Held = {p2}
  AltFuncs = {}
  IntHalf = 128
  JsonInts = {0, 1, 2, 257}
  ForeignCommands = {}
SPECIFICATION Spec
PROPERTIES
  ImplementsBoard
