CONSTANTS
  NumPins = 2
  AltFuncs = {}
  Files <- MCFiles
  NotThere = NotThere
  MaxFaults = 0
SPECIFICATION Spec
INVARIANTS
  InvalidConfigExits
