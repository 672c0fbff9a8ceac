CONSTANTS
  p1 = p1
  p2 = p2
  Pins = {p1}
  Held = {}
  AltFuncs = {"a0"}
  IntHalf = 128
  JsonInts = {0, 1, 2, 257}
  ForeignCommands <- MCForeign
SPECIFICATION Spec
INVARIANTS
  TypeOK
  SuccessIsApplied
  ErrorKeepsOutput
  AttrsKeepDirection
  PullKeepsDrive
  AttrsNeverEnableOutput
