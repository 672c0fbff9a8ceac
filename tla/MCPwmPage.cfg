CONSTANTS
  Fields = {"frequency", "polarity"}
  MaxValue = 2
  MaxClicks = 3
  MaxOthers = 1
  MaxFaults = 1
  MaxLoads = 1
SPECIFICATION FairSpec
INVARIANTS
  TypeOK
  OneTimer
PROPERTIES
  TypedIsKept
  PageConverges
