CONSTANTS
  StartTime = 2
  MaxTime = 7
  MaxFaults = 2
SPECIFICATION Spec
INVARIANTS
  TypeOK
  UsageIsOfLastInterval
  ClientSeesPublished
  UsageComesInTime
