CONSTANTS
  NumPins = 2
  AltFuncs = {}
  Files <- MCFiles
  NotThere = NotThere
  MaxFaults = 2
SPECIFICATION FairSpec
INVARIANTS
  TypeOK
  ServesConfiguredPins
  FailsForACause
  ReleasesEverything

  
