CONSTANTS
  IntHalf = 1048576
  NsPerSec = 1000000000
  MinFrequency = 1
  MaxFrequency = 1000000
  NumChannels = 2
  Frequencies = {0, 1000, 3000, 2098152}
  DutyInts = {0, 50, 2097202}
  EnableInts = {0, 1, 2, 2097153}
SPECIFICATION Spec
INVARIANTS
  TypeOK
  SuccessIsApplied
  SwitchIsKept
  ErrorAppliesPrefix
  ConfigNeverTurnsOn
  StatusShowsConfig
PROPERTIES
  ChangedWhileOff
  ImplementsService
