CONSTANTS
  IntHalf = 1048576
  NsPerSec = 1000000000
  MinFrequency = 1
  MaxFrequency = 1000000
  NumChannels = 1
  Frequencies = {1000, 3000}
  DutyInts = {50}
  EnableInts = {0, 1, 2}
SPECIFICATION Spec
INVARIANTS
  ValidConfigAccepted
