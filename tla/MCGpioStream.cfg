CONSTANTS
  g1 = g1
  g2 = g2
CONSTANTS
  NumPins = 1
  States = {0, 1}
  Attrs = {0}
  Unknown = Unknown
  NoSnapshot = NoSnapshot
  Pages = {g1, g2}
  MaxChanges = 2
  MaxFailures = 0
SPECIFICATION Spec
SYMMETRY PageSymmetry
INVARIANTS
  TypeOK
  PushedIsCache
PROPERTIES
  CaughtUpShowsCache
  PushesDiffer
