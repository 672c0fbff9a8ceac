CONSTANTS
  g1 = g1
  g2 = g2
CONSTANTS
  NumPins = 1
  States = {0, 1}
  Attrs = {0, 1}
  Unknown = Unknown
  NoSnapshot = NoSnapshot
  Pages = {g1}
  MaxChanges = 1
  MaxFailures = 1
SPECIFICATION FairSpec
PROPERTIES
  PushesConverge
  ImplementsFeed
