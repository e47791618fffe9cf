SPECIFICATION FairSpec
CONSTANTS
  N = 5
  Limit = 2
  MaxSegs = 2
  OomSlack = 0
  Faults = {}
INVARIANTS TypeOK WholeFrames
PROPERTIES Recycled Resumed
