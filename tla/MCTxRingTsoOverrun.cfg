SPECIFICATION FairSpec
CONSTANTS
  N = 8
  MaxFrags = 1
  Skbs = {s1, s2}
  NULL = NULL
  Traffic = "any"
  Shapes <- TrafficShapes
  MssValues <- Mss
  OstEn = FALSE
  Faults = {}
INVARIANTS NoLap
