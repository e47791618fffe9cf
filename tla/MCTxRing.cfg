SPECIFICATION FairSpec
CONSTANTS
  N = 8
  MaxFrags = 1
  Skbs = {s1, s2, s3}
  NULL = NULL
  Traffic = "tso"
  Shapes <- TrafficShapes
  MssValues <- Mss
  OstEn = FALSE
  Faults = {}
INVARIANTS NoLap SkbSafe MappingBalance EngineReady
PROPERTIES Delivered Woken ImplementsFifo
