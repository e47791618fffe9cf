SPECIFICATION Spec
CONSTANTS
  N = 8
  MaxFrags = 1
  Skbs = {s1, s2}
  NULL = NULL
  Traffic = "bare"
  Shapes <- TrafficShapes
  MssValues <- Mss
  OstEn = FALSE
  Faults = {"tx_err", "map_frag"}
INVARIANTS SkbSafe EngineReady
