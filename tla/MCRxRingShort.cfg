SPECIFICATION Spec
CONSTANTS
  N = 6
  Limit = 2
  MaxSegs = 2
  OomSlack = 1
  Faults = {"oom_short"}
INVARIANTS EngineOwnsPages
