SPECIFICATION Spec
CONSTANTS
  Presets = {"p1"}
  Speeds = {2, 3}
  MaxSpeed <- MCMaxSpeed
  AspmOf <- MCAspmOf
  MaxOps = 4
  Faults = {}
  Queues = 2
  MaxCalls = 8
  Lost <- MCLost
  LifeFaults = {}
INVARIANTS LanesReady AsAsked AspmSafe AtRest StepSafe
CHECK_DEADLOCK FALSE
