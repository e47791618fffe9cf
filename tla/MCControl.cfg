SPECIFICATION Spec
CONSTANTS
  Handles = {1, 2, 3}
  Prios = {1, 2}
  Room <- MCRoom
  MaxNve = 5
  Tables = {"pass", "drop"}
  RxpFaults = {}
  Cookies = {1, 2, 3}
  Rules <- MCRules
  FlowsMax = 2
  FlowFaults = {}
  GateLists = {"l1", "l2"}
  Slopes = {0, 1}
  LinkSpeeds = {100, 1000}
  GateQueues = {1, 2}
  AvbQueues = {2}
  TbsQueues = {1}
  FpeSel = TRUE
  GateFaults = {}
  NegoSpeeds = {100, 1000, 2500, 10000}
  PortSpeed <- MCPortSpeed
  LinkFaults = {}
  PerfectSlots = 2
  SelftestFaults = {}
  u1 = u1
  u2 = u2
  Users <- MCUsers
  Times = {3}
  Deltas <- MCDeltas
  Ppbs = {1}
  Rates = {"slow"}
  RxFilters = {"none", "event", "all"}
  SecLen = 2
  SecTurn = 2
  Turn = 4
  Traverse = {0, 1}
  PtpFaults = {}
  MaxCalls = 2
  MaxRtnl = 3
  MaxTicks = 1
SYMMETRY MCSymmetry
INVARIANTS ControlTypeOK ParserInStep FlowsInForce GatesInStep LinkAgrees EeeTimerOwned SelftestRestores SelftestTells ClockKept TimeRead
CHECK_DEADLOCK FALSE
