CONSTANTS
  HeartbeatInterval = 3
  TickTimes <- MCTickTimes
  Phase2 = TRUE

SPECIFICATION ReportSpec

INVARIANT EveryEdgePosted
