CONSTANTS
  HeartbeatInterval = 3
  TickTimes <- MCTickTimes
  Phase2 = TRUE

SPECIFICATION ReportSpec

INVARIANT TypeOK
INVARIANT LogTellsLevel
INVARIANT HeartbeatPunctual
INVARIANT PostsAtMostOncePerLevel
INVARIANT ActionsExplained
