CONSTANTS
  DMs <- MCDMs
  Elapsed <- MCElapsed
  NoReading = NoReading
  MinSamples = 2
  CfgVigilance = 7
  CfgContainment = 11
  CfgProtection = 16
  CfgSurvival <- Unset
  CfgEscalate = 4
  CfgRelax = 1
  CfgHysteresisDown = 3
  Targets <- MCTargets
  CacheGroups = 2
  SchedExt = TRUE
  Phase2 = TRUE
  Faults <- MCFaults

SPECIFICATION AgentSpec

INVARIANT ReleaseLeavesNothing
