CONSTANTS
  DMs <- MCDMs
  Elapsed <- MCElapsed
  NoReading = NoReading
  MinSamples = 2
  CfgVigilance = 7
  CfgContainment = 11
  CfgProtection = 16
  CfgSurvival <- Unset
  CfgEscalate = 4
  CfgRelax = 1
  CfgHysteresisDown = 3

SPECIFICATION FairHSpec

INVARIANT HTypeOK
INVARIANT CounterIsCalmRun
INVARIANT NeverUnderReacts
PROPERTY ImplementsHysteresis
PROPERTY CalmEndsInHomeostasis
