CONSTANTS
  o = o
  v = v
  n = n
  a = a
  b = b
  NoCache = NoCache
  NoTask = NoTask
  Directories <- MCDirectories
  Layouts <- MCLayouts
  CPUs <- MCCPUs
  Task <- MCTask
  Suspect <- MCOffenderTasks
  OffenderTasks <- MCOffenderTasks
  VitalTasks <- MCVitalTasks
  MaxHotplug = 1

SPECIFICATION Spec

INVARIANT TypeOK
INVARIANT OffenderOffVitalCaches
PROPERTY ArmedOffenderStaysOut
PROPERTY OthersRun
