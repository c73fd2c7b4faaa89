SPECIFICATION Spec
CONSTANTS
  LastFd = 32
  Probes = 4
  Programs = 5
INVARIANTS
  TypeOK
  SensorHoldsWhatItRemembers
  RunningSensorIsComplete
  LinkIsRemembered
PROPERTIES
  LossPerProgram
