CONSTANTS
  Capacity = 4
  Reading <- MCReading
  NoReading = NoReading
  Scale = 420
  MinSamples = 3
  MaxSamples = 7

SPECIFICATION LearnSpec

INVARIANT TypeOK
INVARIANT AnalysedAge
INVARIANT BaselineIsBatch
INVARIANT ConstantVariableBlinds
INVARIANT DistanceBounded
PROPERTY ImplementsRecentReadings
PROPERTY JudgedForGood
