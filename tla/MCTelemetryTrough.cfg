CONSTANTS
  r1 = r1
  r2 = r2
  Handler <- MCHandler
  Level <- MCLevel
  Frag <- MCFrag
  FragThreshold <- MCFragThreshold
  Trough = 0
  MaxCount <- MCMaxCount

SPECIFICATION Spec

INVARIANT CompactsInTroughs
