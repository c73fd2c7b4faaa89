SPECIFICATION Spec
CONSTANTS
  NoFile = NoFile
  Malformed = Malformed
  Invalid = Invalid
  Written <- MCWritten
  MaxEntries = 2
  MaxFlags = 1
INVARIANTS
  TypeOK
  OrderInForce
  FlagInForce
