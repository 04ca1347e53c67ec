SPECIFICATION Spec
CONSTANTS
  Capacity = 2
  Length = 2
  MaxBlocks = 5
  MaxRaises = 1
  MaxArms = 2
INVARIANTS TypeOK ConsumedIsWhole ConsumedIsOwn
