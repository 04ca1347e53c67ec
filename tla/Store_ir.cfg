INIT StoreInit
NEXT StoreNext
CONSTANTS
  IrCapacity = 2
  MaxCaptures = 3
  MaxRuns = 2
  MaxSaves = 2
  MaxOpens = 2
INVARIANT OpenedHasNoForeignIr
CHECK_DEADLOCK FALSE
