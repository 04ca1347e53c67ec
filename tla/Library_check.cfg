INIT MCInit
NEXT MCNext
CONSTANTS
  IrCapacity = 2
  MaxCaptures = 3
  MaxRuns = 2
  MaxSaves = 2
  MaxOpens = 2
  Texts <- MCTexts
  Schema = 3
  MaxPanes = 2
  PaneWeights = {0, 1, 3}
  XoTraces <- MCXoTraces
  XoIds = {1, 2}
  XoCentre = 2
  XoRuns <- MCXoRuns
  XoMaxChanges = 3
  XoAsked <- MCXoAsked
  DwInputs <- MCDwInputs
  DwColumns = 4
  DwFull = 48
  DwNaN = 99
  DwStored <- MCDwStored
  DwBound <- MCDwBound
  DvDevices <- MCDvDevices
  DvMax = 4
  DvSlots = 2
  DvSynthetic = 2
  DvBounds <- MCDvBounds
INVARIANTS StoreInv CodecInv XoInv DwInv DvInv
CHECK_DEADLOCK FALSE
