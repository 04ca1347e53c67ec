INIT MCInit
NEXT MCNext
CONSTANTS
  PbSlots = 2
  PbConfigs <- MCPbConfigs
  PbRates = {44, 48}
  PbRate = 2
  PbWindow = 2
  PbBounds <- MCPbBounds
  AlArrival <- MCAlArrival
  AlPeriod = 4
  AlSettle = 1
  AlSpan = 1
  AlLag = 1
  AlDwell = 3
  AlWord = 32
  AlBounds <- MCAlBounds
  EqNyquist = 6
  EqMinDb = 1
  EqQBoost = 1
  EqQCut = 2
  EqWidest = 3
  EqUnit = 12
  EqGrids <- MCEqGrids
  EqSigma <- MCEqSigma
  EqCorridor = 0
  EqChips = 3
  EqBounds <- MCEqBounds
  RgMin = 3
  RgWord = 8
  RgTags = 5
  RgChunk = 2
  AnConfigs <- MCAnConfigs
  AnFloor = 8
  AnCorrelation <- MCAnCorrelation
  AnMinimum = 2
  AnAlpha <- MCAnAlpha
  AnChunks = {1, 2, 7, 23}
  EsInputs <- MCEsInputs
  EsNullFloor = 1
  EsAccept = 2
  EsCycles = 7
  EsGate <- MCEsGate
  EsConfidence = 4
  DcSquares = {0, 1, 5}
  DcLength = 5
  DcShort = 2
  DcMinFit = 0
  DcFall <- MCDcFall
  DcMinBT = 2
  DcSplit <- MCDcSplit
  DcPreRing = 1
  DcMaxPoints = 2
  DcSpread <- MCDcSpread
INVARIANTS PublishInv AlInv EqInv AnInv EsInv DcInv
PROPERTIES EqAdoptVerified RgImplementsFifo
CHECK_DEADLOCK FALSE
