SPECIFICATION MCSpec
CONSTANTS
  Outputs = {o1}
  RampLen = 2
  MaxChunks = 2
  MaxPrepares = 2
  MaxArms = 3
  GnCeiling = 2
  GnHz = {1, 3}
  GnRates = {2, 4}
  GnOutputs = {1, 2}
  GnTimeout = 1
  GnBounds <- MCGnBounds
  SyFrames = 2
  SyDelays <- MCSyDelays
  SyRoom = 1
  SyGiveUp = 2
  SyBlockMs = 1
  SyMaxLag = 1
  SyBounds <- MCSyBounds
  RtIrOf <- MCRtIrOf
  RtBands <- MCRtBands
  RtStoreSize = 2
  RtMaxEnsemble = 2
  RtMaxLeadIn = 3
  RtMaxAsks = 5
INVARIANTS EngineInv GnInv SyInv RtInv
PROPERTIES BecomesQuiescent GnSettles SyLive RtAnswers
CHECK_DEADLOCK FALSE
