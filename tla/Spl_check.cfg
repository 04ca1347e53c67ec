CONSTANTS
  LogRates = {44, 48}
  QueueBlocks = 1
  SegmentBlocks = 1
  MaxSessions = 2
  LogBounds <- MCLogBounds
  CalChannels = {"c1"}
  SplConfigs <- MCSplConfigs
  Amplitudes = {0, 2, 3}
  FullScale = 3
  OverloadRun = 2
  HopLengths = {1, 3}
  ReadyCapacity = 2
  TickCapacity = 2
  MaxWindowBlocks = 2
  MaxMetrics = 2
  MaxMarkers = 2
  LnTop = 1
  MaxHops = 2
  MaxDrops = 1
  RpChannels = {0, 1}
  RpSegment = 1
  RpLimit = 1
  RpBounds <- MCRpBounds
INIT Init
NEXT Next
INVARIANTS LogInv LogSessionInv SplInv RpInv
PROPERTY HeadroomForetells
CHECK_DEADLOCK FALSE
