CONSTANTS
  LogRates = {44, 48}
  QueueBlocks = 1
  SegmentBlocks = 1
  MaxSessions = 3
  LogBounds <- MCLiveBounds
  CalChannels = {"c1"}
SPECIFICATION LogSpec
PROPERTY LogFollowsDevice
CHECK_DEADLOCK FALSE
