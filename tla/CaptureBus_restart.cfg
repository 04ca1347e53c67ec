SPECIFICATION FairSpec
CONSTANTS
  NumChannels = 2
  Capacity = 2
  AckTicks = 1
  Received = {2}
  Prepared = {2}
  TfIndices = {0}
  InitialRouting <- MCPair
  MaxBlocks = 3
  MaxPrepares = 2
  MaxRoleChanges = 0
PROPERTY GateComesDown
