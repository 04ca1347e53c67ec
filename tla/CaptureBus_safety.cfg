SPECIFICATION Spec
CONSTANTS
  NumChannels = 2
  Capacity = 2
  AckTicks = 1
  Received = {1, 2}
  Prepared = {2}
  TfIndices = {0, 1}
  InitialRouting <- MCRouting
  MaxBlocks = 3
  MaxPrepares = 1
  MaxRoleChanges = 1
INVARIANTS TypeOK IInv AckedDrainExclusive EmptyAtLower AlignedInv
