SPECIFICATION FairSpec
CONSTANTS
  Timeout = 2
  MaxEpochs = 1
PROPERTY ClientsLetGo
