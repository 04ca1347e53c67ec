SPECIFICATION Spec
CONSTANTS
  Timeout = 2
  MaxEpochs = 2
INVARIANTS ClientsInv ArmedIsOwned GenStaysInSession
PROPERTY AlignHearsItsStep
