SPECIFICATION DeliverySpec
CONSTANTS
  Timeout = 2
  MaxEpochs = 2
PROPERTY VerifyHearsExcitation
