CONSTANTS
  Caller = {g1, g2}
  Retries = 1
  Threshold = 3
  OpenFor = 2
SPECIFICATION ProviderFairSpec
PROPERTIES
  OnlyTransientErrorsOpen
