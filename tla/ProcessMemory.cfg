CONSTANTS
  Caller = {g1, g2, g3, g4}
  Retries = 1
  Threshold = 3
  OpenFor = 2
  Handler = {h1, h2}
  Key = {k1, k2}
  TTL = 2
  FetchTime = 1
SPECIFICATION Spec
INVARIANTS
  ProviderTypeOK
  KeysTypeOK
  RetiredKeysExpire
  PublishedKeysFound
PROPERTIES
  OpensAfterStreak
  CircuitCloses
  ScreenReturns
  CallsReturn
