SPECIFICATION FairValidationSpec
CONSTANTS
  r1 = r1
  r2 = r2
  r3 = r3
  k1 = k1
  k2 = k2
  None = None
  Requests = {r1, r2, r3}
  Kids = {k1, k2}
  CacheLife = 1
  FetchTime = 1
  MaxTime = 2
  MaxRotations = 1
  Leeway = 1
  Tokens <- MCTokens
  Carries <- MCCarries
INVARIANTS
  ValidationTypeOK
  OneRefresh
  RefusedAfterRefresh
PROPERTIES
  OnlyTheGenuineAreTold
  GoodTokensPass
  TrustEnds
  ExpiryRefreshesOnce
  EveryRequestEnds
