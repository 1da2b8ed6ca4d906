SPECIFICATION FairSpec
CONSTANTS
  p1 = p1
  p2 = p2
  None = None
  Accounts = {p1, p2}
  MaxFetches = 3
  Sittings <- MCSittings
INVARIANTS
  TypeOK
  NeverBlank
  ErrorBesideDataNeedsCrowd
  StrangersAreLeftovers
  AuditMeansAnswered
PROPERTIES
  EverySpinnerStops
