SPECIFICATION FairSpec
CONSTANTS
  r1 = r1
  r2 = r2
  r3 = r3
  p1 = p1
  Requests = {r1, r2, r3}
  Probes = {p1}
  Limit = 2
  PoolTimeout = 1
  CallTime = 2
  MaxCalls = 1
  MaxCommits = 1
  MaxOutages = 1
INVARIANTS
  TypeOK
  NothingLeaks
  FalseAlarmNeedsEveryConnection
PROPERTY EveryoneEnds
