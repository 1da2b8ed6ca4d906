SPECIFICATION FairRaceSpec
CONSTANTS
  r1 = r1
  r2 = r2
  a1 = a1
  o1 = o1
  o2 = o2
  O1 = O1
  junk = junk
  sssa = sssa
  SSSA = SSSA
  None = None
  Requests = {r1}
  Approvals = {a1}
  Claims = {o1, o2, O1, junk}
  Oids = {o1, o2}
  Persons = {p1, p2}
  Companies = {sssa, SSSA}
  Canonical <- MCCanonical
  CaseFold <- MCCaseFold
INVARIANTS
  OneRowEach
  MappingVouched
  NobodyElsesWorker
PROPERTIES
  ImplementsRegistry
  EveryRequestAnswered
