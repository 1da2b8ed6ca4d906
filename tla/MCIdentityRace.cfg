SPECIFICATION Spec
CONSTANTS
  r1 = r1
  r2 = r2
  a1 = a1
  o1 = o1
  o2 = o2
  O1 = O1
  junk = junk
  sssa = sssa
  SSSA = SSSA
  None = None
  Requests = {r1, r2}
  Approvals = {a1}
  Claims = {o1, O1}
  Oids = {o1}
  Persons = {p1}
  Companies = {sssa, SSSA}
  Canonical <- MCCanonical
  CaseFold <- MCCaseFold
SYMMETRY Symmetry
INVARIANTS
  TypeOK
  HistoryMatchesMappings
  AuditTrail
  DisabledStaysOut
  RefusedForCause
