SPECIFICATION Spec
CONSTANTS
  r1 = r1
  t1 = t1
  t2 = t2
  t3 = t3
  w1 = w1
  w2 = w2
  SSSA = SSSA
  sssa = sssa
  USMF = USMF
  None = None
  Requests = {r1}
  Runs = {t1, t2, t3}
  Files <- MCFiles
  Entities = {"Ess", "Active", "Bare"}
  Properties <- MCProperties
  Workers = {w1, w2}
  Companies = {SSSA, sssa, USMF}
  CaseFold <- MCCaseFold
SYMMETRY Symmetry
INVARIANTS
  TypeOK
  AnswersAreScoped
  RowsKeepConfirmation
  RunsFailForCause
PROPERTY AppliedAsFiled
