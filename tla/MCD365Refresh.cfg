SPECIFICATION Spec
CONSTANTS
  c1 = c1
  c2 = c2
  c3 = c3
  None = None
  Calls = {c1}
  Skew = 2
  MinLife = 1
  Lifetimes = {0, 3}
  MaxTime = 3
  MaxIssued = 2
  MaxRetries = 1
  MaxRevoked = 1
INVARIANT RefreshBringsAnother
