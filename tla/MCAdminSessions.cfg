CONSTANTS
  a1 = a1
  q1 = q1
  q2 = q2
  q3 = q3
  q4 = q4
  Admins = {a1}
  Reqs = {q1, q2, q3, q4}
  AccessLife = 1
  RefreshLife = 2
  BlacklistTtl = 2
  LoginTries = 1
  RefreshTries = 2
  Window = 1
  MaxTime = 3
  MaxOpen = 2
SPECIFICATION Spec
SYMMETRY Sym
INVARIANTS TypeOK AttemptsSpread RevokedWerePresented
PROPERTY SpentIsRefused
CHECK_DEADLOCK FALSE
