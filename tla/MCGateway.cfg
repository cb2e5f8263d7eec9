\* Two requests that carry the same or different messages.
CONSTANTS
  q1 = q1
  q2 = q2
  own = own
  forged = forged
  foreign = foreign
  register = register
  again = again
  a1 = a1
  a2 = a2
  r1 = r1
  m1 = m1
  NoAuth = NoAuth
  Reqs = {q1, q2}
  Msgs = {own, forged, foreign, register, again}
  Apps = {a1, a2}
  Auths = {r1}
  Sent <- MCSent
  Merchants = {m1}
  Existing = {}
  Named <- MCNamed
  Owner <- MCOwner
  Expires <- MCExpires
  Dates = {0, 1}
  Tolerance = 1
  NonceTtl = 2
  CacheTtl = 1
  MaxTime = 3
  Switched = {a1}
SPECIFICATION FwdSpec
SYMMETRY Sym
INVARIANTS
  TypeOK
  NoReplay
  AuthorizedWithinTtl
  ExecutedOnce
  KeyNotLostSilently
CHECK_DEADLOCK FALSE
