\* One request; an authorization expires and the user authorizes again.
CONSTANTS
  q1 = q1
  q2 = q2
  own = own
  forged = forged
  foreign = foreign
  register = register
  again = again
  a1 = a1
  a2 = a2
  r1 = r1
  m1 = m1
  NoAuth = NoAuth
  Reqs = {q1}
  Msgs = {own, forged, foreign, register, again}
  Apps = {a1, a2}
  Auths = {r1}
  Sent <- MCSent
  Merchants = {m1}
  Existing = {}
  Named <- MCNamed
  Owner <- MCOwner
  Expires <- MCExpires
  Dates = {}
  Tolerance = 1
  NonceTtl = 2
  CacheTtl = 1
  MaxTime = 3
  Switched = {a1}
SPECIFICATION FwdSpec
PROPERTY
  RenewedIsValid
CHECK_DEADLOCK FALSE
