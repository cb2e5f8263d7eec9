\* Three requests for one e-mail address at a time and two new packages, any of which may fail.
CONSTANTS
  e1 = e1
  p1 = p1
  p2 = p2
  p3 = p3
  c1 = c1
  c2 = c2
  Emails = {e1}
  Procs = {p1, p2, p3}
  Ops <- AllOps
  MaxOpen = 3
  MayFail = TRUE
  Creators = {c1, c2}
  MayEdit = 1
SPECIFICATION Spec
SYMMETRY Sym
INVARIANTS
  TypeOK
  ApprovalAtomic
  DecidedOnce
  OneOnSale
  AuditReplays
CHECK_DEADLOCK FALSE
