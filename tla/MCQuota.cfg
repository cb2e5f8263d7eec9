CONSTANTS
  d1 = d1
  basic = basic
  pro = pro
  c1 = c1
  c2 = c2
  Devs = {d1}
  Pkgs = {basic}
  Calls = {c1, c2}
  MaxSubs = 2
  MaxLimit = 2
  MaxResets = 2
  MaxGrants = 4
  MaxFaults = 1
SPECIFICATION Spec
INVARIANTS TypeOK GrantsAreCharged UsageWithinLimit ResetsBoundTheDay
SYMMETRY MCSymmetry
