CONSTANTS
  d1 = d1
  d2 = d2
  trial = trial
  pro = pro
  j1 = j1
  j2 = j2
  Pkgs = {trial, pro}
  Free = {trial}
  UpgradePageSize = 10
  Devs = {d1, d2}
  Deletable = {pro}
  Jobs = {j1}
  MaxOrders = 2
  MaxSubs = 4
  MaxTickets = 2
  MaxFaults = 1
SPECIFICATION Spec
INVARIANTS TypeOK AtMostOneActive CreditedOnce ExtraGrantsNeedFaults
PROPERTY DecisionIsFinal
