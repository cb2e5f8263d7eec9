CONSTANTS
  d1 = d1
  d2 = d2
  trial = trial
  pro = pro
  j1 = j1
  j2 = j2
  Pkgs = {trial, pro}
  Free = {trial}
  UpgradePageSize = 10
  Devs = {d1}
  Deletable = {}
  Jobs = {j1}
  MaxOrders = 2
  MaxSubs = 2
  MaxTickets = 1
  MaxFaults = 0
SPECIFICATION Spec
INVARIANT ApprovedWasPaid
