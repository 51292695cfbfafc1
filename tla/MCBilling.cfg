SPECIFICATION Spec
CONSTANTS
  g1 = g1
  g2 = g2
  l1 = l1
  f1 = f1
  r1 = r1
  None = None
  LiftOf <- OnTheLift
  StartWith <- Contracts
  Reported <- OnTheFirstDay
  MaxChanges = 2
  Contract = {1, 2}
  Lift = {l1}
  Fault = {f1}
  Run = {g1, g2}
  Request = {r1}
  PeriodDays = 2
  LOOKBACK = 2
  RECENTLY_ENDED = 2
  EndDays = {3, 4}
  MaxDay = 5
  MaxDrafts = 2
  MaxLines = 2
SYMMETRY BillingSymmetry
  
PROPERTIES RunLeavesNothingOwed IssuedStays
CHECK_DEADLOCK FALSE
