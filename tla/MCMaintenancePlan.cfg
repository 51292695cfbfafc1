CONSTANTS
  Lift = {l1, l2}
  Technician = {t1}
  Request = {r1, r2}
  None = None
  MonthDays = 2
  INTERVAL = 1
  Dates = {2, 3}
  MaxDay = 3
  MaxVisits = 2
  MaxCalls = 3
SPECIFICATION Spec
SYMMETRY MaintenanceSymmetry
PROPERTIES
  
  DatesFollowTheRecord
  SecondRunChangesNothing
  NightLeavesDecisions
CHECK_DEADLOCK FALSE
