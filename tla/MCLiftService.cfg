CONSTANTS
  Request = {r1, r2}
  None = None
  Line <- ChangedScope
  PUBLIC_MERGE_WINDOW = 1
  REPORTER_DATA_RETENTION = 1
  Dates = {1, 2}
  MaxNow = 3
  MaxCalls = 3
  MaxFaults = 2
  MaxInspections = 2
SPECIFICATION Spec
SYMMETRY RequestSymmetry
PROPERTIES
  FaultsConverge
  ReportsAreHeard
  StatedBillingStays
  
CHECK_DEADLOCK FALSE
