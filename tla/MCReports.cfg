SPECIFICATION ReportsSpec
CONSTANTS
  u1 = u1
  u2 = u2
  k1 = k1
  c1 = c1
  c2 = c2
  s1 = s1
  s2 = s2
  o1 = o1
  Nothing = Nothing
  Uploads = {u1, u2}
  Unfit = {u2}
  Clients = {k1}
  LastDay = 2
  PurgeAfter = 1
  MaxConfirms = 2
  Contacts = {c1, c2}
  Schedulers = {s1, s2}
  Office = {o1}
  MailWindow = 2
  MaxCalls = 1
  MaxFaults = 1
INVARIANTS
  
  JobActsOnce
  
PROPERTY MonthIsReported
CHECK_DEADLOCK FALSE
