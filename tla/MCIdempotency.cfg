SPECIFICATION FairSpec
CONSTANTS
  Request = {r1, r2}
  Intents = {i1, i2}
  NoRequest = NoRequest
  NoRow = NoRow
  PendingTimeout = 1
  Retention = 3
  Attempts = 3
  MaxTime = 4
INVARIANTS
  AtMostOnce
  AnswerSurvives
  FreshReservationKept
PROPERTIES
  EveryRequestEnds
  KeepsPromise
CHECK_DEADLOCK FALSE
