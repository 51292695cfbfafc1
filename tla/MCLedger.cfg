SPECIFICATION ApiSpec
CONSTANTS
  a1 = a1
  a2 = a2
  c1 = c1
  c2 = c2
  i1 = i1
  i2 = i2
  i3 = i3
  d1 = d1
  d2 = d2
  d3 = d3
  NoSide = NoSide
  AccountOf <- InvoiceBuyers
  Total <- InvoiceTotals
  Account = {a1}
  CashAccount = {c1, c2}
  Invoice = {i1, i2}
  Kinds = {"collection", "payment_out", "manual", "transfer", "opening"}
  Amounts = {2}
  Parts = {1, 2}
  Document = {d1, d2}
  Legacy = {i2}
  LegacyDays = {2}
  Closings = {0, 1}
  MaxDay = 2
SYMMETRY LedgerSymmetry
INVARIANTS
  MoneyConserved
  OpeningComesFirst
  ReadsReconcile
  ReceivablesExplained
  InvoicesFollowCollections
PROPERTY
  PeriodFrozen
CHECK_DEADLOCK FALSE
