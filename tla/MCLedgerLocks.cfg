SPECIFICATION Spec
CONSTANTS
  w1 = w1
  w2 = w2
  d1 = d1
  d2 = d2
  NoSide = NoSide
  AccountOf <- InvoiceBuyers
  Total <- InvoiceTotals
  Worker = {w1, w2}
  CancelAttempts = 3
  Operations = {"collection", "apply", "cancel", "issue", "unissue", "mark_paid"}
  Today = 1
  Account = {1}
  CashAccount = {2}
  Invoice = {11, 12}
  Document = {d1, d2}
  Kinds = {"collection"}
  Amounts = {1}
  Parts = {1}
  Closings = {}
SYMMETRY LocksSymmetry
INVARIANT NoWaitCycle
PROPERTY EveryCommitIsALedgerStep
