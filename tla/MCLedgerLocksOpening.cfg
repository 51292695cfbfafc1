SPECIFICATION Spec
CONSTANTS
  w1 = w1
  w2 = w2
  d1 = d1
  d2 = d2
  NoSide = NoSide
  AccountOf <- InvoiceBuyers
  Total <- InvoiceTotals
  Worker = {w1, w2}
  CancelAttempts = 1
  Operations = {"collection", "payment_out", "manual", "opening", "transfer", "cancel", "close"}
  Today = 2
  Account = {1}
  CashAccount = {2, 3}
  Invoice = {}
  Document = {d1, d2}
  Kinds = {"collection", "payment_out", "manual", "opening", "transfer"}
  Amounts = {1}
  Parts = {1}
  Closings = {0, 1}
SYMMETRY LocksSymmetry
INVARIANT OpeningHolds
