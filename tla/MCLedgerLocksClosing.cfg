SPECIFICATION Spec
CONSTANTS
  w1 = w1
  w2 = w2
  d1 = d1
  d2 = d2
  NoSide = NoSide
  AccountOf <- InvoiceBuyers
  Total <- InvoiceTotals
  Worker = {w1, w2}
  CancelAttempts = 1
  Operations = {"manual", "close"}
  Today = 2
  Account = {1}
  CashAccount = {2}
  Invoice = {}
  Document = {d1}
  Kinds = {"manual"}
  Amounts = {1}
  Parts = {1}
  Closings = {0, 1}
SYMMETRY LocksSymmetry
PROPERTY ClosedStaysClosed
