------------------------------ MODULE LedgerApi ------------------------------
(***************************************************************************)
(* The ledger over HTTP (apps/ledger/api/v1), what it reads                *)
(* (apps/ledger/statement.py, apps/ledger/finance.py,                      *)
(* apps/ledger/balances.py) and the carry-over of the invoices issued      *)
(* before the ledger (apps/ledger/migration_helpers.py).                   *)
(*                                                                         *)
(* A request's form is a record; fields it may leave out are NoSide or     *)
(* NoDay.  Roles and other firms' rows are left out.                       *)
(***************************************************************************)
EXTENDS Ledger

CONSTANTS
  Legacy,      \* the invoices that date from before the ledger
  LegacyDays   \* the days they were issued and paid

ASSUME LegacyAssumption == Legacy \subseteq Invoice /\ LegacyDays \subseteq 1..MaxDay

VARIABLE
  uncarried   \* of them, those the carry-over has not posted yet

apiVars == <<today, closedThrough, docs, moves, applied, invoice, uncarried>>

NoDay == 0
OptDays == Days \cup {NoDay}

-----------------------------------------------------------------------------
(* Forms (apps/ledger/api/v1/serializers.py)                               *)

(* CollectionApplySerializer: what it pays of which invoices, not empty.   *)
ApplyForm(d) == Shares(d) \ {{}}

(* _DocumentWriteSerializer and CollectionCreateSerializer; without        *)
(* `applies` it is an advance; a date left out is today.                   *)
CollectionForm(d) ==
  [account : Account, cash_account : CashAccount, amount : Amounts, date : Days,
   applies : Shares(d)]

(* PaymentOutCreateSerializer *)
PaymentOutForm == [account : Account, cash_account : CashAccount, amount : Amounts, date : Days]

(* ManualEntryCreateSerializer: +1 is a debit. *)
ManualEntryForm == [account : Account, direction : {-1, 1}, amount : Amounts, date : Days]

(* TransferCreateSerializer: of the four sides it may name, the two its    *)
(* kind needs and no other (record_transfer refuses the rest).             *)
TransferForm ==
  UNION {[from : sides, to : sides, amount : Amounts, date : Days]
         : sides \in {Account, CashAccount}}

(* OpeningBalanceCreateSerializer: an account or a cash account, not both. *)
OpeningForm == [side : Sides, direction : {-1, 1}, amount : Amounts, date : Days]

-----------------------------------------------------------------------------
(* Handlers (apps/ledger/api/v1/views.py, apps/billing/api/v1/views.py)    *)

(* CollectionViewSet.create *)
CreateCollection(d, form) ==
  RecordCollection(d, form.account, form.cash_account, form.amount, form.date, form.applies)

(* CollectionViewSet.apply *)
Apply(d, form) == ApplyCollection(d, form)

(* PaymentOutViewSet.create *)
CreatePaymentOut(d, form) ==
  RecordPaymentOut(d, form.account, form.cash_account, form.amount, form.date)

(* ManualEntryViewSet.create *)
CreateManualEntry(d, form) ==
  RecordManualEntry(d, form.account, form.direction, form.amount, form.date)

(* TransferViewSet.create *)
CreateTransfer(d, form) ==
  RecordTransfer(d, form.from, form.to, form.amount, form.date)

(* OpeningBalanceViewSet.create *)
CreateOpening(d, form) ==
  RecordOpening(d, form.side, form.direction, form.amount, form.date)

(* _DocumentViewSet.cancel, of any of the five kinds. *)
CancelDocument(d) == Cancel(d)

(* LedgerSettingsView.patch: a day or none. *)
PatchSettings(closed_through) == SetClosedThrough(closed_through)

(* InvoiceDraftViewSet.issue, mark_paid and cancel *)
PostInvoice(i) ==
  \/ \E day \in Days : Issue(i, day)
  \/ \E d \in Document, form \in [paid_on : Days, cash_account : CashAccount] :
       MarkPaid(d, i, form.cash_account, form.paid_on)
  \/ CancelInvoice(i)

PostDocument(d) ==
  \/ \E form \in CollectionForm(d) : CreateCollection(d, form)
  \/ \E form \in PaymentOutForm : CreatePaymentOut(d, form)
  \/ \E form \in ManualEntryForm : CreateManualEntry(d, form)
  \/ \E form \in TransferForm : CreateTransfer(d, form)
  \/ \E form \in OpeningForm : CreateOpening(d, form)

(* One request of the office, or the calendar. *)
Request ==
  /\ \/ \E d \in Document : PostDocument(d)
     \/ \E d \in DocIds : \E form \in ApplyForm(d) : Apply(d, form)
     \/ \E d \in DocIds : CancelDocument(d)
     \/ \E i \in Invoice : PostInvoice(i)
     \/ \E day \in Closings : PatchSettings(day)
     \/ NextDay
  /\ UNCHANGED uncarried

-----------------------------------------------------------------------------
(* The carry-over (apps/ledger/migration_helpers.py): invoices issued or   *)
(* marked paid before the ledger have no posting; a job that runs every    *)
(* day posts them, one transaction each.                                   *)

(* As issued or marked paid before the ledger, on days that may be to come. *)
BeforeLedger ==
  [status : {"issued"}, date : LegacyDays, paidOn : {0}]
    \cup [status : {"paid"}, date : LegacyDays, paidOn : LegacyDays]

ApiInit ==
  \E was \in [Legacy -> BeforeLedger] :
    /\ today \in Days
    /\ closedThrough = 0
    /\ docs = <<>>
    /\ moves = {}
    /\ applied = {}
    /\ invoice = [i \in Invoice |-> IF i \in Legacy THEN was[i]
                                    ELSE [status |-> "draft", date |-> 0, paidOn |-> 0]]
    /\ uncarried = Legacy

(* _to_carry: issued or paid with no posting, but for one paid for         *)
(* nothing; or paid and not covered by collections.                        *)
ToCarry ==
  {i \in Invoice :
     \/ invoice[i].status \in Payable /\ OriginalsOf(i) = {}
         /\ ~(invoice[i].status = "paid" /\ Total[i] = 0)
     \/ invoice[i].status = "paid" /\ Total[i] > 0 /\ Remaining(i) > 0}

(* _not_after_today *)
NotAfterToday(day) == IF day <= today THEN day ELSE today

(* post_invoice, unless it posted already or is for nothing. *)
Debit(i) ==
  IF OriginalsOf(i) = {} /\ Total[i] > 0
  THEN {Movement(i, 1, OnAccount(AccountOf[i], 1), Total[i], NotAfterToday(invoice[i].date), "invoice")}
  ELSE {}

(* collect_invoice into the till for carried-over payments, of a paid      *)
(* invoice that still owes: a document and its movement.                   *)
Credit(d, i, till, day) ==
  Movement(d, 1, OnBoth(AccountOf[i], -1, till, 1), Remaining(i), day, "collection")

PaidDay(i) == NotAfterToday(IF invoice[i].paidOn # 0 THEN invoice[i].paidOn ELSE invoice[i].date)
Uncollected(i) == invoice[i].status = "paid" /\ Remaining(i) > 0

(* post's checks, on each movement the carry-over adds. *)
MayPost(ms) ==
  \A m \in ms : OpenDate(m.date) /\ AfterOpening(m, m.date)

(* _carry_over_draft: whole, or left as it was for the next run.  Which    *)
(* till is the one for carried-over payments is left open.                 *)
CarryOver(d, i, till) ==
  LET credit == Credit(d, i, till, PaidDay(i))
      share == [doc |-> d, invoice |-> i, amount |-> Remaining(i)]
      collection == [kind |-> "collection", legs |-> <<OnBoth(AccountOf[i], -1, till, 1)>>,
                     amount |-> Remaining(i), date |-> PaidDay(i), cancelled |-> FALSE]
      posted == Debit(i) \cup (IF Uncollected(i) THEN {credit} ELSE {})
  IN  /\ i \in ToCarry
      /\ MayPost(posted)
      /\ moves' = moves \cup posted
      /\ IF Uncollected(i)
         THEN /\ d \notin DocIds
              /\ docs' = [x \in DocIds \cup {d} |-> IF x = d THEN collection ELSE docs[x]]
              /\ applied' = applied \cup {share}
         ELSE UNCHANGED <<docs, applied>>
      /\ invoice' = SyncAll({i}, applied', docs')
      /\ uncarried' = uncarried \ {i}
      /\ UNCHANGED <<today, closedThrough>>

ApiNext ==
  \/ Request
  \/ \E d \in Document, i \in Invoice, till \in CashAccount : CarryOver(d, i, till)

ApiSpec == ApiInit /\ [][ApiNext]_apiVars

-----------------------------------------------------------------------------
(* What the API reads, all of it computed from the movements               *)

Positive(n) == IF n > 0 THEN n ELSE 0

(* finance.balance_totals: a customer in credit hides none in debt. *)
Receivables(accounts) == SumFunction([a \in accounts |-> Positive(Balance(a))])
Payables(accounts) == SumFunction([a \in accounts |-> Positive(-Balance(a))])

(* AccountViewSet.open_invoices: issued, with something left to pay. *)
OpenInvoices(a) ==
  {i \in Invoice : AccountOf[i] = a /\ invoice[i].status = "issued" /\ Remaining(i) > 0}

(* AccountFilter.filter_overdue *)
Overdue(a, overdue_days) ==
  /\ Balance(a) > 0
  /\ \E i \in Invoice : /\ AccountOf[i] = a
                       /\ invoice[i].status = "issued"
                       /\ invoice[i].date < today - overdue_days

(* StatementQuerySerializer: either bound may be left out. *)
StatementQuery ==
  {q \in [start : OptDays, end : OptDays] : NoDay \in {q.start, q.end} \/ q.start <= q.end}

(* A statement's opening: everything dated before `start`. *)
Opening(a, start) == IF start = NoDay THEN 0 ELSE BalanceAsOf(a, start - 1)

(* statement_rows: the balance before `start`, the movements from start to *)
(* end, and the balance after the last of them.                            *)
Statement(a, q) ==
  LET rows == {m \in moves : /\ m.account = a
                             /\ q.start # NoDay => m.date >= q.start
                             /\ q.end # NoDay => m.date <= q.end}
      debit == SumOf({m \in rows : m.dir = 1})
      credit == SumOf({m \in rows : m.dir = -1})
  IN  [opening |-> Opening(a, q.start), rows |-> rows, total_debit |-> debit,
       total_credit |-> credit, closing |-> Opening(a, q.start) + debit - credit]

(* finance.period_range, day 1 being a Monday and a first of the month. *)
Periods == {"today", "yesterday", "week", "month"}
PeriodRange(period) ==
  CASE period = "today" -> <<today, today>>
    [] period = "yesterday" -> <<today - 1, today - 1>>
    [] period = "week" -> <<today - ((today - 1) % 7), today>>
    [] period = "month" -> <<1, today>>

(* A CashLine: what came into a till and what went out of it in a window.  *)
MoneyIn(c, flows) == SumOf({m \in flows : m.cash = c /\ m.cashDir = 1})
MoneyOut(c, flows) == SumOf({m \in flows : m.cash = c /\ m.cashDir = -1})
CashLine(c, flows) ==
  [balance |-> Balance(c), money_in |-> MoneyIn(c, flows), money_out |-> MoneyOut(c, flows)]

(* finance.summary: what is owed today, and every till in the period.      *)
Summary(period) ==
  LET flows == Flows(PeriodRange(period)[1], PeriodRange(period)[2])
  IN  [receivables |-> Receivables(Account), payables |-> Payables(Account),
       cash_accounts |-> [c \in CashAccount |-> CashLine(c, flows)]]

-----------------------------------------------------------------------------
(* Properties                                                              *)

(* Whatever was recorded, applied, cancelled and carried over in any       *)
(* order, an account's balance is explained by what stands on it, once     *)
(* nothing of it is left to carry.  The job finds nothing but invoices     *)
(* from before the ledger: it never posts one a second time.               *)
ReceivablesExplained ==
  /\ ToCarry \subseteq uncarried
  /\ \A a \in Account : (\A i \in ToCarry : AccountOf[i] # a) => Explained(a)

(* An invoice's standing and the money applied to it never part, over any  *)
(* number of applications, payments and cancellations                      *)
(* (sync_invoice_status, _apply, reverse_invoice), nor once it is carried. *)
InvoicesFollowCollections ==
  /\ \A i \in Invoice \ ToCarry : PaidMeansCovered(i)
  /\ NeverOverApplied
  /\ CancelledOwesNothingBack

(* What is read agrees with itself.  A till's money in less its money out, *)
(* in any period of the summary, is what its balance moved by, transfers   *)
(* and openings aside; a statement opens with what the one before it       *)
(* closed on, and in full closes on the balance; and an account shown as   *)
(* overdue has an invoice a collection can pay.                            *)
ReadsReconcile ==
  /\ \A range \in {PeriodRange(period) : period \in Periods} :
       LET window == {m \in moves : InWindow(m, range[1], range[2])}
           flows == Flows(range[1], range[2])
       IN  \A c \in {m.cash : m \in moves} \ {NoSide} :
             MoneyIn(c, flows) - MoneyOut(c, flows) + SumMoves({m \in window : Internal(m)}, c)
               = SumMoves(window, c)
  /\ \A a \in Account :
       /\ Statement(a, [start |-> NoDay, end |-> NoDay]).closing = Balance(a)
       /\ \A day \in Days :
            Statement(a, [start |-> day, end |-> day]).closing = Opening(a, day + 1)
       /\ (\A i \in ToCarry : AccountOf[i] # a) /\ Overdue(a, 0) => OpenInvoices(a) # {}

=============================================================================
