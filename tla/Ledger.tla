------------------------------- MODULE Ledger -------------------------------
(***************************************************************************)
(* apps/ledger: the books of one firm in one currency.  Documents          *)
(* (collections, payments out, manual entries, transfers, opening          *)
(* balances) and issued invoices post movements; cancelling one posts the  *)
(* mirror of each of its movements; nothing edits or deletes a movement.   *)
(*                                                                         *)
(* Every operation is one transaction that locks the rows it reads         *)
(* (invoices, document, sides), and is one action here.  LedgerLocks       *)
(* models the locks themselves.                                            *)
(***************************************************************************)
EXTENDS Integers, Sequences, FiniteSets, FiniteSetsExt, Functions

CONSTANTS
  Account,         \* the parties' accounts (cari)
  CashAccount,     \* the firm's tills and banks
  NoSide,          \* the side a movement does not have
  Invoice,         \* invoice drafts, priced and ready to issue
  AccountOf,       \* account_for_customer of each invoice
  Total,           \* each invoice's total; zero is an invoice for nothing
  Document,        \* the documents there is room for: bounds their number
  Kinds,           \* the kinds of document recorded
  Amounts,         \* amounts documents are for
  Parts,           \* amounts a collection pays of an invoice
  Closings,        \* the days the books are closed through; 0 reopens them
  MaxDay           \* bound on the calendar; day 0 is before every date

DocKinds == {"collection", "payment_out", "manual", "transfer", "opening"}
Sides == Account \cup CashAccount

ASSUME SidesAssumption == Account \cap CashAccount = {} /\ NoSide \notin Sides
ASSUME InvoiceAssumption ==
  /\ AccountOf \in [Invoice -> Account]
  /\ Total \in [Invoice -> Nat]
  /\ Invoice \cap Document = {}
ASSUME FiniteAssumption == IsFiniteSet(CashAccount) /\ IsFiniteSet(Invoice)
ASSUME BoundsAssumption ==
  /\ Kinds \subseteq DocKinds
  /\ Amounts \subseteq Nat \ {0} /\ Parts \subseteq Nat \ {0}
  /\ MaxDay \in Nat \ {0}
  /\ Closings \subseteq 0..MaxDay

VARIABLES
  today,          \* local_today()
  closedThrough,  \* Company.ledger_closed_through; 0 is "nothing closed"
  docs,           \* the documents recorded so far, by their name
  moves,          \* the movements; `no` numbers those of one document
  applied,        \* CollectionApplication rows
  invoice         \* invoice[i]: the InvoiceDraft's ledger-facing fields

vars == <<today, closedThrough, docs, moves, applied, invoice>>

Days == 1..MaxDay
DocIds == DOMAIN docs
Payable == {"issued", "paid"}

(* What a document posts on: one side or two, each with its direction.     *)
(* +1 is a debit on an account or money into a till, -1 the opposite.      *)
Leg == [account : Account \cup {NoSide}, dir : {-1, 0, 1},
        cash : CashAccount \cup {NoSide}, cashDir : {-1, 0, 1}]
OnAccount(a, dir) == [account |-> a, dir |-> dir, cash |-> NoSide, cashDir |-> 0]
OnCash(c, dir) == [account |-> NoSide, dir |-> 0, cash |-> c, cashDir |-> dir]
OnBoth(a, dir, c, cashDir) == [account |-> a, dir |-> dir, cash |-> c, cashDir |-> cashDir]

Init ==
  /\ today \in Days
  /\ closedThrough = 0
  /\ docs = <<>>
  /\ moves = {}
  /\ applied = {}
  /\ invoice = [i \in Invoice |-> [status |-> "draft", date |-> 0, paidOn |-> 0]]

-----------------------------------------------------------------------------
(* apps/ledger/posting.py                                                  *)

Touches(x, s) == x.account = s \/ x.cash = s

(* check_date: not after today, and not in a closed period. *)
OpenDate(day) == day <= today /\ closedThrough < day

LiveOpenings(s) ==
  {d \in DocIds : docs[d].kind = "opening" /\ ~docs[d].cancelled
                  /\ \E k \in DOMAIN docs[d].legs : Touches(docs[d].legs[k], s)}

MovesOf(doc) == {m \in moves : m.doc = doc}
OriginalsOf(doc) == {m \in MovesOf(doc) : m.reverses = 0}
Reversed(m) == \E n \in MovesOf(m.doc) : n.reverses = m.no
IsMirror(m) == m.reverses # 0

Movement(doc, no, leg, amount, day, source) ==
  [doc |-> doc, no |-> no, account |-> leg.account, dir |-> leg.dir, cash |-> leg.cash,
   cashDir |-> leg.cashDir, amount |-> amount, date |-> day, source |-> source,
   reverses |-> 0]

(* Mutated: only the account is held to its opening. *)
AfterOpening_AccountOnly(leg, day) ==
  \A s \in {leg.account} \ {NoSide} :
    \A d \in LiveOpenings(s) : docs[d].date <= day

(* _check_after_opening *)
AfterOpening(leg, day) ==
  \A s \in {leg.account, leg.cash} \ {NoSide} :
    \A d \in LiveOpenings(s) : docs[d].date <= day

(* post, once for each leg of a document. *)
Post(doc, legs, amount, day, source) ==
  /\ OpenDate(day)
  /\ source # "opening" => \A k \in DOMAIN legs : AfterOpening(legs[k], day)
  /\ moves' = moves \cup {Movement(doc, Cardinality(MovesOf(doc)) + k, legs[k],
                                   amount, day, source) : k \in DOMAIN legs}

(* A document's movements that reverse_document still has to cancel. *)
Unreversed(doc) == {m \in OriginalsOf(doc) : ~Reversed(m)}

(* Mutated: only the account's direction is flipped. *)
Mirror_OneSided(m, source) ==
  [m EXCEPT !.no = @ + Cardinality(MovesOf(m.doc)), !.dir = -@, !.date = today,
            !.source = source, !.reverses = m.no]

(* Mutated: dated the day of the movement it reverses. *)
Mirror_Backdated(m, source) ==
  [m EXCEPT !.no = @ + Cardinality(MovesOf(m.doc)), !.dir = -@, !.cashDir = -@,
            !.source = source, !.reverses = m.no]

(* The mirror of movement m, dated today. *)
Mirror(m, source) ==
  [m EXCEPT !.no = @ + Cardinality(MovesOf(m.doc)), !.dir = -@, !.cashDir = -@,
            !.date = today, !.source = source, !.reverses = m.no]

(* reverse_document *)
ReverseDocument(doc, source) ==
  /\ Unreversed(doc) # {}
  /\ OpenDate(today)
  /\ moves' = moves \cup {Mirror(m, source) : m \in Unreversed(doc)}

-----------------------------------------------------------------------------
(* Allocation: what collections pay of which invoice                       *)

SumOf(xs) == SumFunction([x \in xs |-> x.amount])

(* Mutated: counts cancelled collections too. *)
Standing_All(apps, ds) == apps

(* The applications of collections still standing. *)
Standing(apps, ds) == {x \in apps : ~ds[x.doc].cancelled}

(* invoice_collected *)
Collected(i, apps, ds) == SumOf({x \in Standing(apps, ds) : x.invoice = i})

(* invoice_remaining *)
Remaining(i) == Total[i] - Collected(i, applied, docs)

(* What is left of a collection to apply. *)
Unallocated(d) == docs[d].amount - SumOf({x \in applied : x.doc = d})

(* sync_invoice_status: paid when standing collections cover the invoice,  *)
(* dated the latest of them; an invoice for nothing is paid as issued.     *)
Synced(i, rec, apps, ds) ==
  LET dates == {ds[x.doc].date : x \in {y \in Standing(apps, ds) : y.invoice = i}}
  IN  CASE rec.status \notin Payable -> rec
        [] rec.status \in Payable /\ Total[i] = 0 ->
             [rec EXCEPT !.status = "paid", !.paidOn = rec.date]
        [] rec.status \in Payable /\ Total[i] > 0 /\ Collected(i, apps, ds) >= Total[i] ->
             [rec EXCEPT !.status = "paid", !.paidOn = Max(dates)]
        [] OTHER -> [rec EXCEPT !.status = "issued", !.paidOn = 0]

SyncAll(is, apps, ds) ==
  [i \in Invoice |-> IF i \in is THEN Synced(i, invoice[i], apps, ds) ELSE invoice[i]]

(* _apply's checks: this customer's issued invoices, each up to what it    *)
(* still owes, all together up to what the collection has left.            *)
MayApply(account, shares, limit) ==
  /\ SumOf(shares) <= limit
  /\ \A x \in shares :
       /\ invoice[x.invoice].status \in Payable
       /\ AccountOf[x.invoice] = account
       /\ x.amount <= Remaining(x.invoice)

(* The ways to share a collection between invoices, one amount for each. *)
Shares(d) ==
  UNION {{{[doc |-> d, invoice |-> i, amount |-> f[i]] : i \in is} : f \in [is -> Parts]}
         : is \in SUBSET Invoice}

InvoicesOf(shares) == {x.invoice : x \in shares}

-----------------------------------------------------------------------------
(* apps/ledger/services.py                                                 *)

(* Writes the document's row and posts its legs. *)
Record(d, kind, legs, amount, day) ==
  /\ d \notin DocIds
  /\ kind \in Kinds
  /\ docs' = [x \in DocIds \cup {d} |->
                IF x = d THEN [kind |-> kind, legs |-> legs, amount |-> amount,
                               date |-> day, cancelled |-> FALSE]
                ELSE docs[x]]
  /\ Post(d, legs, amount, day, kind)

(* Mutated: the invoices it pays keep their status. *)
RecordCollection_NoSync(d, a, c, amount, day, shares) ==
  /\ Record(d, "collection", <<OnBoth(a, -1, c, 1)>>, amount, day)
  /\ MayApply(a, shares, amount)
  /\ applied' = applied \cup shares
  /\ UNCHANGED <<today, closedThrough, invoice>>

(* record_collection *)
RecordCollection(d, a, c, amount, day, shares) ==
  /\ Record(d, "collection", <<OnBoth(a, -1, c, 1)>>, amount, day)
  /\ MayApply(a, shares, amount)
  /\ applied' = applied \cup shares
  /\ invoice' = SyncAll(InvoicesOf(shares), applied', docs')
  /\ UNCHANGED <<today, closedThrough>>

(* apply_collection: allocates what is left of a standing collection. *)
ApplyCollection(d, shares) ==
  /\ docs[d].kind = "collection"
  /\ ~docs[d].cancelled
  /\ shares # {}
  /\ MayApply(docs[d].legs[1].account, shares, Unallocated(d))
  /\ \A x \in shares, y \in applied : y.doc = d => y.invoice # x.invoice
  /\ applied' = applied \cup shares
  /\ invoice' = SyncAll(InvoicesOf(shares), applied', docs)
  /\ UNCHANGED <<today, closedThrough, docs, moves>>

(* Cancelling a document reverses it and stamps it cancelled; a collection *)
(* also leaves the invoices it paid owing that amount again.               *)
Cancel(d) ==
  /\ ~docs[d].cancelled
  /\ ReverseDocument(d, "reversal")
  /\ docs' = [docs EXCEPT ![d].cancelled = TRUE]
  /\ invoice' = SyncAll({x.invoice : x \in {y \in applied : y.doc = d}}, applied, docs')
  /\ UNCHANGED <<today, closedThrough, applied>>

(* record_payment_out *)
RecordPaymentOut(d, a, c, amount, day) ==
  /\ Record(d, "payment_out", <<OnBoth(a, 1, c, -1)>>, amount, day)
  /\ UNCHANGED <<today, closedThrough, applied, invoice>>

(* record_manual_entry *)
RecordManualEntry(d, a, dir, amount, day) ==
  /\ Record(d, "manual", <<OnAccount(a, dir)>>, amount, day)
  /\ UNCHANGED <<today, closedThrough, applied, invoice>>

(* record_transfer: between two accounts or between two cash accounts. *)
RecordTransfer(d, source, target, amount, day) ==
  /\ source # target
  /\ \/ /\ {source, target} \subseteq Account
        /\ Record(d, "transfer", <<OnAccount(source, -1), OnAccount(target, 1)>>, amount, day)
     \/ /\ {source, target} \subseteq CashAccount
        /\ Record(d, "transfer", <<OnCash(source, -1), OnCash(target, 1)>>, amount, day)
  /\ UNCHANGED <<today, closedThrough, applied, invoice>>

(* record_opening: one live opening per side, before everything live on it. *)
RecordOpening(d, s, dir, amount, day) ==
  /\ LiveOpenings(s) = {}
  /\ \A m \in moves : Touches(m, s) /\ ~Reversed(m) /\ ~IsMirror(m) => day <= m.date
  /\ Record(d, "opening", <<IF s \in Account THEN OnAccount(s, dir) ELSE OnCash(s, dir)>>,
            amount, day)
  /\ UNCHANGED <<today, closedThrough, applied, invoice>>

(* billing.issue with ledger.post_invoice: the total posts as a debit in   *)
(* the same transaction; an invoice for nothing posts nothing.             *)
Issue(i, day) ==
  /\ invoice[i].status = "draft"
  /\ \/ /\ Total[i] > 0
        /\ Post(i, <<OnAccount(AccountOf[i], 1)>>, Total[i], day, "invoice")
     \/ /\ Total[i] = 0
        /\ UNCHANGED moves
  /\ LET issued == [status |-> "issued", date |-> day, paidOn |-> 0]
     IN  invoice' = [invoice EXCEPT ![i] = Synced(i, issued, applied, docs)]
  /\ UNCHANGED <<today, closedThrough, docs, applied>>

(* billing.mark_paid with ledger.collect_invoice *)
MarkPaid(d, i, c, day) ==
  /\ invoice[i].status = "issued"
  /\ Remaining(i) > 0
  /\ RecordCollection(d, AccountOf[i], c, Remaining(i), day,
                      {[doc |-> d, invoice |-> i, amount |-> Remaining(i)]})

(* billing.cancel with ledger.reverse_invoice *)
CancelInvoice(i) ==
  /\ \/ /\ invoice[i].status = "draft"
        /\ UNCHANGED moves
     \/ /\ invoice[i].status \in Payable
        /\ Collected(i, applied, docs) = 0
        /\ IF MovesOf(i) # {}
           THEN ReverseDocument(i, "invoice_cancel")
           ELSE UNCHANGED moves
  /\ invoice' = [invoice EXCEPT ![i].status = "cancelled"]
  /\ UNCHANGED <<today, closedThrough, docs, applied>>

(* set_closed_through: forward, back, or none at all, never after today. *)
SetClosedThrough(day) ==
  /\ day \in Closings
  /\ day <= today
  /\ day # closedThrough
  /\ closedThrough' = day
  /\ UNCHANGED <<today, docs, moves, applied, invoice>>

NextDay ==
  /\ today < MaxDay
  /\ today' = today + 1
  /\ UNCHANGED <<closedThrough, docs, moves, applied, invoice>>

(* A new document d, dated `day`. *)
RecordDocument(d, day) ==
  \/ \E i \in Invoice, c \in CashAccount : MarkPaid(d, i, c, day)
  \/ \E amount \in Amounts, a \in Account, c \in CashAccount, shares \in Shares(d) :
       RecordCollection(d, a, c, amount, day, shares)
  \/ \E amount \in Amounts, a \in Account, c \in CashAccount : RecordPaymentOut(d, a, c, amount, day)
  \/ \E amount \in Amounts, a \in Account, dir \in {-1, 1} :
       RecordManualEntry(d, a, dir, amount, day)
  \/ \E amount \in Amounts, source, target \in Sides : RecordTransfer(d, source, target, amount, day)
  \/ \E amount \in Amounts, s \in Sides, dir \in {-1, 1} : RecordOpening(d, s, dir, amount, day)

Next ==
  \/ NextDay
  \/ \E day \in Days \cup {0} : SetClosedThrough(day)
  \/ \E i \in Invoice : CancelInvoice(i)
  \/ \E i \in Invoice, day \in Days : Issue(i, day)
  \/ \E d \in DocIds : Cancel(d)
  \/ \E d \in DocIds : \E shares \in Shares(d) : ApplyCollection(d, shares)
  \/ \E d \in Document, day \in Days : RecordDocument(d, day)

Spec == Init /\ [][Next]_vars

-----------------------------------------------------------------------------
(* Balances (apps/ledger/balances.py) and the finance summary              *)
(* (apps/ledger/finance.py), always computed from the movements            *)

(* The direction x has on side s. *)
Side(x, s) == (IF x.account = s THEN x.dir ELSE 0) + (IF x.cash = s THEN x.cashDir ELSE 0)
SumMoves(ms, s) == SumFunction([m \in ms |-> Side(m, s) * m.amount])

(* account_balance and cash_balance *)
Balance(s) == SumMoves(moves, s)
(* account_balance_before, of the day after *)
BalanceAsOf(s, day) == SumMoves({m \in moves : m.date <= day}, s)

(* A transfer, an opening, or the reversal of one. *)
Internal(m) ==
  \/ m.source \in {"transfer", "opening"}
  \/ \E n \in moves : n.doc = m.doc /\ n.no = m.reverses /\ n.source \in {"transfer", "opening"}

InWindow(m, from, to) == from <= m.date /\ m.date <= to

(* Mutated: the mirror of a movement reversed in the window still counts. *)
Flows_MirrorCounts(from, to) ==
  {m \in moves :
     /\ InWindow(m, from, to)
     /\ ~Internal(m)
     /\ \A n \in MovesOf(m.doc) : n.reverses = m.no => ~InWindow(n, from, to)}

(* _flows: money in or out of the firm in the window, without transfers,   *)
(* openings, and what was both made and reversed inside it.                *)
Flows(from, to) ==
  {m \in moves :
     /\ InWindow(m, from, to)
     /\ ~Internal(m)
     /\ \A n \in MovesOf(m.doc) :
          n.reverses = m.no \/ m.reverses = n.no => ~InWindow(n, from, to)}

-----------------------------------------------------------------------------
(* Properties                                                              *)

MovementType ==
  [doc : Document \cup Invoice, no : Nat \ {0}, account : Account \cup {NoSide}, dir : {-1, 0, 1},
   cash : CashAccount \cup {NoSide}, cashDir : {-1, 0, 1}, amount : Nat \ {0},
   date : Days, source : DocKinds \cup {"invoice", "invoice_cancel", "reversal"},
   reverses : Nat]

TypeOK ==
  /\ today \in Days
  /\ closedThrough \in 0..today
  /\ DocIds \subseteq Document
  /\ docs \in [DocIds -> [kind : DocKinds, legs : Seq(Leg), amount : Nat \ {0}, date : Days,
                        cancelled : BOOLEAN]]
  /\ moves \subseteq MovementType
  /\ applied \subseteq [doc : DocIds, invoice : Invoice, amount : Nat \ {0}]
  /\ invoice \in [Invoice -> [status : {"draft", "cancelled"} \cup Payable,
                             date : Days \cup {0}, paidOn : Days \cup {0}]]

LiveDocs(kind) == {d \in DocIds : docs[d].kind = kind /\ ~docs[d].cancelled}
LegsEffect(d, s) ==
  SumFunction([k \in DOMAIN docs[d].legs |-> Side(docs[d].legs[k], s) * docs[d].amount])

(* What a customer's account says is owed is what the invoices still owe,  *)
(* less the collections not yet applied, plus the other documents that     *)
(* stand.                                                                  *)
Explained(a) ==
  Balance(a) =
    SumFunction([i \in {j \in Invoice : AccountOf[j] = a /\ invoice[j].status \in Payable} |->
                   Remaining(i)])
    - SumFunction([d \in {e \in LiveDocs("collection") : docs[e].legs[1].account = a} |->
                     Unallocated(d)])
    + SumFunction([d \in UNION {LiveDocs(k) : k \in DocKinds \ {"collection"}} |->
                     LegsEffect(d, a)])

(* The firm's money over all its tills is what standing collections        *)
(* brought in, less what standing payments took out, plus the openings: a  *)
(* transfer, and anything cancelled, moves nothing.                        *)
MoneyConserved ==
  LET total(kind) == SumFunction([d \in LiveDocs(kind) |-> docs[d].amount])
      openings == SumFunction([d \in LiveDocs("opening") |->
                                 docs[d].legs[1].cashDir * docs[d].amount])
  IN  SumFunction([c \in CashAccount |-> Balance(c)])
        = total("collection") - total("payment_out") + openings

(* An invoice reads paid exactly when standing collections cover it, and   *)
(* then since the day the last of them brought in; a cancelled collection  *)
(* leaves none reading paid.                                               *)
PaidMeansCovered(i) ==
  invoice[i].status \in Payable =>
    LET paying == {x \in applied : x.invoice = i /\ ~docs[x.doc].cancelled}
    IN  /\ invoice[i].status = "paid" <=> SumOf(paying) >= Total[i]
        /\ invoice[i].status = "issued" => invoice[i].paidOn = 0
        /\ invoice[i].status = "paid" /\ Total[i] > 0 =>
             /\ \E x \in paying : docs[x.doc].date = invoice[i].paidOn
             /\ \A x \in paying : docs[x.doc].date <= invoice[i].paidOn

(* No money is spent twice: neither an invoice nor a collection is ever    *)
(* applied past its own amount, over any number of applications.           *)
NeverOverApplied ==
  /\ \A i \in Invoice : Remaining(i) >= 0
  /\ \A d \in LiveDocs("collection") : Unallocated(d) >= 0

(* An invoice a standing collection pays is never cancelled under it.      *)
CancelledOwesNothingBack ==
  \A i \in Invoice : invoice[i].status \notin Payable => Collected(i, applied, docs) = 0

(* One live opening per side, and no live movement of another document is  *)
(* dated before it.                                                        *)
OpeningComesFirst ==
  \A s \in Sides : \A d \in LiveOpenings(s) :
    /\ LiveOpenings(s) = {d}
    /\ \A m \in moves :
         Touches(m, s) /\ ~Reversed(m) /\ ~IsMirror(m) => docs[d].date <= m.date

(* A closed period is frozen: while it stays closed, no balance as of its  *)
(* last day moves, not even by a cancellation of what lies inside it.      *)
PeriodFrozen ==
  [][closedThrough' = closedThrough =>
       \A s \in Sides : BalanceAsOf(s, closedThrough)' = BalanceAsOf(s, closedThrough)]_vars

=============================================================================
