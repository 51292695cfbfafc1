----------------------------- MODULE LedgerLocks -----------------------------
(***************************************************************************)
(* The transactions behind Ledger's actions: what each path of             *)
(* apps/ledger and billing's issue, mark_paid and cancel locks, reads and  *)
(* writes, statement by statement, in READ COMMITTED.                      *)
(*                                                                         *)
(* A transaction sees what is committed and what it wrote itself; its      *)
(* writes join the tables at commit.  SELECT ... FOR UPDATE waits for the  *)
(* row.  PostgreSQL's deferred foreign keys take a key share on the rows   *)
(* an insert refers to, at commit; a key share waits for FOR UPDATE only.  *)
(* The tables are Ledger's variables, and every commit must be one of      *)
(* Ledger's actions.                                                       *)
(***************************************************************************)
EXTENDS Integers, Sequences, FiniteSets, SequencesExt

CONSTANTS
  Worker,          \* requests at work; each takes one call after another
  Operations,      \* the calls made
  CancelAttempts,  \* _CANCEL_ATTEMPTS
  Today,           \* local_today(), the same for the whole run
  NoSide, Account, CashAccount, Invoice, AccountOf, Total, Document, Kinds,
  Amounts, Parts, Closings  \* as in Ledger; sides and invoices are primary keys

ASSUME LocksAssumption ==
  /\ CancelAttempts \in Nat \ {0}
  /\ Today \in Nat \ {0}
  /\ Account \cup CashAccount \cup Invoice \subseteq Nat
  /\ Account \cap CashAccount = {} /\ NoSide \notin Account \cup CashAccount
  /\ Invoice \cap Document = {} /\ IsFiniteSet(Invoice)
  /\ AccountOf \in [Invoice -> Account] /\ Total \in [Invoice -> Nat]
  /\ Amounts \subseteq Nat \ {0} /\ Parts \subseteq Nat \ {0}
  /\ {"collection", "payment_out", "manual", "opening", "transfer"} \cap Operations \subseteq Kinds
  /\ "mark_paid" \in Operations => "collection" \in Kinds

VARIABLES
  closedThrough, docs, moves, applied, invoice,  \* what is committed
  call,  \* call[w]: the call w serves, and what it remembers of it
  pc,    \* pc[w]: the statements it has left
  todo,  \* todo[w]: the rows the first of them still has to lock, in order
  held,  \* held[w]: the rows w holds FOR UPDATE
  shared,\* shared[w]: the rows w holds a key share of
  tx     \* tx[w]: the rows w has written and not committed

tables == <<closedThrough, docs, moves, applied, invoice>>
vars == <<tables, call, pc, todo, held, shared, tx>>

NoCall == [op |-> "none"]
Nothing == [docs |-> <<>>, moves |-> {}, applied |-> {}, invoice |-> <<>>, closed |-> {}]

(* One row by its key; a table with a transaction's own rows over it.      *)
Only(pk, row) == [k \in {pk} |-> row]
Overlaid(table, mine) ==
  [k \in DOMAIN table \cup DOMAIN mine |-> IF k \in DOMAIN mine THEN mine[k] ELSE table[k]]

(* Ledger, on what is committed. *)
Books == INSTANCE Ledger WITH today <- Today, MaxDay <- Today

Init ==
  /\ closedThrough = 0
  /\ docs = <<>>
  /\ moves = {}
  /\ applied = {}
  /\ invoice = [i \in Invoice |-> [status |-> "draft", date |-> 0, paidOn |-> 0]]
  /\ call = [w \in Worker |-> NoCall]
  /\ pc = [w \in Worker |-> <<>>]
  /\ todo = [w \in Worker |-> <<>>]
  /\ held = [w \in Worker |-> {}]
  /\ shared = [w \in Worker |-> {}]
  /\ tx = [w \in Worker |-> Nothing]

-----------------------------------------------------------------------------
(* Rows and locks                                                          *)

(* The rows a statement locks before it goes on, in the order it takes     *)
(* them: lock_sides takes accounts, then cash accounts, each by key; a     *)
(* commit takes its key shares in the order the movements were written.    *)
InPkOrder(s) ==
  CHOOSE q \in [1..Cardinality(s) -> s] : \A j, k \in 1..Cardinality(s) : j < k => q[j] < q[k]
Rows(kind, pks) == [k \in DOMAIN pks |-> <<kind, pks[k]>>]
SideRows(sides) == Rows("side", InPkOrder(sides \cap Account) \o InPkOrder(sides \cap CashAccount))
SidesOf(leg) == {leg.account, leg.cash} \ {NoSide}
ForeignRows(t) ==
  LET legs == SetToSortSeq(t.moves, LAMBDA m, n : m.no < n.no)
  IN  FlattenSeq([k \in DOMAIN legs |-> SideRows(SidesOf(legs[k]))])
        \o IF t.moves = {} THEN <<>> ELSE <<<<"company", 0>>>>

(* Mutated: a cancellation locks the collection before what it pays. *)
AllocationRows_CancelDocumentFirst(c) ==
  LET invoices == Rows("invoice", InPkOrder(c.invoices))
  IN  CASE c.op = "cancel" -> <<<<"document", c.doc>>>> \o invoices
        [] c.op = "apply" -> Append(invoices, <<"document", c.doc>>)
        [] OTHER -> Append(invoices, <<"counter", "T-">>)

(* Mutated: an allocation locks only its collection, or the counter. *)
AllocationRows_NoInvoices(c) ==
  <<IF c.op \in {"apply", "cancel"} THEN <<"document", c.doc>> ELSE <<"counter", "T-">>>>

(* Where allocations change: the invoices first, then the collection, or   *)
(* the counter that numbers a new one.                                     *)
AllocationRows(c) ==
  Append(Rows("invoice", InPkOrder(c.invoices)),
         IF c.op \in {"apply", "cancel"} THEN <<"document", c.doc>> ELSE <<"counter", "T-">>)

(* Mutated: an opening's side is locked only when it posts. *)
RowsOf_LateOpening(c, statement, t) ==
  CASE statement \in {"allocate", "reread"} -> AllocationRows(c)
    [] statement \in {"remaining", "issue", "uncollected"} -> Rows("invoice", InPkOrder(c.invoices))
    [] statement = "standing" -> <<<<"document", c.doc>>>>
    [] statement = "post" -> SideRows(UNION {SidesOf(c.legs[k]) : k \in DOMAIN c.legs})
    [] statement = "commit" -> ForeignRows(t)
    [] OTHER -> <<>>

RowsOf(c, statement, t) ==
  CASE statement \in {"allocate", "reread"} -> AllocationRows(c)
    [] statement \in {"remaining", "issue", "uncollected"} -> Rows("invoice", InPkOrder(c.invoices))
    [] statement = "standing" -> <<<<"document", c.doc>>>>
    [] statement = "record" /\ c.op = "payment_out" -> <<<<"counter", "O-">>>>
    [] statement \in {"opening", "both_sides", "post"} ->
         SideRows(UNION {SidesOf(c.legs[k]) : k \in DOMAIN c.legs})
    [] statement = "close" -> <<<<"company", 0>>>>
    [] statement = "commit" -> ForeignRows(t)
    [] OTHER -> <<>>

(* Whether w can have the row now: FOR UPDATE excludes every other lock.   *)
Granted(w, row) ==
  \A v \in Worker \ {w} :
    row \notin held[v] /\ (Head(pc[w]) # "commit" => row \notin shared[v])

(* Takes the next row its statement locks, when it can have it. *)
Lock(w) ==
  /\ todo[w] # <<>>
  /\ Granted(w, Head(todo[w]))
  /\ todo' = [todo EXCEPT ![w] = Tail(@)]
  /\ IF Head(pc[w]) = "commit"
     THEN shared' = [shared EXCEPT ![w] = @ \cup {Head(todo[w])}] /\ UNCHANGED held
     ELSE held' = [held EXCEPT ![w] = @ \cup {Head(todo[w])}] /\ UNCHANGED shared
  /\ UNCHANGED <<tables, call, pc, tx>>

(* w is at this statement and holds the rows it needed. *)
At(w, statement) == pc[w] # <<>> /\ Head(pc[w]) = statement /\ todo[w] = <<>>

(* Of these rows, those w does not hold yet. *)
Missing(w, rows) ==
  LET still == InPkOrder({k \in DOMAIN rows : rows[k] \notin held[w]})
  IN  [k \in DOMAIN still |-> rows[still[k]]]

(* On to these statements, with what the call remembers and has written.   *)
Goto(w, statements, c, t) ==
  /\ call' = [call EXCEPT ![w] = c]
  /\ tx' = [tx EXCEPT ![w] = t]
  /\ pc' = [pc EXCEPT ![w] = statements]
  /\ todo' = [todo EXCEPT ![w] = Missing(w, RowsOf(c, Head(statements), t))]
  /\ UNCHANGED <<tables, held, shared>>

Continue(w, c, t) == Goto(w, Tail(pc[w]), c, t)

(* The transaction ends, committed or not, and with it its locks.          *)
End(w, c, statements) ==
  /\ call' = [call EXCEPT ![w] = c]
  /\ tx' = [tx EXCEPT ![w] = Nothing]
  /\ pc' = [pc EXCEPT ![w] = statements]
  /\ todo' = [todo EXCEPT ![w] = <<>>]
  /\ held' = [held EXCEPT ![w] = {}]
  /\ shared' = [shared EXCEPT ![w] = {}]

Refuse(w) == End(w, NoCall, <<>>) /\ UNCHANGED tables

-----------------------------------------------------------------------------
(* The calls                                                               *)

Call(op, doc, legs, amount, day) ==
  [op |-> op, doc |-> doc, legs |-> legs, amount |-> amount, day |-> day,
   shares |-> {}, invoices |-> {}, attempt |-> 1]

Begin(w, c, statements) ==
  /\ pc[w] = <<>>
  /\ c.op \in Operations
  /\ Goto(w, statements, c, Nothing)

(* A primary key no other transaction is using. *)
Fresh(d) == d \notin DOMAIN docs /\ \A w \in Worker : call[w] # NoCall => call[w].doc # d

BeginRecord(w) ==
  \E d \in Document, day \in 1..Today, amount \in Amounts :
    /\ Fresh(d)
    /\ \/ \E a \in Account, c \in CashAccount :
            \/ \E shares \in Books!Shares(d) :
                 Begin(w, [Call("collection", d, <<Books!OnBoth(a, -1, c, 1)>>, amount, day)
                             EXCEPT !.shares = shares, !.invoices = Books!InvoicesOf(shares)],
                       <<"allocate", "date", "post", "sync", "commit">>)
            \/ Begin(w, Call("payment_out", d, <<Books!OnBoth(a, 1, c, -1)>>, amount, day),
                     <<"record", "date", "post", "commit">>)
       \/ \E a \in Account :
            \/ Begin(w, Call("manual", d, <<Books!OnAccount(a, 1)>>, amount, day),
                     <<"record", "date", "post", "commit">>)
            \/ Begin(w, Call("opening", d, <<Books!OnAccount(a, 1)>>, amount, day),
                     <<"opening", "date", "post", "commit">>)
       \/ \E s, t \in CashAccount :
            /\ s # t
            /\ Begin(w, Call("transfer", d, <<Books!OnCash(s, -1), Books!OnCash(t, 1)>>, amount, day),
                     <<"both_sides", "date", "post", "date", "post", "commit">>)

BeginOnDocument(w) ==
  \E d \in DOMAIN docs :
    \/ \E shares \in Books!Shares(d) \ {{}} :
         /\ docs[d].kind = "collection"
         /\ Begin(w, [Call("apply", d, docs[d].legs, 0, Today)
                        EXCEPT !.shares = shares, !.invoices = Books!InvoicesOf(shares)],
                  <<"allocate", "sync", "commit">>)
    \/ Begin(w, Call("cancel", d, docs[d].legs, 0, Today),
             IF docs[d].kind = "collection" THEN <<"peek", "reread", "reverse", "sync", "commit">>
             ELSE <<"standing", "reverse", "commit">>)

BeginOnInvoice(w) ==
  \E i \in Invoice, day \in 1..Today :
    \/ Begin(w, [Call("issue", i, <<Books!OnAccount(AccountOf[i], 1)>>, Total[i], day)
                   EXCEPT !.invoices = {i}],
             <<"issue">> \o (IF Total[i] > 0 THEN <<"date", "post">> ELSE <<>>)
               \o <<"sync", "commit">>)
    \/ /\ day = Today
       /\ Begin(w, [Call("unissue", i, <<>>, 0, day) EXCEPT !.invoices = {i}],
                <<"uncollected", "reverse", "commit">>)
    \/ \E d \in Document, c \in CashAccount :
         /\ Fresh(d)
         /\ Begin(w, [Call("mark_paid", d, <<Books!OnBoth(AccountOf[i], -1, c, 1)>>, 0, day)
                        EXCEPT !.invoices = {i}],
                  <<"remaining", "allocate", "date", "post", "sync", "commit">>)

BeginClose(w) ==
  \E day \in Closings : Begin(w, Call("close", NoSide, <<>>, 0, day), <<"close", "commit">>)

-----------------------------------------------------------------------------
(* The statements                                                          *)

Paid(w, d) == {x.invoice : x \in {y \in applied \cup tx[w].applied : y.doc = d}}

NewDocument(c) ==
  Only(c.doc, [kind |-> IF c.op = "mark_paid" THEN "collection" ELSE c.op, legs |-> c.legs,
               amount |-> c.amount, date |-> c.day, cancelled |-> FALSE])

(* mark_paid: issued and still owing, read under the invoice's lock.       *)
CheckRemaining(w) ==
  /\ At(w, "remaining")
  /\ \E i \in call[w].invoices :
       LET owed == Books!Remaining(i)
           share == [doc |-> call[w].doc, invoice |-> i, amount |-> owed]
       IN  IF invoice[i].status = "issued" /\ owed > 0
           THEN Continue(w, [call[w] EXCEPT !.amount = owed, !.shares = {share}], tx[w])
           ELSE Refuse(w)

(* record_collection's document and _apply; apply_collection's _apply.     *)
Allocate(w) ==
  LET c == call[w]
      t == IF c.op = "apply" THEN tx[w] ELSE [tx[w] EXCEPT !.docs = NewDocument(c)]
      mayApply ==
        IF c.op = "apply"
        THEN /\ ~docs[c.doc].cancelled
             /\ Books!MayApply(c.legs[1].account, c.shares, Books!Unallocated(c.doc))
             /\ c.invoices \cap Paid(w, c.doc) = {}
        ELSE Books!MayApply(c.legs[1].account, c.shares, c.amount)
  IN  /\ At(w, "allocate")
      /\ IF mayApply THEN Continue(w, c, [t EXCEPT !.applied = c.shares]) ELSE Refuse(w)

(* The document's row, of a kind that allocates nothing.                   *)
RecordDocument(w) ==
  /\ At(w, "record") \/ At(w, "both_sides")
  /\ Continue(w, call[w], [tx[w] EXCEPT !.docs = NewDocument(call[w])])

(* record_opening: one live opening, before everything live on the side.   *)
CheckOpening(w) ==
  LET c == call[w]
      s == c.legs[1].account
  IN  /\ At(w, "opening")
      /\ IF /\ Books!LiveOpenings(s) = {}
            /\ \A m \in moves :
                 Books!Touches(m, s) /\ ~Books!Reversed(m) /\ ~Books!IsMirror(m) => c.day <= m.date
         THEN Continue(w, c, [tx[w] EXCEPT !.docs = NewDocument(c)])
         ELSE Refuse(w)

(* billing.issue: a draft, under its lock.                                 *)
IssueInvoice(w) ==
  LET c == call[w]
  IN  /\ At(w, "issue")
      /\ IF invoice[c.doc].status = "draft"
         THEN Continue(w, c, [tx[w] EXCEPT !.invoice =
                Only(c.doc, [status |-> "issued", date |-> c.day, paidOn |-> 0])])
         ELSE Refuse(w)

(* check_date: the firm's row is read here, before the sides are locked.   *)
CheckDate(w) ==
  /\ At(w, "date")
  /\ IF Books!OpenDate(call[w].day) THEN Continue(w, call[w], tx[w]) ELSE Refuse(w)

(* post, of the document's next leg, with the sides locked.                *)
PostLeg(w) ==
  LET c == call[w]
      leg == c.legs[Cardinality(tx[w].moves) + 1]
      source == IF c.op = "mark_paid" THEN "collection" ELSE IF c.op = "issue" THEN "invoice" ELSE c.op
      no == Cardinality(Books!MovesOf(c.doc) \cup tx[w].moves) + 1
  IN  /\ At(w, "post")
      /\ IF source = "opening" \/ Books!AfterOpening(leg, c.day)
         THEN Continue(w, c, [tx[w] EXCEPT !.moves =
                @ \cup {Books!Movement(c.doc, no, leg, c.amount, c.day, source)}])
         ELSE Refuse(w)

(* cancel_collection's first read of what it pays, under no lock.          *)
Peek(w) ==
  /\ At(w, "peek")
  /\ Continue(w, [call[w] EXCEPT !.invoices = Paid(w, call[w].doc)], tx[w])

(* cancel_collection under the collection's lock: started over when an     *)
(* apply added an invoice meanwhile; the last attempt locks it late.       *)
Reread(w) ==
  LET c == call[w]
      now == Paid(w, c.doc)
  IN  /\ At(w, "reread")
      /\ \/ docs[c.doc].cancelled /\ Refuse(w)
         \/ ~docs[c.doc].cancelled /\ now \subseteq c.invoices /\ Continue(w, c, tx[w])
         \/ /\ ~docs[c.doc].cancelled /\ ~(now \subseteq c.invoices)
            /\ IF c.attempt < CancelAttempts
               THEN /\ End(w, [c EXCEPT !.attempt = @ + 1], <<"peek">> \o pc[w])
                    /\ UNCHANGED tables
               ELSE Goto(w, pc[w], [c EXCEPT !.invoices = now], tx[w])

(* _lock, for the other documents. *)
CheckStanding(w) ==
  /\ At(w, "standing")
  /\ IF docs[call[w].doc].cancelled THEN Refuse(w) ELSE Continue(w, call[w], tx[w])

(* billing.cancel with reverse_invoice: drafts go, issued ones unless a    *)
(* collection pays them.                                                   *)
CheckUncollected(w) ==
  LET i == call[w].doc
      may == \/ invoice[i].status = "draft"
             \/ invoice[i].status \in Books!Payable /\ Books!Collected(i, applied, docs) = 0
  IN  /\ At(w, "uncollected")
      /\ IF may THEN Continue(w, call[w], [tx[w] EXCEPT !.invoice =
                                Only(i, [invoice[i] EXCEPT !.status = "cancelled"])])
         ELSE Refuse(w)

(* reverse_document, dated today: the firm's row is read without a lock.   *)
PostReversal(w) ==
  LET c == call[w]
      source == IF c.op = "cancel" THEN "reversal" ELSE "invoice_cancel"
      stamped == IF c.op = "cancel" THEN Only(c.doc, [docs[c.doc] EXCEPT !.cancelled = TRUE]) ELSE <<>>
      mirrors == {Books!Mirror(m, source) : m \in Books!Unreversed(c.doc)}
  IN  /\ At(w, "reverse")
      /\ IF \/ c.op = "unissue" /\ Books!MovesOf(c.doc) = {}
            \/ mirrors # {} /\ Books!OpenDate(Today)
         THEN Continue(w, c, [tx[w] EXCEPT !.moves = mirrors, !.docs = stamped])
         ELSE Refuse(w)

(* sync_invoice_status of each invoice touched, by what w sees.            *)
Sync(w) ==
  LET apps == applied \cup tx[w].applied
      ds == Overlaid(docs, tx[w].docs)
      row(i) == Overlaid(invoice, tx[w].invoice)[i]
  IN  /\ At(w, "sync")
      /\ Continue(w, call[w], [tx[w] EXCEPT !.invoice =
           [i \in call[w].invoices |-> Books!Synced(i, row(i), apps, ds)]])

CloseBooks(w) ==
  /\ At(w, "close")
  /\ IF call[w].day <= Today
     THEN Continue(w, call[w], [tx[w] EXCEPT !.closed = {call[w].day}])
     ELSE Refuse(w)

Commit(w) ==
  /\ At(w, "commit")
  /\ docs' = Overlaid(docs, tx[w].docs)
  /\ moves' = moves \cup tx[w].moves
  /\ applied' = applied \cup tx[w].applied
  /\ invoice' = Overlaid(invoice, tx[w].invoice)
  /\ closedThrough' = IF tx[w].closed = {} THEN closedThrough ELSE CHOOSE day \in tx[w].closed : TRUE
  /\ End(w, NoCall, <<>>)

(* w waits for a lock v holds. *)
Waits(w, v) ==
  /\ todo[w] # <<>>
  /\ \/ Head(todo[w]) \in held[v]
     \/ Head(pc[w]) # "commit" /\ Head(todo[w]) \in shared[v]

(* Each of S waits for another of S. *)
WaitCycle(S) == S # {} /\ \A w \in S : \E v \in S \ {w} : Waits(w, v)

(* PostgreSQL ends a wait cycle by failing one of its transactions. *)
DetectDeadlock(w) ==
  /\ \E S \in SUBSET Worker : w \in S /\ WaitCycle(S)
  /\ Refuse(w)

Next ==
  \E w \in Worker :
    \/ BeginRecord(w) \/ BeginOnDocument(w) \/ BeginOnInvoice(w) \/ BeginClose(w)
    \/ Lock(w) \/ DetectDeadlock(w)
    \/ CheckRemaining(w) \/ Allocate(w) \/ RecordDocument(w) \/ CheckOpening(w) \/ IssueInvoice(w)
    \/ CheckDate(w) \/ PostLeg(w) \/ Sync(w)
    \/ Peek(w) \/ Reread(w) \/ CheckStanding(w) \/ CheckUncollected(w) \/ PostReversal(w)
    \/ CloseBooks(w) \/ Commit(w)

Spec == Init /\ [][Next]_vars

-----------------------------------------------------------------------------
(* Properties                                                              *)

(* No set of requests all wait for one another, whichever paths they are   *)
(* on: the lock order of apps/ledger/services.py is one.                   *)
NoWaitCycle == \A S \in SUBSET Worker : ~WaitCycle(S)

(* Whatever the requests read while others commit, each commit is one of   *)
(* Ledger's actions on the books as they then are: no check passed on a    *)
(* row another request changed.                                            *)
EveryCommitIsALedgerStep == Books!Spec

(* _fresh_company: the closed-through date a posting is held to is "the    *)
(* one in force at the moment of writing".                                 *)
ClosedStaysClosed == Books!PeriodFrozen

(* An opening and a posting on the same side never both pass their checks  *)
(* on books that do not show the other, even while the books are closed    *)
(* and reopened around them.                                               *)
OpeningHolds == Books!OpeningComesFirst

=============================================================================
