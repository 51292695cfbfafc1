---------------------------- MODULE LedgerProofs ----------------------------
(***************************************************************************)
(* Proofs about the books, for any accounts, tills, invoices, documents,   *)
(* amounts and days, over every request and the carry-over.                *)
(*                                                                         *)
(* 1. Which movements there are and how they are dated: closed periods     *)
(*    are frozen, an opening comes first.                                  *)
(* 2. Sums over finite sets.                                               *)
(* 3. Books, the inductive invariant: what has posted, for every document  *)
(*    and invoice, and what is applied to what.                            *)
(* 4. The books balance, so money is conserved.                            *)
(* 5. Every step keeps the books.                                          *)
(* 6. What follows: invoices, receivables, the carry-over, the reads.      *)
(***************************************************************************)
EXTENDS LedgerApi, FiniteSetTheorems, WellFoundedInduction, TLAPS

-----------------------------------------------------------------------------
(* Days                                                                    *)

Clock == today \in Nat /\ closedThrough \in Nat

(* Every movement has a date. *)
Dated == \A m \in moves : "date" \in DOMAIN m

(* A mirror is dated today.                                                *)
LEMMA MirrorDate ==
  ASSUME NEW m, NEW source, "date" \in DOMAIN m
  PROVE  /\ Mirror(m, source).date = today
         /\ "date" \in DOMAIN Mirror(m, source)
  BY DEF Mirror

(* A movement is dated as it is posted.                                    *)
LEMMA MovementDate ==
  ASSUME NEW doc, NEW no, NEW leg, NEW amount, NEW day, NEW source
  PROVE  /\ Movement(doc, no, leg, amount, day, source).date = day
         /\ "date" \in DOMAIN Movement(doc, no, leg, amount, day, source)
  BY DEF Movement

-----------------------------------------------------------------------------
(* A closed period is frozen                                               *)

(* What a step adds to the books is dated after the closed period.         *)
AddsOpenMoves ==
  \E new :
    /\ moves' = moves \cup new
    /\ \A m \in new : "date" \in DOMAIN m /\ ~(m.date <= closedThrough)

(* post dates a document's movements on an open day. *)
LEMMA PostAddsOpen ==
  ASSUME Clock, NEW doc, NEW legs, NEW amount, NEW day \in Nat, NEW source,
         Post(doc, legs, amount, day, source)
  PROVE  AddsOpenMoves
<1> DEFINE new == {Movement(doc, Cardinality(MovesOf(doc)) + k, legs[k], amount, day, source) :
                     k \in DOMAIN legs}
<1>1. moves' = moves \cup new
  BY DEF Post
<1>2. closedThrough < day
  BY DEF Post, OpenDate
<1>3. \A m \in new : "date" \in DOMAIN m /\ m.date = day
  BY MovementDate
<1>4. \A m \in new : "date" \in DOMAIN m /\ ~(m.date <= closedThrough)
  BY <1>2, <1>3 DEF Clock
<1> QED
  BY <1>1, <1>4 DEF AddsOpenMoves

(* reverse_document dates the mirrors today, and today is open. *)
LEMMA ReversalAddsOpen ==
  ASSUME Clock, Dated, NEW doc, NEW source, ReverseDocument(doc, source)
  PROVE  AddsOpenMoves
<1> DEFINE new == {Mirror(m, source) : m \in Unreversed(doc)}
<1>1. moves' = moves \cup new
  BY DEF ReverseDocument
<1>2. closedThrough < today
  BY DEF ReverseDocument, OpenDate
<1>3. \A m \in new : "date" \in DOMAIN m /\ m.date = today
  BY MirrorDate DEF Dated, Unreversed, OriginalsOf, MovesOf
<1>4. \A m \in new : "date" \in DOMAIN m /\ ~(m.date <= closedThrough)
  BY <1>2, <1>3 DEF Clock
<1> QED
  BY <1>1, <1>4 DEF AddsOpenMoves

(* Every new document writes its row and posts its legs, both on its day;  *)
(* only record_opening writes an opening.                                  *)
LEMMA RecordsOne ==
  ASSUME NEW d, NEW day, RecordDocument(d, day)
  PROVE  \/ \E s \in Sides : \E dir, amount : RecordOpening(d, s, dir, amount, day)
         \/ \E kind, legs, amount : kind # "opening" /\ Record(d, kind, legs, amount, day)
<1>1. ASSUME NEW a, NEW c, NEW amount, NEW shares, RecordCollection(d, a, c, amount, day, shares)
      PROVE  \E kind, legs, sum : kind # "opening" /\ Record(d, kind, legs, sum, day)
  BY <1>1 DEF RecordCollection
<1>2. CASE \E i \in Invoice, c \in CashAccount : MarkPaid(d, i, c, day)
  BY <1>1, <1>2 DEF MarkPaid
<1>3. CASE \E amount \in Amounts, a \in Account, c \in CashAccount, shares \in Shares(d) :
             RecordCollection(d, a, c, amount, day, shares)
  BY <1>1, <1>3
<1>4. CASE \E amount \in Amounts, a \in Account, c \in CashAccount :
             RecordPaymentOut(d, a, c, amount, day)
  BY <1>4 DEF RecordPaymentOut
<1>5. CASE \E amount \in Amounts, a \in Account, dir \in {-1, 1} :
             RecordManualEntry(d, a, dir, amount, day)
  BY <1>5 DEF RecordManualEntry
<1>6. CASE \E amount \in Amounts, source, target \in Sides :
             RecordTransfer(d, source, target, amount, day)
  BY <1>6 DEF RecordTransfer
<1>7. CASE \E amount \in Amounts, s \in Sides, dir \in {-1, 1} :
             RecordOpening(d, s, dir, amount, day)
  BY <1>7
<1> QED
  BY <1>2, <1>3, <1>4, <1>5, <1>6, <1>7 DEF RecordDocument

(* No action writes a movement but through post and reverse_document. *)
LEMMA NextAddsOpen ==
  ASSUME Clock, Dated, Next
  PROVE  moves' = moves \/ AddsOpenMoves
<1> Days \subseteq Nat
  BY BoundsAssumption DEF Days
<1>1. CASE NextDay \/ \E day \in Days \cup {0} : SetClosedThrough(day)
  BY <1>1 DEF NextDay, SetClosedThrough
<1>2. CASE \E i \in Invoice : CancelInvoice(i)
  BY <1>2, ReversalAddsOpen DEF CancelInvoice
<1>3. CASE \E i \in Invoice, day \in Days : Issue(i, day)
  BY <1>3, PostAddsOpen DEF Issue
<1>4. CASE \E d \in DocIds : Cancel(d)
  BY <1>4, ReversalAddsOpen DEF Cancel
<1>5. CASE \E d \in DocIds : \E shares \in Shares(d) : ApplyCollection(d, shares)
  BY <1>5 DEF ApplyCollection
<1>6. ASSUME NEW d, NEW kind, NEW legs, NEW amount, NEW day \in Days,
             Record(d, kind, legs, amount, day)
      PROVE  AddsOpenMoves
  BY <1>6, PostAddsOpen DEF Record
<1>7. ASSUME NEW d \in Document, NEW day \in Days, RecordDocument(d, day)
      PROVE  AddsOpenMoves
  <2>1. \E kind, legs, amount : Record(d, kind, legs, amount, day)
    BY <1>7, RecordsOne DEF RecordOpening
  <2> QED
    BY <1>6, <2>1
<1> QED
  BY <1>1, <1>2, <1>3, <1>4, <1>5, <1>7 DEF Next

(* Recording a document touches neither clock. *)
LEMMA RecordKeepsClock ==
  ASSUME NEW d, NEW day, RecordDocument(d, day)
  PROVE  UNCHANGED <<today, closedThrough>>
  BY DEF RecordDocument, MarkPaid, RecordCollection, RecordPaymentOut, RecordManualEntry,
     RecordTransfer, RecordOpening

(* The clock and the closed-through date stay days. *)
LEMMA ClockStays == Clock /\ [Next]_vars => Clock'
<1> SUFFICES ASSUME Clock, [Next]_vars PROVE Clock'
  OBVIOUS
<1>1. ASSUME UNCHANGED <<today, closedThrough>> PROVE Clock'
  BY <1>1 DEF Clock
<1>2. CASE UNCHANGED vars
  BY <1>1, <1>2 DEF vars
<1>3. CASE Next
  <2>1. CASE NextDay
    BY <2>1 DEF NextDay, Clock
  <2>2. CASE \E day \in Days \cup {0} : SetClosedThrough(day)
    BY <2>2, BoundsAssumption DEF SetClosedThrough, Clock
  <2>3. CASE \E i \in Invoice : CancelInvoice(i)
    BY <1>1, <2>3 DEF CancelInvoice
  <2>4. CASE \E i \in Invoice, day \in Days : Issue(i, day)
    BY <1>1, <2>4 DEF Issue
  <2>5. CASE \E d \in DocIds : Cancel(d)
    BY <1>1, <2>5 DEF Cancel
  <2>6. CASE \E d \in DocIds : \E shares \in Shares(d) : ApplyCollection(d, shares)
    BY <1>1, <2>6 DEF ApplyCollection
  <2>7. CASE \E d \in Document, day \in Days : RecordDocument(d, day)
    BY <1>1, <2>7, RecordKeepsClock
  <2> QED
    BY <1>3, <2>1, <2>2, <2>3, <2>4, <2>5, <2>6, <2>7 DEF Next
<1> QED
  BY <1>2, <1>3

(* No step leaves a movement without a date.                               *)
LEMMA DatedStays == Clock /\ Dated /\ [Next]_vars => Dated'
<1> SUFFICES ASSUME Clock, Dated, [Next]_vars PROVE Dated'
  OBVIOUS
<1>1. CASE UNCHANGED moves
  BY <1>1 DEF Dated
<1>2. CASE AddsOpenMoves
  BY <1>2 DEF Dated, AddsOpenMoves
<1> QED
  BY <1>1, <1>2, NextAddsOpen DEF vars

(* So the clock and the dates are always there.                            *)
LEMMA ClockAndDates == Spec => [](Clock /\ Dated)
<1>1. Init => Clock /\ Dated
  BY BoundsAssumption DEF Init, Clock, Dated, Days
<1>2. Clock /\ Dated /\ [Next]_vars => (Clock /\ Dated)'
  BY ClockStays, DatedStays
<1> QED
  BY <1>1, <1>2, PTL DEF Spec

(* Movements of open days move no balance of a closed one.                 *)
LEMMA OpenMovesKeepFrozen ==
  ASSUME Clock, Dated, moves' = moves \/ AddsOpenMoves, closedThrough' = closedThrough, NEW s \in Sides
  PROVE  BalanceAsOf(s, closedThrough)' = BalanceAsOf(s, closedThrough)
<1>1. {m \in moves' : m.date <= closedThrough'} = {m \in moves : m.date <= closedThrough}
  BY DEF AddsOpenMoves
<1> QED
  BY <1>1 DEF BalanceAsOf

Frozen ==
  closedThrough' = closedThrough =>
    \A s \in Sides : BalanceAsOf(s, closedThrough)' = BalanceAsOf(s, closedThrough)

(* For any books: while a period stays closed, no operation moves any      *)
(* side's balance as of its last day (check_date in post and in            *)
(* reverse_document, and mirrors dated today).                             *)
THEOREM ClosedPeriodsAreFrozen == Spec => PeriodFrozen
<1>1. Clock /\ Dated /\ [Next]_vars => [Frozen]_vars
  BY NextAddsOpen, OpenMovesKeepFrozen DEF Frozen
<1> QED
  BY <1>1, ClockAndDates, PTL DEF Spec, PeriodFrozen, Frozen

-----------------------------------------------------------------------------
(* An opening comes first                                                  *)

(* No document is dated after today, so a mirror, dated today, is never    *)
(* before an opening.                                                      *)
DocsDated == \A d \in DocIds : docs[d].date \in Nat /\ docs[d].date <= today

Live(m, s) == Touches(m, s) /\ ~Reversed(m) /\ ~IsMirror(m)
OpeningFirst(s) ==
  \A d \in LiveOpenings(s) :
    /\ LiveOpenings(s) = {d}
    /\ \A m \in moves : Live(m, s) => docs[d].date <= m.date

(* A step that makes no opening keeps s's first when what it adds to s is  *)
(* not dated before it: what was reversed or a mirror stays so.            *)
LEMMA OpeningStaysFirst ==
  ASSUME NEW s, OpeningFirst(s),
         LiveOpenings(s)' \subseteq LiveOpenings(s),
         \A d \in LiveOpenings(s)' : docs'[d].date = docs[d].date,
         moves \subseteq moves',
         \A m \in moves' \ moves, d \in LiveOpenings(s) :
           Touches(m, s) => docs[d].date <= m.date
  PROVE  OpeningFirst(s)'
<1>1. ASSUME NEW m \in moves, Live(m, s)' PROVE Live(m, s)
  BY <1>1 DEF Live, Touches, Reversed, IsMirror, MovesOf
<1> SUFFICES ASSUME NEW d \in LiveOpenings(s)'
             PROVE  /\ LiveOpenings(s)' = {d}
                    /\ \A m \in moves' : Live(m, s)' => docs'[d].date <= m.date
  BY DEF OpeningFirst
<1>2. LiveOpenings(s)' = {d}
  BY DEF OpeningFirst
<1>3. ASSUME NEW m \in moves', Live(m, s)' PROVE docs'[d].date <= m.date
  <2>1. CASE m \in moves
    BY <1>1, <1>3, <2>1 DEF OpeningFirst
  <2>2. CASE m \notin moves
    BY <1>3, <2>2 DEF Live, Touches
  <2> QED
    BY <2>1, <2>2
<1> QED
  BY <1>2, <1>3

(* post holds a document that is not an opening to the opening's date.     *)
LEMMA PostAfterOpening ==
  ASSUME NEW s \in Sides, NEW doc, NEW legs, NEW amount, NEW day, NEW source,
         source # "opening", Post(doc, legs, amount, day, source)
  PROVE  /\ moves \subseteq moves'
         /\ \A m \in moves' \ moves, d \in LiveOpenings(s) :
              Touches(m, s) => docs[d].date <= m.date
<1>1. \A k \in DOMAIN legs : AfterOpening(legs[k], day)
  BY DEF Post
<1>2. ASSUME NEW k \in DOMAIN legs, NEW d \in LiveOpenings(s), Touches(legs[k], s)
      PROVE  docs[d].date <= day
  BY <1>1, <1>2, SidesAssumption DEF AfterOpening, Touches
<1>3. ASSUME NEW m \in moves' \ moves, NEW d \in LiveOpenings(s), Touches(m, s)
      PROVE  docs[d].date <= m.date
  <2>1. PICK k \in DOMAIN legs :
          m = Movement(doc, Cardinality(MovesOf(doc)) + k, legs[k], amount, day, source)
    BY <1>3 DEF Post
  <2>2. m.date = day /\ Touches(legs[k], s)
    BY <1>3, <2>1 DEF Movement, Touches
  <2> QED
    BY <1>2, <2>2
<1> QED
  BY <1>3 DEF Post

(* A mirror is dated today, when every opening is already there.           *)
LEMMA ReversalAfterOpening ==
  ASSUME DocsDated, Dated, NEW s, NEW doc, NEW source, ReverseDocument(doc, source)
  PROVE  /\ moves \subseteq moves'
         /\ \A m \in moves' \ moves, d \in LiveOpenings(s) : docs[d].date <= m.date
<1>1. \A m \in moves' \ moves : m.date = today
  BY MirrorDate DEF ReverseDocument, Dated, Unreversed, OriginalsOf, MovesOf
<1>2. \A d \in LiveOpenings(s) : docs[d].date <= today
  BY DEF LiveOpenings, DocsDated
<1> QED
  BY <1>1, <1>2 DEF ReverseDocument

(* The row of a document that is not an opening leaves the openings alone. *)
LEMMA RecordKeepsOpenings ==
  ASSUME NEW s, NEW d, NEW kind, NEW legs, NEW amount, NEW day,
         kind # "opening", Record(d, kind, legs, amount, day)
  PROVE  /\ LiveOpenings(s)' = LiveOpenings(s)
         /\ \A x \in LiveOpenings(s) : docs'[x] = docs[x]
  BY DEF Record, LiveOpenings, DocIds, Touches

(* record_opening: the side has no live opening and nothing live before    *)
(* `day`; the new opening touches no other side.                           *)
LEMMA RecordOpeningFirst ==
  ASSUME NEW s \in Sides, NEW d, NEW dir, NEW amount, NEW day,
         RecordOpening(d, s, dir, amount, day), day \in Nat,
         NEW t \in Sides, OpeningFirst(t)
  PROVE  OpeningFirst(t)'
<1> DEFINE leg == IF s \in Account THEN OnAccount(s, dir) ELSE OnCash(s, dir)
           no == Cardinality(MovesOf(d)) + 1
           new == Movement(d, no, leg, amount, day, "opening")
<1>1. Record(d, "opening", <<leg>>, amount, day)
  BY DEF RecordOpening
<1>2. moves' = moves \cup {new}
  BY <1>1 DEF Record, Post
<1>3. /\ d \notin DocIds
      /\ docs' = [x \in DocIds \cup {d} |->
                    IF x = d THEN [kind |-> "opening", legs |-> <<leg>>, amount |-> amount,
                                   date |-> day, cancelled |-> FALSE]
                    ELSE docs[x]]
  BY <1>1 DEF Record
<1>4. Touches(leg, t) <=> t = s
  BY SidesAssumption DEF Touches, OnAccount, OnCash
<1>5. new.date = day /\ (Touches(new, t) <=> t = s)
  BY <1>4 DEF Movement, Touches
<1>6. CASE t = s
  <2>1. LiveOpenings(s) = {}
    BY DEF RecordOpening
  <2>2. LiveOpenings(s)' = {d}
    <3>1. d \in LiveOpenings(s)'
      <4>1. docs'[d] = [kind |-> "opening", legs |-> <<leg>>, amount |-> amount,
                        date |-> day, cancelled |-> FALSE]
        BY <1>3
      <4>2. 1 \in DOMAIN docs'[d].legs /\ docs'[d].legs[1] = leg
        BY <4>1
      <4>3. d \in DOMAIN docs'
        BY <1>3
      <4> QED
        BY <1>4, <1>6, <4>1, <4>2, <4>3 DEF LiveOpenings, DocIds
    <3>2. ASSUME NEW x \in LiveOpenings(s)', x # d PROVE x \in LiveOpenings(s)
      BY <1>3, <3>2 DEF LiveOpenings, DocIds
    <3> QED
      BY <2>1, <3>1, <3>2
  <2>3. ASSUME NEW m \in moves', Live(m, s)' PROVE day <= m.date
    <3>1. CASE m \in moves
      BY <1>2, <2>3, <3>1 DEF Live, Touches, Reversed, IsMirror, MovesOf, RecordOpening
    <3>2. CASE m = new
      BY <1>5, <3>2
    <3> QED
      BY <1>2, <3>1, <3>2
  <2>4. docs'[d].date = day
    BY <1>3
  <2> QED
    BY <1>6, <2>2, <2>3, <2>4 DEF OpeningFirst
<1>7. CASE t # s
  <2>1. LiveOpenings(t)' = LiveOpenings(t)
    BY <1>3, <1>4, <1>7 DEF LiveOpenings, DocIds
  <2>2. \A x \in LiveOpenings(t) : docs'[x].date = docs[x].date
    BY <1>3 DEF LiveOpenings
  <2>3. \A m \in moves' \ moves : ~Touches(m, t)
    BY <1>2, <1>5, <1>7
  <2> QED
    BY <1>2, <2>1, <2>2, <2>3, OpeningStaysFirst
<1> QED
  BY <1>6, <1>7

(* No step dates a document after today.                                   *)
LEMMA DocsDatedStays == Clock /\ DocsDated /\ [Next]_vars => DocsDated'
<1> SUFFICES ASSUME Clock, DocsDated, [Next]_vars PROVE DocsDated'
  OBVIOUS
<1> Days \subseteq Nat
  BY BoundsAssumption DEF Days
<1>1. ASSUME UNCHANGED <<today, docs>> PROVE DocsDated'
  BY <1>1 DEF DocsDated, DocIds
<1>2. CASE UNCHANGED vars
  BY <1>1, <1>2 DEF vars
<1>3. CASE Next
  <2>1. CASE NextDay
    BY <2>1 DEF NextDay, Clock, DocsDated, DocIds
  <2>2. CASE \E day \in Days \cup {0} : SetClosedThrough(day)
    BY <1>1, <2>2 DEF SetClosedThrough
  <2>3. CASE \E i \in Invoice : CancelInvoice(i)
    BY <1>1, <2>3 DEF CancelInvoice
  <2>4. CASE \E i \in Invoice, day \in Days : Issue(i, day)
    BY <1>1, <2>4 DEF Issue
  <2>5. CASE \E d \in DocIds : Cancel(d)
    BY <2>5 DEF Cancel, DocsDated, DocIds
  <2>6. CASE \E d \in DocIds : \E shares \in Shares(d) : ApplyCollection(d, shares)
    BY <1>1, <2>6 DEF ApplyCollection
  <2>7. ASSUME NEW d \in Document, NEW day \in Days, RecordDocument(d, day)
        PROVE  DocsDated'
    <3>1. PICK kind, legs, amount : Record(d, kind, legs, amount, day)
      BY <2>7, RecordsOne DEF RecordOpening
    <3>2. today' = today
      BY <2>7, RecordKeepsClock
    <3>3. day <= today /\ docs'[d].date = day
      BY <3>1 DEF Record, Post, OpenDate
    <3>4. DocIds' = DocIds \cup {d} /\ \A x \in DocIds : x # d => docs'[x] = docs[x]
      BY <3>1 DEF Record, DocIds
    <3> QED
      BY <3>2, <3>3, <3>4 DEF DocsDated
  <2> QED
    BY <1>3, <2>1, <2>2, <2>3, <2>4, <2>5, <2>6, <2>7 DEF Next
<1> QED
  BY <1>2, <1>3

OpeningInv == Clock /\ Dated /\ DocsDated /\ \A s \in Sides : OpeningFirst(s)

(* No step breaks a side's opening.                                        *)
LEMMA OpeningStep ==
  ASSUME OpeningInv, [Next]_vars, NEW s \in Sides
  PROVE  OpeningFirst(s)'
<1> Days \subseteq Nat
  BY BoundsAssumption DEF Days
<1>1. OpeningFirst(s) /\ Dated /\ DocsDated
  BY DEF OpeningInv
<1>2. ASSUME UNCHANGED <<docs, moves>> PROVE OpeningFirst(s)'
  BY <1>1, <1>2 DEF OpeningFirst, Live, LiveOpenings, DocIds, Reversed, MovesOf
<1>3. ASSUME UNCHANGED docs, moves \subseteq moves',
             \A m \in moves' \ moves, d \in LiveOpenings(s) :
               Touches(m, s) => docs[d].date <= m.date
      PROVE  OpeningFirst(s)'
  <2>1. LiveOpenings(s)' = LiveOpenings(s)
    BY <1>3 DEF LiveOpenings, DocIds
  <2> QED
    BY <1>1, <1>3, <2>1, OpeningStaysFirst
<1>4. CASE UNCHANGED vars
  BY <1>2, <1>4 DEF vars
<1>5. CASE Next
  <2>1. CASE NextDay \/ \E day \in Days \cup {0} : SetClosedThrough(day)
    BY <1>2, <2>1 DEF NextDay, SetClosedThrough
  <2>2. ASSUME NEW i \in Invoice, CancelInvoice(i) PROVE OpeningFirst(s)'
    <3>1. CASE UNCHANGED moves
      BY <1>2, <2>2, <3>1 DEF CancelInvoice
    <3>2. CASE ReverseDocument(i, "invoice_cancel")
      BY <1>1, <1>3, <2>2, <3>2, ReversalAfterOpening DEF CancelInvoice
    <3> QED
      BY <2>2, <3>1, <3>2 DEF CancelInvoice
  <2>3. ASSUME NEW i \in Invoice, NEW day \in Days, Issue(i, day) PROVE OpeningFirst(s)'
    <3>1. CASE UNCHANGED moves
      BY <1>2, <2>3, <3>1 DEF Issue
    <3>2. CASE Post(i, <<OnAccount(AccountOf[i], 1)>>, Total[i], day, "invoice")
      BY <1>3, <2>3, <3>2, PostAfterOpening DEF Issue
    <3> QED
      BY <2>3, <3>1, <3>2 DEF Issue
  <2>4. ASSUME NEW d \in DocIds, Cancel(d) PROVE OpeningFirst(s)'
    <3>1. ReverseDocument(d, "reversal") /\ docs' = [docs EXCEPT ![d].cancelled = TRUE]
      BY <2>4 DEF Cancel
    <3>2. LiveOpenings(s)' \subseteq LiveOpenings(s)
      BY <3>1 DEF LiveOpenings, DocIds
    <3>3. \A x \in LiveOpenings(s) : docs'[x].date = docs[x].date
      BY <3>1 DEF LiveOpenings, DocIds
    <3> QED
      BY <1>1, <3>1, <3>2, <3>3, ReversalAfterOpening, OpeningStaysFirst
  <2>5. CASE \E d \in DocIds : \E shares \in Shares(d) : ApplyCollection(d, shares)
    BY <1>2, <2>5 DEF ApplyCollection
  <2>6. ASSUME NEW d \in Document, NEW day \in Days, RecordDocument(d, day)
        PROVE  OpeningFirst(s)'
    <3>1. CASE \E t \in Sides : \E dir, amount : RecordOpening(d, t, dir, amount, day)
      BY <1>1, <3>1, RecordOpeningFirst
    <3>2. ASSUME NEW kind, NEW legs, NEW amount, kind # "opening",
                 Record(d, kind, legs, amount, day)
          PROVE  OpeningFirst(s)'
      <4>1. /\ LiveOpenings(s)' = LiveOpenings(s)
            /\ \A x \in LiveOpenings(s) : docs'[x] = docs[x]
        BY <3>2, RecordKeepsOpenings
      <4>2. Post(d, legs, amount, day, kind)
        BY <3>2 DEF Record
      <4> QED
        BY <1>1, <3>2, <4>1, <4>2, PostAfterOpening, OpeningStaysFirst
    <3> QED
      BY <2>6, <3>1, <3>2, RecordsOne
  <2> QED
    BY <1>5, <2>1, <2>2, <2>3, <2>4, <2>5, <2>6 DEF Next
<1> QED
  BY <1>4, <1>5

(* For any books: each side has at most one live opening, and nothing live *)
(* is dated before it (record_opening's checks, _check_after_opening and   *)
(* the mirrors' dates).                                                    *)
THEOREM OpeningAlwaysFirst == Spec => []OpeningComesFirst
<1>1. Init => OpeningInv
  BY BoundsAssumption
  DEF Init, OpeningInv, Clock, Dated, DocsDated, DocIds, OpeningFirst, LiveOpenings, Days
<1>2. OpeningInv /\ [Next]_vars => OpeningInv'
  BY ClockStays, DatedStays, DocsDatedStays, OpeningStep DEF OpeningInv
<1>3. OpeningInv => OpeningComesFirst
  BY DEF OpeningInv, OpeningComesFirst, OpeningFirst, Live
<1> QED
  BY <1>1, <1>2, <1>3, PTL DEF Spec

-----------------------------------------------------------------------------
(* Sums                                                                    *)

(* Whatever holds of a finite set as soon as it holds of its parts holds.  *)
LEMMA ByItsParts ==
  ASSUME NEW S, IsFiniteSet(S), NEW C,
         \A U \in SUBSET S : (\A V \in (SUBSET U) \ {U} : V \in C) => U \in C
  PROVE  S \in C
<1> DEFINE F == FiniteSubsetsOf(S)
           R == StrictSubsetOrdering(S)
           T == {U \in F : U \notin C}
<1>1. F = SUBSET S
  BY FS_Subset DEF FiniteSubsetsOf
<1>2. CASE T = {}
  BY <1>1, <1>2
<1>3. CASE T # {}
  <2>1. IsWellFoundedOn(R, F)
    BY FS_StrictSubsetOrderingWellFounded
  <2>2. T \subseteq F
    OBVIOUS
  <2> HIDE DEF T, F, R
  <2>3. PICK U \in T : \A V \in T : <<V, U>> \notin R
    BY <1>3, <2>1, <2>2, WFMin
  <2>4. ASSUME NEW V \in (SUBSET U) \ {U} PROVE V \in C
    <3>1. U \in SUBSET S /\ V \in SUBSET S /\ V \in F
      BY <1>1, <2>2, <2>3
    <3>2. <<V, U>> \in R
      BY <3>1 DEF R, StrictSubsetOrdering
    <3> QED
      BY <2>3, <3>1, <3>2 DEF T
  <2>5. U \in C
    BY <1>1, <2>2, <2>3, <2>4
  <2> QED
    BY <2>3, <2>5 DEF T
<1> QED
  BY <1>2, <1>3

(* The element a sum takes first, and the sum over all subsets of a set.   *)
First(s) == CHOOSE x \in s : TRUE
SumStep(f, sum, s) == IF s = {} THEN 0 ELSE f[First(s)] + sum[s \ {First(s)}]
Sums(f, S, sum) == sum = [s \in SUBSET S |-> SumStep(f, sum, s)]

(* A sum is what some sum over all the subsets says of the whole set.      *)
LEMMA SumUnfolds ==
  ASSUME NEW f, NEW S
  PROVE  SumFunctionOnSet(f, S) = (CHOOSE sum : Sums(f, S, sum))[S]
  BY DEF SumFunctionOnSet, FoldFunctionOnSet, MapThenFoldSet, Sums, SumStep, First

(* Two such sums agree where their terms do.                               *)
LEMMA SumsAgree ==
  ASSUME NEW f, NEW g, NEW S, NEW T, NEW sum, NEW tum, Sums(f, S, sum), Sums(g, T, tum),
         NEW U, IsFiniteSet(U), U \subseteq S, U \subseteq T, \A x \in U : f[x] = g[x]
  PROVE  sum[U] = tum[U]
<1> DEFINE C == {V \in SUBSET U : sum[V] = tum[V]}
<1>1. ASSUME NEW V \in SUBSET U, \A W \in (SUBSET V) \ {V} : W \in C
      PROVE  V \in C
  <2>1. sum[V] = SumStep(f, sum, V) /\ tum[V] = SumStep(g, tum, V)
    BY <1>1 DEF Sums
  <2>2. CASE V = {}
    BY <2>1, <2>2 DEF SumStep
  <2>3. CASE V # {}
    <3>1. First(V) \in V
      BY <2>3 DEF First
    <3>2. sum[V \ {First(V)}] = tum[V \ {First(V)}]
      BY <1>1, <3>1
    <3> QED
      BY <1>1, <2>1, <2>3, <3>1, <3>2 DEF SumStep
  <2> QED
    BY <2>2, <2>3
<1> HIDE DEF C
<1>2. U \in C
  BY <1>1, ByItsParts
<1> QED
  BY <1>2 DEF C

(* There is such a sum.                                                    *)
LEMMA SumsExist ==
  ASSUME NEW f, NEW S, IsFiniteSet(S)
  PROVE  \E sum : Sums(f, S, sum)
<1> DEFINE C == {T \in SUBSET S : \E sum : Sums(f, T, sum)}
<1>1. ASSUME NEW T \in SUBSET S, \A V \in (SUBSET T) \ {T} : V \in C
      PROVE  T \in C
  <2> DEFINE part(V) == CHOOSE sum : Sums(f, V, sum)
             sum == [s \in SUBSET T |->
                       IF s = {} THEN 0
                       ELSE f[First(s)] + part(s \ {First(s)})[s \ {First(s)}]]
  <2>1. ASSUME NEW V \in (SUBSET T) \ {T} PROVE Sums(f, V, part(V))
    BY <1>1, <2>1
  <2>2. ASSUME NEW s \in SUBSET T PROVE sum[s] = SumStep(f, sum, s)
    <3>1. CASE s = {}
      BY <3>1 DEF SumStep
    <3>2. CASE s # {}
      <4> DEFINE V == s \ {First(s)}
      <4>1. First(s) \in s
        BY <3>2 DEF First
      <4>2. V \in (SUBSET T) \ {T}
        BY <2>2, <4>1
      <4>3. sum[V] = part(V)[V]
        <5>1. part(V)[V] = SumStep(f, part(V), V)
          <6>1. Sums(f, V, part(V))
            BY <2>1, <4>2
          <6> QED
            BY <6>1 DEF Sums
        <5>2. CASE V = {}
          BY <4>2, <5>1, <5>2 DEF SumStep
        <5>3. CASE V # {}
          <6> DEFINE W == V \ {First(V)}
          <6>1. First(V) \in V
            BY <5>3 DEF First
          <6>2. W \in (SUBSET T) \ {T}
            BY <4>2, <6>1
          <6>3. IsFiniteSet(W)
            BY <6>2, FS_Subset
          <6>4. part(V)[W] = part(W)[W]
            <7>1. Sums(f, V, part(V)) /\ Sums(f, W, part(W))
              BY <2>1, <4>2, <6>2
            <7> HIDE DEF part
            <7> QED
              BY <7>1, <6>3, SumsAgree
          <6> QED
            BY <4>2, <5>1, <5>3, <6>4 DEF SumStep
        <5> QED
          BY <5>2, <5>3
      <4> QED
        BY <2>2, <3>2, <4>3 DEF SumStep
    <3> QED
      BY <3>1, <3>2
  <2>3. Sums(f, T, sum)
    BY <2>2 DEF Sums
  <2> QED
    BY <2>3
<1> HIDE DEF C
<1>2. S \in C
  BY <1>1, ByItsParts
<1> QED
  BY <1>2 DEF C

(* And what every such sum says: there is one, and only one.               *)
LEMMA SumIs ==
  ASSUME NEW f, NEW S, IsFiniteSet(S), NEW sum, Sums(f, S, sum)
  PROVE  SumFunctionOnSet(f, S) = sum[S]
<1> DEFINE chosen == CHOOSE any : Sums(f, S, any)
<1>1. Sums(f, S, chosen)
  OBVIOUS
<1>2. SumFunctionOnSet(f, S) = chosen[S]
  BY SumUnfolds
<1> HIDE DEF chosen
<1> QED
  BY <1>1, <1>2, SumsAgree

(* A sum depends on its terms only.                                        *)
LEMMA SumSame ==
  ASSUME NEW f, NEW g, NEW S, IsFiniteSet(S), \A x \in S : f[x] = g[x]
  PROVE  SumFunctionOnSet(f, S) = SumFunctionOnSet(g, S)
<1>1. PICK sum : Sums(f, S, sum)
  BY SumsExist
<1>2. PICK tum : Sums(g, S, tum)
  BY SumsExist
<1>3. sum[S] = tum[S]
  BY <1>1, <1>2, SumsAgree
<1> QED
  BY <1>1, <1>2, <1>3, SumIs

(* Nothing adds up to zero.                                                *)
LEMMA SumOfNone == \A f : SumFunctionOnSet(f, {}) = 0
<1> TAKE f
<1>1. PICK sum : Sums(f, {}, sum)
  BY SumsExist, FS_EmptySet
<1>2. sum[{}] = 0
  BY <1>1 DEF Sums, SumStep
<1> QED
  BY <1>1, <1>2, SumIs, FS_EmptySet

(* A sum is its first term and the sum of the others.                      *)
LEMMA SumTakesFirst ==
  ASSUME NEW f, NEW S, IsFiniteSet(S), S # {}
  PROVE  /\ First(S) \in S
         /\ SumFunctionOnSet(f, S) = f[First(S)] + SumFunctionOnSet(f, S \ {First(S)})
<1> DEFINE T == S \ {First(S)}
<1>1. First(S) \in S
  BY DEF First
<1>2. PICK sum : Sums(f, S, sum)
  BY SumsExist
<1>3. PICK tum : Sums(f, T, tum)
  BY SumsExist, FS_RemoveElement
<1>4. IsFiniteSet(T)
  BY FS_RemoveElement
<1>5. sum[T] = tum[T]
  BY <1>2, <1>3, <1>4, SumsAgree
<1>6. sum[S] = f[First(S)] + sum[T]
  BY <1>2 DEF Sums, SumStep
<1>7. SumFunctionOnSet(f, S) = sum[S] /\ SumFunctionOnSet(f, T) = tum[T]
  BY <1>2, <1>3, <1>4, SumIs
<1> QED
  BY <1>1, <1>5, <1>6, <1>7

(* Integers add up to an integer.                                          *)
LEMMA SumIsInt ==
  ASSUME NEW f, NEW S, IsFiniteSet(S), \A x \in S : f[x] \in Int
  PROVE  SumFunctionOnSet(f, S) \in Int
<1> DEFINE C == {T \in SUBSET S : SumFunctionOnSet(f, T) \in Int}
<1>1. ASSUME NEW T \in SUBSET S, \A V \in (SUBSET T) \ {T} : V \in C
      PROVE  T \in C
  <2>1. CASE T = {}
    BY <2>1, SumOfNone
  <2>2. CASE T # {}
    <3> DEFINE V == T \ {First(T)}
    <3>1. IsFiniteSet(T)
      BY FS_Subset
    <3>2. First(T) \in T /\ SumFunctionOnSet(f, T) = f[First(T)] + SumFunctionOnSet(f, V)
      BY <2>2, <3>1, SumTakesFirst
    <3>3. SumFunctionOnSet(f, V) \in Int
      BY <1>1, <3>2
    <3>4. f[First(T)] \in Int
      BY <3>2
    <3> QED
      BY <3>2, <3>3, <3>4
  <2> QED
    BY <2>1, <2>2
<1> HIDE DEF C
<1>2. S \in C
  BY <1>1, ByItsParts
<1> QED
  BY <1>2 DEF C

(* Any term may be taken first.                                            *)
LEMMA SumTakes ==
  ASSUME NEW f, NEW S, IsFiniteSet(S), \A x \in S : f[x] \in Int, NEW a \in S
  PROVE  SumFunctionOnSet(f, S) = f[a] + SumFunctionOnSet(f, S \ {a})
<1> DEFINE C == {T \in SUBSET S :
                   \A x \in T : SumFunctionOnSet(f, T) = f[x] + SumFunctionOnSet(f, T \ {x})}
<1>1. ASSUME NEW T \in SUBSET S, \A V \in (SUBSET T) \ {T} : V \in C
      PROVE  T \in C
  <2> SUFFICES ASSUME NEW x \in T
               PROVE  SumFunctionOnSet(f, T) = f[x] + SumFunctionOnSet(f, T \ {x})
    OBVIOUS
  <2> DEFINE y == First(T)
  <2>1. IsFiniteSet(T)
    BY FS_Subset
  <2>2. y \in T /\ SumFunctionOnSet(f, T) = f[y] + SumFunctionOnSet(f, T \ {y})
    BY <2>1, SumTakesFirst
  <2> HIDE DEF y
  <2>3. CASE x = y
    BY <2>2, <2>3
  <2>4. CASE x # y
    <3>1. T \ {y} \in C /\ x \in T \ {y}
      BY <1>1, <2>2, <2>4
    <3>2. T \ {x} \in C /\ y \in T \ {x}
      BY <1>1, <2>2, <2>4
    <3>3. SumFunctionOnSet(f, T \ {y}) = f[x] + SumFunctionOnSet(f, (T \ {y}) \ {x})
      BY <3>1
    <3>4. SumFunctionOnSet(f, T \ {x}) = f[y] + SumFunctionOnSet(f, (T \ {x}) \ {y})
      BY <3>2
    <3>5. SumFunctionOnSet(f, (T \ {y}) \ {x}) = SumFunctionOnSet(f, (T \ {x}) \ {y})
      <4>1. (T \ {y}) \ {x} = (T \ {x}) \ {y}
        OBVIOUS
      <4> QED
        BY <4>1, Zenon
    <3>6. SumFunctionOnSet(f, (T \ {x}) \ {y}) \in Int
      <4>1. IsFiniteSet((T \ {x}) \ {y})
        BY <2>1, FS_RemoveElement
      <4> QED
        BY <4>1, SumIsInt
    <3>7. f[x] \in Int /\ f[y] \in Int
      BY <2>2
    <3> HIDE DEF C
    <3> QED
      BY <2>2, <3>3, <3>4, <3>5, <3>6, <3>7
  <2> QED
    BY <2>3, <2>4
<1> HIDE DEF C
<1>2. S \in C
  BY <1>1, ByItsParts
<1> QED
  BY <1>2 DEF C

(* One more term adds to the sum.                                          *)
LEMMA SumAdds ==
  ASSUME NEW f, NEW S, IsFiniteSet(S), \A x \in S : f[x] \in Int, NEW a, a \notin S, f[a] \in Int
  PROVE  SumFunctionOnSet(f, S \cup {a}) = SumFunctionOnSet(f, S) + f[a]
<1>1. IsFiniteSet(S \cup {a}) /\ (S \cup {a}) \ {a} = S
  BY FS_AddElement
<1>2. SumFunctionOnSet(f, S) \in Int
  BY SumIsInt
<1>3. SumFunctionOnSet(f, S \cup {a}) = f[a] + SumFunctionOnSet(f, (S \cup {a}) \ {a})
  BY <1>1, SumTakes
<1>4. SumFunctionOnSet(f, (S \cup {a}) \ {a}) = SumFunctionOnSet(f, S)
  BY <1>1, Zenon
<1> QED
  BY <1>2, <1>3, <1>4

(* What holds of no element, and of a set with one more whenever of the    *)
(* set, holds of every finite set.                                         *)
LEMMA OneByOne ==
  ASSUME NEW S, IsFiniteSet(S), NEW C, {} \in C,
         \A T \in SUBSET S : \A a \in S \ T : T \in C => T \cup {a} \in C
  PROVE  S \in C
<1>1. ASSUME NEW U \in SUBSET S, \A V \in (SUBSET U) \ {U} : V \in C
      PROVE  U \in C
  <2>1. CASE U = {}
    BY <2>1
  <2>2. CASE U # {}
    <3>1. PICK a \in U : TRUE
      BY <2>2
    <3>2. U \ {a} \in C /\ U = (U \ {a}) \cup {a} /\ a \in S \ (U \ {a}) /\ U \ {a} \in SUBSET S
      BY <1>1, <3>1
    <3> QED
      BY <3>2
  <2> QED
    BY <2>1, <2>2
<1> QED
  BY <1>1, ByItsParts

(* Zeros add up to zero.                                                   *)
LEMMA SumOfZeros ==
  ASSUME NEW f, NEW S, IsFiniteSet(S), \A x \in S : f[x] = 0
  PROVE  SumFunctionOnSet(f, S) = 0
<1> DEFINE C == {T \in SUBSET S : SumFunctionOnSet(f, T) = 0}
<1>1. {} \in C
  BY SumOfNone
<1>2. ASSUME NEW T \in SUBSET S, NEW a \in S \ T, T \in C
      PROVE  T \cup {a} \in C
  <2>1. IsFiniteSet(T)
    BY FS_Subset
  <2>2. \A x \in T : f[x] \in Int
    OBVIOUS
  <2>3. SumFunctionOnSet(f, T \cup {a}) = SumFunctionOnSet(f, T) + f[a]
    BY <2>1, <2>2, SumAdds
  <2> QED
    BY <1>2, <2>3
<1> HIDE DEF C
<1>3. S \in C
  BY <1>1, <1>2, OneByOne
<1> QED
  BY <1>3 DEF C

(* Two sets that share nothing add up apart.                               *)
LEMMA SumJoins ==
  ASSUME NEW f, NEW S, NEW T, IsFiniteSet(S), IsFiniteSet(T), S \cap T = {},
         \A x \in S \cup T : f[x] \in Int
  PROVE  SumFunctionOnSet(f, S \cup T) = SumFunctionOnSet(f, S) + SumFunctionOnSet(f, T)
<1> DEFINE C == {U \in SUBSET T : SumFunctionOnSet(f, S \cup U)
                                    = SumFunctionOnSet(f, S) + SumFunctionOnSet(f, U)}
<1>1. {} \in C
  <2>1. SumFunctionOnSet(f, S) \in Int /\ S \cup {} = S
    BY SumIsInt
  <2> QED
    BY <2>1, SumOfNone
<1>2. ASSUME NEW U \in SUBSET T, NEW a \in T \ U, U \in C
      PROVE  U \cup {a} \in C
  <2>1. IsFiniteSet(U) /\ IsFiniteSet(S \cup U)
    BY FS_Subset, FS_Union
  <2>2. a \notin S \cup U /\ f[a] \in Int
    OBVIOUS
  <2>3. SumFunctionOnSet(f, (S \cup U) \cup {a}) = SumFunctionOnSet(f, S \cup U) + f[a]
    BY <2>1, <2>2, SumAdds
  <2>4. SumFunctionOnSet(f, U \cup {a}) = SumFunctionOnSet(f, U) + f[a]
    BY <2>1, <2>2, SumAdds
  <2>5. SumFunctionOnSet(f, S) \in Int /\ SumFunctionOnSet(f, U) \in Int
    BY <2>1, SumIsInt
  <2>6. /\ SumFunctionOnSet(f, S \cup (U \cup {a})) = SumFunctionOnSet(f, (S \cup U) \cup {a})
        /\ U \cup {a} \in SUBSET T
    <3>1. S \cup (U \cup {a}) = (S \cup U) \cup {a} /\ U \cup {a} \in SUBSET T
      OBVIOUS
    <3> QED
      BY <3>1, Zenon
  <2>7. SumFunctionOnSet(f, S \cup U) = SumFunctionOnSet(f, S) + SumFunctionOnSet(f, U)
    BY <1>2
  <2> HIDE DEF C
  <2>8. SumFunctionOnSet(f, S \cup (U \cup {a}))
          = SumFunctionOnSet(f, S) + SumFunctionOnSet(f, U \cup {a})
    BY <2>2, <2>3, <2>4, <2>5, <2>6, <2>7
  <2> QED
    BY <2>6, <2>8 DEF C
<1> HIDE DEF C
<1>3. T \in C
  BY <1>1, <1>2, OneByOne
<1> QED
  BY <1>3 DEF C

(* Adding term by term adds the sums.                                      *)
LEMMA SumAddsTerms ==
  ASSUME NEW f, NEW g, NEW h, NEW S, IsFiniteSet(S),
         \A x \in S : f[x] \in Int /\ g[x] \in Int /\ h[x] = f[x] + g[x]
  PROVE  SumFunctionOnSet(h, S) = SumFunctionOnSet(f, S) + SumFunctionOnSet(g, S)
<1> DEFINE C == {T \in SUBSET S : SumFunctionOnSet(h, T)
                                    = SumFunctionOnSet(f, T) + SumFunctionOnSet(g, T)}
<1>1. {} \in C
  BY SumOfNone
<1>2. ASSUME NEW T \in SUBSET S, NEW a \in S \ T, T \in C
      PROVE  T \cup {a} \in C
  <2>1. IsFiniteSet(T)
    BY FS_Subset
  <2>2. \A x \in T \cup {a} : f[x] \in Int /\ g[x] \in Int /\ h[x] \in Int /\ h[x] = f[x] + g[x]
    OBVIOUS
  <2>3. SumFunctionOnSet(h, T) = SumFunctionOnSet(f, T) + SumFunctionOnSet(g, T)
    BY <1>2
  <2>4. T \cup {a} \in SUBSET S
    OBVIOUS
  <2> HIDE DEF C
  <2>5. SumFunctionOnSet(f, T \cup {a}) = SumFunctionOnSet(f, T) + f[a]
    BY <2>1, <2>2, SumAdds
  <2>6. SumFunctionOnSet(g, T \cup {a}) = SumFunctionOnSet(g, T) + g[a]
    BY <2>1, <2>2, SumAdds
  <2>7. SumFunctionOnSet(h, T \cup {a}) = SumFunctionOnSet(h, T) + h[a]
    BY <2>1, <2>2, SumAdds
  <2>8. SumFunctionOnSet(f, T) \in Int /\ SumFunctionOnSet(g, T) \in Int
    BY <2>1, <2>2, SumIsInt
  <2>9. SumFunctionOnSet(h, T \cup {a})
          = SumFunctionOnSet(f, T \cup {a}) + SumFunctionOnSet(g, T \cup {a})
    BY <2>2, <2>3, <2>5, <2>6, <2>7, <2>8
  <2> QED
    BY <2>4, <2>9 DEF C
<1> HIDE DEF C
<1>3. S \in C
  BY <1>1, <1>2, OneByOne
<1> QED
  BY <1>3 DEF C

(* A sum over what a one-to-one h gives is a sum over what it is given.    *)
LEMMA SumMaps ==
  ASSUME NEW S, IsFiniteSet(S), NEW h, \A x, y \in S : h[x] = h[y] => x = y,
         NEW f, NEW g, \A x \in S : f[h[x]] \in Int /\ g[x] = f[h[x]]
  PROVE  /\ IsFiniteSet({h[x] : x \in S})
         /\ SumFunctionOnSet(f, {h[x] : x \in S}) = SumFunctionOnSet(g, S)
<1> DEFINE Image(T) == {h[x] : x \in T}
           C == {T \in SUBSET S : /\ IsFiniteSet(Image(T))
                                  /\ SumFunctionOnSet(f, Image(T)) = SumFunctionOnSet(g, T)}
<1>1. {} \in C
  <2>1. Image({}) = {}
    OBVIOUS
  <2> QED
    BY <2>1, SumOfNone, FS_EmptySet
<1>2. ASSUME NEW T \in SUBSET S, NEW a \in S \ T, T \in C
      PROVE  T \cup {a} \in C
  <2>1. IsFiniteSet(T)
    BY FS_Subset
  <2>2. Image(T \cup {a}) = Image(T) \cup {h[a]} /\ h[a] \notin Image(T)
    OBVIOUS
  <2>3. \A y \in Image(T) : f[y] \in Int
    OBVIOUS
  <2>4. \A x \in T \cup {a} : g[x] \in Int
    OBVIOUS
  <2>5. IsFiniteSet(Image(T)) /\ SumFunctionOnSet(f, Image(T)) = SumFunctionOnSet(g, T)
    BY <1>2
  <2>6. T \cup {a} \in SUBSET S /\ f[h[a]] \in Int /\ g[a] = f[h[a]]
    OBVIOUS
  <2> HIDE DEF C, Image
  <2>7. SumFunctionOnSet(f, Image(T) \cup {h[a]}) = SumFunctionOnSet(f, Image(T)) + f[h[a]]
    BY <2>2, <2>3, <2>5, <2>6, SumAdds
  <2>8. SumFunctionOnSet(g, T \cup {a}) = SumFunctionOnSet(g, T) + g[a]
    BY <2>1, <2>4, SumAdds
  <2>9. IsFiniteSet(Image(T \cup {a}))
    <3>1. IsFiniteSet(Image(T) \cup {h[a]})
      BY <2>5, FS_AddElement
    <3> QED
      BY <2>2, <3>1, Zenon
  <2>10. SumFunctionOnSet(f, Image(T \cup {a})) = SumFunctionOnSet(g, T \cup {a})
    BY <2>2, <2>5, <2>6, <2>7, <2>8
  <2> QED
    BY <2>6, <2>9, <2>10 DEF C
<1> HIDE DEF C
<1>3. S \in C
  BY <1>1, <1>2, OneByOne
<1> QED
  BY <1>3 DEF C

(* Terms that are zero may be left out.                                    *)
LEMMA SumPart ==
  ASSUME NEW f, NEW S, IsFiniteSet(S), \A x \in S : f[x] \in Int,
         NEW T \in SUBSET S, \A x \in S \ T : f[x] = 0
  PROVE  SumFunctionOnSet(f, S) = SumFunctionOnSet(f, T)
<1> DEFINE R == S \ T
<1>1. IsFiniteSet(T) /\ IsFiniteSet(R)
  BY FS_Subset
<1>2. T \cup R = S /\ T \cap R = {} /\ \A x \in T \cup R : f[x] \in Int
  OBVIOUS
<1>3. SumFunctionOnSet(f, R) = 0
  BY <1>1, SumOfZeros
<1>4. SumFunctionOnSet(f, T) \in Int
  BY <1>1, SumIsInt
<1> HIDE DEF R
<1>5. SumFunctionOnSet(f, T \cup R) = SumFunctionOnSet(f, T) + SumFunctionOnSet(f, R)
  BY <1>1, <1>2, SumJoins
<1>6. SumFunctionOnSet(f, T \cup R) = SumFunctionOnSet(f, S)
  BY <1>2, Zenon
<1> QED
  BY <1>3, <1>4, <1>5, <1>6

(* One term is its own sum.                                                *)
LEMMA SumOfOne ==
  ASSUME NEW f, NEW a, f[a] \in Int
  PROVE  SumFunctionOnSet(f, {a}) = f[a]
<1>1. SumFunctionOnSet(f, {} \cup {a}) = SumFunctionOnSet(f, {}) + f[a]
  BY SumAdds, FS_EmptySet
<1>2. SumFunctionOnSet(f, {} \cup {a}) = SumFunctionOnSet(f, {a})
  <2>1. {} \cup {a} = {a}
    OBVIOUS
  <2> QED
    BY <2>1, Zenon
<1> QED
  BY <1>1, <1>2, SumOfNone

(* Negating each term negates the sum.                                     *)
LEMMA SumNegates ==
  ASSUME NEW f, NEW g, NEW S, IsFiniteSet(S), \A x \in S : f[x] \in Int /\ g[x] = -f[x]
  PROVE  SumFunctionOnSet(g, S) = -SumFunctionOnSet(f, S)
<1> DEFINE h == [x \in S |-> 0]
<1>1. \A x \in S : f[x] \in Int /\ g[x] \in Int /\ h[x] = f[x] + g[x]
  OBVIOUS
<1>2. SumFunctionOnSet(h, S) = 0
  BY SumOfZeros
<1> HIDE DEF h
<1>3. SumFunctionOnSet(h, S) = SumFunctionOnSet(f, S) + SumFunctionOnSet(g, S)
  BY <1>1, SumAddsTerms
<1>4. SumFunctionOnSet(f, S) \in Int /\ SumFunctionOnSet(g, S) \in Int
  BY <1>1, SumIsInt
<1> QED
  BY <1>2, <1>3, <1>4

(* Naturals add up to a natural.                                           *)
LEMMA SumNotNegative ==
  ASSUME NEW f, NEW S, IsFiniteSet(S), \A x \in S : f[x] \in Nat
  PROVE  SumFunctionOnSet(f, S) \in Nat
<1> DEFINE C == {T \in SUBSET S : SumFunctionOnSet(f, T) \in Nat}
<1>1. {} \in C
  BY SumOfNone
<1>2. ASSUME NEW T \in SUBSET S, NEW a \in S \ T, T \in C
      PROVE  T \cup {a} \in C
  <2>1. IsFiniteSet(T) /\ \A x \in T : f[x] \in Int
    BY FS_Subset
  <2>2. SumFunctionOnSet(f, T \cup {a}) = SumFunctionOnSet(f, T) + f[a]
    BY <2>1, SumAdds
  <2> QED
    BY <1>2, <2>2
<1> HIDE DEF C
<1>3. S \in C
  BY <1>1, <1>2, OneByOne
<1> QED
  BY <1>3 DEF C

(* A sum of positive terms is zero only if it has none.                    *)
LEMMA SumOfPositives ==
  ASSUME NEW f, NEW S, IsFiniteSet(S), \A x \in S : f[x] \in Nat \ {0},
         SumFunctionOnSet(f, S) = 0
  PROVE  S = {}
<1> SUFFICES ASSUME NEW a \in S PROVE FALSE
  OBVIOUS
<1>1. IsFiniteSet(S \ {a})
  BY FS_RemoveElement
<1>2. SumFunctionOnSet(f, S) = f[a] + SumFunctionOnSet(f, S \ {a})
  BY SumTakes
<1>3. SumFunctionOnSet(f, S \ {a}) \in Nat
  BY <1>1, SumNotNegative
<1> QED
  BY <1>2, <1>3

(* A sum may be taken group by group, g giving the sum of each group.      *)
LEMMA SumGroups ==
  ASSUME NEW f, NEW S, IsFiniteSet(S), \A x \in S : f[x] \in Int,
         NEW K, IsFiniteSet(K), NEW key, \A x \in S : key[x] \in K,
         NEW group, \A k \in K : group[k] = {x \in S : key[x] = k},
         NEW g, \A k \in K : g[k] = SumFunctionOnSet(f, group[k])
  PROVE  SumFunctionOnSet(f, S) = SumFunctionOnSet(g, K)
<1> DEFINE Of(L) == {x \in S : key[x] \in L}
           C == {L \in SUBSET K : SumFunctionOnSet(f, Of(L)) = SumFunctionOnSet(g, L)}
<1>1. {} \in C
  <2>1. Of({}) = {}
    OBVIOUS
  <2> QED
    BY <2>1, SumOfNone
<1>2. ASSUME NEW L \in SUBSET K, NEW a \in K \ L, L \in C
      PROVE  L \cup {a} \in C
  <2>1. IsFiniteSet(L) /\ IsFiniteSet(Of(L)) /\ \A k \in K : IsFiniteSet(group[k])
    <3>1. \A T \in SUBSET S : IsFiniteSet(T)
      BY FS_Subset
    <3> QED
      BY <3>1, FS_Subset
  <2>2. /\ Of(L) \cap group[a] = {}
        /\ Of(L \cup {a}) = Of(L) \cup group[a]
        /\ \A x \in Of(L) \cup group[a] : f[x] \in Int
    OBVIOUS
  <2>3. \A k \in K : g[k] \in Int
    <3> SUFFICES ASSUME NEW k \in K PROVE SumFunctionOnSet(f, group[k]) \in Int
      OBVIOUS
    <3> QED
      BY <2>1, SumIsInt
  <2>4. SumFunctionOnSet(f, Of(L)) = SumFunctionOnSet(g, L) /\ g[a] = SumFunctionOnSet(f, group[a])
    BY <1>2
  <2>5. L \cup {a} \in SUBSET K
    OBVIOUS
  <2> HIDE DEF C, Of
  <2>6. SumFunctionOnSet(f, Of(L) \cup group[a])
          = SumFunctionOnSet(f, Of(L)) + SumFunctionOnSet(f, group[a])
    BY <2>1, <2>2, SumJoins
  <2>7. SumFunctionOnSet(f, Of(L \cup {a})) = SumFunctionOnSet(f, Of(L) \cup group[a])
    BY <2>2, Zenon
  <2>8. SumFunctionOnSet(g, L \cup {a}) = SumFunctionOnSet(g, L) + g[a]
    BY <2>1, <2>3, SumAdds
  <2>9. SumFunctionOnSet(f, Of(L \cup {a})) = SumFunctionOnSet(g, L \cup {a})
    BY <2>4, <2>6, <2>7, <2>8
  <2> QED
    BY <2>5, <2>9 DEF C
<1>3. K \in C
  <2> HIDE DEF C
  <2> QED
    BY <1>1, <1>2, OneByOne
<1>4. SumFunctionOnSet(f, Of(K)) = SumFunctionOnSet(g, K)
  BY <1>3
<1>5. Of(K) = S
  OBVIOUS
<1> HIDE DEF Of
<1>6. SumFunctionOnSet(f, Of(K)) = SumFunctionOnSet(f, S)
  BY <1>5, Zenon
<1> QED
  BY <1>4, <1>6

-----------------------------------------------------------------------------
(* The books: what the ledger keeps                                        *)

DocRow == [kind : DocKinds, legs : Seq(Leg), amount : Nat \ {0}, date : Days, cancelled : BOOLEAN]
InvoiceRow ==
  [status : {"draft", "cancelled"} \cup Payable, date : Days \cup {0}, paidOn : Days \cup {0}]
Application == [doc : DocIds, invoice : Invoice, amount : Nat \ {0}]

(* The legs a document of each kind has.                                   *)
Formed(kind, legs) ==
  \/ kind = "collection" /\ \E a \in Account, c \in CashAccount : legs = <<OnBoth(a, -1, c, 1)>>
  \/ kind = "payment_out" /\ \E a \in Account, c \in CashAccount : legs = <<OnBoth(a, 1, c, -1)>>
  \/ kind = "manual" /\ \E a \in Account, dir \in {-1, 1} : legs = <<OnAccount(a, dir)>>
  \/ kind = "transfer" /\ \E s, t \in Account : legs = <<OnAccount(s, -1), OnAccount(t, 1)>>
  \/ kind = "transfer" /\ \E s, t \in CashAccount : legs = <<OnCash(s, -1), OnCash(t, 1)>>
  \/ kind = "opening" /\ \E a \in Account, dir \in {-1, 1} : legs = <<OnAccount(a, dir)>>
  \/ kind = "opening" /\ \E c \in CashAccount, dir \in {-1, 1} : legs = <<OnCash(c, dir)>>

ClockTypes == today \in Days /\ closedThrough \in Nat
DocTypes ==
  /\ IsFiniteSet(DocIds) /\ DocIds \subseteq Document
  /\ docs \in [DocIds -> DocRow]
  /\ \A d \in DocIds : Formed(docs[d].kind, docs[d].legs)
MoveTypes ==
  /\ IsFiniteSet(moves) /\ moves \subseteq MovementType
  /\ \A m \in moves : m.doc \in DocIds \cup Invoice
AppliedTypes == IsFiniteSet(applied) /\ applied \subseteq Application
InvoiceTypes ==
  /\ invoice \in [Invoice -> InvoiceRow]
  /\ \A i \in Invoice : invoice[i].status \in Payable => invoice[i].date \in Days
Types == ClockTypes /\ DocTypes /\ MoveTypes /\ AppliedTypes /\ InvoiceTypes

(* What post writes for a document, and for an invoice.                    *)
Entries(doc, legs, amount, day, source) ==
  {Movement(doc, k, legs[k], amount, day, source) : k \in DOMAIN legs}
DebitOf(i, day) == Movement(i, 1, OnAccount(AccountOf[i], 1), Total[i], day, "invoice")

(* What a movement or a leg brings to the sides in P, and what a set of    *)
(* movements does.                                                         *)
On(x, P) == (IF x.account \in P THEN x.dir ELSE 0) + (IF x.cash \in P THEN x.cashDir ELSE 0)
Weight(m, P) == On(m, P) * m.amount
Weights(P) == [m \in MovementType |-> Weight(m, P)]
Held(ms, P) == SumFunctionOnSet(Weights(P), ms)

(* The movements of a cancelled document: what it posted, of its kind and  *)
(* all on one day, and the mirror of each, all on another; no mirror is    *)
(* reversed.                                                               *)
Undone(d) ==
  /\ \A m, n \in MovesOf(d) : n.reverses = m.no => ~IsMirror(m)
  /\ \A m \in MovesOf(d) :
       IF IsMirror(m)
       THEN m.source = "reversal" /\ \E n \in MovesOf(d) : n.no = m.reverses
       ELSE m.source = docs[d].kind /\ Reversed(m)
  /\ \E made, undone \in Days :
       \A m \in MovesOf(d) : m.date = IF IsMirror(m) THEN undone ELSE made

(* A document that stands has the movements its legs gave it and no other; *)
(* those of a cancelled one bring nothing to any side.                     *)
DocPosted(d) ==
  IF docs[d].cancelled
  THEN Undone(d) /\ \A P \in SUBSET Sides : Held(MovesOf(d), P) = 0
  ELSE MovesOf(d) = Entries(d, docs[d].legs, docs[d].amount, docs[d].date, docs[d].kind)

(* A draft has no movement, an invoice one debit or, for nothing or not    *)
(* carried over yet, none; those of a cancelled one bring nothing.  None   *)
(* is of a till.                                                           *)
InvoicePosted(i) ==
  /\ \A m \in MovesOf(i) : m.cash = NoSide
  /\ invoice[i].status = "draft" => MovesOf(i) = {}
  /\ invoice[i].status \in Payable =>
       \/ MovesOf(i) = {} /\ (Total[i] = 0 \/ i \in uncarried)
       \/ Total[i] > 0 /\ \E day \in Days : MovesOf(i) = {DebitOf(i, day)}
  /\ invoice[i].status = "cancelled" => \A P \in SUBSET Sides : Held(MovesOf(i), P) = 0

Posted ==
  /\ \A d \in DocIds : DocPosted(d)
  /\ \A i \in Invoice : InvoicePosted(i)

(* What is applied is applied from a collection to invoices of its         *)
(* account, issued ones as long as the collection stands.                  *)
WellApplied ==
  \A x \in applied :
    /\ docs[x.doc].kind = "collection"
    /\ docs[x.doc].legs[1].account = AccountOf[x.invoice]
    /\ ~docs[x.doc].cancelled => invoice[x.invoice].status \in Payable

(* No one has touched invoice i since before the ledger.                   *)
Untouched(i) ==
  i \in uncarried /\ MovesOf(i) = {} /\ \A x \in applied : x.invoice # i

Settled == \A i \in Invoice : PaidMeansCovered(i) \/ Untouched(i)

Books == Types /\ Posted /\ WellApplied /\ NeverOverApplied /\ Settled

-----------------------------------------------------------------------------
(* What movements bring                                                    *)

(* Every day is after day 0.                                               *)
LEMMA DaysAreNumbers == Days \subseteq Nat \ {0}
  BY BoundsAssumption DEF Days

(* What a movement brings is a number.                                     *)
LEMMA WeightIsInt ==
  ASSUME NEW m \in MovementType, NEW P
  PROVE  On(m, P) \in Int /\ Weight(m, P) \in Int /\ Weights(P)[m] = Weight(m, P)
<1>1. m.dir \in Int /\ m.cashDir \in Int /\ m.amount \in Int
  BY DEF MovementType
<1>2. On(m, P) \in Int
  BY <1>1 DEF On
<1> QED
  BY <1>1, <1>2 DEF Weight, Weights

(* No movement brings nothing.                                             *)
LEMMA HeldOfNone == \A P : Held({}, P) = 0
  BY SumOfNone DEF Held

(* Movements that are not the same bring what each lot does.               *)
LEMMA HeldJoins ==
  ASSUME NEW A, NEW B, IsFiniteSet(A), IsFiniteSet(B), A \subseteq MovementType,
         B \subseteq MovementType, A \cap B = {}, NEW P
  PROVE  Held(A \cup B, P) = Held(A, P) + Held(B, P)
<1>1. \A m \in A \cup B : Weights(P)[m] \in Int
  BY WeightIsInt
<1> QED
  BY <1>1, SumJoins DEF Held

(* What movements bring is a number.                                       *)
LEMMA HeldIsInt ==
  ASSUME NEW A, IsFiniteSet(A), A \subseteq MovementType, NEW P
  PROVE  Held(A, P) \in Int
<1>1. \A m \in A : Weights(P)[m] \in Int
  BY WeightIsInt
<1> QED
  BY <1>1, SumIsInt DEF Held

(* What legs bring, and the document they post.                            *)
Brings(legs, amount, P) ==
  SumFunctionOnSet([k \in DOMAIN legs |-> On(legs[k], P) * amount], DOMAIN legs)

(* What post writes for some legs brings what the legs do.                 *)
LEMMA EntriesBring ==
  ASSUME NEW doc, NEW legs, IsFiniteSet(DOMAIN legs), NEW amount, NEW day, NEW source,
         Entries(doc, legs, amount, day, source) \subseteq MovementType, NEW P
  PROVE  /\ IsFiniteSet(Entries(doc, legs, amount, day, source))
         /\ Held(Entries(doc, legs, amount, day, source), P) = Brings(legs, amount, P)
<1> DEFINE entry == [k \in DOMAIN legs |-> Movement(doc, k, legs[k], amount, day, source)]
           brought == [k \in DOMAIN legs |-> On(legs[k], P) * amount]
<1>1. Entries(doc, legs, amount, day, source) = {entry[k] : k \in DOMAIN legs}
  BY DEF Entries
<1>2. \A k \in DOMAIN legs : entry[k].no = k
  BY DEF Movement
<1>3. \A j, k \in DOMAIN legs : entry[j] = entry[k] => j = k
  BY <1>2
<1>4. ASSUME NEW k \in DOMAIN legs
      PROVE  Weights(P)[entry[k]] \in Int /\ brought[k] = Weights(P)[entry[k]]
  <2>1. entry[k] \in MovementType
    BY <1>1
  <2>2. Weight(entry[k], P) = On(legs[k], P) * amount
    BY DEF Weight, On, Movement
  <2> QED
    BY <2>1, <2>2, WeightIsInt
<1> HIDE DEF entry, brought
<1>5. /\ IsFiniteSet({entry[k] : k \in DOMAIN legs})
      /\ SumFunctionOnSet(Weights(P), {entry[k] : k \in DOMAIN legs})
           = SumFunctionOnSet(brought, DOMAIN legs)
  BY <1>3, <1>4, SumMaps
<1>6. IsFiniteSet(Entries(doc, legs, amount, day, source))
  BY <1>1, <1>5, Zenon
<1>7. Held(Entries(doc, legs, amount, day, source), P)
        = SumFunctionOnSet(Weights(P), {entry[k] : k \in DOMAIN legs})
  BY <1>1, Zenon DEF Held
<1> QED
  BY <1>5, <1>6, <1>7 DEF Brings, brought

(* A document has finitely many movements.                                 *)
LEMMA MovesFinite ==
  ASSUME MoveTypes, NEW doc
  PROVE  /\ IsFiniteSet(MovesOf(doc)) /\ MovesOf(doc) \subseteq MovementType
         /\ Cardinality(MovesOf(doc)) \in Nat
         /\ MovesOf(doc) = {} => Cardinality(MovesOf(doc)) = 0
<1>1. MovesOf(doc) \subseteq moves
  BY DEF MovesOf
<1>2. IsFiniteSet(MovesOf(doc))
  BY <1>1, FS_Subset DEF MoveTypes
<1> QED
  BY <1>1, <1>2, FS_CardinalityType, FS_EmptySet DEF MoveTypes

Mirrors(ms, source) == {Mirror(m, source) : m \in ms}

(* The mirrors of a document's movements undo them.                        *)
LEMMA MirrorsUndo ==
  ASSUME MoveTypes, today \in Days, NEW doc, NEW ms \in SUBSET MovesOf(doc),
         \A m, n \in ms : m.no = n.no => m = n,
         NEW source \in {"reversal", "invoice_cancel"}
  PROVE  /\ IsFiniteSet(Mirrors(ms, source)) /\ Mirrors(ms, source) \subseteq MovementType
         /\ \A m \in Mirrors(ms, source) : m.doc = doc /\ m.reverses # 0
         /\ \A P : Held(Mirrors(ms, source), P) = -Held(ms, P)
<1> DEFINE mirror == [m \in ms |-> Mirror(m, source)]
           mirrors == Mirrors(ms, source)
<1>1. mirrors = {mirror[m] : m \in ms}
  BY DEF Mirrors
<1>2. ms \subseteq MovementType /\ IsFiniteSet(ms) /\ \A m \in ms : m.doc = doc
  BY MovesFinite, FS_Subset DEF MovesOf
<1>3. \A m \in ms : mirror[m] = [m EXCEPT !.no = m.no + Cardinality(MovesOf(doc)), !.dir = -m.dir,
                                 !.cashDir = -m.cashDir, !.date = today, !.source = source,
                                 !.reverses = m.no]
  BY <1>2 DEF Mirror
<1>4. Cardinality(MovesOf(doc)) \in Nat
  BY MovesFinite
<1>5. ASSUME NEW m \in ms
      PROVE  /\ mirror[m] \in MovementType
             /\ mirror[m].doc = doc /\ mirror[m].reverses = m.no /\ m.no # 0
             /\ mirror[m].account = m.account /\ mirror[m].cash = m.cash
             /\ mirror[m].dir = -m.dir /\ mirror[m].cashDir = -m.cashDir
             /\ mirror[m].amount = m.amount
  <2> DEFINE n == [m EXCEPT !.no = m.no + Cardinality(MovesOf(doc)), !.dir = -m.dir,
                            !.cashDir = -m.cashDir, !.date = today, !.source = source,
                            !.reverses = m.no]
  <2>1. m \in MovementType
    BY <1>2
  <2>2. n \in MovementType
    <3>1. -m.dir \in {-1, 0, 1} /\ -m.cashDir \in {-1, 0, 1}
      BY <2>1 DEF MovementType
    <3>2. m.no + Cardinality(MovesOf(doc)) \in Nat \ {0} /\ m.no \in Nat
      BY <1>4, <2>1 DEF MovementType
    <3> QED
      BY <2>1, <3>1, <3>2 DEF MovementType
  <2>3. /\ n.doc = doc /\ n.reverses = m.no /\ m.no # 0
        /\ n.account = m.account /\ n.cash = m.cash
        /\ n.dir = -m.dir /\ n.cashDir = -m.cashDir
        /\ n.amount = m.amount
    BY <1>2, <2>1 DEF MovementType
  <2>4. mirror[m] = n
    BY <1>3
  <2> HIDE DEF n, mirror
  <2> QED
    BY <2>2, <2>3, <2>4
<1>6. \A m, n \in ms : mirror[m] = mirror[n] => m = n
  BY <1>5
<1>7. ASSUME NEW P, NEW m \in ms
      PROVE  /\ Weights(P)[m] \in Int /\ Weights(P)[mirror[m]] \in Int
             /\ Weights(P)[mirror[m]] = -Weights(P)[m]
  <2> HIDE DEF mirror
  <2>1. m \in MovementType /\ mirror[m] \in MovementType
    BY <1>2, <1>5
  <2>2. On(mirror[m], P) = -On(m, P)
    <3>1. m.dir \in Int /\ m.cashDir \in Int
      BY <2>1 DEF MovementType
    <3> QED
      BY <1>5, <3>1 DEF On
  <2>3. On(m, P) \in Int /\ m.amount \in Int
    BY <2>1, WeightIsInt DEF MovementType
  <2>4. Weight(mirror[m], P) = -Weight(m, P)
    BY <1>5, <2>2, <2>3 DEF Weight
  <2> QED
    BY <2>1, <2>4, WeightIsInt
<1>8. IsFiniteSet(mirrors)
  <2>1. mirror \in Surjection(ms, mirrors)
    BY DEF Surjection, Mirrors
  <2> QED
    BY <1>2, <2>1, FS_Surjection
<1>9. mirrors \subseteq MovementType /\ \A m \in mirrors : m.doc = doc /\ m.reverses # 0
  BY <1>5 DEF Mirrors
<1>10. ASSUME NEW P PROVE Held(mirrors, P) = -Held(ms, P)
  <2> DEFINE undone == [m \in ms |-> -Weights(P)[m]]
  <2> HIDE DEF mirror
  <2>1. \A m \in ms : Weights(P)[mirror[m]] \in Int /\ undone[m] = Weights(P)[mirror[m]]
    BY <1>7
  <2>2. \A m \in ms : Weights(P)[m] \in Int /\ undone[m] = -Weights(P)[m]
    BY <1>7
  <2> HIDE DEF undone, mirrors
  <2>3. SumFunctionOnSet(Weights(P), {mirror[m] : m \in ms}) = SumFunctionOnSet(undone, ms)
    BY <1>2, <1>6, <2>1, SumMaps
  <2>4. SumFunctionOnSet(undone, ms) = -SumFunctionOnSet(Weights(P), ms)
    BY <1>2, <2>2, SumNegates
  <2>5. SumFunctionOnSet(Weights(P), mirrors) = SumFunctionOnSet(Weights(P), {mirror[m] : m \in ms})
    BY <1>1, Zenon
  <2> QED
    BY <2>3, <2>4, <2>5 DEF Held
<1> QED
  BY <1>8, <1>9, <1>10

-----------------------------------------------------------------------------
(* The books balance                                                       *)

(* What a document, and an invoice, bring to the sides in P while they     *)
(* stand.                                                                  *)
Stands(d, P) == IF docs[d].cancelled THEN 0 ELSE Brings(docs[d].legs, docs[d].amount, P)
Owes(i, P) ==
  IF invoice[i].status \in Payable /\ MovesOf(i) # {} /\ AccountOf[i] \in P THEN Total[i] ELSE 0

(* A document has one leg or two.                                          *)
LEMMA FormedLegs ==
  ASSUME NEW kind, NEW legs, Formed(kind, legs)
  PROVE  /\ legs \in Seq(Leg)
         /\ \/ DOMAIN legs = {1}
            \/ DOMAIN legs = {1, 2}
         /\ IsFiniteSet(DOMAIN legs)
         /\ \A k \in DOMAIN legs : legs[k] \in Leg
<1>1. \A a \in Account, dir \in {-1, 1} : OnAccount(a, dir) \in Leg
  BY DEF OnAccount, Leg
<1>2. \A c \in CashAccount, dir \in {-1, 1} : OnCash(c, dir) \in Leg
  BY DEF OnCash, Leg
<1>3. \A a \in Account, c \in CashAccount, dir, cashDir \in {-1, 1} :
        OnBoth(a, dir, c, cashDir) \in Leg
  BY DEF OnBoth, Leg
<1>4. \/ \E leg \in Leg : legs = <<leg>>
      \/ \E leg, other \in Leg : legs = <<leg, other>>
  BY <1>1, <1>2, <1>3 DEF Formed
<1>5. IsFiniteSet({1}) /\ IsFiniteSet({1, 2})
  <2>1. IsFiniteSet({1})
    BY FS_Singleton
  <2>2. IsFiniteSet({1} \cup {2})
    BY <2>1, FS_AddElement
  <2>3. {1} \cup {2} = {1, 2}
    OBVIOUS
  <2> QED
    BY <2>1, <2>2, <2>3, Zenon
<1>6. CASE \E leg \in Leg : legs = <<leg>>
  <2>1. PICK leg \in Leg : legs = <<leg>>
    BY <1>6
  <2>2. DOMAIN legs = {1} /\ legs[1] = leg /\ legs \in Seq(Leg)
    BY <2>1
  <2> QED
    BY <1>5, <2>2
<1>7. CASE \E leg, other \in Leg : legs = <<leg, other>>
  <2>1. PICK leg, other \in Leg : legs = <<leg, other>>
    BY <1>7
  <2>2. DOMAIN legs = {1, 2} /\ legs[1] = leg /\ legs[2] = other /\ legs \in Seq(Leg)
    BY <2>1
  <2> QED
    BY <1>5, <2>2
<1> QED
  BY <1>4, <1>6, <1>7

(* What a leg brings is a number.                                          *)
LEMMA LegIsInt ==
  ASSUME NEW leg \in Leg, NEW P
  PROVE  On(leg, P) \in Int
<1>1. leg.dir \in Int /\ leg.cashDir \in Int
  BY DEF Leg
<1> QED
  BY <1>1 DEF On

(* One leg brings the amount its way.                                      *)
LEMMA OneLegBrings ==
  ASSUME NEW leg \in Leg, NEW amount \in Int, NEW P
  PROVE  Brings(<<leg>>, amount, P) = On(leg, P) * amount
<1> DEFINE f == [k \in DOMAIN <<leg>> |-> On(<<leg>>[k], P) * amount]
<1>1. DOMAIN <<leg>> = {1}
  OBVIOUS
<1>2. On(leg, P) * amount \in Int
  BY LegIsInt
<1>3. f[1] = On(leg, P) * amount
  BY <1>1
<1> HIDE DEF f
<1>4. SumFunctionOnSet(f, {1}) = On(leg, P) * amount
  BY <1>2, <1>3, SumOfOne
<1>5. SumFunctionOnSet(f, DOMAIN <<leg>>) = SumFunctionOnSet(f, {1})
  BY <1>1, Zenon
<1> QED
  BY <1>4, <1>5 DEF Brings, f

(* Two legs bring the amount each its way.                                 *)
LEMMA TwoLegsBring ==
  ASSUME NEW leg \in Leg, NEW other \in Leg, NEW amount \in Int, NEW P
  PROVE  Brings(<<leg, other>>, amount, P) = On(leg, P) * amount + On(other, P) * amount
<1> DEFINE f == [k \in DOMAIN <<leg, other>> |-> On(<<leg, other>>[k], P) * amount]
<1>1. DOMAIN <<leg, other>> = {1} \cup {2}
  OBVIOUS
<1>2. On(leg, P) * amount \in Int /\ On(other, P) * amount \in Int
  BY LegIsInt
<1>3. f[1] = On(leg, P) * amount /\ f[2] = On(other, P) * amount
  BY <1>1
<1> HIDE DEF f
<1>4. SumFunctionOnSet(f, {1}) = On(leg, P) * amount
  BY <1>2, <1>3, SumOfOne
<1>5. SumFunctionOnSet(f, {1} \cup {2}) = SumFunctionOnSet(f, {1}) + f[2]
  <2>1. IsFiniteSet({1}) /\ 2 \notin {1} /\ \A x \in {1} : f[x] \in Int
    <3>1. IsFiniteSet({1})
      BY FS_Singleton
    <3> QED
      BY <1>2, <1>3, <3>1
  <2> QED
    BY <1>2, <1>3, <2>1, SumAdds
<1>6. SumFunctionOnSet(f, DOMAIN <<leg, other>>) = SumFunctionOnSet(f, {1} \cup {2})
  BY <1>1, Zenon
<1> QED
  BY <1>3, <1>4, <1>5, <1>6 DEF Brings, f

(* What the movements of a document, and of an invoice, bring.             *)
LEMMA DocHolds ==
  ASSUME Types, NEW d \in DocIds, DocPosted(d), NEW P \in SUBSET Sides
  PROVE  Stands(d, P) \in Int /\ Held(MovesOf(d), P) = Stands(d, P)
<1>1. MoveTypes /\ Formed(docs[d].kind, docs[d].legs)
  BY DEF Types, DocTypes
<1>2. Held(MovesOf(d), P) \in Int /\ MovesOf(d) \subseteq MovementType
  BY <1>1, MovesFinite, HeldIsInt
<1>3. CASE docs[d].cancelled
  BY <1>3 DEF DocPosted, Stands
<1>4. CASE ~docs[d].cancelled
  <2> DEFINE new == Entries(d, docs[d].legs, docs[d].amount, docs[d].date, docs[d].kind)
  <2>1. MovesOf(d) = new
    BY <1>4 DEF DocPosted
  <2>2. IsFiniteSet(DOMAIN docs[d].legs)
    BY <1>1, FormedLegs
  <2>3. new \subseteq MovementType
    BY <1>2, <2>1
  <2>4. Held(new, P) = Brings(docs[d].legs, docs[d].amount, P)
    BY <2>2, <2>3, EntriesBring
  <2> HIDE DEF new
  <2>5. Held(MovesOf(d), P) = Held(new, P)
    BY <2>1, Zenon
  <2> QED
    BY <1>2, <1>4, <2>4, <2>5 DEF Stands
<1> QED
  BY <1>3, <1>4

(* One movement brings its own weight.                                     *)
LEMMA HeldOfOne ==
  ASSUME NEW m \in MovementType, NEW P
  PROVE  Held({m}, P) = Weight(m, P)
  BY WeightIsInt, SumOfOne DEF Held

(* An invoice's debit brings its total to its customer's account.          *)
LEMMA DebitHolds ==
  ASSUME NEW i \in Invoice, Total[i] > 0, NEW day \in Days, NEW P \in SUBSET Sides
  PROVE  /\ DebitOf(i, day) \in MovementType
         /\ Held({DebitOf(i, day)}, P) = IF AccountOf[i] \in P THEN Total[i] ELSE 0
<1>1. AccountOf[i] \in Account /\ Total[i] \in Nat \ {0} /\ NoSide \notin P
  BY InvoiceAssumption, SidesAssumption
<1>2. DebitOf(i, day) \in MovementType
  BY <1>1 DEF DebitOf, Movement, OnAccount, MovementType
<1>3. Weight(DebitOf(i, day), P) = IF AccountOf[i] \in P THEN Total[i] ELSE 0
  BY <1>1 DEF DebitOf, Movement, OnAccount, Weight, On
<1> QED
  BY <1>2, <1>3, HeldOfOne

(* An invoice's movements bring what it owes while it stands.              *)
LEMMA InvoiceHolds ==
  ASSUME Types, NEW i \in Invoice, InvoicePosted(i), NEW P \in SUBSET Sides
  PROVE  Owes(i, P) \in Int /\ Held(MovesOf(i), P) = Owes(i, P)
<1>1. Total[i] \in Nat
  BY InvoiceAssumption
<1>2. CASE MovesOf(i) = {}
  <2>1. Held(MovesOf(i), P) = 0
    BY <1>2, HeldOfNone, Zenon
  <2> QED
    BY <1>2, <2>1 DEF Owes
<1>3. CASE invoice[i].status \in Payable /\ MovesOf(i) # {}
  <2>1. PICK day \in Days : MovesOf(i) = {DebitOf(i, day)} /\ Total[i] > 0
    BY <1>3 DEF InvoicePosted
  <2>2. Held(MovesOf(i), P) = Held({DebitOf(i, day)}, P)
    BY <2>1, Zenon
  <2>3. Held({DebitOf(i, day)}, P) = IF AccountOf[i] \in P THEN Total[i] ELSE 0
    BY <2>1, DebitHolds
  <2> QED
    BY <1>1, <1>3, <2>2, <2>3 DEF Owes
<1>4. CASE invoice[i].status = "cancelled"
  BY <1>4 DEF InvoicePosted, Owes, Payable
<1>5. invoice[i].status \in {"draft", "cancelled"} \cup Payable
  BY DEF Types, InvoiceTypes, InvoiceRow
<1> QED
  BY <1>2, <1>3, <1>4, <1>5 DEF InvoicePosted

(* All the movements together bring what the standing documents and        *)
(* invoices do, to any sides.                                              *)
LEMMA BooksBalance ==
  ASSUME Types, Posted, NEW P \in SUBSET Sides
  PROVE  Held(moves, P) = SumFunctionOnSet([d \in DocIds |-> Stands(d, P)], DocIds)
                            + SumFunctionOnSet([i \in Invoice |-> Owes(i, P)], Invoice)
<1> DEFINE S == DocIds \cup Invoice
           origin == [m \in moves |-> m.doc]
           group == [x \in S |-> MovesOf(x)]
           held == [x \in S |-> Held(MovesOf(x), P)]
           stood == [d \in DocIds |-> Stands(d, P)]
           owed == [i \in Invoice |-> Owes(i, P)]
<1>1. IsFiniteSet(DocIds) /\ IsFiniteSet(Invoice) /\ IsFiniteSet(S) /\ DocIds \cap Invoice = {}
  BY FiniteAssumption, InvoiceAssumption, FS_Union DEF Types, DocTypes
<1>2. IsFiniteSet(moves) /\ \A m \in moves : Weights(P)[m] \in Int /\ origin[m] \in S
  BY WeightIsInt DEF Types, MoveTypes
<1>3. \A d \in DocIds : stood[d] \in Int /\ held[d] = stood[d]
  BY DocHolds DEF Posted
<1>4. \A i \in Invoice : owed[i] \in Int /\ held[i] = owed[i]
  BY InvoiceHolds DEF Posted
<1>5. ASSUME NEW x \in S
      PROVE  /\ group[x] = {m \in moves : origin[m] = x}
             /\ held[x] = SumFunctionOnSet(Weights(P), group[x])
  BY DEF MovesOf, Held
<1>6. \A x \in S : held[x] \in Int
  BY <1>3, <1>4
<1> HIDE DEF origin, group, held, stood, owed
<1>7. Held(moves, P) = SumFunctionOnSet(held, S)
  <2>1. /\ \A x \in S : group[x] = {m \in moves : origin[m] = x}
        /\ \A x \in S : held[x] = SumFunctionOnSet(Weights(P), group[x])
    BY <1>5
  <2>2. /\ \A m \in moves : Weights(P)[m] \in Int
        /\ \A m \in moves : origin[m] \in S
    BY <1>2
  <2> HIDE DEF S
  <2>3. SumFunctionOnSet(Weights(P), moves) = SumFunctionOnSet(held, S)
    BY <1>1, <1>2, <2>1, <2>2, SumGroups
  <2> QED
    BY <2>3 DEF Held
<1>8. SumFunctionOnSet(held, S)
        = SumFunctionOnSet(held, DocIds) + SumFunctionOnSet(held, Invoice)
  BY <1>1, <1>6, SumJoins
<1>9. SumFunctionOnSet(held, DocIds) = SumFunctionOnSet(stood, DocIds)
  BY <1>1, <1>3, SumSame
<1>10. SumFunctionOnSet(held, Invoice) = SumFunctionOnSet(owed, Invoice)
  BY <1>1, <1>4, SumSame
<1> QED
  BY <1>7, <1>8, <1>9, <1>10 DEF stood, owed

-----------------------------------------------------------------------------
(* The firm's money                                                        *)

(* A side's sum over movements is what they bring to it alone.             *)
LEMMA SumMovesIsHeld ==
  ASSUME NEW S, IsFiniteSet(S), S \subseteq MovementType, NEW s
  PROVE  SumMoves(S, s) = Held(S, {s})
<1> DEFINE f == [m \in S |-> Side(m, s) * m.amount]
<1>1. ASSUME NEW m \in S PROVE f[m] = Weights({s})[m]
  <2>1. Side(m, s) = On(m, {s})
    BY DEF Side, On
  <2> QED
    BY <2>1, WeightIsInt DEF Weight
<1>2. DOMAIN f = S
  OBVIOUS
<1> HIDE DEF f
<1>3. SumFunctionOnSet(f, S) = SumFunctionOnSet(Weights({s}), S)
  BY <1>1, SumSame
<1>4. SumMoves(S, s) = SumFunctionOnSet(f, S)
  BY <1>2 DEF SumMoves, SumFunction, f
<1> QED
  BY <1>3, <1>4 DEF Held

(* A balance is what all movements bring to the side.                      *)
LEMMA BalanceIsHeld ==
  ASSUME MoveTypes, NEW s \in Sides
  PROVE  Balance(s) = Held(moves, {s})
  BY SumMovesIsHeld DEF MoveTypes, Balance

(* All the tills together hold what each of them does.                     *)
LEMMA TillsTogether ==
  ASSUME MoveTypes
  PROVE  SumFunction([c \in CashAccount |-> Balance(c)]) = Held(moves, CashAccount)
<1> DEFINE K == CashAccount \cup {NoSide}
           f == Weights(CashAccount)
           till == [m \in moves |-> m.cash]
           group == [c \in K |-> {m \in moves : till[m] = c}]
           g == [c \in K |-> SumFunctionOnSet(f, group[c])]
           h == [c \in CashAccount |-> Balance(c)]
<1>1. IsFiniteSet(moves) /\ IsFiniteSet(CashAccount) /\ IsFiniteSet(K)
  BY FiniteAssumption, FS_AddElement DEF MoveTypes
<1>2. \A m \in moves : m \in MovementType
  BY DEF MoveTypes
<1>3. \A m \in moves : f[m] \in Int /\ till[m] \in K
  BY <1>2, WeightIsInt DEF MovementType
<1>4. \A c \in K : IsFiniteSet(group[c]) /\ group[c] \subseteq moves
  <2>1. \A T \in SUBSET moves : IsFiniteSet(T)
    BY <1>1, FS_Subset
  <2> QED
    BY <2>1
<1>5. ASSUME NEW c \in CashAccount PROVE g[c] = h[c]
  <2> DEFINE w == Weights({c})
  <2>1. \A m \in moves : w[m] = Weight(m, {c}) /\ w[m] \in Int
    BY <1>2, WeightIsInt
  <2>2. ASSUME NEW m \in moves PROVE c \notin {m.account} /\ m.account \notin CashAccount
    BY <1>2, SidesAssumption DEF MovementType, Sides
  <2>3. ASSUME NEW m \in moves \ group[c] PROVE w[m] = 0
    <3>1. m.cash # c
      OBVIOUS
    <3>2. Weight(m, {c}) = 0
      <4>1. On(m, {c}) = 0 /\ m.amount \in Int
        BY <1>2, <2>2, <3>1 DEF On, MovementType
      <4> QED
        BY <4>1 DEF Weight
    <3> QED
      BY <2>1, <3>2
  <2>4. ASSUME NEW m \in group[c] PROVE w[m] = f[m]
    <3>1. m.cash = c /\ m \in moves
      OBVIOUS
    <3>2. On(m, {c}) = On(m, CashAccount)
      BY <2>2, <3>1 DEF On
    <3> QED
      BY <1>2, <2>1, <3>1, <3>2, WeightIsInt DEF Weight
  <2>5. group[c] \in SUBSET moves /\ IsFiniteSet(group[c])
    BY <1>4
  <2>6. h[c] = Held(moves, {c}) /\ g[c] = SumFunctionOnSet(f, group[c])
    BY BalanceIsHeld DEF Sides
  <2> HIDE DEF f, w, group
  <2>7. SumFunctionOnSet(w, moves) = SumFunctionOnSet(w, group[c])
    BY <1>1, <2>1, <2>3, <2>5, SumPart
  <2>8. SumFunctionOnSet(w, group[c]) = SumFunctionOnSet(f, group[c])
    BY <2>4, <2>5, SumSame
  <2> QED
    BY <2>6, <2>7, <2>8 DEF Held, w
<1>6. g[NoSide] = 0
  <2>1. ASSUME NEW m \in group[NoSide] PROVE f[m] = 0
    <3>1. m.cash = NoSide /\ m \in MovementType
      BY <1>2
    <3>2. On(m, CashAccount) = 0 /\ m.amount \in Int
      BY <3>1, SidesAssumption DEF MovementType, Sides, On
    <3>3. Weight(m, CashAccount) = 0
      BY <3>2 DEF Weight
    <3> QED
      BY <3>1, <3>3, WeightIsInt
  <2>2. IsFiniteSet(group[NoSide])
    BY <1>4
  <2> HIDE DEF f, group
  <2>3. SumFunctionOnSet(f, group[NoSide]) = 0
    BY <2>1, <2>2, SumOfZeros
  <2> QED
    BY <2>3
<1>7. \A c \in K : g[c] \in Int
  <2> SUFFICES ASSUME NEW c \in K PROVE SumFunctionOnSet(f, group[c]) \in Int
    OBVIOUS
  <2>1. IsFiniteSet(group[c]) /\ \A m \in group[c] : f[m] \in Int
    BY <1>3, <1>4
  <2> HIDE DEF f, group
  <2> QED
    BY <2>1, SumIsInt
<1>8. SumFunctionOnSet(f, moves) = SumFunctionOnSet(g, K)
  <2>1. /\ \A m \in moves : f[m] \in Int
        /\ \A m \in moves : till[m] \in K
        /\ \A c \in K : group[c] = {m \in moves : till[m] = c}
        /\ \A c \in K : g[c] = SumFunctionOnSet(f, group[c])
    BY <1>3
  <2> HIDE DEF f, till, group, g, K
  <2> QED
    BY <1>1, <2>1, SumGroups
<1>9. \A c \in K \ CashAccount : g[c] = 0
  BY <1>6
<1>10. CashAccount \in SUBSET K /\ DOMAIN h = CashAccount
  OBVIOUS
<1> HIDE DEF f, till, group, g, h, K
<1>11. SumFunctionOnSet(g, K) = SumFunctionOnSet(g, CashAccount)
  BY <1>1, <1>7, <1>9, <1>10, SumPart
<1>12. SumFunctionOnSet(g, CashAccount) = SumFunctionOnSet(h, CashAccount)
  BY <1>1, <1>5, SumSame
<1>13. SumFunction(h) = SumFunctionOnSet(h, CashAccount)
  BY <1>10 DEF SumFunction
<1> QED
  BY <1>8, <1>11, <1>12, <1>13 DEF Held, f, h

(* What a document that stands brings to the tills, kind by kind.          *)
LEMMA TillsStand ==
  ASSUME Types, NEW d \in DocIds
  PROVE  LET row == docs[d]
             brought == Brings(row.legs, row.amount, CashAccount)
         IN  /\ row.kind = "collection" => brought = row.amount
             /\ row.kind = "payment_out" => brought = -row.amount
             /\ row.kind = "opening" => brought = row.legs[1].cashDir * row.amount
             /\ row.kind \notin {"collection", "payment_out", "opening"} => brought = 0
<1> DEFINE legs == docs[d].legs
           amount == docs[d].amount
<1>1. Formed(docs[d].kind, legs) /\ amount \in Nat \ {0}
  BY DEF Types, DocTypes, DocRow
<1> HIDE DEF legs, amount
<1>2. \A a \in Account : a \notin CashAccount /\ NoSide \notin CashAccount
  BY SidesAssumption DEF Sides
<1>3. ASSUME NEW a \in Account, NEW c \in CashAccount, NEW dir \in {-1, 1}, NEW cashDir \in {-1, 1}
      PROVE  /\ OnBoth(a, dir, c, cashDir) \in Leg
             /\ On(OnBoth(a, dir, c, cashDir), CashAccount) = cashDir
  BY <1>2 DEF OnBoth, On, Leg
<1>4. ASSUME NEW a \in Account, NEW dir \in {-1, 1}
      PROVE  OnAccount(a, dir) \in Leg /\ On(OnAccount(a, dir), CashAccount) = 0
             /\ OnAccount(a, dir).cashDir = 0
  BY <1>2 DEF OnAccount, On, Leg
<1>5. ASSUME NEW c \in CashAccount, NEW dir \in {-1, 1}
      PROVE  OnCash(c, dir) \in Leg /\ On(OnCash(c, dir), CashAccount) = dir
             /\ OnCash(c, dir).cashDir = dir
  BY <1>2 DEF OnCash, On, Leg
<1>6. ASSUME NEW leg \in Leg, legs = <<leg>>
      PROVE  legs[1] = leg /\ Brings(legs, amount, CashAccount) = On(leg, CashAccount) * amount
  BY <1>1, <1>6, OneLegBrings
<1>7. ASSUME NEW leg \in Leg, NEW other \in Leg, legs = <<leg, other>>
      PROVE  Brings(legs, amount, CashAccount)
               = On(leg, CashAccount) * amount + On(other, CashAccount) * amount
  BY <1>1, <1>7, TwoLegsBring
<1>8. CASE docs[d].kind = "collection"
  <2>1. PICK a \in Account, c \in CashAccount : legs = <<OnBoth(a, -1, c, 1)>>
    BY <1>1, <1>8 DEF Formed
  <2>2. Brings(legs, amount, CashAccount) = 1 * amount
    BY <1>3, <1>6, <2>1
  <2> QED
    BY <1>1, <1>8, <2>2 DEF legs, amount
<1>9. CASE docs[d].kind = "payment_out"
  <2>1. PICK a \in Account, c \in CashAccount : legs = <<OnBoth(a, 1, c, -1)>>
    BY <1>1, <1>9 DEF Formed
  <2>2. Brings(legs, amount, CashAccount) = (-1) * amount
    BY <1>3, <1>6, <2>1
  <2> QED
    BY <1>1, <1>9, <2>2 DEF legs, amount
<1>10. CASE docs[d].kind = "opening"
  <2>1. \E leg \in Leg : legs = <<leg>> /\ On(leg, CashAccount) = leg.cashDir
    BY <1>1, <1>4, <1>5, <1>10 DEF Formed
  <2>2. Brings(legs, amount, CashAccount) = legs[1].cashDir * amount
    BY <1>6, <2>1
  <2> QED
    BY <1>10, <2>2 DEF legs, amount
<1>11. CASE docs[d].kind = "manual"
  <2>1. \E leg \in Leg : legs = <<leg>> /\ On(leg, CashAccount) = 0
    BY <1>1, <1>4, <1>11 DEF Formed
  <2>2. Brings(legs, amount, CashAccount) = 0 * amount
    BY <1>6, <2>1
  <2> QED
    BY <1>1, <1>11, <2>2 DEF legs, amount
<1>12. CASE docs[d].kind = "transfer"
  <2>1. CASE \E s, t \in Account : legs = <<OnAccount(s, -1), OnAccount(t, 1)>>
    <3>1. Brings(legs, amount, CashAccount) = 0 * amount + 0 * amount
      BY <1>4, <1>7, <2>1
    <3> QED
      BY <1>1, <1>12, <3>1 DEF legs, amount
  <2>2. CASE \E s, t \in CashAccount : legs = <<OnCash(s, -1), OnCash(t, 1)>>
    <3>1. Brings(legs, amount, CashAccount) = (-1) * amount + 1 * amount
      BY <1>5, <1>7, <2>2
    <3> QED
      BY <1>1, <1>12, <3>1 DEF legs, amount
  <2> QED
    BY <1>1, <1>12, <2>1, <2>2 DEF Formed
<1>13. docs[d].kind \in DocKinds
  BY DEF Types, DocTypes, DocRow
<1> QED
  BY <1>8, <1>9, <1>10, <1>11, <1>12, <1>13 DEF DocKinds

(* Money is conserved in books that are typed and posted.                  *)
LEMMA MoneyFollows == Types /\ Posted => MoneyConserved
<1> SUFFICES ASSUME Types, Posted PROVE MoneyConserved
  OBVIOUS
<1> DEFINE In == LiveDocs("collection")
           Out == LiveDocs("payment_out")
           Opened == LiveDocs("opening")
           in == [d \in In |-> docs[d].amount]
           out == [d \in Out |-> docs[d].amount]
           opened == [d \in Opened |-> docs[d].legs[1].cashDir * docs[d].amount]
           stood == [d \in DocIds |-> Stands(d, CashAccount)]
           owed == [i \in Invoice |-> Owes(i, CashAccount)]
           plus == [d \in DocIds |-> IF d \in In THEN in[d] ELSE 0]
           minus == [d \in DocIds |-> IF d \in Out THEN -out[d] ELSE 0]
           less == [d \in DocIds |-> IF d \in Out THEN out[d] ELSE 0]
           other == [d \in DocIds |-> IF d \in Opened THEN opened[d] ELSE 0]
           net == [d \in DocIds |-> plus[d] + minus[d]]
<1>1. IsFiniteSet(DocIds) /\ IsFiniteSet(Invoice) /\ CashAccount \in SUBSET Sides
  BY FiniteAssumption DEF Types, DocTypes, Sides
<1>2. Held(moves, CashAccount)
        = SumFunctionOnSet(stood, DocIds) + SumFunctionOnSet(owed, Invoice)
  BY <1>1, BooksBalance
<1>3. SumFunctionOnSet(owed, Invoice) = 0
  <2>1. \A i \in Invoice : owed[i] = 0
    BY InvoiceAssumption, SidesAssumption DEF Owes
  <2> HIDE DEF owed
  <2> QED
    BY <1>1, <2>1, SumOfZeros
<1>4. /\ In \in SUBSET DocIds /\ Out \in SUBSET DocIds /\ Opened \in SUBSET DocIds
      /\ DOMAIN in = In /\ DOMAIN out = Out /\ DOMAIN opened = Opened
  BY DEF LiveDocs
<1>5. ASSUME NEW d \in DocIds
      PROVE  /\ plus[d] \in Int /\ minus[d] \in Int /\ other[d] \in Int
             /\ less[d] \in Int /\ minus[d] = -less[d]
             /\ stood[d] = plus[d] + minus[d] + other[d]
  <2>1. docs[d].amount \in Int /\ docs[d].cancelled \in BOOLEAN /\ docs[d].kind \in DocKinds
    BY DEF Types, DocTypes, DocRow
  <2>2. docs[d].kind = "opening" => docs[d].legs[1].cashDir \in Int
    <3> SUFFICES ASSUME docs[d].kind = "opening" PROVE docs[d].legs[1].cashDir \in Int
      OBVIOUS
    <3>1. docs[d].legs[1] \in Leg
      <4>1. Formed(docs[d].kind, docs[d].legs)
        BY DEF Types, DocTypes
      <4>2. 1 \in DOMAIN docs[d].legs
        BY <4>1, FormedLegs
      <4> QED
        BY <4>1, <4>2, FormedLegs
    <3> QED
      BY <3>1 DEF Leg
  <2>3. /\ plus[d] \in Int /\ minus[d] \in Int /\ less[d] \in Int /\ minus[d] = -less[d]
    BY <2>1
  <2>4. other[d] \in Int
    BY <2>1, <2>2 DEF LiveDocs
  <2>5. CASE docs[d].cancelled
    BY <2>5 DEF Stands, LiveDocs
  <2>6. CASE ~docs[d].cancelled
    <3>1. stood[d] = Brings(docs[d].legs, docs[d].amount, CashAccount)
      BY <2>6 DEF Stands
    <3>2. CASE docs[d].kind = "collection"
      <4>1. stood[d] = docs[d].amount
        BY <3>1, <3>2, TillsStand
      <4>2. plus[d] = docs[d].amount /\ minus[d] = 0 /\ other[d] = 0
        BY <2>6, <3>2 DEF LiveDocs
      <4> HIDE DEF stood, plus, minus, other
      <4> QED
        BY <2>1, <2>3, <2>4, <4>1, <4>2
    <3>3. CASE docs[d].kind = "payment_out"
      <4>1. stood[d] = -docs[d].amount
        BY <3>1, <3>3, TillsStand
      <4>2. plus[d] = 0 /\ minus[d] = -docs[d].amount /\ other[d] = 0
        BY <2>6, <3>3 DEF LiveDocs
      <4> HIDE DEF stood, plus, minus, other
      <4> QED
        BY <2>1, <2>3, <2>4, <4>1, <4>2
    <3>4. CASE docs[d].kind = "opening"
      <4>1. stood[d] = docs[d].legs[1].cashDir * docs[d].amount
        BY <3>1, <3>4, TillsStand
      <4>2. plus[d] = 0 /\ minus[d] = 0 /\ other[d] = docs[d].legs[1].cashDir * docs[d].amount
        BY <2>6, <3>4 DEF LiveDocs
      <4> HIDE DEF stood, plus, minus, other
      <4> QED
        BY <2>3, <2>4, <4>1, <4>2
    <3>5. CASE docs[d].kind \notin {"collection", "payment_out", "opening"}
      BY <3>1, <3>5, TillsStand DEF LiveDocs
    <3> QED
      BY <3>2, <3>3, <3>4, <3>5
  <2> QED
    BY <2>3, <2>4, <2>5, <2>6
<1>6. /\ \A d \in In : plus[d] = in[d]
      /\ \A d \in DocIds \ In : plus[d] = 0
      /\ \A d \in Out : less[d] = out[d]
      /\ \A d \in DocIds \ Out : less[d] = 0
      /\ \A d \in Opened : other[d] = opened[d]
      /\ \A d \in DocIds \ Opened : other[d] = 0
      /\ \A d \in DocIds : net[d] \in Int /\ net[d] = plus[d] + minus[d]
  BY <1>4, <1>5
<1>7. IsFiniteSet(In) /\ IsFiniteSet(Out) /\ IsFiniteSet(Opened)
  BY <1>1, <1>4, FS_Subset
<1>8. MoneyConserved <=>
        SumFunction([c \in CashAccount |-> Balance(c)])
          = SumFunction(in) - SumFunction(out) + SumFunction(opened)
  BY DEF MoneyConserved
<1> HIDE DEF In, Out, Opened, in, out, opened, stood, owed, plus, minus, less, other, net
<1>9. SumFunctionOnSet(plus, DocIds) = SumFunction(in)
  <2>1. SumFunctionOnSet(plus, DocIds) = SumFunctionOnSet(plus, In)
    BY <1>1, <1>4, <1>5, <1>6, SumPart
  <2>2. SumFunctionOnSet(plus, In) = SumFunctionOnSet(in, In)
    BY <1>6, <1>7, SumSame
  <2> QED
    BY <1>4, <2>1, <2>2 DEF SumFunction
<1>10. SumFunctionOnSet(less, DocIds) = SumFunction(out)
  <2>1. SumFunctionOnSet(less, DocIds) = SumFunctionOnSet(less, Out)
    BY <1>1, <1>4, <1>5, <1>6, SumPart
  <2>2. SumFunctionOnSet(less, Out) = SumFunctionOnSet(out, Out)
    BY <1>6, <1>7, SumSame
  <2> QED
    BY <1>4, <2>1, <2>2 DEF SumFunction
<1>11. SumFunctionOnSet(other, DocIds) = SumFunction(opened)
  <2>1. SumFunctionOnSet(other, DocIds) = SumFunctionOnSet(other, Opened)
    BY <1>1, <1>4, <1>5, <1>6, SumPart
  <2>2. SumFunctionOnSet(other, Opened) = SumFunctionOnSet(opened, Opened)
    BY <1>6, <1>7, SumSame
  <2> QED
    BY <1>4, <2>1, <2>2 DEF SumFunction
<1>12. SumFunctionOnSet(minus, DocIds) = -SumFunctionOnSet(less, DocIds)
  BY <1>1, <1>5, SumNegates
<1>13. SumFunctionOnSet(net, DocIds)
         = SumFunctionOnSet(plus, DocIds) + SumFunctionOnSet(minus, DocIds)
  BY <1>1, <1>5, <1>6, SumAddsTerms
<1>14. SumFunctionOnSet(stood, DocIds)
         = SumFunctionOnSet(net, DocIds) + SumFunctionOnSet(other, DocIds)
  BY <1>1, <1>5, <1>6, SumAddsTerms
<1>15. /\ SumFunctionOnSet(plus, DocIds) \in Int /\ SumFunctionOnSet(less, DocIds) \in Int
       /\ SumFunctionOnSet(other, DocIds) \in Int
  BY <1>1, <1>5, SumIsInt
<1>16. SumFunction([c \in CashAccount |-> Balance(c)]) = Held(moves, CashAccount)
  BY TillsTogether DEF Types
<1>17. Held(moves, CashAccount) = SumFunction(in) - SumFunction(out) + SumFunction(opened)
  BY <1>2, <1>3, <1>9, <1>10, <1>11, <1>12, <1>13, <1>14, <1>15
<1> QED
  BY <1>8, <1>16, <1>17

-----------------------------------------------------------------------------
(* Amounts applied                                                         *)

(* The amounts of some rows, as a sum over a function of all of them.      *)
LEMMA SumOfIs ==
  ASSUME NEW S, NEW T, IsFiniteSet(T), T \subseteq S
  PROVE  SumOf(T) = SumFunctionOnSet([x \in S |-> x.amount], T)
<1> DEFINE f == [x \in T |-> x.amount]
           g == [x \in S |-> x.amount]
<1>1. \A x \in T : f[x] = g[x]
  OBVIOUS
<1>2. SumOf(T) = SumFunctionOnSet(f, T)
  <2>1. DOMAIN f = T
    OBVIOUS
  <2> QED
    BY <2>1 DEF SumOf, SumFunction
<1> HIDE DEF f, g
<1>3. SumFunctionOnSet(f, T) = SumFunctionOnSet(g, T)
  BY <1>1, SumSame
<1> QED
  BY <1>2, <1>3 DEF g

(* Amounts of rows that are not the same add up apart.                     *)
LEMMA SumOfJoins ==
  ASSUME NEW A, NEW B, IsFiniteSet(A), IsFiniteSet(B), A \cap B = {},
         \A x \in A \cup B : x.amount \in Nat \ {0}
  PROVE  /\ SumOf(A \cup B) = SumOf(A) + SumOf(B)
         /\ SumOf(A) \in Nat /\ SumOf(B) \in Nat
<1> DEFINE S == A \cup B
           f == [x \in S |-> x.amount]
<1>1. IsFiniteSet(S) /\ A \subseteq S /\ B \subseteq S
  BY FS_Union
<1>2. /\ SumOf(S) = SumFunctionOnSet(f, S) /\ SumOf(A) = SumFunctionOnSet(f, A)
      /\ SumOf(B) = SumFunctionOnSet(f, B)
  BY <1>1, SumOfIs
<1>3. \A x \in A \cup B : f[x] \in Int /\ f[x] \in Nat
  OBVIOUS
<1> HIDE DEF f
<1>4. SumFunctionOnSet(f, A \cup B) = SumFunctionOnSet(f, A) + SumFunctionOnSet(f, B)
  BY <1>3, SumJoins
<1>5. SumFunctionOnSet(f, A) \in Nat /\ SumFunctionOnSet(f, B) \in Nat
  BY <1>3, SumNotNegative
<1> QED
  BY <1>2, <1>4, <1>5

(* Applications of positive amounts: what a sum of them is worth.          *)
LEMMA SumOfWithin ==
  ASSUME NEW S, IsFiniteSet(S), \A x \in S : x.amount \in Nat \ {0}, NEW T \in SUBSET S
  PROVE  /\ IsFiniteSet(T) /\ SumOf(T) \in Nat /\ SumOf(S) \in Nat
         /\ SumOf(T) <= SumOf(S)
         /\ SumOf(T) = 0 <=> T = {}
<1> DEFINE R == S \ T
           f == [x \in T |-> x.amount]
<1>1. IsFiniteSet(T) /\ IsFiniteSet(R)
  BY FS_Subset
<1>2. T \cap R = {} /\ T \cup R = S /\ \A x \in T \cup R : x.amount \in Nat \ {0}
  OBVIOUS
<1> HIDE DEF R
<1>3. SumOf(T \cup R) = SumOf(T) + SumOf(R) /\ SumOf(T) \in Nat /\ SumOf(R) \in Nat
  BY <1>1, <1>2, SumOfJoins
<1>4. SumOf(T \cup R) = SumOf(S)
  BY <1>2, Zenon
<1>5. SumOf(T) = SumFunctionOnSet(f, T)
  BY <1>1, SumOfIs
<1>6. \A x \in T : f[x] \in Nat \ {0}
  OBVIOUS
<1> HIDE DEF f
<1>7. ASSUME SumOf(T) = 0 PROVE T = {}
  BY <1>1, <1>5, <1>6, <1>7, SumOfPositives
<1>8. ASSUME T = {} PROVE SumOf(T) = 0
  <2>1. SumFunctionOnSet(f, T) = SumFunctionOnSet(f, {})
    BY <1>8, Zenon
  <2> QED
    BY <1>5, <2>1, SumOfNone
<1> QED
  BY <1>1, <1>3, <1>4, <1>7, <1>8

(* One row's amount is its own sum.                                        *)
LEMMA SumOfSingle ==
  ASSUME NEW x, x.amount \in Int
  PROVE  SumOf({x}) = x.amount
<1> DEFINE f == [y \in {x} |-> y.amount]
<1>1. IsFiniteSet({x})
  BY FS_Singleton
<1>2. SumOf({x}) = SumFunctionOnSet(f, {x})
  BY <1>1, SumOfIs
<1>3. f[x] = x.amount
  OBVIOUS
<1> HIDE DEF f
<1> QED
  BY <1>2, <1>3, SumOfOne

(* What standing collections pay of invoice i.                             *)
Paying(i, apps, ds) == {x \in Standing(apps, ds) : x.invoice = i}

(* What is collected on an invoice is never negative.                      *)
LEMMA CollectedIsNat ==
  ASSUME AppliedTypes, NEW i \in Invoice
  PROVE  /\ Paying(i, applied, docs) \subseteq applied
         /\ IsFiniteSet(Paying(i, applied, docs))
         /\ Collected(i, applied, docs) \in Nat
         /\ Collected(i, applied, docs) = SumOf(Paying(i, applied, docs))
         /\ Remaining(i) \in Int /\ Total[i] \in Nat
<1>1. IsFiniteSet(applied) /\ \A x \in applied : x.amount \in Nat \ {0}
  BY DEF AppliedTypes, Application
<1>2. Paying(i, applied, docs) \subseteq applied
  BY DEF Paying, Standing
<1>3. SumOf(Paying(i, applied, docs)) \in Nat /\ IsFiniteSet(Paying(i, applied, docs))
  BY <1>1, <1>2, SumOfWithin
<1>4. Collected(i, applied, docs) = SumOf(Paying(i, applied, docs))
  BY DEF Collected, Paying
<1>5. Total[i] \in Nat
  BY InvoiceAssumption
<1> QED
  BY <1>2, <1>3, <1>4, <1>5 DEF Remaining

(* A share of a collection for each of some invoices.                      *)
SharesOf(d, shares) ==
  /\ IsFiniteSet(shares)
  /\ shares \subseteq [doc : {d}, invoice : Invoice, amount : Nat \ {0}]
  /\ \A x, y \in shares : x.invoice = y.invoice => x = y

(* No shares are shares.                                                   *)
LEMMA NoShares == \A d : SharesOf(d, {})
  BY FS_EmptySet DEF SharesOf

(* One share of a collection is shares of it.                              *)
LEMMA OneShare ==
  ASSUME NEW d, NEW i \in Invoice, NEW amount \in Nat \ {0}
  PROVE  SharesOf(d, {[doc |-> d, invoice |-> i, amount |-> amount]})
<1> DEFINE share == [doc |-> d, invoice |-> i, amount |-> amount]
<1>1. share \in [doc : {d}, invoice : Invoice, amount : Nat \ {0}]
  OBVIOUS
<1> HIDE DEF share
<1>2. IsFiniteSet({share})
  BY FS_Singleton
<1>3. SharesOf(d, {share})
  BY <1>1, <1>2 DEF SharesOf
<1> QED
  BY <1>3 DEF share

(* What a form may name are shares.                                        *)
LEMMA SharesAre ==
  ASSUME NEW d, NEW shares \in Shares(d)
  PROVE  SharesOf(d, shares)
<1>1. PICK is \in SUBSET Invoice : \E f \in [is -> Parts] :
        shares = {[doc |-> d, invoice |-> i, amount |-> f[i]] : i \in is}
  BY DEF Shares
<1>2. PICK f \in [is -> Parts] :
        shares = {[doc |-> d, invoice |-> i, amount |-> f[i]] : i \in is}
  BY <1>1
<1> DEFINE share == [i \in is |-> [doc |-> d, invoice |-> i, amount |-> f[i]]]
<1>3. IsFiniteSet(is)
  BY FiniteAssumption, FS_Subset
<1>4. share \in Surjection(is, shares)
  BY <1>2 DEF Surjection
<1>5. IsFiniteSet(shares)
  BY <1>3, <1>4, FS_Surjection
<1>6. \A i \in is : f[i] \in Nat \ {0}
  BY BoundsAssumption
<1> QED
  BY <1>2, <1>5, <1>6 DEF SharesOf

-----------------------------------------------------------------------------
(* What a step writes                                                      *)

WithDoc(d, kind, legs, amount, day) ==
  [x \in DocIds \cup {d} |->
     IF x = d THEN [kind |-> kind, legs |-> legs, amount |-> amount, date |-> day,
                    cancelled |-> FALSE]
     ELSE docs[x]]

(* A document and its movements.                                           *)
Entered(d, kind, legs, amount, day) ==
  /\ d \in Document \ DocIds
  /\ kind \in DocKinds /\ Formed(kind, legs) /\ amount \in Nat \ {0} /\ day \in Days
  /\ docs' = WithDoc(d, kind, legs, amount, day)
  /\ moves' = moves \cup Entries(d, legs, amount, day, kind)

(* And, of a collection, what it pays of which invoices.                   *)
Allots(d, kind, legs, amount, shares) ==
  /\ SharesOf(d, shares)
  /\ shares # {} => kind = "collection" /\ MayApply(legs[1].account, shares, amount)
  /\ applied' = applied \cup shares
  /\ invoice' = SyncAll(InvoicesOf(shares), applied', docs')

(* A document not yet recorded has no movement.                            *)
LEMMA NewDocHasNone ==
  ASSUME Types, NEW d \in Document \ DocIds
  PROVE  MovesOf(d) = {} /\ Cardinality(MovesOf(d)) = 0
<1>1. MovesOf(d) = {}
  BY InvoiceAssumption DEF Types, MoveTypes, MovesOf
<1> QED
  BY <1>1, MovesFinite DEF Types

(* record writes the document and what its legs post.                      *)
LEMMA RecordEnters ==
  ASSUME Types, NEW d \in Document, NEW kind, NEW legs, NEW amount \in Nat \ {0},
         NEW day \in Days, Formed(kind, legs), Record(d, kind, legs, amount, day)
  PROVE  Entered(d, kind, legs, amount, day)
<1>1. d \notin DocIds /\ kind \in DocKinds
  BY BoundsAssumption DEF Record
<1>2. \A k \in DOMAIN legs : k \in Nat
  BY FormedLegs
<1>3. Cardinality(MovesOf(d)) = 0
  BY <1>1, NewDocHasNone
<1>4. \A k \in DOMAIN legs : Cardinality(MovesOf(d)) + k = k
  BY <1>2, <1>3
<1>5. moves' = moves \cup {Movement(d, Cardinality(MovesOf(d)) + k, legs[k], amount, day, kind) :
                             k \in DOMAIN legs}
  BY DEF Record, Post
<1>6. moves' = moves \cup Entries(d, legs, amount, day, kind)
  BY <1>4, <1>5 DEF Entries
<1> QED
  BY <1>1, <1>6 DEF Record, Entered, WithDoc

(* record_collection enters the collection and allots its shares.          *)
LEMMA CollectionEnters ==
  ASSUME Types, NEW d \in Document, NEW a \in Account, NEW c \in CashAccount,
         NEW amount \in Nat \ {0}, NEW day \in Days, NEW shares, SharesOf(d, shares),
         RecordCollection(d, a, c, amount, day, shares)
  PROVE  \E legs : /\ Entered(d, "collection", legs, amount, day)
                   /\ Allots(d, "collection", legs, amount, shares)
<1> DEFINE legs == <<OnBoth(a, -1, c, 1)>>
<1>1. Formed("collection", legs)
  BY DEF Formed
<1>2. Entered(d, "collection", legs, amount, day)
  BY <1>1, RecordEnters DEF RecordCollection
<1>3. legs[1].account = a
  BY DEF OnBoth
<1>4. Allots(d, "collection", legs, amount, shares)
  BY <1>3 DEF Allots, RecordCollection
<1> QED
  BY <1>2, <1>4

(* A document that pays no invoice.                                        *)
LEMMA NothingAllotted ==
  ASSUME Types, UNCHANGED <<applied, invoice>>, NEW d, NEW kind, NEW legs, NEW amount
  PROVE  Allots(d, kind, legs, amount, {})
<1>1. InvoicesOf({}) = {}
  BY DEF InvoicesOf
<1>2. invoice = [i \in Invoice |-> invoice[i]]
  BY DEF Types, InvoiceTypes
<1>3. SyncAll({}, applied', docs') = invoice
  BY <1>2 DEF SyncAll
<1> QED
  BY <1>1, <1>3, NoShares DEF Allots

(* Whatever its kind, a document is entered and its shares allotted.       *)
LEMMA RecordDocumentEnters ==
  ASSUME Types, NEW d \in Document, NEW day \in Days, RecordDocument(d, day)
  PROVE  \E kind, legs, amount, shares :
           Entered(d, kind, legs, amount, day) /\ Allots(d, kind, legs, amount, shares)
<1> Amounts \subseteq Nat \ {0}
  BY BoundsAssumption
<1>1. CASE \E i \in Invoice, c \in CashAccount : MarkPaid(d, i, c, day)
  <2>1. PICK i \in Invoice, c \in CashAccount : MarkPaid(d, i, c, day)
    BY <1>1
  <2>2. Remaining(i) \in Nat \ {0}
    BY <2>1, CollectedIsNat DEF MarkPaid, Types
  <2>3. SharesOf(d, {[doc |-> d, invoice |-> i, amount |-> Remaining(i)]})
    BY <2>2, OneShare
  <2>4. AccountOf[i] \in Account
    BY InvoiceAssumption
  <2> QED
    BY <2>1, <2>2, <2>3, <2>4, CollectionEnters DEF MarkPaid
<1>2. CASE \E amount \in Amounts, a \in Account, c \in CashAccount, shares \in Shares(d) :
             RecordCollection(d, a, c, amount, day, shares)
  BY <1>2, SharesAre, CollectionEnters
<1>3. ASSUME NEW kind, NEW legs, NEW amount \in Amounts, Formed(kind, legs),
             Record(d, kind, legs, amount, day), UNCHANGED <<applied, invoice>>
      PROVE  \E shares :
               Entered(d, kind, legs, amount, day) /\ Allots(d, kind, legs, amount, shares)
  BY <1>3, RecordEnters, NothingAllotted
<1>4. CASE \E amount \in Amounts, a \in Account, c \in CashAccount :
             RecordPaymentOut(d, a, c, amount, day)
  <2>1. \A a \in Account, c \in CashAccount : Formed("payment_out", <<OnBoth(a, 1, c, -1)>>)
    BY DEF Formed
  <2> QED
    BY <1>3, <1>4, <2>1 DEF RecordPaymentOut
<1>5. CASE \E amount \in Amounts, a \in Account, dir \in {-1, 1} :
             RecordManualEntry(d, a, dir, amount, day)
  <2>1. \A a \in Account, dir \in {-1, 1} : Formed("manual", <<OnAccount(a, dir)>>)
    BY DEF Formed
  <2> QED
    BY <1>3, <1>5, <2>1 DEF RecordManualEntry
<1>6. CASE \E amount \in Amounts, source, target \in Sides :
             RecordTransfer(d, source, target, amount, day)
  <2>1. \A s, t \in Account : Formed("transfer", <<OnAccount(s, -1), OnAccount(t, 1)>>)
    BY DEF Formed
  <2>2. \A s, t \in CashAccount : Formed("transfer", <<OnCash(s, -1), OnCash(t, 1)>>)
    BY DEF Formed
  <2> QED
    BY <1>3, <1>6, <2>1, <2>2 DEF RecordTransfer
<1>7. CASE \E amount \in Amounts, s \in Sides, dir \in {-1, 1} :
             RecordOpening(d, s, dir, amount, day)
  <2>1. \A s \in Sides, dir \in {-1, 1} :
          Formed("opening", <<IF s \in Account THEN OnAccount(s, dir) ELSE OnCash(s, dir)>>)
    BY DEF Formed, Sides
  <2> QED
    BY <1>3, <1>7, <2>1 DEF RecordOpening
<1> QED
  BY <1>1, <1>2, <1>4, <1>5, <1>6, <1>7 DEF RecordDocument

-----------------------------------------------------------------------------
(* Every step posts what it should                                         *)

SameStanding(i) ==
  \/ invoice'[i].status = invoice[i].status
  \/ {invoice[i].status, invoice'[i].status} \subseteq Payable

(* A document whose row and movements stay is still posted.                *)
LEMMA DocStays ==
  ASSUME NEW d, DocPosted(d), docs'[d] = docs[d], MovesOf(d)' = MovesOf(d)
  PROVE  DocPosted(d)'
<1>1. Undone(d)' <=> Undone(d)
  <2>1. \A m \in MovesOf(d) : m.doc = d
    BY DEF MovesOf
  <2>2. \A m \in MovesOf(d) : Reversed(m)' <=> Reversed(m)
    BY <2>1 DEF Reversed
  <2> QED
    BY <2>2 DEF Undone, IsMirror
<1> QED
  BY <1>1 DEF DocPosted

(* An invoice whose standing and movements stay is still posted.           *)
LEMMA InvoiceStays ==
  ASSUME NEW i, InvoicePosted(i), MovesOf(i)' = MovesOf(i), SameStanding(i),
         i \in uncarried => i \in uncarried'
  PROVE  InvoicePosted(i)'
<1>1. CASE invoice'[i].status = invoice[i].status
  BY <1>1 DEF InvoicePosted
<1>2. CASE {invoice[i].status, invoice'[i].status} \subseteq Payable
  <2>1. /\ invoice[i].status \in Payable /\ invoice'[i].status \in Payable
        /\ "draft" \notin Payable /\ "cancelled" \notin Payable
    BY <1>2 DEF Payable
  <2> QED
    BY <2>1 DEF InvoicePosted
<1> QED
  BY <1>1, <1>2 DEF SameStanding

(* New movements are of their own documents.                               *)
LEMMA MovesAdd ==
  ASSUME NEW new, moves' = moves \cup new, NEW x
  PROVE  MovesOf(x)' = MovesOf(x) \cup {m \in new : m.doc = x}
  BY DEF MovesOf

(* Movements of the right types keep them all so.                          *)
LEMMA MoveTypesAdd ==
  ASSUME MoveTypes, NEW new, moves' = moves \cup new, IsFiniteSet(new),
         new \subseteq MovementType, DocIds \subseteq DocIds',
         \A m \in new : m.doc \in DocIds' \cup Invoice
  PROVE  MoveTypes'
  BY FS_Union DEF MoveTypes

(* The row of a new document.                                              *)
LEMMA RowEntered ==
  ASSUME Types, NEW d \in Document \ DocIds, NEW kind \in DocKinds, NEW legs, Formed(kind, legs),
         NEW amount \in Nat \ {0}, NEW day \in Days,
         docs' = WithDoc(d, kind, legs, amount, day)
  PROVE  /\ DocTypes' /\ DocIds' = DocIds \cup {d}
         /\ \A x \in DocIds : x # d /\ docs'[x] = docs[x]
         /\ docs'[d].kind = kind /\ docs'[d].legs = legs /\ docs'[d].amount = amount
         /\ docs'[d].date = day /\ docs'[d].cancelled = FALSE
<1>1. DocTypes
  BY DEF Types
<1>2. DocIds' = DocIds \cup {d} /\ IsFiniteSet(DocIds \cup {d})
  BY <1>1, FS_AddElement DEF DocIds, DocTypes, WithDoc
<1>3. legs \in Seq(Leg)
  BY FormedLegs
<1>4. [kind |-> kind, legs |-> legs, amount |-> amount, date |-> day, cancelled |-> FALSE] \in DocRow
  BY <1>3 DEF DocRow
<1>5. docs' \in [DocIds' -> DocRow]
  BY <1>1, <1>2, <1>4 DEF DocTypes, WithDoc
<1>6. /\ \A x \in DocIds : x # d /\ docs'[x] = docs[x]
      /\ docs'[d].kind = kind /\ docs'[d].legs = legs /\ docs'[d].amount = amount
      /\ docs'[d].date = day /\ docs'[d].cancelled = FALSE
  BY DEF WithDoc
<1>7. \A x \in DocIds' : Formed(docs'[x].kind, docs'[x].legs)
  <2> TAKE x \in DocIds'
  <2>1. CASE x = d
    BY <1>6, <2>1
  <2>2. CASE x # d
    BY <1>1, <1>2, <1>6, <2>2 DEF DocTypes
  <2> QED
    BY <2>1, <2>2
<1> QED
  BY <1>1, <1>2, <1>5, <1>6, <1>7 DEF DocTypes

(* What post writes for a document are movements of it.                    *)
LEMMA EntriesAreMoves ==
  ASSUME NEW d \in Document, NEW kind \in DocKinds, NEW legs, Formed(kind, legs),
         NEW amount \in Nat \ {0}, NEW day \in Days
  PROVE  /\ Entries(d, legs, amount, day, kind) \subseteq MovementType
         /\ IsFiniteSet(Entries(d, legs, amount, day, kind))
         /\ \A m \in Entries(d, legs, amount, day, kind) : m.doc = d
<1>1. \A k \in DOMAIN legs : k \in Nat \ {0} /\ legs[k] \in Leg
  BY FormedLegs
<1>2. ASSUME NEW k \in DOMAIN legs
      PROVE  /\ Movement(d, k, legs[k], amount, day, kind) \in MovementType
             /\ Movement(d, k, legs[k], amount, day, kind).doc = d
  BY <1>1 DEF Movement, MovementType, Leg
<1>3. Entries(d, legs, amount, day, kind) \subseteq MovementType
  BY <1>2 DEF Entries
<1>4. IsFiniteSet(Entries(d, legs, amount, day, kind))
  BY <1>3, FormedLegs, EntriesBring
<1> QED
  BY <1>2, <1>3, <1>4 DEF Entries

(* A new document, with the debits `carried` the carry-over posts with it. *)
LEMMA EnteringPosts ==
  ASSUME Types, Posted, NEW d \in Document \ DocIds, NEW kind \in DocKinds, NEW legs,
         Formed(kind, legs), NEW amount \in Nat \ {0}, NEW day \in Days,
         docs' = WithDoc(d, kind, legs, amount, day),
         NEW carried \in SUBSET MovementType, IsFiniteSet(carried),
         \A m \in carried : m.doc \in Invoice,
         moves' = moves \cup (carried \cup Entries(d, legs, amount, day, kind))
  PROVE  /\ DocTypes' /\ MoveTypes'
         /\ \A x \in DocIds' : DocPosted(x)'
         /\ \A i \in Invoice : MovesOf(i)' = MovesOf(i) \cup {m \in carried : m.doc = i}
<1> DEFINE entries == Entries(d, legs, amount, day, kind)
           new == carried \cup entries
<1>1. /\ DocTypes' /\ DocIds' = DocIds \cup {d}
      /\ \A x \in DocIds : x # d /\ docs'[x] = docs[x]
      /\ docs'[d].kind = kind /\ docs'[d].legs = legs /\ docs'[d].amount = amount
      /\ docs'[d].date = day /\ docs'[d].cancelled = FALSE
  BY RowEntered
<1>2. entries \subseteq MovementType /\ IsFiniteSet(entries) /\ \A m \in entries : m.doc = d
  BY EntriesAreMoves
<1>3. Document \cap Invoice = {} /\ DocIds \subseteq Document
  BY InvoiceAssumption DEF Types, DocTypes
<1> HIDE DEF entries
<1>4. IsFiniteSet(new) /\ new \subseteq MovementType /\ \A m \in new : m.doc \in DocIds' \cup Invoice
  BY <1>1, <1>2, FS_Union
<1>5. moves' = moves \cup new
  BY DEF entries
<1>6. MoveTypes'
  BY <1>1, <1>4, <1>5, MoveTypesAdd DEF Types
<1>7. ASSUME NEW x PROVE MovesOf(x)' = MovesOf(x) \cup {m \in new : m.doc = x}
  BY <1>5, MovesAdd
<1>8. ASSUME NEW x \in DocIds PROVE DocPosted(x)'
  <2>1. {m \in new : m.doc = x} = {}
    BY <1>1, <1>2, <1>3
  <2>2. MovesOf(x)' = MovesOf(x)
    BY <1>7, <2>1
  <2> QED
    BY <1>1, <2>2, DocStays DEF Posted
<1>9. DocPosted(d)'
  <2>1. MovesOf(d) = {}
    BY NewDocHasNone
  <2>2. {m \in new : m.doc = d} = entries
    BY <1>2, <1>3
  <2>3. MovesOf(d)' = entries
    BY <1>7, <2>1, <2>2
  <2> QED
    BY <1>1, <2>3 DEF DocPosted, entries
<1>10. ASSUME NEW i \in Invoice PROVE MovesOf(i)' = MovesOf(i) \cup {m \in carried : m.doc = i}
  <2>1. {m \in new : m.doc = i} = {m \in carried : m.doc = i}
    BY <1>2, <1>3
  <2> QED
    BY <1>7, <2>1
<1> QED
  BY <1>1, <1>6, <1>8, <1>9, <1>10

(* Reversing a document or an invoice whose movements were all posted once *)
(* leaves nothing on any side.                                             *)
LEMMA ReversalUndoes ==
  ASSUME Types, NEW x \in DocIds \cup Invoice, NEW source \in {"reversal", "invoice_cancel"},
         \A m \in MovesOf(x) : m.reverses = 0,
         \A m, n \in MovesOf(x) : m.no = n.no => m = n,
         ReverseDocument(x, source), DocIds \subseteq DocIds'
  PROVE  /\ MoveTypes'
         /\ \A y : y # x => MovesOf(y)' = MovesOf(y)
         /\ MovesOf(x)' = MovesOf(x) \cup Mirrors(MovesOf(x), source)
         /\ \A P : Held(MovesOf(x)', P) = 0
<1> DEFINE mirrors == Mirrors(MovesOf(x), source)
<1>1. MoveTypes /\ today \in Days
  BY DEF Types, ClockTypes
<1>2. MovesOf(x) \subseteq MovementType /\ IsFiniteSet(MovesOf(x))
  BY <1>1, MovesFinite
<1>3. \A m \in MovesOf(x) : m.no # 0 /\ m.doc = x
  BY <1>2 DEF MovementType, MovesOf
<1>4. Unreversed(x) = MovesOf(x)
  BY <1>3 DEF Unreversed, OriginalsOf, Reversed
<1>5. moves' = moves \cup mirrors
  BY <1>4 DEF ReverseDocument, Mirrors
<1>6. /\ IsFiniteSet(mirrors) /\ mirrors \subseteq MovementType
      /\ \A m \in mirrors : m.doc = x /\ m.reverses # 0
      /\ \A P : Held(mirrors, P) = -Held(MovesOf(x), P)
  <2> DEFINE ms == MovesOf(x)
  <2>1. ms \in SUBSET MovesOf(x) /\ \A m, n \in ms : m.no = n.no => m = n
    OBVIOUS
  <2> HIDE DEF ms
  <2>2. /\ IsFiniteSet(Mirrors(ms, source)) /\ Mirrors(ms, source) \subseteq MovementType
        /\ \A m \in Mirrors(ms, source) : m.doc = x /\ m.reverses # 0
        /\ \A P : Held(Mirrors(ms, source), P) = -Held(ms, P)
    BY <1>1, <2>1, MirrorsUndo
  <2> QED
    BY <2>2 DEF ms
<1> HIDE DEF mirrors
<1>7. MoveTypes'
  BY <1>1, <1>5, <1>6, MoveTypesAdd
<1>8. ASSUME NEW y PROVE MovesOf(y)' = MovesOf(y) \cup {m \in mirrors : m.doc = y}
  BY <1>5, MovesAdd
<1>9. ASSUME NEW y, y # x PROVE MovesOf(y)' = MovesOf(y)
  <2>1. {m \in mirrors : m.doc = y} = {}
    BY <1>6, <1>9
  <2> QED
    BY <1>8, <2>1
<1>10. MovesOf(x)' = MovesOf(x) \cup mirrors
  <2>1. {m \in mirrors : m.doc = x} = mirrors
    BY <1>6
  <2> QED
    BY <1>8, <2>1
<1>11. ASSUME NEW P PROVE Held(MovesOf(x)', P) = 0
  <2>1. MovesOf(x) \cap mirrors = {}
    BY <1>6
  <2>2. Held(MovesOf(x) \cup mirrors, P) = Held(MovesOf(x), P) + Held(mirrors, P)
    BY <1>2, <1>6, <2>1, HeldJoins
  <2>3. Held(MovesOf(x), P) \in Int
    BY <1>2, HeldIsInt
  <2>4. Held(MovesOf(x)', P) = Held(MovesOf(x) \cup mirrors, P)
    BY <1>10, Zenon
  <2> QED
    BY <1>6, <2>2, <2>3, <2>4
<1> QED
  BY <1>7, <1>9, <1>10, <1>11 DEF mirrors

(* A document numbers the movements it posts from one on.                  *)
LEMMA EntriesCounted ==
  ASSUME NEW d, NEW kind, NEW legs, Formed(kind, legs), NEW amount, NEW day, NEW source,
         IsFiniteSet(Entries(d, legs, amount, day, source))
  PROVE  \A m \in Entries(d, legs, amount, day, source) :
           m.no \in Nat \ {0} /\ m.no <= Cardinality(Entries(d, legs, amount, day, source))
<1> DEFINE entries == Entries(d, legs, amount, day, source)
           entry(k) == Movement(d, k, legs[k], amount, day, source)
<1>1. entries = {entry(k) : k \in DOMAIN legs} /\ \A k : entry(k).no = k
  BY DEF Entries, Movement
<1>2. Cardinality(entries) \in Nat
  BY FS_CardinalityType
<1> HIDE DEF entries, entry
<1>3. CASE DOMAIN legs = {1}
  <2>1. entries # {}
    BY <1>1, <1>3
  <2>2. Cardinality(entries) # 0
    BY <2>1, FS_EmptySet DEF entries
  <2> QED
    BY <1>1, <1>2, <1>3, <2>2 DEF entries
<1>4. CASE DOMAIN legs = {1, 2}
  <2>1. entry(1) \in entries /\ entry(2) \in entries /\ entry(1) # entry(2)
    BY <1>1, <1>4
  <2>2. Cardinality(entries) # 0 /\ Cardinality(entries) # 1
    BY <2>1, FS_EmptySet, FS_Singleton DEF entries
  <2> QED
    BY <1>1, <1>2, <1>4, <2>2 DEF entries
<1> QED
  BY <1>3, <1>4, FormedLegs

(* What a mirror keeps of what it reverses, and what it does not.          *)
LEMMA MirrorIs ==
  ASSUME NEW m \in MovementType, NEW source
  PROVE  LET n == Mirror(m, source)
         IN  /\ n.no = m.no + Cardinality(MovesOf(m.doc)) /\ n.reverses = m.no
             /\ n.date = today /\ n.source = source /\ n.cash = m.cash
  BY DEF Mirror, MovementType

(* Cancelling document d leaves its movements undone.                      *)
LEMMA MirroredIsUndone ==
  ASSUME Types, NEW d \in DocIds, docs'[d].kind = docs[d].kind,
         MovesOf(d) = Entries(d, docs[d].legs, docs[d].amount, docs[d].date, docs[d].kind),
         MovesOf(d)' = MovesOf(d) \cup Mirrors(MovesOf(d), "reversal")
  PROVE  Undone(d)'
<1> DEFINE made == MovesOf(d)
           now == MovesOf(d)'
           size == Cardinality(made)
<1>1. Formed(docs[d].kind, docs[d].legs) /\ docs[d].date \in Days /\ today \in Days
  BY DEF Types, DocTypes, DocRow, ClockTypes
<1>2. IsFiniteSet(made) /\ made \subseteq MovementType /\ size \in Nat
  BY MovesFinite DEF Types
<1>3. \A m \in made : m.no \in Nat \ {0} /\ m.no <= size
  BY <1>1, <1>2, EntriesCounted
<1>4. \A m \in made : /\ m.doc = d /\ m.reverses = 0
                      /\ m.source = docs[d].kind /\ m.date = docs[d].date
  BY DEF Entries, Movement
<1>5. ASSUME NEW m \in made
      PROVE  LET n == Mirror(m, "reversal")
             IN  /\ n.no = m.no + size /\ n.reverses = m.no
                 /\ n.date = today /\ n.source = "reversal"
  BY <1>2, <1>4, MirrorIs
<1>6. now = made \cup {Mirror(m, "reversal") : m \in made}
  BY DEF Mirrors
<1>7. ASSUME NEW m \in now
      PROVE  \/ m \in made
             \/ \E n \in made : /\ m.no = n.no + size /\ m.reverses = n.no
                               /\ m.date = today /\ m.source = "reversal"
  BY <1>5, <1>6
<1>8. \A m \in made : m \in now /\ \E n \in now : n.reverses = m.no
  BY <1>5, <1>6
<1> HIDE DEF made, now, size
<1>9. \A m, n \in now : n.reverses = m.no => m.reverses = 0
  <2> SUFFICES ASSUME NEW m \in now, NEW n \in now, n.reverses = m.no PROVE m.reverses = 0
    OBVIOUS
  <2>1. n.reverses <= size /\ n.reverses \in Nat
    BY <1>2, <1>3, <1>4, <1>7
  <2>2. CASE m \in made
    BY <1>4, <2>2
  <2>3. ASSUME NEW o \in made, m.no = o.no + size PROVE FALSE
    BY <1>2, <1>3, <2>1, <2>3
  <2> QED
    BY <1>7, <2>2, <2>3
<1>10. ASSUME NEW m \in now
       PROVE  IF m.reverses # 0
              THEN m.source = "reversal" /\ \E n \in now : n.no = m.reverses
              ELSE m.source = docs[d].kind /\ \E n \in now : n.reverses = m.no
  BY <1>3, <1>4, <1>7, <1>8
<1>11. \A m \in now : m.date = IF m.reverses # 0 THEN today ELSE docs[d].date
  BY <1>3, <1>4, <1>7
<1>12. \A m \in now : m.doc = d
  BY DEF now, MovesOf
<1>13. \A m \in now : Reversed(m)' <=> \E n \in now : n.reverses = m.no
  BY <1>12 DEF Reversed, now
<1> QED
  BY <1>1, <1>9, <1>10, <1>11, <1>13 DEF Undone, IsMirror, now

(* cancel_document leaves that document's movements undone, and the        *)
(* others' alone.                                                          *)
LEMMA CancelPosts ==
  ASSUME Types, Posted, NEW d \in DocIds, Cancel(d)
  PROVE  /\ DocTypes' /\ MoveTypes' /\ DocIds' = DocIds
         /\ \A x \in DocIds : DocPosted(x)'
         /\ \A i \in Invoice : MovesOf(i)' = MovesOf(i)
         /\ docs'[d].cancelled /\ docs'[d].kind = docs[d].kind /\ docs'[d].legs = docs[d].legs
         /\ docs'[d].amount = docs[d].amount /\ docs'[d].date = docs[d].date
         /\ \A x \in DocIds \ {d} : docs'[x] = docs[x]
<1>1. ~docs[d].cancelled /\ ReverseDocument(d, "reversal")
      /\ docs' = [docs EXCEPT ![d].cancelled = TRUE]
  BY DEF Cancel
<1>2. docs \in [DocIds -> DocRow] /\ DocTypes
  BY DEF Types, DocTypes
<1>3. /\ DocIds' = DocIds
      /\ docs'[d].cancelled /\ docs'[d].kind = docs[d].kind /\ docs'[d].legs = docs[d].legs
      /\ docs'[d].amount = docs[d].amount /\ docs'[d].date = docs[d].date
      /\ \A x \in DocIds \ {d} : docs'[x] = docs[x]
      /\ docs' \in [DocIds -> DocRow]
  BY <1>1, <1>2 DEF DocIds, DocRow
<1>4. DocTypes'
  <2>1. \A x \in DocIds : docs'[x].kind = docs[x].kind /\ docs'[x].legs = docs[x].legs
    BY <1>3
  <2> QED
    BY <1>2, <1>3, <2>1 DEF DocTypes
<1>5. MovesOf(d) = Entries(d, docs[d].legs, docs[d].amount, docs[d].date, docs[d].kind)
  BY <1>1 DEF Posted, DocPosted
<1>6. /\ \A m \in MovesOf(d) : m.reverses = 0
      /\ \A m, n \in MovesOf(d) : m.no = n.no => m = n
  BY <1>5 DEF Entries, Movement
<1>7. /\ MoveTypes'
      /\ \A y : y # d => MovesOf(y)' = MovesOf(y)
      /\ MovesOf(d)' = MovesOf(d) \cup Mirrors(MovesOf(d), "reversal")
      /\ \A P : Held(MovesOf(d)', P) = 0
  BY <1>1, <1>3, <1>6, ReversalUndoes
<1>8. ASSUME NEW x \in DocIds PROVE DocPosted(x)'
  <2>1. CASE x = d
    <3>1. Undone(d)'
      BY <1>3, <1>5, <1>7, MirroredIsUndone
    <3> QED
      BY <1>3, <1>7, <2>1, <3>1 DEF DocPosted
  <2>2. CASE x # d
    <3>1. MovesOf(x)' = MovesOf(x)
      BY <1>7, <2>2
    <3>2. docs'[x] = docs[x] /\ DocPosted(x)
      BY <1>3, <2>2 DEF Posted
    <3> QED
      BY <3>1, <3>2, DocStays
  <2> QED
    BY <2>1, <2>2
<1>9. \A i \in Invoice : MovesOf(i)' = MovesOf(i)
  BY <1>2, <1>7, InvoiceAssumption DEF DocTypes
<1> QED
  BY <1>3, <1>4, <1>7, <1>8, <1>9

(* An invoice's debit is of no till.                                       *)
LEMMA DebitOfNoTill == \A i, day : DebitOf(i, day).cash = NoSide
  BY DEF DebitOf, Movement, OnAccount

(* reverse_invoice leaves that invoice's movements undone, and the         *)
(* others' alone.                                                          *)
LEMMA CancelInvoicePosts ==
  ASSUME Types, Posted, NEW i \in Invoice, CancelInvoice(i), UNCHANGED uncarried
  PROVE  /\ MoveTypes' /\ Posted'
         /\ \A j \in Invoice \ {i} : MovesOf(j)' = MovesOf(j)
<1>1. UNCHANGED docs /\ DocIds' = DocIds
  BY DEF CancelInvoice, DocIds
<1>2. /\ invoice'[i].status = "cancelled"
      /\ \A j \in Invoice \ {i} : invoice'[j] = invoice[j]
  BY DEF CancelInvoice, Types, InvoiceTypes, InvoiceRow
<1>3. /\ MoveTypes'
      /\ \A y : y # i => MovesOf(y)' = MovesOf(y)
      /\ \A m \in MovesOf(i)' : m.cash = NoSide
      /\ \A P \in SUBSET Sides : Held(MovesOf(i)', P) = 0
  <2>1. CASE UNCHANGED moves /\ MovesOf(i) = {}
    <3>1. \A y : MovesOf(y)' = MovesOf(y)
      BY <2>1 DEF MovesOf
    <3>2. MovesOf(i)' = {}
      BY <2>1, <3>1
    <3>3. \A P : Held(MovesOf(i)', P) = 0
      BY <3>2, HeldOfNone
    <3>4. MoveTypes'
      BY <1>1, <2>1 DEF Types, MoveTypes
    <3> QED
      BY <3>1, <3>2, <3>3, <3>4
  <2>2. CASE invoice[i].status \in Payable /\ MovesOf(i) # {}
    <3>1. PICK day \in Days : MovesOf(i) = {DebitOf(i, day)}
      BY <2>2 DEF Posted, InvoicePosted
    <3>2. DebitOf(i, day).reverses = 0 /\ DebitOf(i, day).cash = NoSide
      BY DEF DebitOf, Movement, OnAccount
    <3>3. ReverseDocument(i, "invoice_cancel")
      BY <2>2 DEF CancelInvoice, Payable
    <3>4. /\ MoveTypes'
          /\ \A y : y # i => MovesOf(y)' = MovesOf(y)
          /\ MovesOf(i)' = MovesOf(i) \cup Mirrors(MovesOf(i), "invoice_cancel")
          /\ \A P : Held(MovesOf(i)', P) = 0
      BY <1>1, <3>1, <3>2, <3>3, ReversalUndoes
    <3>5. MovesOf(i) \subseteq MovementType
      BY MovesFinite DEF Types
    <3>6. \A m \in Mirrors(MovesOf(i), "invoice_cancel") : m.cash = NoSide
      BY <3>1, <3>2, <3>5, MirrorIs DEF Mirrors
    <3> QED
      BY <3>1, <3>2, <3>4, <3>6
  <2>3. invoice[i].status = "draft" => UNCHANGED moves /\ MovesOf(i) = {}
    BY DEF Posted, InvoicePosted, CancelInvoice, Payable
  <2>4. invoice[i].status \in Payable /\ MovesOf(i) = {} => UNCHANGED moves
    BY DEF CancelInvoice, Payable
  <2>5. invoice[i].status \in {"draft"} \cup Payable
    BY DEF CancelInvoice
  <2> QED
    BY <2>1, <2>2, <2>3, <2>4, <2>5
<1>4. \A d \in DocIds' : DocPosted(d)'
  <2> TAKE d \in DocIds'
  <2>1. d # i /\ d \in DocIds
    BY <1>1, InvoiceAssumption DEF Types, DocTypes
  <2>2. MovesOf(d)' = MovesOf(d)
    BY <1>3, <2>1
  <2> QED
    BY <1>1, <2>1, <2>2, DocStays DEF Posted
<1>5. \A j \in Invoice : InvoicePosted(j)'
  <2> TAKE j \in Invoice
  <2>1. CASE j = i
    BY <1>2, <1>3, <2>1 DEF InvoicePosted, Payable
  <2>2. CASE j # i
    <3>1. MovesOf(j)' = MovesOf(j) /\ InvoicePosted(j) /\ SameStanding(j)
      BY <1>2, <1>3, <2>2 DEF Posted, SameStanding
    <3> QED
      BY <3>1, InvoiceStays
  <2> QED
    BY <2>1, <2>2
<1> QED
  BY <1>3, <1>4, <1>5 DEF Posted

-----------------------------------------------------------------------------
(* Invoices follow what is applied to them                                 *)

(* The latest of some days is one of them.                                 *)
LEMMA LatestIs ==
  ASSUME NEW D \in SUBSET Days, D # {}
  PROVE  Max(D) \in D /\ \A day \in D : day <= Max(D)
<1> DEFINE C == {T \in SUBSET D : T # {} => \E x \in T : \A y \in T : x >= y}
<1>1. D \subseteq Nat
  BY DaysAreNumbers
<1>2. IsFiniteSet(D)
  <2>1. IsFiniteSet(1..MaxDay)
    BY BoundsAssumption, FS_Interval
  <2> QED
    BY <2>1, FS_Subset DEF Days
<1>3. {} \in C
  OBVIOUS
<1>4. ASSUME NEW T \in SUBSET D, NEW a \in D \ T, T \in C PROVE T \cup {a} \in C
  <2>1. CASE T = {}
    BY <1>1, <2>1
  <2>2. CASE T # {}
    <3>1. PICK x \in T : \A y \in T : x >= y
      BY <1>4, <2>2
    <3>2. CASE a >= x
      <4>1. \A y \in T \cup {a} : a >= y
        BY <1>1, <3>1, <3>2
      <4> QED
        BY <4>1
    <3>3. CASE ~(a >= x)
      <4>1. \A y \in T \cup {a} : x >= y
        BY <1>1, <3>1, <3>3
      <4> QED
        BY <4>1
    <3> QED
      BY <3>2, <3>3
  <2> QED
    BY <2>1, <2>2
<1>5. D \in C
  <2> HIDE DEF C
  <2> QED
    BY <1>2, <1>3, <1>4, OneByOne
<1>6. \E x \in D : \A y \in D : x >= y
  BY <1>5
<1>7. Max(D) \in D /\ \A y \in D : Max(D) >= y
  BY <1>6 DEF Max
<1> QED
  BY <1>1, <1>7

(* rec reads paid exactly when `paying` covers invoice i.                  *)
CoveredBy(i, rec, paying, ds) ==
  /\ rec.status = "paid" <=> SumOf(paying) >= Total[i]
  /\ rec.status = "issued" => rec.paidOn = 0
  /\ rec.status = "paid" /\ Total[i] > 0 =>
       /\ \E x \in paying : ds[x.doc].date = rec.paidOn
       /\ \A x \in paying : ds[x.doc].date <= rec.paidOn

(* What PaidMeansCovered says of an invoice, in terms of its row and its   *)
(* applications, now and next.                                             *)
LEMMA PaidIsCovered ==
  ASSUME NEW i
  PROVE  /\ PaidMeansCovered(i) <=>
              (invoice[i].status \in Payable =>
                 CoveredBy(i, invoice[i], Paying(i, applied, docs), docs))
         /\ PaidMeansCovered(i)' <=>
              (invoice'[i].status \in Payable =>
                 CoveredBy(i, invoice'[i], Paying(i, applied', docs'), docs'))
<1>1. Paying(i, applied, docs) = {x \in applied : x.invoice = i /\ ~docs[x.doc].cancelled}
  BY DEF Paying, Standing
<1>2. Paying(i, applied', docs') = {x \in applied' : x.invoice = i /\ ~docs'[x.doc].cancelled}
  BY DEF Paying, Standing
<1>3. PaidMeansCovered(i) <=>
        (invoice[i].status \in Payable =>
           CoveredBy(i, invoice[i], {x \in applied : x.invoice = i /\ ~docs[x.doc].cancelled}, docs))
  BY DEF PaidMeansCovered, CoveredBy
<1>4. PaidMeansCovered(i)' <=>
        (invoice'[i].status \in Payable =>
           CoveredBy(i, invoice'[i],
                     {x \in applied' : x.invoice = i /\ ~docs'[x.doc].cancelled}, docs'))
  BY DEF PaidMeansCovered, CoveredBy
<1> QED
  BY <1>1, <1>2, <1>3, <1>4, Zenon

(* sync_invoice_status                                                     *)
LEMMA SyncedCovers ==
  ASSUME NEW i \in Invoice, NEW rec \in InvoiceRow, rec.status \in Payable => rec.date \in Days,
         NEW apps, IsFiniteSet(apps), NEW ds,
         \A x \in apps : x.amount \in Nat \ {0} /\ ds[x.doc].date \in Days
  PROVE  LET new == Synced(i, rec, apps, ds)
         IN  /\ new \in InvoiceRow /\ new.date = rec.date
             /\ rec.status \notin Payable => new = rec
             /\ rec.status \in Payable =>
                  new.status \in Payable /\ CoveredBy(i, new, Paying(i, apps, ds), ds)
<1> DEFINE new == Synced(i, rec, apps, ds)
           paying == Paying(i, apps, ds)
           dates == {ds[x.doc].date : x \in paying}
<1>1. Total[i] \in Nat
  BY InvoiceAssumption
<1>2. paying \subseteq apps
  BY DEF Paying, Standing
<1>3. IsFiniteSet(paying) /\ SumOf(paying) \in Nat /\ (SumOf(paying) = 0 <=> paying = {})
  BY <1>2, SumOfWithin
<1>4. Collected(i, apps, ds) = SumOf(paying)
  BY DEF Collected, Paying
<1>5. new = CASE rec.status \notin Payable -> rec
              [] rec.status \in Payable /\ Total[i] = 0 ->
                   [rec EXCEPT !.status = "paid", !.paidOn = rec.date]
              [] rec.status \in Payable /\ Total[i] > 0 /\ Collected(i, apps, ds) >= Total[i] ->
                   [rec EXCEPT !.status = "paid", !.paidOn = Max(dates)]
              [] OTHER -> [rec EXCEPT !.status = "issued", !.paidOn = 0]
  BY DEF Synced, Paying
<1>6. dates \in SUBSET Days
  BY <1>2
<1>7. "paid" \in Payable /\ "issued" \in Payable
  BY DEF Payable
<1> HIDE DEF new, paying
<1>8. CASE rec.status \notin Payable
  <2>1. new = rec
    BY <1>5, <1>8
  <2> QED
    BY <1>8, <2>1 DEF new
<1>9. CASE rec.status \in Payable /\ Total[i] = 0
  <2>1. new = [rec EXCEPT !.status = "paid", !.paidOn = rec.date]
    BY <1>5, <1>9
  <2>2. new \in InvoiceRow /\ new.date = rec.date /\ new.status = "paid"
    BY <1>9, <2>1 DEF InvoiceRow, Payable
  <2>3. CoveredBy(i, new, paying, ds)
    BY <1>3, <1>9, <2>2 DEF CoveredBy
  <2> QED
    BY <1>7, <1>9, <2>2, <2>3 DEF new, paying
<1>10. CASE rec.status \in Payable /\ Total[i] > 0 /\ SumOf(paying) >= Total[i]
  <2>1. new = [rec EXCEPT !.status = "paid", !.paidOn = Max(dates)]
    BY <1>4, <1>5, <1>10
  <2>2. paying # {}
    BY <1>1, <1>3, <1>10
  <2>3. Max(dates) \in dates /\ \A day \in dates : day <= Max(dates)
    <3>1. dates # {}
      BY <2>2
    <3> HIDE DEF dates
    <3> QED
      BY <1>6, <3>1, LatestIs
  <2>4. new \in InvoiceRow /\ new.date = rec.date /\ new.status = "paid" /\ new.paidOn = Max(dates)
    <3>1. Max(dates) \in Days
      BY <1>6, <2>3
    <3> HIDE DEF dates
    <3> QED
      BY <2>1, <3>1 DEF InvoiceRow, Payable
  <2>5. \E x \in paying : ds[x.doc].date = new.paidOn
    BY <2>3, <2>4
  <2>6. \A x \in paying : ds[x.doc].date <= new.paidOn
    BY <2>3, <2>4
  <2>7. CoveredBy(i, new, paying, ds)
    BY <1>10, <2>4, <2>5, <2>6 DEF CoveredBy
  <2> QED
    BY <1>7, <1>10, <2>4, <2>7 DEF new, paying
<1>11. CASE rec.status \in Payable /\ Total[i] > 0 /\ ~(SumOf(paying) >= Total[i])
  <2>1. new = [rec EXCEPT !.status = "issued", !.paidOn = 0]
    BY <1>4, <1>5, <1>11
  <2>2. new \in InvoiceRow /\ new.date = rec.date /\ new.status = "issued" /\ new.paidOn = 0
    BY <2>1 DEF InvoiceRow, Payable
  <2>3. CoveredBy(i, new, paying, ds)
    BY <1>11, <2>2 DEF CoveredBy
  <2> QED
    BY <1>7, <1>11, <2>2, <2>3 DEF new, paying
<1> QED
  BY <1>1, <1>8, <1>9, <1>10, <1>11

(* sync_invoice_status settles the invoices it is given, and writes no     *)
(* other.                                                                  *)
LEMMA SyncWrites ==
  ASSUME InvoiceTypes, DocTypes', AppliedTypes', NEW is \in SUBSET Invoice,
         invoice' = SyncAll(is, applied', docs')
  PROVE  /\ InvoiceTypes'
         /\ \A i \in Invoice : SameStanding(i)
         /\ \A i \in is : PaidMeansCovered(i)'
         /\ \A i \in Invoice \ is : invoice'[i] = invoice[i]
<1>1. IsFiniteSet(applied') /\ \A x \in applied' : x.amount \in Nat \ {0} /\ docs'[x.doc].date \in Days
  BY DEF AppliedTypes, Application, DocTypes, DocRow
<1>2. \A i \in Invoice : invoice[i] \in InvoiceRow /\ (invoice[i].status \in Payable => invoice[i].date \in Days)
  BY DEF InvoiceTypes
<1>3. /\ \A i \in is : invoice'[i] = Synced(i, invoice[i], applied', docs')
      /\ \A i \in Invoice \ is : invoice'[i] = invoice[i]
      /\ invoice' \in [Invoice -> {invoice'[i] : i \in Invoice}]
  BY DEF SyncAll
<1>4. ASSUME NEW i \in is
      PROVE  /\ invoice'[i] \in InvoiceRow /\ invoice'[i].date = invoice[i].date
             /\ invoice[i].status \notin Payable => invoice'[i] = invoice[i]
             /\ invoice[i].status \in Payable =>
                  /\ invoice'[i].status \in Payable
                  /\ CoveredBy(i, invoice'[i], Paying(i, applied', docs'), docs')
  BY <1>1, <1>2, <1>3, SyncedCovers
<1>5. \A i \in Invoice : invoice'[i] \in InvoiceRow /\ SameStanding(i) /\ invoice'[i].date = invoice[i].date
  BY <1>2, <1>3, <1>4 DEF SameStanding
<1>6. InvoiceTypes'
  <2>1. invoice' \in [Invoice -> InvoiceRow]
    BY <1>3, <1>5
  <2>2. \A i \in Invoice : invoice'[i].status \in Payable => invoice'[i].date \in Days
    BY <1>2, <1>3, <1>4
  <2> QED
    BY <2>1, <2>2 DEF InvoiceTypes
<1>7. \A i \in is : PaidMeansCovered(i)'
  BY <1>4, PaidIsCovered
<1> QED
  BY <1>3, <1>5, <1>6, <1>7

(* An invoice the step leaves alone stays settled.                         *)
LEMMA StaysSettled ==
  ASSUME NEW i, PaidMeansCovered(i) \/ Untouched(i), invoice'[i] = invoice[i],
         Paying(i, applied', docs') = Paying(i, applied, docs),
         \A x \in Paying(i, applied, docs) : docs'[x.doc].date = docs[x.doc].date,
         MovesOf(i)' = MovesOf(i), i \in uncarried => i \in uncarried',
         \A x \in applied' : x.invoice = i => x \in applied
  PROVE  PaidMeansCovered(i)' \/ Untouched(i)'
<1>1. CASE Untouched(i)
  BY <1>1 DEF Untouched
<1>2. CASE PaidMeansCovered(i)
  <2>1. CoveredBy(i, invoice[i], Paying(i, applied, docs), docs)
          => CoveredBy(i, invoice[i], Paying(i, applied, docs), docs')
    BY DEF CoveredBy
  <2>2. CoveredBy(i, invoice'[i], Paying(i, applied', docs'), docs')
          <=> CoveredBy(i, invoice[i], Paying(i, applied, docs), docs')
    BY Zenon
  <2> QED
    BY <1>2, <2>1, <2>2, PaidIsCovered
<1> QED
  BY <1>1, <1>2

(* Applying shares of collection d, and what that does to the invoices.    *)
Allocates(d, is, shares) ==
  /\ SharesOf(d, shares) /\ is \in SUBSET Invoice
  /\ shares \cap applied = {}
  /\ \A x \in shares : /\ x.invoice \in is
                       /\ invoice[x.invoice].status \in Payable
                       /\ docs'[d].legs[1].account = AccountOf[x.invoice]
                       /\ x.amount <= Remaining(x.invoice)
  /\ shares # {} => d \in DocIds' /\ docs'[d].kind = "collection" /\ ~docs'[d].cancelled
  /\ d \in DocIds' /\ (d \notin DocIds \/ shares # {}) =>
       SumOf(shares) + SumOf({x \in applied : x.doc = d}) <= docs'[d].amount
  /\ \A e \in DocIds : e \in DocIds' /\ docs'[e] = docs[e]
  /\ DocIds' \subseteq DocIds \cup {d}
  /\ applied' = applied \cup shares
  /\ invoice' = SyncAll(is, applied', docs')

(* What an allocation writes keeps every invoice within its total and      *)
(* settled.                                                                *)
LEMMA AllocationKeeps ==
  ASSUME Types, WellApplied, NeverOverApplied, Settled, DocTypes',
         NEW d, NEW is, NEW shares, Allocates(d, is, shares),
         \A i \in Invoice \ is : MovesOf(i)' = MovesOf(i) /\ (i \in uncarried => i \in uncarried')
  PROVE  /\ AppliedTypes' /\ InvoiceTypes' /\ WellApplied' /\ NeverOverApplied' /\ Settled'
         /\ \A i \in Invoice : SameStanding(i)
<1>1. /\ IsFiniteSet(applied) /\ IsFiniteSet(shares) /\ applied' = applied \cup shares
      /\ \A x \in applied : x.doc \in DocIds /\ x.invoice \in Invoice /\ x.amount \in Nat \ {0}
      /\ \A x \in shares : x.doc = d /\ x.invoice \in Invoice /\ x.amount \in Nat \ {0}
      /\ \A x \in applied : docs'[x.doc] = docs[x.doc]
      /\ is \in SUBSET Invoice
  BY DEF Allocates, SharesOf, Types, AppliedTypes, Application
<1>2. AppliedTypes'
  <2>1. applied' \subseteq Application'
    BY DEF Allocates, SharesOf, Types, AppliedTypes, Application
  <2> QED
    BY <1>1, <2>1, FS_Union DEF AppliedTypes
<1>3. /\ InvoiceTypes'
      /\ \A i \in Invoice : SameStanding(i)
      /\ \A i \in is : PaidMeansCovered(i)'
      /\ \A i \in Invoice \ is : invoice'[i] = invoice[i]
  BY <1>1, <1>2, SyncWrites DEF Types, Allocates
<1>4. WellApplied'
  <2> SUFFICES ASSUME NEW x \in applied'
               PROVE  /\ docs'[x.doc].kind = "collection"
                      /\ docs'[x.doc].legs[1].account = AccountOf[x.invoice]
                      /\ ~docs'[x.doc].cancelled => invoice'[x.invoice].status \in Payable
    BY DEF WellApplied
  <2>1. \A i \in Invoice : invoice[i].status \in Payable => invoice'[i].status \in Payable
    BY <1>3 DEF SameStanding
  <2>2. CASE x \in applied
    BY <1>1, <2>1, <2>2 DEF WellApplied
  <2>3. CASE x \in shares
    BY <1>1, <2>1, <2>3 DEF Allocates
  <2> QED
    BY <1>1, <2>2, <2>3
<1> DEFINE share(i) == {x \in shares : x.invoice = i}
<1>5. ASSUME NEW i \in Invoice
      PROVE  /\ Paying(i, applied', docs') = Paying(i, applied, docs) \cup share(i)
             /\ Paying(i, applied, docs) \subseteq applied
  BY <1>1 DEF Paying, Standing, Allocates
<1>6. \A i \in Invoice : Remaining(i)' >= 0
  <2> TAKE i \in Invoice
  <2> DEFINE paying == Paying(i, applied, docs)
  <2>1. /\ IsFiniteSet(paying) /\ Collected(i, applied, docs) = SumOf(paying)
        /\ SumOf(paying) \in Nat /\ Total[i] \in Nat
    BY CollectedIsNat DEF Types
  <2>2. Remaining(i) = Total[i] - SumOf(paying) /\ Remaining(i) >= 0
    BY <2>1 DEF Remaining, NeverOverApplied
  <2>3. Remaining(i)' = Total[i] - SumOf(paying \cup share(i))
    <3>1. Remaining(i)' = Total[i] - SumOf(Paying(i, applied', docs'))
      BY DEF Remaining, Collected, Paying
    <3>2. SumOf(Paying(i, applied', docs')) = SumOf(paying \cup share(i))
      BY <1>5, Zenon
    <3> QED
      BY <3>1, <3>2
  <2>4. CASE share(i) = {}
    <3>1. paying \cup share(i) = paying
      BY <2>4
    <3>2. SumOf(paying \cup share(i)) = SumOf(paying)
      BY <3>1, Zenon
    <3> QED
      BY <2>2, <2>3, <3>2
  <2>5. CASE share(i) # {}
    <3>1. PICK x \in shares : x.invoice = i
      BY <2>5
    <3>2. share(i) = {x}
      BY <3>1 DEF Allocates, SharesOf
    <3>3. x.amount <= Remaining(i) /\ x.amount \in Nat \ {0}
      BY <1>1, <3>1 DEF Allocates
    <3>4. SumOf({x}) = x.amount
      BY <3>3, SumOfSingle
    <3>5. paying \cap {x} = {} /\ IsFiniteSet({x}) /\ \A y \in paying \cup {x} : y.amount \in Nat \ {0}
      <4>1. IsFiniteSet({x}) /\ x \notin applied
        BY <3>1, FS_Singleton DEF Allocates
      <4>2. paying \subseteq applied
        BY <1>5
      <4> HIDE DEF paying
      <4> QED
        BY <1>1, <3>3, <4>1, <4>2
    <3> HIDE DEF paying
    <3>6. SumOf(paying \cup {x}) = SumOf(paying) + SumOf({x})
      BY <2>1, <3>5, SumOfJoins
    <3>7. SumOf(paying \cup share(i)) = SumOf(paying \cup {x})
      BY <3>2, Zenon
    <3> QED
      BY <2>1, <2>2, <2>3, <3>3, <3>4, <3>6, <3>7
  <2> QED
    BY <2>4, <2>5
<1>7. \A e \in LiveDocs("collection")' : Unallocated(e)' >= 0
  <2> TAKE e \in LiveDocs("collection")'
  <2>1. e \in DocIds' /\ docs'[e].kind = "collection" /\ ~docs'[e].cancelled
    BY DEF LiveDocs
  <2>2. Unallocated(e)' = docs'[e].amount - SumOf({x \in applied' : x.doc = e})
    BY DEF Unallocated
  <2>3. docs'[e].amount \in Nat
    BY <2>1 DEF DocTypes, DocRow
  <2> DEFINE before == {x \in applied : x.doc = e}
             after == {x \in applied' : x.doc = e}
  <2>4. IsFiniteSet(before) /\ SumOf(before) \in Nat
    BY <1>1, SumOfWithin
  <2>5. CASE e # d \/ (e \in DocIds /\ shares = {})
    <3>1. e \in DocIds /\ docs'[e] = docs[e]
      BY <2>1, <2>5 DEF Allocates
    <3>2. e \in LiveDocs("collection")
      BY <2>1, <3>1 DEF LiveDocs
    <3>3. after = before
      BY <1>1, <2>5
    <3>4. SumOf(after) = SumOf(before)
      BY <3>3, Zenon
    <3>5. docs[e].amount - SumOf(before) >= 0
      BY <3>2 DEF NeverOverApplied, Unallocated
    <3> HIDE DEF before, after
    <3> QED
      BY <2>2, <3>1, <3>4, <3>5 DEF after
  <2>6. CASE e = d /\ (e \notin DocIds \/ shares # {})
    <3>1. after = before \cup shares
      BY <1>1, <2>6
    <3>2. before \cap shares = {} /\ \A x \in before \cup shares : x.amount \in Nat \ {0}
      BY <1>1 DEF Allocates
    <3>3. SumOf(shares) + SumOf(before) <= docs'[e].amount
      BY <2>1, <2>6 DEF Allocates
    <3> HIDE DEF before
    <3>4. /\ SumOf(before \cup shares) = SumOf(before) + SumOf(shares)
          /\ SumOf(shares) \in Nat
      BY <1>1, <2>4, <3>2, SumOfJoins
    <3>5. SumOf(after) = SumOf(before \cup shares)
      BY <3>1, Zenon
    <3> QED
      BY <2>2, <2>3, <2>4, <3>3, <3>4, <3>5
  <2> QED
    BY <2>5, <2>6
<1>8. Settled'
  <2> SUFFICES ASSUME NEW i \in Invoice PROVE PaidMeansCovered(i)' \/ Untouched(i)'
    BY DEF Settled
  <2>1. CASE i \in is
    BY <1>3, <2>1
  <2>2. CASE i \notin is
    <3>1. share(i) = {}
      BY <2>2 DEF Allocates
    <3>2. Paying(i, applied', docs') = Paying(i, applied, docs)
      BY <1>5, <3>1
    <3>3. \A x \in Paying(i, applied, docs) : docs'[x.doc].date = docs[x.doc].date
      BY <1>1, <1>5
    <3>4. \A x \in applied' : x.invoice = i => x \in applied
      BY <1>1, <3>1
    <3>5. invoice'[i] = invoice[i] /\ MovesOf(i)' = MovesOf(i) /\ (i \in uncarried => i \in uncarried')
      BY <1>3, <2>2
    <3> QED
      BY <3>2, <3>3, <3>4, <3>5, StaysSettled DEF Settled
  <2> QED
    BY <2>1, <2>2
<1> QED
  BY <1>2, <1>3, <1>4, <1>6, <1>7, <1>8 DEF NeverOverApplied

(* Cancelling a collection, or any document, leaves its invoices owing.    *)
LEMMA CancelKeeps ==
  ASSUME Types, WellApplied, NeverOverApplied, Settled, DocTypes', NEW d \in DocIds, Cancel(d),
         DocIds' = DocIds, docs'[d].cancelled, docs'[d].kind = docs[d].kind,
         docs'[d].legs = docs[d].legs, \A x \in DocIds \ {d} : docs'[x] = docs[x],
         \A i \in Invoice : MovesOf(i)' = MovesOf(i), UNCHANGED uncarried
  PROVE  /\ AppliedTypes' /\ InvoiceTypes' /\ WellApplied' /\ NeverOverApplied' /\ Settled'
         /\ \A i \in Invoice : SameStanding(i)
<1> DEFINE is == {x.invoice : x \in {y \in applied : y.doc = d}}
<1>1. /\ IsFiniteSet(applied) /\ applied' = applied
      /\ \A x \in applied : x.doc \in DocIds /\ x.invoice \in Invoice /\ x.amount \in Nat \ {0}
  BY DEF Types, AppliedTypes, Application, Cancel
<1>2. AppliedTypes'
  BY <1>1 DEF Types, AppliedTypes, Application
<1>3. is \in SUBSET Invoice /\ invoice' = SyncAll(is, applied', docs')
  BY <1>1 DEF Cancel
<1>4. /\ InvoiceTypes'
      /\ \A i \in Invoice : SameStanding(i)
      /\ \A i \in is : PaidMeansCovered(i)'
      /\ \A i \in Invoice \ is : invoice'[i] = invoice[i]
  <2> HIDE DEF is
  <2> QED
    BY <1>2, <1>3, SyncWrites DEF Types
<1>5. WellApplied'
  <2> SUFFICES ASSUME NEW x \in applied
               PROVE  /\ docs'[x.doc].kind = "collection"
                      /\ docs'[x.doc].legs[1].account = AccountOf[x.invoice]
                      /\ ~docs'[x.doc].cancelled => invoice'[x.invoice].status \in Payable
    BY <1>1 DEF WellApplied
  <2>1. \A i \in Invoice : invoice[i].status \in Payable => invoice'[i].status \in Payable
    BY <1>4 DEF SameStanding
  <2>2. docs'[x.doc].kind = docs[x.doc].kind /\ docs'[x.doc].legs = docs[x.doc].legs
    BY <1>1
  <2>3. ~docs'[x.doc].cancelled => ~docs[x.doc].cancelled
    BY <1>1
  <2> QED
    BY <1>1, <2>1, <2>2, <2>3 DEF WellApplied
<1>6. ASSUME NEW i \in Invoice
      PROVE  /\ Paying(i, applied', docs') \subseteq Paying(i, applied, docs)
             /\ i \notin is => Paying(i, applied', docs') = Paying(i, applied, docs)
  <2>1. \A x \in applied : x.doc # d => docs'[x.doc] = docs[x.doc]
    BY <1>1
  <2> QED
    BY <1>1, <2>1 DEF Paying, Standing
<1>7. \A i \in Invoice : Remaining(i)' >= 0
  <2> TAKE i \in Invoice
  <2> DEFINE before == Paying(i, applied, docs)
             after == Paying(i, applied', docs')
  <2>1. /\ IsFiniteSet(before) /\ Collected(i, applied, docs) = SumOf(before)
        /\ before \subseteq applied /\ Total[i] \in Nat
    BY CollectedIsNat DEF Types
  <2>2. Remaining(i)' = Total[i] - SumOf(after)
    BY DEF Remaining, Collected, Paying
  <2>3. after \in SUBSET before /\ \A x \in before : x.amount \in Nat \ {0}
    BY <1>1, <1>6, <2>1
  <2> HIDE DEF before, after
  <2>4. SumOf(after) <= SumOf(before) /\ SumOf(after) \in Nat /\ SumOf(before) \in Nat
    BY <2>1, <2>3, SumOfWithin
  <2>5. Total[i] - SumOf(before) >= 0
    BY <2>1 DEF Remaining, NeverOverApplied
  <2> QED
    BY <2>1, <2>2, <2>4, <2>5
<1>8. \A e \in LiveDocs("collection")' : Unallocated(e)' >= 0
  <2> TAKE e \in LiveDocs("collection")'
  <2>1. e \in DocIds /\ docs'[e] = docs[e] /\ e \in LiveDocs("collection")
    BY DEF LiveDocs
  <2>2. Unallocated(e)' = Unallocated(e)
    BY <1>1, <2>1 DEF Unallocated
  <2> QED
    BY <2>1, <2>2 DEF NeverOverApplied
<1>9. Settled'
  <2> SUFFICES ASSUME NEW i \in Invoice PROVE PaidMeansCovered(i)' \/ Untouched(i)'
    BY DEF Settled
  <2>1. CASE i \in is
    BY <1>4, <2>1
  <2>2. CASE i \notin is
    <3>1. Paying(i, applied', docs') = Paying(i, applied, docs)
      BY <1>6, <2>2
    <3>2. \A x \in Paying(i, applied, docs) : docs'[x.doc].date = docs[x.doc].date
      BY <1>1, <2>2 DEF Paying, Standing
    <3> QED
      BY <1>1, <1>4, <2>2, <3>1, <3>2, StaysSettled DEF Settled
  <2> QED
    BY <2>1, <2>2
<1> QED
  BY <1>2, <1>4, <1>5, <1>7, <1>8, <1>9 DEF NeverOverApplied

-----------------------------------------------------------------------------
(* Every step keeps the books                                              *)

(* A collection just recorded allocates its shares.                        *)
LEMMA AllotsAllocates ==
  ASSUME Types, NEW d, NEW kind, NEW legs, NEW amount, NEW day, NEW shares,
         Entered(d, kind, legs, amount, day), Allots(d, kind, legs, amount, shares)
  PROVE  Allocates(d, InvoicesOf(shares), shares)
<1>1. /\ DocIds' = DocIds \cup {d} /\ d \notin DocIds
      /\ \A x \in DocIds : x # d /\ docs'[x] = docs[x]
      /\ docs'[d].kind = kind /\ docs'[d].legs = legs /\ docs'[d].amount = amount
      /\ docs'[d].cancelled = FALSE
  <2>1. /\ d \in Document \ DocIds /\ kind \in DocKinds /\ Formed(kind, legs)
        /\ amount \in Nat \ {0} /\ day \in Days /\ docs' = WithDoc(d, kind, legs, amount, day)
    BY DEF Entered
  <2>2. /\ DocTypes' /\ DocIds' = DocIds \cup {d}
        /\ \A x \in DocIds : x # d /\ docs'[x] = docs[x]
        /\ docs'[d].kind = kind /\ docs'[d].legs = legs /\ docs'[d].amount = amount
        /\ docs'[d].date = day /\ docs'[d].cancelled = FALSE
    BY <2>1, RowEntered
  <2> QED
    BY <2>1, <2>2
<1>2. /\ SharesOf(d, shares) /\ applied' = applied \cup shares
      /\ invoice' = SyncAll(InvoicesOf(shares), applied', docs')
      /\ shares # {} => kind = "collection" /\ MayApply(legs[1].account, shares, amount)
  BY DEF Allots
<1>3. \A x \in applied : x.doc \in DocIds /\ x.doc # d
  BY <1>1 DEF Types, AppliedTypes, Application
<1>4. \A x \in shares : x.doc = d /\ x.invoice \in Invoice
  BY <1>2 DEF SharesOf
<1>5. SumOf(shares) + SumOf({x \in applied : x.doc = d}) <= amount
  <2> DEFINE before == {x \in applied : x.doc = d}
  <2>1. before = {}
    BY <1>3
  <2>2. SumOf({}) = 0
    BY SumOfWithin, FS_EmptySet
  <2>3. SumOf(before) = 0
    BY <2>1, <2>2, Zenon
  <2>4. IsFiniteSet(shares) /\ \A x \in shares : x.amount \in Nat \ {0}
    BY <1>2 DEF SharesOf
  <2>5. SumOf(shares) \in Nat
    BY <2>4, SumOfWithin
  <2>6. SumOf(shares) <= amount
    <3>1. CASE shares = {}
      <4>1. SumOf(shares) = SumOf({})
        BY <3>1, Zenon
      <4> QED
        BY <2>2, <4>1 DEF Entered
    <3>2. CASE shares # {}
      BY <1>2, <3>2 DEF MayApply
    <3> QED
      BY <3>1, <3>2
  <2> HIDE DEF before
  <2>7. SumOf(shares) + SumOf(before) <= amount
    BY <2>3, <2>5, <2>6 DEF Entered
  <2> QED
    BY <2>7 DEF before
<1>6. \A x \in shares : /\ x.invoice \in InvoicesOf(shares)
                        /\ invoice[x.invoice].status \in Payable
                        /\ docs'[d].legs[1].account = AccountOf[x.invoice]
                        /\ x.amount <= Remaining(x.invoice)
  BY <1>1, <1>2 DEF MayApply, InvoicesOf
<1>7. InvoicesOf(shares) \in SUBSET Invoice
  BY <1>4 DEF InvoicesOf
<1>8. shares \cap applied = {}
  BY <1>3, <1>4
<1> QED
  BY <1>1, <1>2, <1>5, <1>6, <1>7, <1>8 DEF Allocates

(* Recording a document keeps the books.                                   *)
LEMMA RecordDocumentKeeps ==
  ASSUME Books, NEW d \in Document, NEW day \in Days, RecordDocument(d, day), UNCHANGED uncarried
  PROVE  /\ DocTypes' /\ MoveTypes' /\ AppliedTypes' /\ InvoiceTypes'
         /\ Posted' /\ WellApplied' /\ NeverOverApplied' /\ Settled'
<1>1. Types /\ Posted /\ WellApplied /\ NeverOverApplied /\ Settled
  BY DEF Books
<1>2. PICK kind, legs, amount, shares :
        Entered(d, kind, legs, amount, day) /\ Allots(d, kind, legs, amount, shares)
  BY <1>1, RecordDocumentEnters
<1>3. /\ DocTypes' /\ MoveTypes'
      /\ \A x \in DocIds' : DocPosted(x)'
      /\ \A i \in Invoice : MovesOf(i)' = MovesOf(i)
  <2> DEFINE none == {}
  <2>1. /\ d \in Document \ DocIds /\ kind \in DocKinds /\ Formed(kind, legs)
        /\ amount \in Nat \ {0} /\ docs' = WithDoc(d, kind, legs, amount, day)
    BY <1>2 DEF Entered
  <2>2. moves' = moves \cup (none \cup Entries(d, legs, amount, day, kind))
    BY <1>2 DEF Entered
  <2>3. IsFiniteSet(none) /\ none \in SUBSET MovementType /\ \A m \in none : m.doc \in Invoice
    BY FS_EmptySet
  <2>4. \A i \in Invoice : {m \in none : m.doc = i} = {}
    OBVIOUS
  <2> HIDE DEF none
  <2>5. /\ DocTypes' /\ MoveTypes'
        /\ \A x \in DocIds' : DocPosted(x)'
        /\ \A i \in Invoice : MovesOf(i)' = MovesOf(i) \cup {m \in none : m.doc = i}
    BY <1>1, <2>1, <2>2, <2>3, EnteringPosts
  <2> QED
    BY <2>4, <2>5
<1>4. Allocates(d, InvoicesOf(shares), shares)
  BY <1>1, <1>2, AllotsAllocates
<1>5. /\ AppliedTypes' /\ InvoiceTypes' /\ WellApplied' /\ NeverOverApplied' /\ Settled'
      /\ \A i \in Invoice : SameStanding(i)
  BY <1>1, <1>3, <1>4, AllocationKeeps
<1>6. \A i \in Invoice : InvoicePosted(i)'
  BY <1>1, <1>3, <1>5, InvoiceStays DEF Posted
<1> QED
  BY <1>3, <1>5, <1>6 DEF Posted

(* Applying a collection keeps the books.                                  *)
LEMMA ApplyCollectionKeeps ==
  ASSUME Books, NEW d \in DocIds, NEW shares \in Shares(d), ApplyCollection(d, shares),
         UNCHANGED uncarried
  PROVE  /\ DocTypes' /\ MoveTypes' /\ AppliedTypes' /\ InvoiceTypes'
         /\ Posted' /\ WellApplied' /\ NeverOverApplied' /\ Settled'
<1>1. Types /\ Posted /\ WellApplied /\ NeverOverApplied /\ Settled
  BY DEF Books
<1>2. UNCHANGED <<docs, moves>> /\ applied' = applied \cup shares
      /\ docs[d].kind = "collection" /\ ~docs[d].cancelled
      /\ MayApply(docs[d].legs[1].account, shares, Unallocated(d))
      /\ \A x \in shares, y \in applied : y.doc = d => y.invoice # x.invoice
      /\ invoice' = SyncAll(InvoicesOf(shares), applied', docs)
  BY DEF ApplyCollection
<1>3. DocIds' = DocIds /\ DocTypes' /\ MoveTypes' /\ \A y : MovesOf(y)' = MovesOf(y)
  BY <1>1, <1>2 DEF DocIds, Types, DocTypes, MoveTypes, MovesOf
<1>4. SharesOf(d, shares)
  BY SharesAre
<1>5. \A x \in shares : x.doc = d /\ x.invoice \in Invoice /\ x.amount \in Nat \ {0}
  BY <1>4 DEF SharesOf
<1>6. SumOf(shares) + SumOf({x \in applied : x.doc = d}) <= docs[d].amount
  <2> DEFINE before == {x \in applied : x.doc = d}
  <2>1. IsFiniteSet(applied) /\ before \in SUBSET applied /\ \A x \in applied : x.amount \in Nat \ {0}
    BY <1>1 DEF Types, AppliedTypes, Application
  <2>2. SumOf(before) \in Nat
    <3> HIDE DEF before
    <3> QED
      BY <2>1, SumOfWithin
  <2>3. IsFiniteSet(shares)
    BY <1>4 DEF SharesOf
  <2>4. SumOf(shares) \in Nat
    BY <1>5, <2>3, SumOfWithin
  <2>5. SumOf(shares) <= docs[d].amount - SumOf(before)
    BY <1>2 DEF MayApply, Unallocated
  <2>6. docs[d].amount \in Nat
    BY <1>1 DEF Types, DocTypes, DocRow
  <2> HIDE DEF before
  <2>7. SumOf(shares) + SumOf(before) <= docs[d].amount
    BY <2>2, <2>4, <2>5, <2>6
  <2> QED
    BY <2>7 DEF before
<1>7. Allocates(d, InvoicesOf(shares), shares)
  <2>1. InvoicesOf(shares) \in SUBSET Invoice /\ shares \cap applied = {}
    BY <1>2, <1>5 DEF InvoicesOf
  <2>2. \A x \in shares : /\ x.invoice \in InvoicesOf(shares)
                          /\ invoice[x.invoice].status \in Payable
                          /\ docs'[d].legs[1].account = AccountOf[x.invoice]
                          /\ x.amount <= Remaining(x.invoice)
    BY <1>2 DEF MayApply, InvoicesOf
  <2>3. /\ d \in DocIds' /\ docs'[d].kind = "collection" /\ ~docs'[d].cancelled
        /\ \A e \in DocIds : e \in DocIds' /\ docs'[e] = docs[e]
        /\ DocIds' \subseteq DocIds \cup {d}
    BY <1>2, <1>3
  <2>4. SumOf(shares) + SumOf({x \in applied : x.doc = d}) <= docs'[d].amount
    BY <1>2, <1>6
  <2>5. applied' = applied \cup shares /\ invoice' = SyncAll(InvoicesOf(shares), applied', docs')
    <3>1. docs' = docs
      BY <1>2
    <3>2. invoice' = SyncAll(InvoicesOf(shares), applied', docs)
      BY DEF ApplyCollection
    <3>3. \A i \in Invoice : Synced(i, invoice[i], applied', docs') = Synced(i, invoice[i], applied', docs)
      BY <3>1
    <3>4. SyncAll(InvoicesOf(shares), applied', docs') = SyncAll(InvoicesOf(shares), applied', docs)
      BY <3>3 DEF SyncAll
    <3> QED
      BY <1>2, <3>2, <3>4
  <2> QED
    BY <1>4, <2>1, <2>2, <2>3, <2>4, <2>5 DEF Allocates
<1>8. /\ AppliedTypes' /\ InvoiceTypes' /\ WellApplied' /\ NeverOverApplied' /\ Settled'
      /\ \A i \in Invoice : SameStanding(i)
  BY <1>1, <1>3, <1>7, AllocationKeeps
<1>9. \A i \in Invoice : InvoicePosted(i)'
  BY <1>1, <1>3, <1>8, InvoiceStays DEF Posted
<1>10. \A x \in DocIds' : DocPosted(x)'
  BY <1>1, <1>2, <1>3, DocStays DEF Posted
<1> QED
  BY <1>3, <1>8, <1>9, <1>10 DEF Posted

(* Cancelling a document keeps the books.                                  *)
LEMMA CancelKeepsBooks ==
  ASSUME Books, NEW d \in DocIds, Cancel(d), UNCHANGED uncarried
  PROVE  /\ DocTypes' /\ MoveTypes' /\ AppliedTypes' /\ InvoiceTypes'
         /\ Posted' /\ WellApplied' /\ NeverOverApplied' /\ Settled'
<1>1. Types /\ Posted /\ WellApplied /\ NeverOverApplied /\ Settled
  BY DEF Books
<1>2. /\ DocTypes' /\ MoveTypes' /\ DocIds' = DocIds
      /\ \A x \in DocIds : DocPosted(x)'
      /\ \A i \in Invoice : MovesOf(i)' = MovesOf(i)
      /\ docs'[d].cancelled /\ docs'[d].kind = docs[d].kind /\ docs'[d].legs = docs[d].legs
      /\ \A x \in DocIds \ {d} : docs'[x] = docs[x]
  BY <1>1, CancelPosts
<1>3. /\ AppliedTypes' /\ InvoiceTypes' /\ WellApplied' /\ NeverOverApplied' /\ Settled'
      /\ \A i \in Invoice : SameStanding(i)
  BY <1>1, <1>2, CancelKeeps
<1>4. \A i \in Invoice : InvoicePosted(i)'
  BY <1>1, <1>2, <1>3, InvoiceStays DEF Posted
<1> QED
  BY <1>2, <1>3, <1>4 DEF Posted

(* A draft has nothing standing applied to it, nor has a cancelled one.    *)
LEMMA NothingStands ==
  ASSUME WellApplied, NEW i, invoice[i].status \notin Payable
  PROVE  \A x \in applied : x.invoice = i => docs[x.doc].cancelled
  BY DEF WellApplied

(* Issuing an invoice keeps the books.                                     *)
LEMMA IssueKeeps ==
  ASSUME Books, NEW i \in Invoice, NEW day \in Days, Issue(i, day), UNCHANGED uncarried
  PROVE  /\ DocTypes' /\ MoveTypes' /\ AppliedTypes' /\ InvoiceTypes'
         /\ Posted' /\ WellApplied' /\ NeverOverApplied' /\ Settled'
<1>1. Types /\ Posted /\ WellApplied /\ NeverOverApplied /\ Settled
  BY DEF Books
<1> DEFINE issued == [status |-> "issued", date |-> day, paidOn |-> 0]
           new == Synced(i, issued, applied, docs)
<1>2. UNCHANGED <<docs, applied>> /\ invoice[i].status = "draft"
      /\ invoice' = [invoice EXCEPT ![i] = new]
  BY DEF Issue
<1>3. DocIds' = DocIds /\ DocTypes' /\ AppliedTypes' /\ NeverOverApplied'
  <2>1. DocIds' = DocIds /\ DocTypes' /\ AppliedTypes'
    BY <1>1, <1>2 DEF DocIds, Types, DocTypes, AppliedTypes, Application
  <2> QED
    BY <1>1, <1>2, <2>1
    DEF NeverOverApplied, Remaining, Collected, Standing, Unallocated, LiveDocs
<1>4. /\ new \in InvoiceRow /\ new.date = day /\ new.status \in Payable
      /\ CoveredBy(i, new, Paying(i, applied, docs), docs)
  <2>1. issued \in InvoiceRow /\ issued.status \in Payable /\ issued.date = day
    BY DEF InvoiceRow, Payable
  <2>2. IsFiniteSet(applied) /\ \A x \in applied : x.amount \in Nat \ {0} /\ docs[x.doc].date \in Days
    BY <1>1 DEF Types, AppliedTypes, Application, DocTypes, DocRow
  <2> HIDE DEF issued
  <2> QED
    BY <2>1, <2>2, SyncedCovers
<1> HIDE DEF new
<1>5. /\ invoice \in [Invoice -> InvoiceRow] /\ invoice'[i] = new
      /\ \A j \in Invoice \ {i} : invoice'[j] = invoice[j]
  BY <1>1, <1>2 DEF Types, InvoiceTypes
<1>6. InvoiceTypes'
  BY <1>1, <1>2, <1>4, <1>5 DEF Types, InvoiceTypes
<1>7. MovesOf(i) = {} /\ MovesOf(i)' \in SUBSET {DebitOf(i, day)} /\ MoveTypes'
      /\ (Total[i] > 0 => MovesOf(i)' = {DebitOf(i, day)})
      /\ (Total[i] = 0 => MovesOf(i)' = {})
      /\ \A y : y # i => MovesOf(y)' = MovesOf(y)
  <2>1. MovesOf(i) = {} /\ Cardinality(MovesOf(i)) = 0
    BY <1>1, <1>2, MovesFinite DEF Posted, InvoicePosted, Types
  <2>2. CASE Total[i] > 0
    <3>1. moves' = moves \cup {DebitOf(i, day)}
      <4> DEFINE legs == <<OnAccount(AccountOf[i], 1)>>
      <4>1. Post(i, legs, Total[i], day, "invoice")
        BY <2>2 DEF Issue
      <4>2. DOMAIN legs = {1} /\ legs[1] = OnAccount(AccountOf[i], 1)
        OBVIOUS
      <4> HIDE DEF legs
      <4>3. moves' = moves \cup {Movement(i, Cardinality(MovesOf(i)) + 1, legs[1],
                                          Total[i], day, "invoice")}
        BY <4>1, <4>2 DEF Post
      <4>4. Cardinality(MovesOf(i)) + 1 = 1
        BY <2>1
      <4> QED
        BY <4>2, <4>3, <4>4 DEF DebitOf
    <3>2. DebitOf(i, day) \in MovementType /\ DebitOf(i, day).doc = i
      BY <2>2, DebitHolds DEF DebitOf, Movement
    <3>3. \A y : MovesOf(y)' = MovesOf(y) \cup {m \in {DebitOf(i, day)} : m.doc = y}
      BY <3>1, MovesAdd
    <3>4. MoveTypes'
      <4>1. IsFiniteSet({DebitOf(i, day)})
        BY FS_Singleton
      <4> QED
        BY <1>1, <1>3, <3>1, <3>2, <4>1, MoveTypesAdd DEF Types
    <3>5. {m \in {DebitOf(i, day)} : m.doc = i} = {DebitOf(i, day)}
      BY <3>2
    <3>6. \A y : y # i => {m \in {DebitOf(i, day)} : m.doc = y} = {}
      BY <3>2
    <3>7. MovesOf(i)' = {DebitOf(i, day)} /\ \A y : y # i => MovesOf(y)' = MovesOf(y)
      BY <2>1, <3>3, <3>5, <3>6
    <3> QED
      BY <2>1, <2>2, <3>4, <3>7
  <2>3. CASE Total[i] = 0
    <3>1. UNCHANGED moves
      BY <2>3 DEF Issue
    <3> QED
      BY <1>1, <1>3, <2>1, <2>3, <3>1 DEF MovesOf, Types, MoveTypes
  <2>4. Total[i] > 0 \/ Total[i] = 0
    BY DEF Issue
  <2> QED
    BY <2>2, <2>3, <2>4
<1>8. Posted'
  <2>1. ASSUME NEW x \in DocIds' PROVE DocPosted(x)'
    <3>1. x \in DocIds /\ x # i
      BY <1>1, <1>3, InvoiceAssumption DEF Types, DocTypes
    <3> QED
      BY <1>1, <1>2, <1>7, <3>1, DocStays DEF Posted
  <2>2. InvoicePosted(i)'
    <3>1. Total[i] \in Nat /\ new.status # "draft" /\ new.status # "cancelled"
      BY <1>4, InvoiceAssumption DEF Payable
    <3> QED
      BY <1>5, <1>7, <3>1, DebitOfNoTill DEF InvoicePosted
  <2>3. ASSUME NEW j \in Invoice \ {i} PROVE InvoicePosted(j)'
    <3>1. SameStanding(j) /\ MovesOf(j)' = MovesOf(j) /\ InvoicePosted(j)
      BY <1>1, <1>5, <1>7 DEF SameStanding, Posted
    <3> QED
      BY <3>1, InvoiceStays
  <2> QED
    BY <2>1, <2>2, <2>3 DEF Posted
<1>9. WellApplied'
  <2>1. \A j \in Invoice : invoice[j].status \in Payable => invoice'[j].status \in Payable
    BY <1>4, <1>5
  <2>2. \A x \in applied : x.invoice \in Invoice
    BY <1>1 DEF Types, AppliedTypes, Application
  <2> QED
    BY <1>1, <1>2, <2>1, <2>2 DEF WellApplied
<1>10. Settled'
  <2> SUFFICES ASSUME NEW j \in Invoice PROVE PaidMeansCovered(j)' \/ Untouched(j)'
    BY DEF Settled
  <2>1. CASE j = i
    <3>1. CoveredBy(i, invoice'[i], Paying(i, applied', docs'), docs')
      BY <1>2, <1>4, <1>5
    <3> QED
      BY <2>1, <3>1, PaidIsCovered
  <2>2. CASE j # i
    BY <1>1, <1>2, <1>5, <1>7, <2>2, StaysSettled DEF Settled
  <2> QED
    BY <2>1, <2>2
<1> QED
  BY <1>3, <1>6, <1>7, <1>8, <1>9, <1>10

(* Cancelling an invoice keeps the books.                                  *)
LEMMA CancelInvoiceKeeps ==
  ASSUME Books, NEW i \in Invoice, CancelInvoice(i), UNCHANGED uncarried
  PROVE  /\ DocTypes' /\ MoveTypes' /\ AppliedTypes' /\ InvoiceTypes'
         /\ Posted' /\ WellApplied' /\ NeverOverApplied' /\ Settled'
<1>1. Types /\ Posted /\ WellApplied /\ NeverOverApplied /\ Settled
  BY DEF Books
<1>2. UNCHANGED <<docs, applied>> /\ invoice' = [invoice EXCEPT ![i].status = "cancelled"]
  BY DEF CancelInvoice
<1>3. DocIds' = DocIds /\ DocTypes' /\ AppliedTypes' /\ NeverOverApplied'
  <2>1. DocIds' = DocIds /\ DocTypes' /\ AppliedTypes'
    BY <1>1, <1>2 DEF DocIds, Types, DocTypes, AppliedTypes, Application
  <2> QED
    BY <1>1, <1>2, <2>1
    DEF NeverOverApplied, Remaining, Collected, Standing, Unallocated, LiveDocs
<1>4. /\ MoveTypes' /\ Posted'
      /\ \A j \in Invoice \ {i} : MovesOf(j)' = MovesOf(j)
  BY <1>1, CancelInvoicePosts
<1>5. /\ invoice \in [Invoice -> InvoiceRow] /\ invoice'[i].status = "cancelled"
      /\ \A j \in Invoice \ {i} : invoice'[j] = invoice[j]
      /\ invoice' \in [Invoice -> InvoiceRow]
  BY <1>1, <1>2 DEF Types, InvoiceTypes, InvoiceRow
<1>6. "cancelled" \notin Payable
  BY DEF Payable
<1>7. InvoiceTypes'
  BY <1>1, <1>5, <1>6 DEF Types, InvoiceTypes
<1>8. \A x \in applied : x.invoice = i => docs[x.doc].cancelled
  <2>1. CASE invoice[i].status \notin Payable
    BY <1>1, <2>1, NothingStands
  <2>2. CASE invoice[i].status \in Payable
    <3>1. SumOf(Paying(i, applied, docs)) = 0
      BY <1>1, <2>2, CollectedIsNat DEF CancelInvoice, Types, Payable
    <3>2. Paying(i, applied, docs) = {}
      <4>1. /\ IsFiniteSet(applied) /\ \A x \in applied : x.amount \in Nat \ {0}
            /\ Paying(i, applied, docs) \in SUBSET applied
        BY <1>1, CollectedIsNat DEF Types, AppliedTypes, Application
      <4> QED
        BY <3>1, <4>1, SumOfWithin
    <3> QED
      BY <3>2 DEF Paying, Standing
  <2> QED
    BY <2>1, <2>2
<1>9. WellApplied'
  <2>1. \A x \in applied : x.invoice \in Invoice
    BY <1>1 DEF Types, AppliedTypes, Application
  <2> QED
    BY <1>1, <1>2, <1>5, <1>8, <2>1 DEF WellApplied
<1>10. Settled'
  <2> SUFFICES ASSUME NEW j \in Invoice PROVE PaidMeansCovered(j)' \/ Untouched(j)'
    BY DEF Settled
  <2>1. CASE j = i
    BY <1>5, <1>6, <2>1, PaidIsCovered
  <2>2. CASE j # i
    BY <1>1, <1>2, <1>4, <1>5, <2>2, StaysSettled DEF Settled
  <2> QED
    BY <2>1, <2>2
<1> QED
  BY <1>3, <1>4, <1>7, <1>9, <1>10

(* The carry-over                                                          *)

(* The days a carry-over posts on are days of the calendar.                *)
LEMMA CarryDays ==
  ASSUME Types, NEW i \in Invoice, invoice[i].status \in Payable
  PROVE  NotAfterToday(invoice[i].date) \in Days /\ PaidDay(i) \in Days
<1>1. today \in Days /\ invoice[i].date \in Days /\ invoice[i].paidOn \in Days \cup {0}
  BY DEF Types, ClockTypes, InvoiceTypes, InvoiceRow
<1>2. ASSUME NEW day \in Days PROVE NotAfterToday(day) \in Days
  BY <1>1 DEF NotAfterToday
<1> QED
  BY <1>1, <1>2 DEF PaidDay

(* The debit a carry-over posts is the one its invoice had to have.        *)
LEMMA CarriedDebit ==
  ASSUME Types, NEW i \in Invoice, InvoicePosted(i), invoice[i].status \in Payable
  PROVE  /\ Debit(i) \subseteq MovementType /\ IsFiniteSet(Debit(i))
         /\ \A m \in Debit(i) : m.doc = i
         /\ Total[i] > 0 => \E day \in Days : MovesOf(i) \cup Debit(i) = {DebitOf(i, day)}
         /\ ~(Total[i] > 0) => Total[i] = 0 /\ MovesOf(i) \cup Debit(i) = {}
<1> DEFINE new == DebitOf(i, NotAfterToday(invoice[i].date))
<1>1. NotAfterToday(invoice[i].date) \in Days
  BY CarryDays
<1>2. Total[i] \in Nat
  BY InvoiceAssumption
<1>3. OriginalsOf(i) = {} <=> MovesOf(i) = {}
  <2>1. ASSUME NEW day \in Days, MovesOf(i) = {DebitOf(i, day)} PROVE OriginalsOf(i) # {}
    <3>1. DebitOf(i, day).reverses = 0
      BY DEF DebitOf, Movement
    <3> QED
      BY <2>1, <3>1 DEF OriginalsOf
  <2> QED
    BY <2>1 DEF InvoicePosted, OriginalsOf
<1>4. Debit(i) = IF OriginalsOf(i) = {} /\ Total[i] > 0 THEN {new} ELSE {}
  BY DEF Debit, DebitOf
<1>5. new.doc = i
  BY DEF DebitOf, Movement
<1>6. Total[i] > 0 => new \in MovementType
  BY <1>1, DebitHolds, SidesAssumption
<1> HIDE DEF new
<1>7. IsFiniteSet({new}) /\ IsFiniteSet({})
  BY FS_Singleton, FS_EmptySet
<1>8. CASE Total[i] > 0 /\ MovesOf(i) = {}
  <2>1. Debit(i) = {new}
    BY <1>3, <1>4, <1>8
  <2> QED
    BY <1>1, <1>2, <1>5, <1>6, <1>7, <1>8, <2>1 DEF new
<1>9. CASE ~(Total[i] > 0 /\ MovesOf(i) = {})
  <2>1. Debit(i) = {}
    BY <1>3, <1>4, <1>9
  <2> QED
    BY <1>2, <1>7, <1>9, <2>1 DEF InvoicePosted
<1> QED
  BY <1>8, <1>9

(* Carrying an invoice over keeps the books.                               *)
LEMMA CarryOverKeeps ==
  ASSUME Books, NEW d \in Document, NEW i \in Invoice, NEW till \in CashAccount,
         CarryOver(d, i, till)
  PROVE  /\ DocTypes' /\ MoveTypes' /\ AppliedTypes' /\ InvoiceTypes'
         /\ Posted' /\ WellApplied' /\ NeverOverApplied' /\ Settled'
<1> DEFINE leg == OnBoth(AccountOf[i], -1, till, 1)
           legs == <<leg>>
           amount == Remaining(i)
           day == PaidDay(i)
           credit == Credit(d, i, till, day)
           share == [doc |-> d, invoice |-> i, amount |-> amount]
<1>1. Types /\ Posted /\ WellApplied /\ NeverOverApplied /\ Settled
  BY DEF Books
<1>2. invoice[i].status \in Payable /\ day \in Days
  <2>1. invoice[i].status \in Payable
    BY DEF CarryOver, ToCarry, Payable
  <2> QED
    BY <1>1, <2>1, CarryDays
<1>3. /\ Debit(i) \subseteq MovementType /\ IsFiniteSet(Debit(i))
      /\ \A m \in Debit(i) : m.doc = i
      /\ Total[i] > 0 => \E on \in Days : MovesOf(i) \cup Debit(i) = {DebitOf(i, on)}
      /\ ~(Total[i] > 0) => Total[i] = 0 /\ MovesOf(i) \cup Debit(i) = {}
  BY <1>1, <1>2, CarriedDebit DEF Posted
<1>4. /\ invoice' = SyncAll({i}, applied', docs')
      /\ uncarried' = uncarried \ {i}
      /\ moves' = moves \cup (Debit(i) \cup (IF Uncollected(i) THEN {credit} ELSE {}))
  BY DEF CarryOver
<1>5. /\ DocTypes' /\ MoveTypes'
      /\ \A x \in DocIds' : DocPosted(x)'
      /\ \A j \in Invoice : MovesOf(j)' = MovesOf(j) \cup {m \in Debit(i) : m.doc = j}
      /\ \E shares : Allocates(d, {i}, shares)
  <2>1. CASE Uncollected(i)
    <3>1. /\ d \in Document \ DocIds /\ docs' = WithDoc(d, "collection", legs, amount, day)
          /\ applied' = applied \cup {share}
      BY <2>1 DEF CarryOver, WithDoc
    <3>2. amount \in Nat \ {0}
      BY <1>1, <2>1, CollectedIsNat DEF Uncollected, Types
    <3>3. AccountOf[i] \in Account /\ "collection" \in DocKinds /\ Formed("collection", legs)
      BY InvoiceAssumption DEF Formed, DocKinds
    <3>4. {credit} = Entries(d, legs, amount, day, "collection")
      <4>1. DOMAIN legs = {1} /\ legs[1] = leg
        OBVIOUS
      <4> HIDE DEF leg, legs, amount, day
      <4>2. Entries(d, legs, amount, day, "collection") = {Movement(d, 1, leg, amount, day, "collection")}
        BY <4>1 DEF Entries
      <4> QED
        BY <4>2 DEF Credit, leg, amount, day
    <3>5. moves' = moves \cup (Debit(i) \cup Entries(d, legs, amount, day, "collection"))
      BY <1>4, <2>1, <3>4
    <3> HIDE DEF legs, amount, day, credit
    <3>6. \A m \in Debit(i) : m.doc \in Invoice
      BY <1>3
    <3>7. /\ DocTypes' /\ MoveTypes'
          /\ \A x \in DocIds' : DocPosted(x)'
          /\ \A j \in Invoice : MovesOf(j)' = MovesOf(j) \cup {m \in Debit(i) : m.doc = j}
      BY <1>1, <1>2, <1>3, <3>1, <3>2, <3>3, <3>5, <3>6, EnteringPosts
    <3>8. /\ DocIds' = DocIds \cup {d}
          /\ \A x \in DocIds : x # d /\ docs'[x] = docs[x]
          /\ docs'[d].kind = "collection" /\ docs'[d].legs = legs /\ docs'[d].amount = amount
          /\ docs'[d].cancelled = FALSE
      <4>1. /\ DocTypes' /\ DocIds' = DocIds \cup {d}
            /\ \A x \in DocIds : x # d /\ docs'[x] = docs[x]
            /\ docs'[d].kind = "collection" /\ docs'[d].legs = legs /\ docs'[d].amount = amount
            /\ docs'[d].date = day /\ docs'[d].cancelled = FALSE
        BY <1>1, <1>2, <3>1, <3>2, <3>3, RowEntered DEF Types, day
      <4> QED
        BY <4>1
    <3>9. SharesOf(d, {share})
      BY <3>2, OneShare
    <3>10. \A x \in applied : x.doc # d
      BY <1>1, <3>1 DEF Types, AppliedTypes, Application
    <3>11. SumOf({share}) + SumOf({x \in applied : x.doc = d}) <= amount
      <4> DEFINE before == {x \in applied : x.doc = d}
      <4>1. before = {} /\ share.amount = amount
        BY <3>10
      <4> HIDE DEF share
      <4>2. SumOf({share}) = amount
        BY <3>2, <4>1, SumOfSingle
      <4>3. SumOf({}) = 0
        BY SumOfWithin, FS_EmptySet
      <4>4. SumOf(before) = 0
        BY <4>1, <4>3, Zenon
      <4> HIDE DEF before
      <4>5. SumOf({share}) + SumOf(before) <= amount
        BY <3>2, <4>2, <4>4
      <4> QED
        BY <4>5 DEF before
    <3>12. Allocates(d, {i}, {share})
      <4>1. /\ share.doc = d /\ share.invoice = i /\ share.amount = amount
            /\ legs[1].account = AccountOf[i]
        BY DEF legs, OnBoth
      <4>2. amount <= Remaining(i)
        BY <3>2 DEF amount
      <4> HIDE DEF share
      <4>3. {share} \cap applied = {}
        BY <3>10, <4>1
      <4>4. invoice' = SyncAll({i}, applied', docs') /\ {i} \in SUBSET Invoice
        BY <1>4
      <4>5. \A x \in {share} : /\ x.invoice \in {i}
                               /\ invoice[x.invoice].status \in Payable
                               /\ docs'[d].legs[1].account = AccountOf[x.invoice]
                               /\ x.amount <= Remaining(x.invoice)
        BY <1>2, <3>8, <4>1, <4>2
      <4>6. /\ d \in DocIds' /\ docs'[d].kind = "collection" /\ ~docs'[d].cancelled
            /\ SumOf({share}) + SumOf({x \in applied : x.doc = d}) <= docs'[d].amount
            /\ \A e \in DocIds : e \in DocIds' /\ docs'[e] = docs[e]
            /\ DocIds' \subseteq DocIds \cup {d}
        BY <3>8, <3>11
      <4> QED
        BY <3>1, <3>9, <4>3, <4>4, <4>5, <4>6 DEF Allocates
    <3> QED
      BY <3>7, <3>12
  <2>2. CASE ~Uncollected(i)
    <3>1. UNCHANGED <<docs, applied>> /\ moves' = moves \cup Debit(i)
      <4>1. Debit(i) \cup {} = Debit(i)
        OBVIOUS
      <4> QED
        BY <1>4, <2>2, <4>1 DEF CarryOver
    <3>2. DocIds' = DocIds /\ DocTypes'
      BY <1>1, <3>1 DEF DocIds, Types, DocTypes
    <3>3. MoveTypes'
      <4>1. \A m \in Debit(i) : m.doc \in DocIds' \cup Invoice
        BY <1>3
      <4> QED
        BY <1>1, <1>3, <3>1, <3>2, <4>1, MoveTypesAdd DEF Types
    <3>4. \A y : MovesOf(y)' = MovesOf(y) \cup {m \in Debit(i) : m.doc = y}
      BY <3>1, MovesAdd
    <3>5. ASSUME NEW x \in DocIds' PROVE DocPosted(x)'
      <4>1. x \in DocIds /\ x # i
        BY <1>1, <3>2, InvoiceAssumption DEF Types, DocTypes
      <4>2. {m \in Debit(i) : m.doc = x} = {}
        BY <1>3, <4>1
      <4>3. MovesOf(x)' = MovesOf(x)
        BY <3>4, <4>2
      <4> QED
        BY <1>1, <3>1, <4>1, <4>3, DocStays DEF Posted
    <3>6. Allocates(d, {i}, {})
      <4>1. applied' = applied \cup {} /\ {} \cap applied = {} /\ {i} \in SUBSET Invoice
        BY <3>1
      <4>2. \A e \in DocIds : e \in DocIds' /\ docs'[e] = docs[e]
        BY <3>1, <3>2
      <4> QED
        BY <1>4, <3>2, <4>1, <4>2, NoShares DEF Allocates
    <3> QED
      BY <3>2, <3>3, <3>4, <3>5, <3>6
  <2> QED
    BY <2>1, <2>2
<1>6. PICK shares : Allocates(d, {i}, shares)
  BY <1>5
<1>7. \A j \in Invoice \ {i} : MovesOf(j)' = MovesOf(j) /\ (j \in uncarried => j \in uncarried')
  <2> TAKE j \in Invoice \ {i}
  <2>1. {m \in Debit(i) : m.doc = j} = {}
    BY <1>3
  <2> QED
    BY <1>4, <1>5, <2>1
<1>8. /\ AppliedTypes' /\ InvoiceTypes' /\ WellApplied' /\ NeverOverApplied' /\ Settled'
      /\ \A j \in Invoice : SameStanding(j)
  BY <1>1, <1>5, <1>6, <1>7, AllocationKeeps
<1>9. ASSUME NEW j \in Invoice PROVE InvoicePosted(j)'
  <2>1. CASE j = i
    <3>1. invoice'[i].status \in Payable /\ "draft" \notin Payable /\ "cancelled" \notin Payable
      BY <1>2, <1>8 DEF SameStanding, Payable
    <3>2. MovesOf(i)' = MovesOf(i) \cup Debit(i)
      <4>1. {m \in Debit(i) : m.doc = i} = Debit(i)
        BY <1>3
      <4> QED
        BY <1>5, <4>1
    <3> QED
      <4>1. \A m \in MovesOf(i)' : m.cash = NoSide
        BY <1>3, <3>2, DebitOfNoTill
      <4> QED
        BY <1>3, <2>1, <3>1, <3>2, <4>1 DEF InvoicePosted
  <2>2. CASE j # i
    BY <1>1, <1>7, <1>8, <2>2, InvoiceStays DEF Posted
  <2> QED
    BY <2>1, <2>2
<1> QED
  BY <1>5, <1>8, <1>9 DEF Posted

-----------------------------------------------------------------------------
(* The books are kept                                                      *)

(* The first books are kept.                                               *)
LEMMA BooksOpen == ApiInit => Books
<1> SUFFICES ASSUME ApiInit PROVE Books
  OBVIOUS
<1>1. PICK was \in [Legacy -> BeforeLedger] :
        /\ today \in Days /\ closedThrough = 0 /\ docs = <<>> /\ moves = {} /\ applied = {}
        /\ invoice = [i \in Invoice |-> IF i \in Legacy THEN was[i]
                                        ELSE [status |-> "draft", date |-> 0, paidOn |-> 0]]
        /\ uncarried = Legacy
  BY DEF ApiInit
<1>2. DocIds = {} /\ \A x : MovesOf(x) = {}
  BY <1>1 DEF DocIds, MovesOf
<1>3. IsFiniteSet({})
  BY FS_EmptySet
<1>4. ASSUME NEW i \in Invoice
      PROVE  /\ invoice[i] \in InvoiceRow
             /\ invoice[i].status \in Payable => invoice[i].date \in Days /\ i \in uncarried
             /\ invoice[i].status # "cancelled"
  <2>1. CASE i \in Legacy
    <3>1. was[i] \in BeforeLedger /\ invoice[i] = was[i]
      BY <1>1, <2>1
    <3>2. LegacyDays \subseteq Days
      BY LegacyAssumption DEF Days
    <3> QED
      BY <1>1, <2>1, <3>1, <3>2 DEF BeforeLedger, InvoiceRow, Payable
  <2>2. CASE i \notin Legacy
    BY <1>1, <2>2 DEF InvoiceRow, Payable
  <2> QED
    BY <2>1, <2>2
<1>5. Types
  <2>1. ClockTypes
    BY <1>1 DEF ClockTypes
  <2>2. DocTypes
    BY <1>1, <1>2, <1>3 DEF DocTypes
  <2>3. MoveTypes
    BY <1>1, <1>3 DEF MoveTypes
  <2>4. AppliedTypes
    BY <1>1, <1>3 DEF AppliedTypes
  <2>5. InvoiceTypes
    <3>1. invoice \in [Invoice -> InvoiceRow]
      BY <1>1, <1>4
    <3> QED
      BY <1>4, <3>1 DEF InvoiceTypes
  <2> QED
    BY <2>1, <2>2, <2>3, <2>4, <2>5 DEF Types
<1>6. Posted
  BY <1>2, <1>4 DEF Posted, InvoicePosted
<1>7. WellApplied
  BY <1>1 DEF WellApplied
<1>8. NeverOverApplied
  <2>1. ASSUME NEW i \in Invoice PROVE Remaining(i) >= 0
    <3>1. Collected(i, applied, docs) = SumOf({x \in Standing({}, docs) : x.invoice = i})
      BY <1>1 DEF Collected
    <3>2. {x \in Standing({}, docs) : x.invoice = i} = {}
      BY DEF Standing
    <3>3. SumOf({}) = 0
      BY <1>3, SumOfWithin
    <3>4. Collected(i, applied, docs) = 0
      BY <3>1, <3>2, <3>3, Zenon
    <3>5. Total[i] \in Nat
      BY InvoiceAssumption
    <3> QED
      BY <3>4, <3>5 DEF Remaining
  <2>2. LiveDocs("collection") = {}
    BY <1>2 DEF LiveDocs
  <2> QED
    BY <2>1, <2>2 DEF NeverOverApplied
<1>9. Settled
  BY <1>1, <1>2, <1>4 DEF Settled, PaidMeansCovered, Untouched
<1> QED
  BY <1>5, <1>6, <1>7, <1>8, <1>9 DEF Books

(* Only the day, or the day the books are closed through, changes.         *)
LEMMA QuietKeeps ==
  ASSUME Books, UNCHANGED <<docs, moves, applied, invoice, uncarried>>
  PROVE  /\ DocTypes' /\ MoveTypes' /\ AppliedTypes' /\ InvoiceTypes'
         /\ Posted' /\ WellApplied' /\ NeverOverApplied' /\ Settled'
<1>1. Types /\ Posted /\ WellApplied /\ NeverOverApplied /\ Settled
  BY DEF Books
<1>2. DocIds' = DocIds /\ \A x : MovesOf(x)' = MovesOf(x)
  BY DEF DocIds, MovesOf
<1>3. DocTypes' /\ MoveTypes' /\ AppliedTypes' /\ InvoiceTypes'
  BY <1>1, <1>2 DEF Types, DocTypes, MoveTypes, AppliedTypes, Application, InvoiceTypes
<1>4. Posted'
  <2>1. \A i \in Invoice : SameStanding(i)
    BY DEF SameStanding
  <2>2. ASSUME NEW d \in DocIds PROVE DocPosted(d)'
    BY <1>1, <1>2, DocStays DEF Posted
  <2>3. ASSUME NEW i \in Invoice PROVE InvoicePosted(i)'
    BY <1>1, <1>2, <2>1, InvoiceStays DEF Posted
  <2> QED
    BY <1>2, <2>2, <2>3 DEF Posted
<1>5. WellApplied'
  BY <1>1 DEF WellApplied
<1>6. NeverOverApplied'
  BY <1>1, <1>2 DEF NeverOverApplied, Remaining, Collected, Standing, Unallocated, LiveDocs
<1>7. Settled'
  BY <1>1, <1>2 DEF Settled, PaidMeansCovered, Untouched
<1> QED
  BY <1>3, <1>4, <1>5, <1>6, <1>7

(* A request is a step of the ledger, with the form's fields.              *)
LEMMA RequestIs ==
  ASSUME Request
  PROVE  /\ UNCHANGED uncarried
         /\ \/ \E d \in Document, day \in Days : RecordDocument(d, day)
            \/ \E d \in DocIds : \E shares \in Shares(d) : ApplyCollection(d, shares)
            \/ \E d \in DocIds : Cancel(d)
            \/ \E i \in Invoice, day \in Days : Issue(i, day)
            \/ \E i \in Invoice : CancelInvoice(i)
            \/ \E day \in Closings : SetClosedThrough(day)
            \/ NextDay
<1>1. CASE \E d \in Document : PostDocument(d)
  <2> PICK d \in Document : PostDocument(d)
    BY <1>1
  <2>1. CASE \E form \in CollectionForm(d) : CreateCollection(d, form)
    <3>1. PICK form \in CollectionForm(d) : CreateCollection(d, form)
      BY <2>1
    <3>2. /\ form.account \in Account /\ form.cash_account \in CashAccount
          /\ form.amount \in Amounts /\ form.date \in Days /\ form.applies \in Shares(d)
      BY DEF CollectionForm
    <3>3. RecordDocument(d, form.date)
      BY <3>1, <3>2 DEF CreateCollection, RecordDocument
    <3> QED
      BY <3>2, <3>3 DEF Request
  <2>2. CASE \E form \in PaymentOutForm : CreatePaymentOut(d, form)
    <3>1. PICK form \in PaymentOutForm : CreatePaymentOut(d, form)
      BY <2>2
    <3>2. /\ form.account \in Account /\ form.cash_account \in CashAccount
          /\ form.amount \in Amounts /\ form.date \in Days
      BY DEF PaymentOutForm
    <3>3. RecordDocument(d, form.date)
      BY <3>1, <3>2 DEF CreatePaymentOut, RecordDocument
    <3> QED
      BY <3>2, <3>3 DEF Request
  <2>3. CASE \E form \in ManualEntryForm : CreateManualEntry(d, form)
    <3>1. PICK form \in ManualEntryForm : CreateManualEntry(d, form)
      BY <2>3
    <3>2. /\ form.account \in Account /\ form.direction \in {-1, 1}
          /\ form.amount \in Amounts /\ form.date \in Days
      BY DEF ManualEntryForm
    <3>3. RecordDocument(d, form.date)
      BY <3>1, <3>2 DEF CreateManualEntry, RecordDocument
    <3> QED
      BY <3>2, <3>3 DEF Request
  <2>4. CASE \E form \in TransferForm : CreateTransfer(d, form)
    <3>1. PICK form \in TransferForm : CreateTransfer(d, form)
      BY <2>4
    <3>2. /\ form.from \in Sides /\ form.to \in Sides
          /\ form.amount \in Amounts /\ form.date \in Days
      BY DEF TransferForm, Sides
    <3>3. RecordDocument(d, form.date)
      BY <3>1, <3>2 DEF CreateTransfer, RecordDocument
    <3> QED
      BY <3>2, <3>3 DEF Request
  <2>5. CASE \E form \in OpeningForm : CreateOpening(d, form)
    <3>1. PICK form \in OpeningForm : CreateOpening(d, form)
      BY <2>5
    <3>2. /\ form.side \in Sides /\ form.direction \in {-1, 1}
          /\ form.amount \in Amounts /\ form.date \in Days
      BY DEF OpeningForm
    <3>3. RecordDocument(d, form.date)
      BY <3>1, <3>2 DEF CreateOpening, RecordDocument
    <3> QED
      BY <3>2, <3>3 DEF Request
  <2> QED
    BY <2>1, <2>2, <2>3, <2>4, <2>5 DEF PostDocument
<1>2. CASE \E i \in Invoice : PostInvoice(i)
  <2> PICK i \in Invoice : PostInvoice(i)
    BY <1>2
  <2>1. CASE \E d \in Document, form \in [paid_on : Days, cash_account : CashAccount] :
               MarkPaid(d, i, form.cash_account, form.paid_on)
    <3>1. PICK d \in Document, form \in [paid_on : Days, cash_account : CashAccount] :
            MarkPaid(d, i, form.cash_account, form.paid_on)
      BY <2>1
    <3>2. form.paid_on \in Days /\ form.cash_account \in CashAccount
      OBVIOUS
    <3>3. RecordDocument(d, form.paid_on)
      BY <3>1, <3>2 DEF RecordDocument
    <3> QED
      BY <3>2, <3>3 DEF Request
  <2> QED
    BY <2>1 DEF PostInvoice, Request
<1>3. CASE \E d \in DocIds : \E form \in ApplyForm(d) : Apply(d, form)
  BY <1>3 DEF ApplyForm, Apply, Request
<1> QED
  BY <1>1, <1>2, <1>3 DEF Request, CancelDocument, PatchSettings

(* Every request, the carry-over and the clock keep them.                  *)
LEMMA BooksStep == Books /\ [ApiNext]_apiVars => Books'
<1> SUFFICES ASSUME Books, [ApiNext]_apiVars PROVE Books'
  OBVIOUS
<1> DEFINE Kept == /\ DocTypes' /\ MoveTypes' /\ AppliedTypes' /\ InvoiceTypes'
                   /\ Posted' /\ WellApplied' /\ NeverOverApplied' /\ Settled'
<1>1. ClockTypes /\ Closings \subseteq 0..MaxDay /\ MaxDay \in Nat
  BY BoundsAssumption DEF Books, Types
<1>2. ASSUME UNCHANGED <<today, closedThrough>> PROVE ClockTypes'
  BY <1>1, <1>2 DEF ClockTypes
<1>3. ASSUME NEW d \in Document, NEW day \in Days, RecordDocument(d, day), UNCHANGED uncarried
      PROVE  ClockTypes' /\ Kept
  <2>1. UNCHANGED <<today, closedThrough>>
    BY <1>3 DEF RecordDocument, MarkPaid, RecordCollection, RecordPaymentOut,
                RecordManualEntry, RecordTransfer, RecordOpening
  <2> QED
    BY <1>2, <1>3, <2>1, RecordDocumentKeeps
<1>4. ASSUME NEW d \in DocIds, NEW shares \in Shares(d), ApplyCollection(d, shares),
             UNCHANGED uncarried
      PROVE  ClockTypes' /\ Kept
  <2>1. UNCHANGED <<today, closedThrough>>
    BY <1>4 DEF ApplyCollection
  <2> QED
    BY <1>2, <1>4, <2>1, ApplyCollectionKeeps
<1>5. ASSUME NEW d \in DocIds, Cancel(d), UNCHANGED uncarried PROVE ClockTypes' /\ Kept
  <2>1. UNCHANGED <<today, closedThrough>>
    BY <1>5 DEF Cancel
  <2> QED
    BY <1>2, <1>5, <2>1, CancelKeepsBooks
<1>6. ASSUME NEW i \in Invoice, NEW day \in Days, Issue(i, day), UNCHANGED uncarried
      PROVE  ClockTypes' /\ Kept
  <2>1. UNCHANGED <<today, closedThrough>>
    BY <1>6 DEF Issue
  <2> QED
    BY <1>2, <1>6, <2>1, IssueKeeps
<1>7. ASSUME NEW i \in Invoice, CancelInvoice(i), UNCHANGED uncarried PROVE ClockTypes' /\ Kept
  <2>1. UNCHANGED <<today, closedThrough>>
    BY <1>7 DEF CancelInvoice
  <2> QED
    BY <1>2, <1>7, <2>1, CancelInvoiceKeeps
<1>8. ASSUME NEW day \in Closings, SetClosedThrough(day), UNCHANGED uncarried
      PROVE  ClockTypes' /\ Kept
  <2>1. ClockTypes'
    BY <1>1, <1>8 DEF ClockTypes, SetClosedThrough
  <2>2. UNCHANGED <<docs, moves, applied, invoice, uncarried>>
    BY <1>8 DEF SetClosedThrough
  <2> QED
    BY <2>1, <2>2, QuietKeeps
<1>9. ASSUME NextDay, UNCHANGED uncarried PROVE ClockTypes' /\ Kept
  <2>1. ClockTypes'
    BY <1>1, <1>9 DEF ClockTypes, NextDay, Days
  <2>2. UNCHANGED <<docs, moves, applied, invoice, uncarried>>
    BY <1>9 DEF NextDay
  <2> QED
    BY <2>1, <2>2, QuietKeeps
<1>10. ASSUME NEW d \in Document, NEW i \in Invoice, NEW till \in CashAccount,
              CarryOver(d, i, till)
       PROVE  ClockTypes' /\ Kept
  <2>1. UNCHANGED <<today, closedThrough>>
    BY <1>10 DEF CarryOver
  <2> QED
    BY <1>2, <1>10, <2>1, CarryOverKeeps
<1>11. CASE UNCHANGED apiVars
  <2>1. UNCHANGED <<today, closedThrough>> /\ UNCHANGED <<docs, moves, applied, invoice, uncarried>>
    BY <1>11 DEF apiVars
  <2>2. ClockTypes' /\ Kept
    BY <1>2, <2>1, QuietKeeps
  <2> QED
    BY <2>2 DEF Books, Types
<1>12. CASE Request
  <2>1. ClockTypes' /\ Kept
    <3> HIDE DEF Kept
    <3> QED
      BY <1>3, <1>4, <1>5, <1>6, <1>7, <1>8, <1>9, <1>12, RequestIs
  <2> QED
    BY <2>1 DEF Books, Types
<1>13. CASE \E d \in Document, i \in Invoice, till \in CashAccount : CarryOver(d, i, till)
  <2>1. ClockTypes' /\ Kept
    <3> HIDE DEF Kept
    <3> QED
      BY <1>10, <1>13
  <2> QED
    BY <2>1 DEF Books, Types
<1> QED
  BY <1>11, <1>12, <1>13 DEF ApiNext

(* So the books are always kept.                                           *)
LEMMA BooksHold == ApiSpec => []Books
  BY BooksOpen, BooksStep, PTL DEF ApiSpec

(* The firm's money over all its tills is what standing documents brought  *)
(* in and took out, whatever was recorded, cancelled and carried over      *)
(* (post, reverse_document, carry_over_invoices).                          *)
THEOREM MoneyAlwaysConserved == ApiSpec => []MoneyConserved
<1>1. Books => MoneyConserved
  BY MoneyFollows DEF Books
<1> QED
  BY <1>1, BooksHold, PTL

-----------------------------------------------------------------------------
(* Invoices follow their collections                                       *)

(* An invoice untouched since before the ledger is settled unless the      *)
(* carry-over still has to post it.                                        *)
LEMMA CarriedAreCovered ==
  ASSUME Settled, NEW i \in Invoice \ ToCarry
  PROVE  PaidMeansCovered(i)
<1> SUFFICES ASSUME Untouched(i), invoice[i].status \in Payable PROVE PaidMeansCovered(i)
  BY DEF Settled, PaidMeansCovered
<1>1. OriginalsOf(i) = {}
  BY DEF Untouched, OriginalsOf
<1>2. invoice[i].status = "paid" /\ Total[i] = 0
  BY <1>1 DEF ToCarry
<1>3. Paying(i, applied, docs) = {}
  BY DEF Untouched, Paying, Standing
<1>4. SumOf(Paying(i, applied, docs)) = SumOf({}) /\ SumOf({}) = 0
  <2>1. SumOf({}) = 0
    BY SumOfWithin, FS_EmptySet
  <2> QED
    BY <1>3, <2>1, Zenon
<1>5. CoveredBy(i, invoice[i], Paying(i, applied, docs), docs)
  BY <1>2, <1>4 DEF CoveredBy
<1> QED
  BY <1>5, PaidIsCovered

(* A collection that is cancelled covers nothing.                          *)
LEMMA CancelledOwesNothing == AppliedTypes /\ WellApplied => CancelledOwesNothingBack
<1> SUFFICES ASSUME AppliedTypes, WellApplied, NEW i \in Invoice, invoice[i].status \notin Payable
             PROVE  Collected(i, applied, docs) = 0
  BY DEF CancelledOwesNothingBack
<1>1. Paying(i, applied, docs) = {}
  BY NothingStands DEF Paying, Standing
<1>2. SumOf(Paying(i, applied, docs)) = SumOf({}) /\ SumOf({}) = 0
  <2>1. SumOf({}) = 0
    BY SumOfWithin, FS_EmptySet
  <2> QED
    BY <1>1, <2>1, Zenon
<1> QED
  BY <1>2, CollectedIsNat

(* An invoice's standing and the money applied to it never part, over any  *)
(* number of applications, payments and cancellations, nor once it is      *)
(* carried over (_apply, mark_paid, sync_invoice_status, cancel).          *)
THEOREM InvoicesAlwaysFollow == ApiSpec => []InvoicesFollowCollections
<1>1. Books => InvoicesFollowCollections
  BY CarriedAreCovered, CancelledOwesNothing DEF Books, Types, InvoicesFollowCollections
<1> QED
  BY <1>1, BooksHold, PTL

-----------------------------------------------------------------------------
(* What customers owe                                                      *)

(* What is left to carry dates from before the ledger.                     *)
LEMMA OnlyOldAreCarried == Books => ToCarry \subseteq uncarried
<1> SUFFICES ASSUME Books, NEW i \in ToCarry PROVE i \in uncarried
  OBVIOUS
<1>1. /\ i \in Invoice /\ InvoicePosted(i) /\ (PaidMeansCovered(i) \/ Untouched(i))
      /\ AppliedTypes
  BY DEF ToCarry, Books, Types, Posted, Settled
<1>2. /\ Total[i] \in Nat /\ SumOf(Paying(i, applied, docs)) \in Nat
      /\ Remaining(i) = Total[i] - SumOf(Paying(i, applied, docs))
  BY <1>1, CollectedIsNat DEF Remaining
<1>3. CASE Untouched(i)
  BY <1>3 DEF Untouched
<1>4. CASE PaidMeansCovered(i)
  <2>1. invoice[i].status \in Payable
    BY DEF ToCarry, Payable
  <2>2. CoveredBy(i, invoice[i], Paying(i, applied, docs), docs)
    BY <1>4, <2>1, PaidIsCovered
  <2>3. invoice[i].status = "paid" <=> SumOf(Paying(i, applied, docs)) >= Total[i]
    BY <2>2 DEF CoveredBy
  <2>4. OriginalsOf(i) = {} /\ ~(invoice[i].status = "paid" /\ Total[i] = 0)
    BY <1>2, <2>3 DEF ToCarry
  <2>5. ~(Total[i] = 0)
    BY <1>2, <2>3, <2>4
  <2>6. ASSUME NEW day \in Days, MovesOf(i) = {DebitOf(i, day)} PROVE FALSE
    <3>1. DebitOf(i, day).reverses = 0
      BY DEF DebitOf, Movement
    <3> QED
      BY <2>4, <2>6, <3>1 DEF OriginalsOf
  <2> QED
    BY <1>1, <2>1, <2>5, <2>6 DEF InvoicePosted
<1> QED
  BY <1>1, <1>3, <1>4

(* What a document that stands brings to account a.                        *)
LEMMA LegsBring ==
  ASSUME Types, NEW d \in DocIds, NEW a \in Account
  PROVE  /\ LegsEffect(d, a) = Brings(docs[d].legs, docs[d].amount, {a})
         /\ docs[d].kind = "collection" =>
              Brings(docs[d].legs, docs[d].amount, {a})
                = IF docs[d].legs[1].account = a THEN -docs[d].amount ELSE 0
<1> DEFINE legs == docs[d].legs
           amount == docs[d].amount
           f == [k \in DOMAIN legs |-> Side(legs[k], a) * amount]
           g == [k \in DOMAIN legs |-> On(legs[k], {a}) * amount]
<1>1. Formed(docs[d].kind, legs) /\ amount \in Nat \ {0}
  BY DEF Types, DocTypes, DocRow
<1> HIDE DEF legs, amount
<1>2. LegsEffect(d, a) = Brings(legs, amount, {a})
  <2>1. IsFiniteSet(DOMAIN legs)
    BY <1>1, FormedLegs
  <2>2. \A k \in DOMAIN legs : Side(legs[k], a) = On(legs[k], {a})
    BY DEF Side, On
  <2>3. \A k \in DOMAIN legs : f[k] = g[k]
    BY <2>2
  <2>4. LegsEffect(d, a) = SumFunctionOnSet(f, DOMAIN legs)
    BY DEF LegsEffect, SumFunction, legs, amount
  <2>5. Brings(legs, amount, {a}) = SumFunctionOnSet(g, DOMAIN legs)
    BY DEF Brings
  <2> HIDE DEF f, g
  <2> QED
    BY <2>1, <2>3, <2>4, <2>5, SumSame
<1>3. ASSUME docs[d].kind = "collection"
      PROVE  Brings(legs, amount, {a}) = IF legs[1].account = a THEN -amount ELSE 0
  <2>1. PICK b \in Account, c \in CashAccount : legs = <<OnBoth(b, -1, c, 1)>>
    BY <1>1, <1>3 DEF Formed
  <2> DEFINE leg == OnBoth(b, -1, c, 1)
  <2>2. leg \in Leg /\ leg.account = b
    BY DEF OnBoth, Leg
  <2>3. On(leg, {a}) = IF b = a THEN -1 ELSE 0
    BY SidesAssumption DEF OnBoth, On
  <2>4. legs[1] = leg
    BY <2>1
  <2>5. Brings(legs, amount, {a}) = On(leg, {a}) * amount
    BY <1>1, <2>1, <2>2, OneLegBrings
  <2> QED
    BY <1>1, <2>2, <2>3, <2>4, <2>5
<1> QED
  BY <1>2, <1>3 DEF legs, amount

(* Account a's issued invoices, and its collections that stand.            *)
InvoicesOn(a) == {i \in Invoice : AccountOf[i] = a /\ invoice[i].status \in Payable}
CollectionsOn(a) == {d \in LiveDocs("collection") : docs[d].legs[1].account = a}

(* What is applied from those collections is what those invoices have      *)
(* collected.                                                              *)
LEMMA AppliedTwoWays ==
  ASSUME Types, WellApplied, NEW a \in Account
  PROVE  LET J == InvoicesOn(a)
             C == CollectionsOn(a)
         IN  SumFunctionOnSet([i \in J |-> Collected(i, applied, docs)], J)
               = SumFunctionOnSet([d \in C |-> SumOf({x \in applied : x.doc = d})], C)
<1> DEFINE J == InvoicesOn(a)
           C == CollectionsOn(a)
           X == {x \in Standing(applied, docs) : AccountOf[x.invoice] = a}
           f == [x \in X |-> x.amount]
           toInvoice == [x \in X |-> x.invoice]
           fromDoc == [x \in X |-> x.doc]
           byInvoice == [i \in J |-> {x \in X : toInvoice[x] = i}]
           byDoc == [d \in C |-> {x \in X : fromDoc[x] = d}]
           collected == [i \in J |-> Collected(i, applied, docs)]
           shared == [d \in C |-> SumOf({x \in applied : x.doc = d})]
<1>1. /\ IsFiniteSet(applied) /\ X \in SUBSET applied
      /\ \A x \in applied : x.doc \in DocIds /\ x.invoice \in Invoice /\ x.amount \in Nat \ {0}
  BY DEF Types, AppliedTypes, Application, Standing
<1>2. IsFiniteSet(X) /\ IsFiniteSet(J) /\ IsFiniteSet(C)
  <2>1. J \in SUBSET Invoice /\ C \in SUBSET DocIds
    BY DEF LiveDocs, InvoicesOn, CollectionsOn
  <2> HIDE DEF X, J, C
  <2> QED
    BY <1>1, <2>1, FS_Subset, FiniteAssumption DEF Types, DocTypes
<1>3. ASSUME NEW x \in X
      PROVE  f[x] \in Int /\ toInvoice[x] \in J /\ fromDoc[x] \in C
  <2>1. x \in applied /\ ~docs[x.doc].cancelled /\ AccountOf[x.invoice] = a
    BY DEF Standing
  <2>2. /\ docs[x.doc].kind = "collection" /\ docs[x.doc].legs[1].account = a
        /\ invoice[x.invoice].status \in Payable
    BY <2>1 DEF WellApplied
  <2> QED
    BY <1>1, <2>1, <2>2 DEF LiveDocs, InvoicesOn, CollectionsOn
<1>4. ASSUME NEW i \in J PROVE byInvoice[i] = Paying(i, applied, docs)
  BY DEF Paying, InvoicesOn
<1>5. ASSUME NEW d \in C PROVE byDoc[d] = {x \in applied : x.doc = d}
  <2>1. ~docs[d].cancelled /\ docs[d].legs[1].account = a
    BY DEF LiveDocs, CollectionsOn
  <2>2. \A x \in applied : x.doc = d => x \in X
    BY <2>1 DEF WellApplied, Standing
  <2> QED
    BY <1>1, <2>2
<1>6. \A T \in SUBSET X : SumOf(T) = SumFunctionOnSet(f, T)
  <2> SUFFICES ASSUME NEW T \in SUBSET X PROVE SumOf(T) = SumFunctionOnSet(f, T)
    OBVIOUS
  <2>1. IsFiniteSet(T) /\ T \subseteq X
    BY <1>2, FS_Subset
  <2> HIDE DEF X
  <2> QED
    BY <2>1, SumOfIs
<1>7. \A i \in J : collected[i] = SumFunctionOnSet(f, byInvoice[i])
  <2> SUFFICES ASSUME NEW i \in J PROVE collected[i] = SumFunctionOnSet(f, byInvoice[i])
    OBVIOUS
  <2>1. SumOf(byInvoice[i]) = SumOf(Paying(i, applied, docs))
    BY <1>4, Zenon
  <2>2. collected[i] = SumOf(Paying(i, applied, docs))
    BY CollectedIsNat DEF Types, InvoicesOn
  <2>3. byInvoice[i] \in SUBSET X
    OBVIOUS
  <2> HIDE DEF f, X, byInvoice, collected
  <2> QED
    BY <1>6, <2>1, <2>2, <2>3
<1>8. \A d \in C : shared[d] = SumFunctionOnSet(f, byDoc[d])
  <2> SUFFICES ASSUME NEW d \in C PROVE shared[d] = SumFunctionOnSet(f, byDoc[d])
    OBVIOUS
  <2>1. SumOf(byDoc[d]) = SumOf({x \in applied : x.doc = d})
    BY <1>5, Zenon
  <2>2. shared[d] = SumOf({x \in applied : x.doc = d})
    OBVIOUS
  <2>3. byDoc[d] \in SUBSET X
    OBVIOUS
  <2> HIDE DEF f, X, byDoc, shared
  <2> QED
    BY <1>6, <2>1, <2>2, <2>3
<1>9. /\ \A x \in X : f[x] \in Int
      /\ \A x \in X : toInvoice[x] \in J
      /\ \A i \in J : byInvoice[i] = {x \in X : toInvoice[x] = i}
  BY <1>3
<1>10. /\ \A x \in X : f[x] \in Int
       /\ \A x \in X : fromDoc[x] \in C
       /\ \A d \in C : byDoc[d] = {x \in X : fromDoc[x] = d}
  BY <1>3
<1> HIDE DEF J, C, X, f, toInvoice, fromDoc, byInvoice, byDoc, collected, shared
<1>11. SumFunctionOnSet(f, X) = SumFunctionOnSet(collected, J)
  BY <1>2, <1>7, <1>9, SumGroups
<1>12. SumFunctionOnSet(f, X) = SumFunctionOnSet(shared, C)
  BY <1>2, <1>8, <1>10, SumGroups
<1> QED
  BY <1>11, <1>12 DEF J, C, collected, shared

(* An account with nothing left to carry has a balance that is explained.  *)
LEMMA AccountExplained ==
  ASSUME Books, NEW a \in Account, \A i \in ToCarry : AccountOf[i] # a
  PROVE  Explained(a)
<1> DEFINE J == {i \in Invoice : AccountOf[i] = a /\ invoice[i].status \in Payable}
           C == {d \in LiveDocs("collection") : docs[d].legs[1].account = a}
           O == UNION {LiveDocs(k) : k \in DocKinds \ {"collection"}}
           remaining == [i \in J |-> Remaining(i)]
           left == [d \in C |-> Unallocated(d)]
           other == [d \in O |-> LegsEffect(d, a)]
           total == [i \in J |-> Total[i]]
           collected == [i \in J |-> Collected(i, applied, docs)]
           given == [d \in C |-> docs[d].amount]
           shared == [d \in C |-> SumOf({x \in applied : x.doc = d})]
           uncollected == [i \in J |-> -Collected(i, applied, docs)]
           unshared == [d \in C |-> -SumOf({x \in applied : x.doc = d})]
           stood == [d \in DocIds |-> Stands(d, {a})]
           owed == [i \in Invoice |-> Owes(i, {a})]
           taken == [d \in DocIds |-> IF d \in C THEN -given[d] ELSE 0]
           gave == [d \in DocIds |-> IF d \in C THEN given[d] ELSE 0]
           brought == [d \in DocIds |-> IF d \in O THEN other[d] ELSE 0]
<1>1. /\ Types /\ Posted /\ WellApplied /\ IsFiniteSet(DocIds) /\ IsFiniteSet(Invoice)
      /\ {a} \in SUBSET Sides /\ IsFiniteSet(applied)
      /\ \A x \in applied : x.amount \in Nat \ {0}
  BY FiniteAssumption DEF Books, Types, DocTypes, Sides, AppliedTypes, Application
<1>2. /\ J \in SUBSET Invoice /\ C \in SUBSET DocIds /\ O \in SUBSET DocIds
      /\ IsFiniteSet(J) /\ IsFiniteSet(C) /\ IsFiniteSet(O)
  <2>1. J \in SUBSET Invoice /\ C \in SUBSET DocIds /\ O \in SUBSET DocIds
    BY DEF LiveDocs
  <2> HIDE DEF J, C, O
  <2> QED
    BY <1>1, <2>1, FS_Subset
<1>3. O = {d \in DocIds : ~docs[d].cancelled /\ docs[d].kind # "collection"}
  <2>1. \A d \in DocIds : docs[d].kind \in DocKinds
    BY <1>1 DEF Types, DocTypes, DocRow
  <2> QED
    BY <2>1 DEF LiveDocs
<1>4. ASSUME NEW i \in J
      PROVE  /\ total[i] \in Int /\ collected[i] \in Int /\ uncollected[i] = -collected[i]
             /\ uncollected[i] \in Int /\ remaining[i] = total[i] + uncollected[i]
  <2>1. Collected(i, applied, docs) \in Nat /\ Total[i] \in Nat
    BY <1>1, CollectedIsNat DEF Types
  <2> QED
    BY <2>1 DEF Remaining
<1>5. ASSUME NEW d \in C
      PROVE  /\ given[d] \in Int /\ shared[d] \in Int /\ unshared[d] = -shared[d]
             /\ unshared[d] \in Int /\ left[d] = given[d] + unshared[d]
  <2>1. docs[d].amount \in Nat
    BY <1>1, <1>2 DEF Types, DocTypes, DocRow
  <2> DEFINE of == {x \in applied : x.doc = d}
  <2>2. of \in SUBSET applied
    OBVIOUS
  <2>3. SumOf(of) \in Nat
    <3> HIDE DEF of
    <3> QED
      BY <1>1, <2>2, SumOfWithin
  <2> QED
    BY <2>1, <2>3 DEF Unallocated
<1>6. ASSUME NEW i \in Invoice
      PROVE  owed[i] = (IF i \in J THEN total[i] ELSE 0) /\ owed[i] \in Int
  <2>1. Total[i] \in Nat
    BY InvoiceAssumption
  <2>2. CASE i \in J
    <3>1. OriginalsOf(i) # {} \/ Total[i] = 0
      BY <2>2 DEF ToCarry
    <3>2. MovesOf(i) # {} \/ Total[i] = 0
      BY <3>1 DEF OriginalsOf
    <3> QED
      BY <2>1, <2>2, <3>2 DEF Owes
  <2>3. CASE i \notin J
    BY <2>3 DEF Owes
  <2> QED
    BY <2>1, <2>2, <2>3
<1>7. ASSUME NEW d \in DocIds
      PROVE  /\ taken[d] \in Int /\ gave[d] \in Int /\ taken[d] = -gave[d]
             /\ brought[d] \in Int /\ stood[d] = taken[d] + brought[d]
  <2>1. docs[d].amount \in Nat
    BY <1>1 DEF Types, DocTypes, DocRow
  <2>2. stood[d] \in Int
    BY <1>1, DocHolds DEF Posted
  <2>3. /\ LegsEffect(d, a) = Brings(docs[d].legs, docs[d].amount, {a})
        /\ docs[d].kind = "collection" =>
             Brings(docs[d].legs, docs[d].amount, {a})
               = IF docs[d].legs[1].account = a THEN -docs[d].amount ELSE 0
    BY <1>1, LegsBring
  <2>4. CASE docs[d].cancelled
    <3>1. d \notin C /\ d \notin O /\ stood[d] = 0
      BY <1>3, <2>4 DEF LiveDocs, Stands
    <3> QED
      BY <3>1
  <2>5. CASE ~docs[d].cancelled /\ docs[d].kind = "collection"
    <3>1. d \notin O /\ (d \in C <=> docs[d].legs[1].account = a)
      BY <1>3, <2>5 DEF LiveDocs
    <3>2. stood[d] = IF d \in C THEN -docs[d].amount ELSE 0
      BY <2>3, <2>5, <3>1 DEF Stands
    <3> QED
      BY <2>1, <3>1, <3>2
  <2>6. CASE ~docs[d].cancelled /\ docs[d].kind # "collection"
    <3>1. d \in O /\ d \notin C
      BY <1>3, <2>6 DEF LiveDocs
    <3>2. stood[d] = LegsEffect(d, a)
      BY <2>3, <2>6 DEF Stands
    <3> QED
      BY <2>2, <3>1, <3>2
  <2> QED
    BY <2>4, <2>5, <2>6
<1>8. /\ \A i \in J : owed[i] = total[i]
      /\ \A i \in Invoice \ J : owed[i] = 0
      /\ \A d \in C : gave[d] = given[d]
      /\ \A d \in DocIds \ C : gave[d] = 0
      /\ \A d \in O : brought[d] = other[d]
      /\ \A d \in DocIds \ O : brought[d] = 0
  BY <1>2, <1>6
<1>9. /\ DOMAIN remaining = J /\ DOMAIN left = C /\ DOMAIN other = O
      /\ Explained(a) <=> Balance(a) = SumFunction(remaining) - SumFunction(left) + SumFunction(other)
  BY DEF Explained
<1>10. Balance(a) = SumFunctionOnSet(stood, DocIds) + SumFunctionOnSet(owed, Invoice)
  <2>1. Balance(a) = Held(moves, {a})
    BY <1>1, BalanceIsHeld DEF Types, Sides
  <2>2. Held(moves, {a}) = SumFunctionOnSet(stood, DocIds) + SumFunctionOnSet(owed, Invoice)
    BY <1>1, BooksBalance
  <2> QED
    BY <2>1, <2>2
<1>11. SumFunctionOnSet(collected, J) = SumFunctionOnSet(shared, C)
  BY <1>1, AppliedTwoWays DEF InvoicesOn, CollectionsOn
<1> HIDE DEF J, C, O, remaining, left, other, total, collected, given, shared, uncollected, unshared,
             stood, owed, taken, gave, brought
<1>12. SumFunctionOnSet(remaining, J) = SumFunctionOnSet(total, J) - SumFunctionOnSet(collected, J)
  <2>1. SumFunctionOnSet(remaining, J) = SumFunctionOnSet(total, J) + SumFunctionOnSet(uncollected, J)
    BY <1>2, <1>4, SumAddsTerms
  <2>2. SumFunctionOnSet(uncollected, J) = -SumFunctionOnSet(collected, J)
    BY <1>2, <1>4, SumNegates
  <2>3. SumFunctionOnSet(total, J) \in Int /\ SumFunctionOnSet(collected, J) \in Int
    BY <1>2, <1>4, SumIsInt
  <2> QED
    BY <2>1, <2>2, <2>3
<1>13. SumFunctionOnSet(left, C) = SumFunctionOnSet(given, C) - SumFunctionOnSet(shared, C)
  <2>1. SumFunctionOnSet(left, C) = SumFunctionOnSet(given, C) + SumFunctionOnSet(unshared, C)
    BY <1>2, <1>5, SumAddsTerms
  <2>2. SumFunctionOnSet(unshared, C) = -SumFunctionOnSet(shared, C)
    BY <1>2, <1>5, SumNegates
  <2>3. SumFunctionOnSet(given, C) \in Int /\ SumFunctionOnSet(shared, C) \in Int
    BY <1>2, <1>5, SumIsInt
  <2> QED
    BY <2>1, <2>2, <2>3
<1>14. SumFunctionOnSet(owed, Invoice) = SumFunctionOnSet(total, J)
  <2>1. SumFunctionOnSet(owed, Invoice) = SumFunctionOnSet(owed, J)
    BY <1>1, <1>2, <1>6, <1>8, SumPart
  <2>2. SumFunctionOnSet(owed, J) = SumFunctionOnSet(total, J)
    BY <1>2, <1>8, SumSame
  <2> QED
    BY <2>1, <2>2
<1>15. SumFunctionOnSet(stood, DocIds)
         = SumFunctionOnSet(taken, DocIds) + SumFunctionOnSet(brought, DocIds)
  BY <1>1, <1>7, SumAddsTerms
<1>16. SumFunctionOnSet(taken, DocIds) = -SumFunctionOnSet(given, C)
  <2>1. SumFunctionOnSet(taken, DocIds) = -SumFunctionOnSet(gave, DocIds)
    BY <1>1, <1>7, SumNegates
  <2>2. SumFunctionOnSet(gave, DocIds) = SumFunctionOnSet(gave, C)
    BY <1>1, <1>2, <1>7, <1>8, SumPart
  <2>3. SumFunctionOnSet(gave, C) = SumFunctionOnSet(given, C)
    BY <1>2, <1>8, SumSame
  <2> QED
    BY <2>1, <2>2, <2>3
<1>17. SumFunctionOnSet(brought, DocIds) = SumFunctionOnSet(other, O)
  <2>1. SumFunctionOnSet(brought, DocIds) = SumFunctionOnSet(brought, O)
    BY <1>1, <1>2, <1>7, <1>8, SumPart
  <2>2. SumFunctionOnSet(brought, O) = SumFunctionOnSet(other, O)
    BY <1>2, <1>8, SumSame
  <2> QED
    BY <2>1, <2>2
<1>18. /\ SumFunctionOnSet(total, J) \in Int /\ SumFunctionOnSet(collected, J) \in Int
       /\ SumFunctionOnSet(given, C) \in Int /\ SumFunctionOnSet(brought, DocIds) \in Int
  BY <1>1, <1>2, <1>4, <1>5, <1>7, SumIsInt
<1>19. /\ SumFunction(remaining) = SumFunctionOnSet(remaining, J)
       /\ SumFunction(left) = SumFunctionOnSet(left, C)
       /\ SumFunction(other) = SumFunctionOnSet(other, O)
  BY <1>9 DEF SumFunction
<1> QED
  BY <1>9, <1>10, <1>11, <1>12, <1>13, <1>14, <1>15, <1>16, <1>17, <1>18, <1>19

(* Whatever was recorded, applied, cancelled and carried over in any       *)
(* order, an account's balance is explained by what stands on it, once     *)
(* nothing of it is left to carry; and the carry-over job finds nothing    *)
(* but invoices from before the ledger.                                    *)
THEOREM ReceivablesAlwaysExplained == ApiSpec => []ReceivablesExplained
<1>1. Books => ReceivablesExplained
  BY OnlyOldAreCarried, AccountExplained DEF ReceivablesExplained
<1> QED
  BY <1>1, BooksHold, PTL

-----------------------------------------------------------------------------
(* Closed periods and openings, with the carry-over                        *)

(* A step of the API is a step of the ledger, or carries an invoice over.  *)
LEMMA ApiStepIs ==
  ASSUME [ApiNext]_apiVars
  PROVE  \/ [Next]_vars
         \/ \E d \in Document, i \in Invoice, till \in CashAccount : CarryOver(d, i, till)
<1>1. Closings \subseteq Days \cup {0}
  BY BoundsAssumption DEF Days
<1>2. ASSUME Request PROVE Next
  BY <1>1, <1>2, RequestIs DEF Next
<1>3. UNCHANGED apiVars => UNCHANGED vars
  BY DEF apiVars, vars
<1> QED
  BY <1>2, <1>3 DEF ApiNext

(* _not_after_today, and the checks of post on what is carried over.       *)
LEMMA CarryOverDates ==
  ASSUME Books, NEW d \in Document, NEW i \in Invoice, NEW till \in CashAccount,
         CarryOver(d, i, till)
  PROVE  /\ moves \subseteq moves' /\ PaidDay(i) \in Nat /\ PaidDay(i) <= today
         /\ \A m \in moves' \ moves : /\ "date" \in DOMAIN m /\ m.date \in Nat
                                      /\ OpenDate(m.date) /\ AfterOpening(m, m.date)
<1> DEFINE posted == Debit(i) \cup (IF Uncollected(i) THEN {Credit(d, i, till, PaidDay(i))} ELSE {})
<1>1. Days \subseteq Nat /\ Types /\ today \in Days
  BY DaysAreNumbers DEF Books, Types, ClockTypes
<1>2. invoice[i].status \in Payable
  BY DEF CarryOver, ToCarry, Payable
<1>3. NotAfterToday(invoice[i].date) \in Days /\ PaidDay(i) \in Days
  BY <1>1, <1>2, CarryDays
<1>4. PaidDay(i) <= today
  <2>1. invoice[i].date \in Days /\ invoice[i].paidOn \in Days \cup {0}
    BY <1>1, <1>2 DEF Types, InvoiceTypes, InvoiceRow
  <2>2. ASSUME NEW day \in Days PROVE NotAfterToday(day) <= today
    BY <1>1 DEF NotAfterToday
  <2> QED
    BY <2>1, <2>2 DEF PaidDay
<1>5. ASSUME NEW m \in posted PROVE "date" \in DOMAIN m /\ m.date \in Days
  <2>1. CASE m \in Debit(i)
    BY <1>3, <2>1, MovementDate DEF Debit
  <2>2. CASE m = Credit(d, i, till, PaidDay(i))
    BY <1>3, <2>2, MovementDate DEF Credit
  <2> QED
    BY <2>1, <2>2
<1>6. moves' = moves \cup posted /\ MayPost(posted)
  BY DEF CarryOver
<1> HIDE DEF posted
<1> QED
  BY <1>1, <1>3, <1>4, <1>5, <1>6 DEF MayPost

(* A carry-over posts on open days only.                                   *)
LEMMA CarryOverAddsOpen ==
  ASSUME Books, Clock, NEW d \in Document, NEW i \in Invoice, NEW till \in CashAccount,
         CarryOver(d, i, till)
  PROVE  AddsOpenMoves
<1>1. /\ moves \subseteq moves'
      /\ \A m \in moves' \ moves : "date" \in DOMAIN m /\ m.date \in Nat /\ OpenDate(m.date)
  BY CarryOverDates
<1>2. moves' = moves \cup (moves' \ moves)
  BY <1>1
<1>3. \A m \in moves' \ moves : "date" \in DOMAIN m /\ ~(m.date <= closedThrough)
  BY <1>1 DEF OpenDate, Clock
<1> QED
  BY <1>2, <1>3 DEF AddsOpenMoves

(* The row carried over, if any, is a collection of a day not after today. *)
LEMMA CarryOverRow ==
  ASSUME NEW d, NEW i, NEW till, CarryOver(d, i, till)
  PROVE  /\ \A x \in DocIds : x \in DocIds' /\ docs'[x] = docs[x]
         /\ \A x \in DocIds' \ DocIds : docs'[x].kind = "collection" /\ docs'[x].date = PaidDay(i)
         /\ UNCHANGED <<today, closedThrough>>
<1>1. CASE Uncollected(i)
  BY <1>1 DEF CarryOver, DocIds
<1>2. CASE ~Uncollected(i)
  BY <1>2 DEF CarryOver, DocIds
<1> QED
  BY <1>1, <1>2

(* A carry-over posts nothing before an opening.                           *)
LEMMA CarryOverOpening ==
  ASSUME Books, OpeningInv, NEW d \in Document, NEW i \in Invoice, NEW till \in CashAccount,
         CarryOver(d, i, till)
  PROVE  OpeningInv'
<1>1. Clock /\ Dated /\ DocsDated /\ \A s \in Sides : OpeningFirst(s)
  BY DEF OpeningInv
<1>2. /\ \A x \in DocIds : x \in DocIds' /\ docs'[x] = docs[x]
      /\ \A x \in DocIds' \ DocIds : docs'[x].kind = "collection" /\ docs'[x].date = PaidDay(i)
      /\ UNCHANGED <<today, closedThrough>>
  BY CarryOverRow
<1>3. /\ moves \subseteq moves' /\ PaidDay(i) \in Nat /\ PaidDay(i) <= today
      /\ \A m \in moves' \ moves : /\ "date" \in DOMAIN m /\ m.date \in Nat
                                   /\ AfterOpening(m, m.date)
  BY CarryOverDates
<1>4. Clock'
  BY <1>1, <1>2 DEF Clock
<1>5. Dated'
  BY <1>1, <1>3 DEF Dated
<1>6. DocsDated'
  BY <1>1, <1>2, <1>3 DEF DocsDated
<1>7. ASSUME NEW s \in Sides PROVE OpeningFirst(s)'
  <2>1. LiveOpenings(s)' \subseteq LiveOpenings(s)
    BY <1>2 DEF LiveOpenings
  <2>2. \A x \in LiveOpenings(s)' : docs'[x].date = docs[x].date
    BY <1>2, <2>1 DEF LiveOpenings
  <2>3. \A m \in moves' \ moves, x \in LiveOpenings(s) : Touches(m, s) => docs[x].date <= m.date
    BY <1>3, SidesAssumption DEF AfterOpening, Touches
  <2> QED
    BY <1>1, <1>3, <2>1, <2>2, <2>3, OpeningStaysFirst
<1> QED
  BY <1>4, <1>5, <1>6, <1>7 DEF OpeningInv

(* So what openings rest on holds over every request and carry-over.       *)
LEMMA ApiOpeningHolds == ApiSpec => []OpeningInv
<1>1. ApiInit => OpeningInv
  BY BoundsAssumption
  DEF ApiInit, OpeningInv, Clock, Dated, DocsDated, DocIds, OpeningFirst, LiveOpenings, Days
<1>2. Books /\ OpeningInv /\ [ApiNext]_apiVars => OpeningInv'
  <2> SUFFICES ASSUME Books, OpeningInv, [ApiNext]_apiVars PROVE OpeningInv'
    OBVIOUS
  <2>1. CASE [Next]_vars
    BY <2>1, ClockStays, DatedStays, DocsDatedStays, OpeningStep DEF OpeningInv
  <2>2. CASE \E d \in Document, i \in Invoice, till \in CashAccount : CarryOver(d, i, till)
    BY <2>2, CarryOverOpening
  <2> QED
    BY <2>1, <2>2, ApiStepIs
<1> QED
  BY <1>1, <1>2, BooksHold, PTL DEF ApiSpec

(* With the carry-over too, each side has at most one live opening, and    *)
(* nothing live is dated before it (_check_after_opening in every post).   *)
THEOREM OpeningAlwaysFirstOverApi == ApiSpec => []OpeningComesFirst
<1>1. OpeningInv => OpeningComesFirst
  BY DEF OpeningInv, OpeningComesFirst, OpeningFirst, Live
<1> QED
  BY <1>1, ApiOpeningHolds, PTL

(* And while a period stays closed, neither a request nor the carry-over   *)
(* moves any side's balance as of its last day.                            *)
THEOREM PeriodsFrozenOverApi == ApiSpec => PeriodFrozen
<1>1. Books /\ OpeningInv /\ [ApiNext]_apiVars => [Frozen]_vars
  <2> SUFFICES ASSUME Books, OpeningInv, [ApiNext]_apiVars, closedThrough' = closedThrough,
                      NEW s \in Sides
               PROVE  BalanceAsOf(s, closedThrough)' = BalanceAsOf(s, closedThrough)
    BY DEF Frozen
  <2>1. Clock /\ Dated
    BY DEF OpeningInv
  <2>2. moves' = moves \/ AddsOpenMoves
    <3>1. CASE [Next]_vars
      BY <2>1, <3>1, NextAddsOpen DEF vars
    <3>2. CASE \E d \in Document, i \in Invoice, till \in CashAccount : CarryOver(d, i, till)
      BY <2>1, <3>2, CarryOverAddsOpen
    <3> QED
      BY <3>1, <3>2, ApiStepIs
  <2> QED
    BY <2>1, <2>2, OpenMovesKeepFrozen
<1> QED
  BY <1>1, BooksHold, ApiOpeningHolds, PTL DEF ApiSpec, PeriodFrozen, Frozen

-----------------------------------------------------------------------------
(* What is read agrees with itself                                         *)

(* What comes to the sides in P less what leaves them is what they hold.   *)
LEMMA InLessOut ==
  ASSUME NEW S, IsFiniteSet(S), S \subseteq MovementType, NEW P,
         \A m \in S : On(m, P) \in {-1, 0, 1}
  PROVE  SumOf({m \in S : On(m, P) = 1}) - SumOf({m \in S : On(m, P) = -1}) = Held(S, P)
<1> DEFINE In == {m \in S : On(m, P) = 1}
           Out == {m \in S : On(m, P) = -1}
           f == Weights(P)
           amount == [m \in S |-> m.amount]
           plus == [m \in S |-> IF m \in In THEN amount[m] ELSE 0]
           less == [m \in S |-> IF m \in Out THEN amount[m] ELSE 0]
           minus == [m \in S |-> -less[m]]
<1>1. ASSUME NEW m \in S
      PROVE  /\ amount[m] \in Int /\ plus[m] \in Int /\ less[m] \in Int /\ minus[m] = -less[m]
             /\ minus[m] \in Int /\ f[m] = plus[m] + minus[m]
  <2>1. m.amount \in Int /\ f[m] = Weight(m, P)
    BY WeightIsInt DEF MovementType
  <2>2. Weight(m, P) = On(m, P) * m.amount
    BY DEF Weight
  <2>3. CASE On(m, P) = 1
    BY <2>1, <2>2, <2>3
  <2>4. CASE On(m, P) = -1
    BY <2>1, <2>2, <2>4
  <2>5. CASE On(m, P) = 0
    BY <2>1, <2>2, <2>5
  <2> QED
    BY <2>3, <2>4, <2>5
<1>2. /\ In \in SUBSET S /\ Out \in SUBSET S
      /\ \A m \in In : plus[m] = amount[m]
      /\ \A m \in S \ In : plus[m] = 0
      /\ \A m \in Out : less[m] = amount[m]
      /\ \A m \in S \ Out : less[m] = 0
  OBVIOUS
<1> HIDE DEF In, Out
<1>3. IsFiniteSet(In) /\ IsFiniteSet(Out)
  BY <1>2, FS_Subset
<1>4. SumOf(In) = SumFunctionOnSet(amount, In) /\ SumOf(Out) = SumFunctionOnSet(amount, Out)
  BY <1>2, <1>3, SumOfIs
<1> HIDE DEF f, amount, plus, less, minus
<1>5. SumFunctionOnSet(f, S) = SumFunctionOnSet(plus, S) + SumFunctionOnSet(minus, S)
  BY <1>1, SumAddsTerms
<1>6. SumFunctionOnSet(minus, S) = -SumFunctionOnSet(less, S)
  BY <1>1, SumNegates
<1>7. SumFunctionOnSet(plus, S) = SumFunctionOnSet(amount, In)
  <2>1. SumFunctionOnSet(plus, S) = SumFunctionOnSet(plus, In)
    BY <1>1, <1>2, SumPart
  <2> QED
    BY <1>2, <1>3, <2>1, SumSame
<1>8. SumFunctionOnSet(less, S) = SumFunctionOnSet(amount, Out)
  <2>1. SumFunctionOnSet(less, S) = SumFunctionOnSet(less, Out)
    BY <1>1, <1>2, SumPart
  <2> QED
    BY <1>2, <1>3, <2>1, SumSame
<1>9. SumFunctionOnSet(plus, S) \in Int /\ SumFunctionOnSet(less, S) \in Int
  BY <1>1, SumIsInt
<1>10. SumOf(In) - SumOf(Out) = SumFunctionOnSet(f, S)
  BY <1>4, <1>5, <1>6, <1>7, <1>8, <1>9
<1> QED
  BY <1>10 DEF Held, In, Out, f

(* A document's movements are all internal to the firm, or none is.        *)
LEMMA InternalByKind ==
  ASSUME Types, NEW d \in DocIds, DocPosted(d), NEW m \in MovesOf(d)
  PROVE  Internal(m) <=> docs[d].kind \in {"transfer", "opening"}
<1>1. \A n \in MovesOf(d) : n \in moves /\ n.doc = d /\ n.no \in Nat \ {0}
  BY DEF Types, MoveTypes, MovementType, MovesOf
<1>2. \A n \in moves : n.doc = d => n \in MovesOf(d)
  BY DEF MovesOf
<1>3. docs[d].kind \in DocKinds
  BY DEF Types, DocTypes, DocRow
<1>4. CASE ~IsMirror(m)
  <2>1. m.source = docs[d].kind
    BY <1>4 DEF DocPosted, Undone, Entries, Movement
  <2>2. \A n \in MovesOf(d) : n.no # m.reverses
    BY <1>1, <1>4 DEF IsMirror
  <2> QED
    BY <1>1, <1>2, <2>1, <2>2 DEF Internal
<1>5. CASE IsMirror(m)
  <2>1. Undone(d)
    BY <1>5 DEF DocPosted, Entries, Movement, IsMirror
  <2>2. m.source = "reversal" /\ \E n \in MovesOf(d) : n.no = m.reverses
    BY <1>5, <2>1 DEF Undone
  <2>3. \A n \in MovesOf(d) : n.no = m.reverses => n.source = docs[d].kind
    BY <2>1 DEF Undone
  <2> QED
    BY <1>1, <1>2, <2>2, <2>3 DEF Internal
<1> QED
  BY <1>4, <1>5

(* What was both made and reversed in a window.                            *)
MadeAndReversed(from, to) ==
  {m \in moves :
     /\ InWindow(m, from, to)
     /\ ~Internal(m)
     /\ \E n \in MovesOf(m.doc) :
          (n.reverses = m.no \/ m.reverses = n.no) /\ InWindow(n, from, to)}

(* A document was made and reversed in a window whole, or not at all.      *)
LEMMA WholeOrNothing ==
  ASSUME Types, NEW d \in DocIds, DocPosted(d), NEW from, NEW to,
         {m \in MadeAndReversed(from, to) : m.doc = d} # {}
  PROVE  docs[d].cancelled /\ {m \in MadeAndReversed(from, to) : m.doc = d} = MovesOf(d)
<1>1. \A m \in MovesOf(d) : m \in moves /\ m.doc = d /\ m.no \in Nat \ {0}
  BY DEF Types, MoveTypes, MovementType, MovesOf
<1>2. PICK m \in MovesOf(d), n \in MovesOf(d) :
        /\ InWindow(m, from, to) /\ InWindow(n, from, to) /\ ~Internal(m)
        /\ n.reverses = m.no \/ m.reverses = n.no
  BY DEF MadeAndReversed, MovesOf
<1>3. IsMirror(m) \/ IsMirror(n)
  BY <1>1, <1>2 DEF IsMirror
<1>4. docs[d].cancelled /\ Undone(d)
  <2>1. CASE ~docs[d].cancelled
    <3>1. MovesOf(d) = Entries(d, docs[d].legs, docs[d].amount, docs[d].date, docs[d].kind)
      BY <2>1 DEF DocPosted
    <3>2. \A o \in MovesOf(d) : o.reverses = 0
      BY <3>1 DEF Entries, Movement
    <3> QED
      BY <1>3, <3>2 DEF IsMirror
  <2>2. CASE docs[d].cancelled
    BY <2>2, Zenon DEF DocPosted
  <2> QED
    BY <2>1, <2>2
<1>5. (IsMirror(m) /\ ~IsMirror(n)) \/ (IsMirror(n) /\ ~IsMirror(m))
  BY <1>1, <1>2, <1>4 DEF Undone, IsMirror
<1>6. ASSUME NEW o \in MovesOf(d)
      PROVE  /\ InWindow(o, from, to) /\ ~Internal(o)
             /\ \E p \in MovesOf(d) : p.reverses = o.no \/ o.reverses = p.no
  <2>1. o.date = m.date \/ o.date = n.date
    BY <1>4, <1>5 DEF Undone
  <2>2. InWindow(o, from, to)
    BY <1>2, <2>1 DEF InWindow
  <2>3. ~Internal(o)
    BY <1>2, InternalByKind
  <2>4. \E p \in MovesOf(d) : p.reverses = o.no \/ o.reverses = p.no
    BY <1>1, <1>4 DEF Undone, Reversed
  <2> QED
    BY <2>2, <2>3, <2>4
<1>7. \A o \in MovesOf(d) : o \in MadeAndReversed(from, to)
  BY <1>1, <1>6 DEF MadeAndReversed
<1>8. \A o \in MadeAndReversed(from, to) : o.doc = d => o \in MovesOf(d)
  BY DEF MadeAndReversed, MovesOf
<1> QED
  BY <1>1, <1>4, <1>7, <1>8

(* What was both made and reversed in a window brought nothing to a till.  *)
LEMMA ReversedBringsNothing ==
  ASSUME Types, Posted, NEW c \in CashAccount, NEW from, NEW to
  PROVE  Held(MadeAndReversed(from, to), {c}) = 0
<1> DEFINE R == MadeAndReversed(from, to)
           K == DocIds \cup Invoice
           origin == [m \in R |-> m.doc]
           part == [x \in K |-> {m \in R : origin[m] = x}]
           brought == [x \in K |-> Held(part[x], {c})]
           f == Weights({c})
<1>1. R \subseteq moves /\ IsFiniteSet(moves) /\ moves \subseteq MovementType
  BY DEF MadeAndReversed, Types, MoveTypes
<1>2. IsFiniteSet(R) /\ IsFiniteSet(K)
  <2>1. IsFiniteSet(R)
    <3> HIDE DEF R
    <3> QED
      BY <1>1, FS_Subset
  <2> QED
    BY <2>1, FiniteAssumption, FS_Union DEF Types, DocTypes
<1>3. \A m \in R : f[m] \in Int /\ origin[m] \in K
  BY <1>1, WeightIsInt DEF Types, MoveTypes
<1>4. ASSUME NEW x \in DocIds PROVE brought[x] = 0
  <2>1. part[x] = {m \in R : m.doc = x}
    OBVIOUS
  <2>2. CASE part[x] = {}
    <3>1. Held(part[x], {c}) = Held({}, {c})
      BY <2>2, Zenon
    <3> QED
      BY <3>1, HeldOfNone
  <2>3. CASE part[x] # {}
    <3>1. docs[x].cancelled /\ part[x] = MovesOf(x)
      BY <2>1, <2>3, WholeOrNothing DEF Posted
    <3>2. Held(part[x], {c}) = Held(MovesOf(x), {c})
      BY <3>1, Zenon
    <3>3. Held(MovesOf(x), {c}) = 0
      BY <3>1 DEF Posted, DocPosted, Sides
    <3> QED
      BY <3>2, <3>3
  <2> QED
    BY <2>2, <2>3
<1>5. ASSUME NEW i \in Invoice PROVE brought[i] = 0
  <2>1. part[i] \subseteq R /\ \A m \in part[i] : m.doc = i
    OBVIOUS
  <2>2. IsFiniteSet(part[i])
    <3> HIDE DEF R, part
    <3> QED
      BY <1>2, <2>1, FS_Subset
  <2>3. ASSUME NEW m \in part[i] PROVE f[m] = 0
    <3>1. m \in MovesOf(i) /\ m \in MovementType
      BY <1>1, <2>1 DEF MovesOf
    <3>2. m.cash = NoSide /\ m.account # c
      BY <3>1, SidesAssumption DEF Posted, InvoicePosted, MovementType, Sides
    <3>3. On(m, {c}) = 0 /\ m.amount \in Int
      BY <3>1, <3>2, SidesAssumption DEF On, Sides, MovementType
    <3>4. Weight(m, {c}) = 0
      BY <3>3 DEF Weight
    <3> QED
      BY <3>1, <3>4, WeightIsInt
  <2> HIDE DEF f, part
  <2>4. SumFunctionOnSet(f, part[i]) = 0
    BY <2>2, <2>3, SumOfZeros
  <2> QED
    BY <2>4 DEF Held, f
<1>6. /\ \A m \in R : f[m] \in Int
      /\ \A m \in R : origin[m] \in K
      /\ \A x \in K : part[x] = {m \in R : origin[m] = x}
      /\ \A x \in K : brought[x] = SumFunctionOnSet(f, part[x])
  BY <1>3 DEF Held
<1>7. \A x \in K : brought[x] = 0
  BY <1>4, <1>5
<1> HIDE DEF R, K, origin, part, brought, f
<1>8. SumFunctionOnSet(f, R) = SumFunctionOnSet(brought, K)
  BY <1>2, <1>6, SumGroups
<1>9. SumFunctionOnSet(brought, K) = 0
  BY <1>2, <1>7, SumOfZeros
<1> QED
  BY <1>8, <1>9 DEF Held, R, f

(* A till's money in less its money out in a window, with the transfers    *)
(* and openings, is what its balance moved by.                             *)
LEMMA TillReconciles ==
  ASSUME Types, Posted, NEW c \in CashAccount, NEW from, NEW to
  PROVE  LET window == {m \in moves : InWindow(m, from, to)}
             flows == Flows(from, to)
         IN  MoneyIn(c, flows) - MoneyOut(c, flows) + SumMoves({m \in window : Internal(m)}, c)
               = SumMoves(window, c)
<1> DEFINE W == {m \in moves : InWindow(m, from, to)}
           I == {m \in W : Internal(m)}
           F == Flows(from, to)
           R == MadeAndReversed(from, to)
<1>1. IsFiniteSet(moves) /\ moves \subseteq MovementType
  BY DEF Types, MoveTypes
<1>2. /\ W \in SUBSET moves /\ I \in SUBSET moves /\ F \in SUBSET moves /\ R \in SUBSET moves
      /\ W = I \cup (F \cup R) /\ F \cap R = {} /\ I \cap (F \cup R) = {}
  BY DEF Flows, MadeAndReversed
<1>3. ASSUME NEW m \in F
      PROVE  /\ On(m, {c}) \in {-1, 0, 1}
             /\ On(m, {c}) = 1 <=> m.cash = c /\ m.cashDir = 1
             /\ On(m, {c}) = -1 <=> m.cash = c /\ m.cashDir = -1
  <2>1. m.account # c /\ m.cashDir \in {-1, 0, 1}
    BY <1>1, <1>2, SidesAssumption DEF MovementType, Sides
  <2> QED
    BY <2>1 DEF On
<1>4. /\ {m \in F : On(m, {c}) = 1} = {m \in F : m.cash = c /\ m.cashDir = 1}
      /\ {m \in F : On(m, {c}) = -1} = {m \in F : m.cash = c /\ m.cashDir = -1}
  BY <1>3
<1> HIDE DEF W, I, F, R
<1>5. /\ SumOf({m \in F : On(m, {c}) = 1}) = MoneyIn(c, F)
      /\ SumOf({m \in F : On(m, {c}) = -1}) = MoneyOut(c, F)
  BY <1>4, Zenon DEF MoneyIn, MoneyOut
<1>6. /\ IsFiniteSet(W) /\ IsFiniteSet(I) /\ IsFiniteSet(F) /\ IsFiniteSet(R)
      /\ IsFiniteSet(F \cup R)
  BY <1>1, <1>2, FS_Subset, FS_Union
<1>7. MoneyIn(c, F) - MoneyOut(c, F) = Held(F, {c})
  <2>1. SumOf({m \in F : On(m, {c}) = 1}) - SumOf({m \in F : On(m, {c}) = -1}) = Held(F, {c})
    BY <1>1, <1>2, <1>3, <1>6, InLessOut
  <2> QED
    BY <1>5, <2>1
<1>8. SumMoves(I, c) = Held(I, {c}) /\ SumMoves(W, c) = Held(W, {c})
  BY <1>1, <1>2, <1>6, SumMovesIsHeld
<1>9. Held(R, {c}) = 0
  BY ReversedBringsNothing DEF R
<1>10. Held(F \cup R, {c}) = Held(F, {c}) + Held(R, {c})
  BY <1>1, <1>2, <1>6, HeldJoins
<1>11. Held(I \cup (F \cup R), {c}) = Held(I, {c}) + Held(F \cup R, {c})
  BY <1>1, <1>2, <1>6, HeldJoins
<1>12. Held(W, {c}) = Held(I \cup (F \cup R), {c})
  BY <1>2, Zenon
<1>13. Held(F, {c}) \in Int /\ Held(I, {c}) \in Int
  BY <1>1, <1>2, <1>6, HeldIsInt
<1>14. MoneyIn(c, F) - MoneyOut(c, F) + SumMoves(I, c) = SumMoves(W, c)
  BY <1>7, <1>8, <1>9, <1>10, <1>11, <1>12, <1>13
<1> QED
  BY <1>14 DEF W, I, F

(* A statement's debits less its credits are what its rows bring.          *)
LEMMA StatementRows ==
  ASSUME MoveTypes, NEW a \in Account, NEW rows \in SUBSET moves, \A m \in rows : m.account = a
  PROVE  SumOf({m \in rows : m.dir = 1}) - SumOf({m \in rows : m.dir = -1}) = Held(rows, {a})
<1>1. IsFiniteSet(rows) /\ rows \subseteq MovementType
  BY FS_Subset DEF MoveTypes
<1>2. ASSUME NEW m \in rows
      PROVE  On(m, {a}) = m.dir /\ On(m, {a}) \in {-1, 0, 1}
  <2>1. m.account = a /\ m.cash # a /\ m.dir \in {-1, 0, 1}
    BY <1>1, SidesAssumption DEF MovementType, Sides
  <2> QED
    BY <2>1 DEF On
<1>3. /\ {m \in rows : On(m, {a}) = 1} = {m \in rows : m.dir = 1}
      /\ {m \in rows : On(m, {a}) = -1} = {m \in rows : m.dir = -1}
  BY <1>2
<1>4. /\ SumOf({m \in rows : On(m, {a}) = 1}) = SumOf({m \in rows : m.dir = 1})
      /\ SumOf({m \in rows : On(m, {a}) = -1}) = SumOf({m \in rows : m.dir = -1})
  BY <1>3, Zenon
<1>5. SumOf({m \in rows : On(m, {a}) = 1}) - SumOf({m \in rows : On(m, {a}) = -1}) = Held(rows, {a})
  BY <1>1, <1>2, InLessOut
<1> QED
  BY <1>4, <1>5

(* Debits and credits add up to numbers.                                   *)
LEMMA AmountsOfMoves ==
  ASSUME MoveTypes, NEW rows \in SUBSET moves
  PROVE  /\ SumOf({m \in rows : m.dir = 1}) \in Int
         /\ SumOf({m \in rows : m.dir = -1}) \in Int
<1>1. IsFiniteSet(rows) /\ \A m \in rows : m.amount \in Nat \ {0}
  BY FS_Subset DEF MoveTypes, MovementType
<1>2. \A T \in SUBSET rows : SumOf(T) \in Nat
  BY <1>1, SumOfWithin
<1> QED
  BY <1>2

(* Movements of other sides do not count.                                  *)
LEMMA HeldByItsOwn ==
  ASSUME MoveTypes, NEW a \in Account, NEW S \in SUBSET moves
  PROVE  Held(S, {a}) = Held({m \in S : m.account = a}, {a})
<1> DEFINE T == {m \in S : m.account = a}
           f == Weights({a})
<1>1. IsFiniteSet(S) /\ S \subseteq MovementType
  BY FS_Subset DEF MoveTypes
<1>2. ASSUME NEW m \in S PROVE f[m] \in Int /\ (m \notin T => f[m] = 0)
  <2>1. m.cash # a /\ m.amount \in Int /\ f[m] = Weight(m, {a}) /\ f[m] \in Int
    BY <1>1, SidesAssumption, WeightIsInt DEF MovementType, Sides
  <2>2. m \notin T => On(m, {a}) = 0
    BY <2>1 DEF On
  <2>3. m \notin T => Weight(m, {a}) = 0
    BY <2>1, <2>2 DEF Weight
  <2> QED
    BY <2>1, <2>3
<1>3. T \in SUBSET S
  OBVIOUS
<1> HIDE DEF T, f
<1>4. SumFunctionOnSet(f, S) = SumFunctionOnSet(f, T)
  BY <1>1, <1>2, <1>3, SumPart
<1> QED
  BY <1>4 DEF Held, f, T

(* A full statement closes on the balance, and a day of it on the next     *)
(* opening.                                                                *)
LEMMA StatementCloses ==
  ASSUME MoveTypes, NEW a \in Account
  PROVE  /\ Statement(a, [start |-> NoDay, end |-> NoDay]).closing = Balance(a)
         /\ \A day \in Days :
              Statement(a, [start |-> day, end |-> day]).closing = Opening(a, day + 1)
<1>1. IsFiniteSet(moves) /\ moves \subseteq MovementType /\ a \in Sides
  BY DEF MoveTypes, Sides
<1>2. Statement(a, [start |-> NoDay, end |-> NoDay]).closing = Balance(a)
  <2> DEFINE q == [start |-> NoDay, end |-> NoDay]
             rows == {m \in moves : /\ m.account = a
                                    /\ q.start # NoDay => m.date >= q.start
                                    /\ q.end # NoDay => m.date <= q.end}
  <2>1. rows = {m \in moves : m.account = a} /\ rows \in SUBSET moves /\ Opening(a, q.start) = 0
    BY DEF Opening
  <2>2. Statement(a, q).closing
          = Opening(a, q.start) + SumOf({m \in rows : m.dir = 1}) - SumOf({m \in rows : m.dir = -1})
    BY DEF Statement
  <2> HIDE DEF q, rows
  <2>3. SumOf({m \in rows : m.dir = 1}) - SumOf({m \in rows : m.dir = -1}) = Held(rows, {a})
    BY <2>1, StatementRows
  <2>4. Held(rows, {a}) = Held({m \in moves : m.account = a}, {a})
    BY <2>1, Zenon
  <2>5. Held(moves, {a}) = Held({m \in moves : m.account = a}, {a}) /\ Balance(a) = Held(moves, {a})
    BY <1>1, HeldByItsOwn, BalanceIsHeld
  <2>6. SumOf({m \in rows : m.dir = 1}) \in Int /\ SumOf({m \in rows : m.dir = -1}) \in Int
    BY <1>1, <2>1, AmountsOfMoves
  <2>7. Statement(a, q).closing = Balance(a)
    BY <2>1, <2>2, <2>3, <2>4, <2>5, <2>6
  <2> QED
    BY <2>7 DEF q
<1>3. ASSUME NEW day \in Days
      PROVE  Statement(a, [start |-> day, end |-> day]).closing = Opening(a, day + 1)
  <2> DEFINE q == [start |-> day, end |-> day]
             rows == {m \in moves : /\ m.account = a
                                    /\ q.start # NoDay => m.date >= q.start
                                    /\ q.end # NoDay => m.date <= q.end}
             before == {m \in moves : m.date <= day - 1}
             through == {m \in moves : m.date <= day}
             on == {m \in moves : m.date = day}
  <2>1. day \in Nat \ {0} /\ \A m \in moves : m.date \in Nat
    BY <1>1, DaysAreNumbers DEF MovementType
  <2>2. rows = {m \in on : m.account = a} /\ rows \in SUBSET moves
    BY <2>1 DEF NoDay
  <2>3. /\ before \in SUBSET moves /\ on \in SUBSET moves
        /\ through = before \cup on /\ before \cap on = {}
    BY <2>1
  <2>4. /\ Opening(a, q.start) = SumMoves(before, a)
        /\ Opening(a, day + 1) = SumMoves(through, a)
    <3>1. Opening(a, q.start) = SumMoves(before, a)
      BY <2>1 DEF Opening, BalanceAsOf, NoDay
    <3>2. (day + 1) - 1 = day /\ day + 1 # NoDay
      BY <2>1 DEF NoDay
    <3>3. Opening(a, day + 1) = BalanceAsOf(a, day)
      BY <3>2 DEF Opening
    <3> QED
      BY <3>1, <3>3 DEF BalanceAsOf
  <2>5. Statement(a, q).closing
          = Opening(a, q.start) + SumOf({m \in rows : m.dir = 1}) - SumOf({m \in rows : m.dir = -1})
    BY DEF Statement
  <2>6. \A m \in rows : m.account = a
    OBVIOUS
  <2> HIDE DEF q, rows, before, through, on
  <2>7. SumOf({m \in rows : m.dir = 1}) - SumOf({m \in rows : m.dir = -1}) = Held(rows, {a})
    BY <2>2, <2>6, StatementRows
  <2>8. Held(rows, {a}) = Held({m \in on : m.account = a}, {a})
    BY <2>2, Zenon
  <2>9. Held(on, {a}) = Held({m \in on : m.account = a}, {a})
    BY <2>3, HeldByItsOwn
  <2>10. IsFiniteSet(before) /\ IsFiniteSet(on) /\ IsFiniteSet(through) /\ through \subseteq MovementType
    BY <1>1, <2>3, FS_Subset, FS_Union
  <2>11. Held(before \cup on, {a}) = Held(before, {a}) + Held(on, {a})
    BY <1>1, <2>3, <2>10, HeldJoins
  <2>12. Held(through, {a}) = Held(before \cup on, {a})
    BY <2>3, Zenon
  <2>13. SumMoves(before, a) = Held(before, {a}) /\ SumMoves(through, a) = Held(through, {a})
    BY <1>1, <2>3, <2>10, SumMovesIsHeld
  <2>14. Held(before, {a}) \in Int
    BY <1>1, <2>3, <2>10, HeldIsInt
  <2>15. SumOf({m \in rows : m.dir = 1}) \in Int /\ SumOf({m \in rows : m.dir = -1}) \in Int
    BY <1>1, <2>2, AmountsOfMoves
  <2>16. Statement(a, q).closing = Opening(a, day + 1)
    BY <2>4, <2>5, <2>7, <2>8, <2>9, <2>11, <2>12, <2>13, <2>14, <2>15
  <2> QED
    BY <2>16 DEF q
<1> QED
  BY <1>2, <1>3

(* An account shown as overdue has an invoice a collection can pay.        *)
LEMMA OverdueIsPayable ==
  ASSUME Books, NEW a \in Account, \A i \in ToCarry : AccountOf[i] # a, Overdue(a, 0)
  PROVE  OpenInvoices(a) # {}
<1>1. PICK i \in Invoice : AccountOf[i] = a /\ invoice[i].status = "issued"
  BY DEF Overdue
<1>2. PaidMeansCovered(i)
  BY <1>1, CarriedAreCovered DEF Books
<1>3. CoveredBy(i, invoice[i], Paying(i, applied, docs), docs)
  BY <1>1, <1>2, PaidIsCovered DEF Payable
<1>4. ~(SumOf(Paying(i, applied, docs)) >= Total[i])
  BY <1>1, <1>3 DEF CoveredBy
<1>5. /\ Total[i] \in Nat /\ SumOf(Paying(i, applied, docs)) \in Nat
      /\ Remaining(i) = Total[i] - SumOf(Paying(i, applied, docs))
  BY CollectedIsNat DEF Remaining, Books, Types
<1>6. Remaining(i) > 0
  BY <1>4, <1>5
<1> QED
  BY <1>1, <1>6 DEF OpenInvoices

(* A till's money in and out agrees with its balance in any period of the  *)
(* summary, a statement opens with what the one before it closed on and in *)
(* full closes on the balance, and an overdue account has an invoice to    *)
(* pay (finance.summary, statement_rows, filter_overdue).                  *)
THEOREM ReadsAlwaysReconcile == ApiSpec => []ReadsReconcile
<1>1. Books => ReadsReconcile
  <2> SUFFICES ASSUME Books PROVE ReadsReconcile
    OBVIOUS
  <2>1. Types /\ Posted /\ MoveTypes /\ moves \subseteq MovementType
    BY DEF Books, Types, MoveTypes
  <2>2. \A c \in {m.cash : m \in moves} \ {NoSide} : c \in CashAccount
    BY <2>1 DEF MovementType
  <2> QED
    BY <2>1, <2>2, TillReconciles, StatementCloses, OverdueIsPayable DEF ReadsReconcile
<1> QED
  BY <1>1, BooksHold, PTL

=============================================================================
