---------------------------- MODULE BillingProofs ----------------------------
(***************************************************************************)
(* Proofs about Billing, for any number of contracts, lifts, faults, runs  *)
(* of the job, requests, periods and changes.                              *)
(*                                                                         *)
(* A contract keeps the day it started on, so its periods lie on a grid    *)
(* PeriodDays wide, whatever else of it changes, and two drafts of it      *)
(* overlap only when they begin on the same day.  The rest is who draws:   *)
(* what a run has pending no draft and no other run's pending repeats,     *)
(* what it has left to draft it has not drafted, and no edit gives a line  *)
(* another fault or takes back its release.                                *)
(***************************************************************************)
EXTENDS Billing, FiniteSetTheorems, WellFoundedInduction, TLAPS

-----------------------------------------------------------------------------
(* The invariant                                                           *)

(* The rows of the tables, and what a run holds.                           *)
LineRow ==
  [kind : {"contract_fee", "elevator_fee", "fault", "manual"}, fault : Fault \cup {None},
   share : Nat, quantity : Nat, price : Nat, amount : Int,
   needsPrice : BOOLEAN, released : BOOLEAN, deleted : BOOLEAN]

InvoiceRow ==
  [contract : Contract, from : Nat, to : Nat,
   status : {"draft", "issued", "paid", "cancelled"},
   lines : Seq(LineRow), total : {Total(lines) : lines \in Seq(LineRow)}]

(* A contract as a run read it, and a period of it. *)
Offer == [id : Contract, row : ContractRow]
Slot == [of : Offer, period : [from : Nat, to : Nat]]

RunRow ==
  [rows : SUBSET Offer, left : SUBSET Slot,
   built : Seq(InvoiceRow), pending : Seq(InvoiceRow), alone : BOOLEAN]

Types ==
  /\ today \in Nat
  /\ contract \in [Contract -> ContractRow]
  /\ cover \in [Contract -> [Lift -> [added : Nat, removed : Nat]]]
  /\ fault \in [Fault -> [closed : Nat, billable : BOOLEAN]]
  /\ drafts \in Seq(InvoiceRow)
  /\ run \in [Run -> RunRow]
  /\ call \in [Request -> {NoCall} \cup [at : Nat \X Nat, row : LineRow]]

(* A contract read is one that was made, and it starts when it did. *)
Known(o) ==
  /\ o.row.status # "none" /\ contract[o.id].status # "none"
  /\ o.row.start = contract[o.id].start

(* A draft bills a period of its contract's grid. *)
OnGrid(d) ==
  /\ contract[d.contract].status # "none"
  /\ \E k \in Nat : d.from = contract[d.contract].start + k * PeriodDays
  /\ d.to < d.from + PeriodDays

Gridded ==
  /\ \A d \in DOMAIN drafts : OnGrid(drafts[d])
  /\ \A g \in Run :
       /\ \A k \in DOMAIN run[g].pending : OnGrid(run[g].pending[k])
       /\ \A k \in DOMAIN run[g].built : OnGrid(run[g].built[k])
       /\ \A o \in run[g].rows : Known(o)
       /\ \A w \in run[g].left : Known(w.of) /\ w.period \in Periods(w.of.row)

(* The total is the lines'; a line without a price says so; only a         *)
(* cancellation releases faults, and it releases all of them.              *)
Sound(d) ==
  /\ d.total = Total(d.lines)
  /\ \A k \in DOMAIN d.lines :
       /\ d.lines[k].needsPrice <=> d.lines[k].price = Null
       /\ d.status = "draft" => ~d.lines[k].released
       /\ d.status = "cancelled" /\ d.lines[k].fault # None => d.lines[k].released

Drawn ==
  /\ \A d \in DOMAIN drafts : Sound(drafts[d])
  /\ \A g \in Run :
       /\ \A k \in DOMAIN run[g].pending : Sound(run[g].pending[k]) /\ run[g].pending[k].status = "draft"
       /\ \A k \in DOMAIN run[g].built : Sound(run[g].built[k]) /\ run[g].built[k].status = "draft"

(* What an edit is about to write back carries the same fault. *)
Fetched ==
  \A r \in Request : call[r] # NoCall =>
    LET d == call[r].at[1]
        k == call[r].at[2]
    IN  /\ d \in DOMAIN drafts /\ k \in DOMAIN drafts[d].lines
        /\ ~call[r].row.deleted
        /\ call[r].row.fault = drafts[d].lines[k].fault
        /\ drafts[d].status = "draft" => ~call[r].row.released

(* Two drafts the indexes let stand beside each other. *)
Clear(d, e) ==
  /\ Live(d) /\ Live(e) /\ d.contract = e.contract => d.from # e.from
  /\ \A f \in Fault : ~(Holds(d, f) /\ Holds(e, f))

Distinct ==
  /\ \A d, e \in DOMAIN drafts : d # e => Clear(drafts[d], drafts[e])
  /\ \A g \in Run :
       /\ \A i, j \in DOMAIN run[g].pending : i # j => Clear(run[g].pending[i], run[g].pending[j])
       /\ \A d \in DOMAIN drafts, i \in DOMAIN run[g].pending : Clear(drafts[d], run[g].pending[i])
       /\ \A h \in Run \ {g} : \A i \in DOMAIN run[g].pending, j \in DOMAIN run[h].pending :
            Clear(run[g].pending[i], run[h].pending[j])
       /\ Len(run[g].built) <= 1
       /\ \A k \in DOMAIN run[g].built, i \in DOMAIN run[g].pending :
            Clear(run[g].built[k], run[g].pending[i])

(* What a run has still to draft it has not drafted yet. *)
Bills(d, w) == d.contract = w.of.id /\ d.from = w.period.from

Ahead ==
  \A g \in Run : \A w \in run[g].left :
    /\ \A v \in run[g].left : v.of = w.of /\ (v.period.from = w.period.from => v = w)
    /\ \A i \in DOMAIN run[g].pending : ~Bills(run[g].pending[i], w)
    /\ \A k \in DOMAIN run[g].built : ~Bills(run[g].built[k], w)

BillingInv == Types /\ Gridded /\ Drawn /\ Fetched /\ Distinct /\ Ahead

(* What a run that nothing disturbed still knows: it is by itself, its     *)
(* contracts are as it read them, no draft took what it is drafting, and   *)
(* every period due is in its hands or drafted.                            *)
Covers(g, c, p) ==
  \/ \E o \in run[g].rows : o.id = c
  \/ \E w \in run[g].left : w.of.id = c /\ w.period.from = p.from
  \/ \E k \in DOMAIN run[g].built : SamePeriod(run[g].built[k], c, p)
  \/ \E k \in DOMAIN run[g].pending : SamePeriod(run[g].pending[k], c, p)
  \/ \E k \in DOMAIN drafts : SamePeriod(drafts[k], c, p)

Due(c, p) ==
  /\ Drafted(contract[c]) /\ contract[c].vat
  /\ p \in Periods(contract[c]) /\ p.to < today /\ p.to >= today - LOOKBACK

Undisturbed(g) ==
  /\ \A h \in Run \ {g} : run[h] = Idle
  /\ \A o \in run[g].rows : o.row = contract[o.id]
  /\ \A w \in run[g].left : w.of.row = contract[w.of.id]
  /\ \A k \in DOMAIN run[g].built, d \in DOMAIN drafts, f \in Fault :
       ~(Holds(run[g].built[k], f) /\ Holds(drafts[d], f))
  /\ \A c \in Contract : \A p \in Periods(contract[c]) : Due(c, p) => Covers(g, c, p)

Thorough == \A g \in Run : run[g].alone => Undisturbed(g)

-----------------------------------------------------------------------------
(* What the model is built from                                            *)

LEMMA LeastOf ==
  ASSUME NEW S \in SUBSET Nat, S # {}
  PROVE  \E m \in S : \A n \in S : m <= n
<1> DEFINE R == OpToRel(<, Nat)
<1>1. PICK m \in S : \A n \in S : <<n, m>> \notin R
  <2>1. IsWellFoundedOn(R, Nat)
    BY NatLessThanWellFounded
  <2> HIDE DEF R
  <2> QED
    BY <2>1, WFMin
<1>2. ASSUME NEW n \in S
      PROVE  m <= n
  <2>1. <<n, m>> \notin R
    BY <1>1
  <2>2. ~(n < m)
    <3>1. SUFFICES ASSUME n < m
                   PROVE  <<n, m>> \in R
      BY <2>1
    <3>2. <<n, m>> \in Nat \X Nat /\ <<n, m>>[1] < <<n, m>>[2]
      BY <3>1
    <3> QED
      BY <3>2 DEF OpToRel
  <2> QED
    BY <2>2
<1> QED
  BY <1>2

(* A run takes up one of the contracts it has read, while there are any.   *)
LEMMA FirstIsOne ==
  ASSUME NEW rows \in SUBSET Offer, rows # {}
  PROVE  First(rows) \in rows
<1> DEFINE starts == {o.row.start : o \in rows}
<1>1. PICK m \in starts : \A n \in starts : m <= n
  <2>1. starts \in SUBSET Nat /\ starts # {}
    BY DEF Offer, ContractRow
  <2> HIDE DEF starts
  <2> QED
    BY <2>1, LeastOf
<1> DEFINE keys == {i \in Contract : \E o \in rows : o.id = i /\ o.row.start = m}
<1>2. PICK i \in keys : \A j \in keys : i <= j
  <2>1. keys \in SUBSET Nat
    BY BillingAssumption
  <2>2. keys # {}
    BY <1>1 DEF Offer
  <2> HIDE DEF keys
  <2> QED
    BY <2>1, <2>2, LeastOf
<1>3. PICK o \in rows : o.id = i /\ o.row.start = m
  BY <1>2
<1>4. ASSUME NEW p \in rows
      PROVE  o.row.start < p.row.start \/ (o.row.start = p.row.start /\ o.id <= p.id)
  <2>1. m <= p.row.start /\ p.row.start \in Nat /\ m \in Nat /\ p.id \in Contract
    BY <1>1 DEF Offer, ContractRow
  <2>2. CASE m = p.row.start
    <3>1. p.id \in keys
      BY <2>1, <2>2
    <3> QED
      BY <1>2, <1>3, <2>2, <3>1
  <2>3. CASE m # p.row.start
    BY <1>3, <2>1, <2>3
  <2> QED
    BY <2>2, <2>3
<1> QED
  BY <1>4 DEF First

(* And it drafts the earliest period it has left.                          *)
LEMMA EarliestIsOne ==
  ASSUME NEW left \in SUBSET Slot, left # {}
  PROVE  Earliest(left) \in left
<1> DEFINE froms == {w.period.from : w \in left}
<1>1. PICK m \in froms : \A n \in froms : m <= n
  <2>1. froms \in SUBSET Nat /\ froms # {}
    BY DEF Slot
  <2> HIDE DEF froms
  <2> QED
    BY <2>1, LeastOf
<1>2. \E w \in left : \A v \in left : w.period.from <= v.period.from
  BY <1>1
<1> QED
  BY <1>2 DEF Earliest

LEMMA ListOf ==
  ASSUME NEW S, IsFiniteSet(S)
  PROVE  /\ SetToSeq(S) \in Seq(S)
         /\ Cardinality(S) \in Nat
         /\ SetToSeq(S) \in [1..Cardinality(S) -> S]
<1> DEFINE n == Cardinality(S)
<1>1. n \in Nat /\ ExistsBijection(1..n, S)
  BY FS_CardinalityType
<1>2. PICK f \in [1..n -> S] : IsInjective(f)
  BY <1>1 DEF ExistsBijection, Bijection, Injection, IsInjective
<1>3. SetToSeq(S) \in [1..n -> S]
  BY <1>2 DEF SetToSeq
<1> QED
  BY <1>1, <1>3

(* Two dates of one grid are a period apart.                               *)
LEMMA GridApart ==
  ASSUME NEW i \in Nat, NEW j \in Nat, i < j
  PROVE  i * PeriodDays + PeriodDays <= j * PeriodDays
<1>1. PeriodDays \in Nat
  BY BillingAssumption
<1>2. PICK k \in Nat : j = i + 1 + k
  <2>1. j - i - 1 \in Nat /\ j = i + 1 + (j - i - 1)
    OBVIOUS
  <2> QED
    BY <2>1
<1>3. j * PeriodDays = i * PeriodDays + PeriodDays + k * PeriodDays
  BY <1>1, <1>2
<1>4. i * PeriodDays \in Nat /\ k * PeriodDays \in Nat
  BY <1>1
<1> QED
  BY <1>1, <1>3, <1>4

(* A price's share is a whole amount.                                      *)
LEMMA AmountOf ==
  ASSUME NEW line \in LineRow
  PROVE  LineAmount(line) \in Int
<1>1. PeriodDays \in Nat /\ 2 * PeriodDays > 0 /\ Null = 0
  BY BillingAssumption DEF Null
<1>2. line.price \in Nat /\ line.share \in Nat /\ line.quantity \in Nat
  BY DEF LineRow
<1>3. line.price * line.share \in Nat /\ line.price * line.quantity \in Nat
  BY <1>2
<1>4. ASSUME NEW n \in Nat
      PROVE  (2 * n + PeriodDays) \div (2 * PeriodDays) \in Int
  BY <1>1
<1>5. RoundHalfUp(line.price * line.share, PeriodDays) \in Int
  BY <1>3, <1>4 DEF RoundHalfUp
<1> QED
  BY <1>3, <1>5 DEF LineAmount

LEMMA PricedOf ==
  ASSUME NEW line \in LineRow
  PROVE  /\ Priced(line) \in LineRow
         /\ Priced(line).needsPrice <=> Priced(line).price = Null
         /\ Priced(line).fault = line.fault
         /\ Priced(line).released = line.released
         /\ Priced(line).deleted = line.deleted
<1> DEFINE needs == (line.price = Null)
<1>1. needs \in BOOLEAN /\ LineAmount(line) \in Int
  BY AmountOf
<1>2. Priced(line) = [line EXCEPT !.amount = LineAmount(line), !.needsPrice = needs]
  BY DEF Priced
<1>3. /\ Priced(line) \in LineRow
      /\ Priced(line).needsPrice = needs
      /\ Priced(line).price = line.price
      /\ Priced(line).fault = line.fault
      /\ Priced(line).released = line.released
      /\ Priced(line).deleted = line.deleted
  <2> HIDE DEF needs
  <2> QED
    BY <1>1, <1>2 DEF LineRow
<1> QED
  BY <1>3

(* A line as it is first written.                                          *)
New(line) == (line.needsPrice <=> line.price = Null) /\ ~line.released /\ ~line.deleted

LEMMA LineOf ==
  ASSUME NEW kind \in {"contract_fee", "elevator_fee", "fault", "manual"},
         NEW f \in Fault \cup {None}, NEW share \in Nat, NEW quantity \in Nat, NEW price \in Nat
  PROVE  /\ Line(kind, f, share, quantity, price) \in LineRow
         /\ Line(kind, f, share, quantity, price).fault = f
         /\ New(Line(kind, f, share, quantity, price))
<1> DEFINE plain == [kind |-> kind, fault |-> f, share |-> share, quantity |-> quantity,
                     price |-> price, amount |-> 0, needsPrice |-> TRUE, released |-> FALSE,
                     deleted |-> FALSE]
<1>1. plain \in LineRow
  BY DEF LineRow
<1>2. plain.fault = f /\ plain.released = FALSE /\ plain.deleted = FALSE
  OBVIOUS
<1>3. Line(kind, f, share, quantity, price) = Priced(plain)
  BY DEF Line
<1> HIDE DEF plain
<1> QED
  BY <1>1, <1>2, <1>3, PricedOf DEF New

LEMMA FarFutureOf == FarFuture \in Nat /\ PeriodDays \in Nat /\ PeriodDays > 0 /\ Null = 0 /\ None \notin Fault
  BY BillingAssumption DEF FarFuture, Null

LEMMA OverlapOf ==
  ASSUME NEW from \in Nat, NEW to \in Nat, NEW first \in Nat, NEW last \in Nat
  PROVE  OverlapDays(from, to, first, last) \in Nat
  BY DEF OverlapDays, Lesser, Greater

LEMMA LastBilledOf ==
  ASSUME NEW row \in ContractRow
  PROVE  LastBilledDay(row) \in Nat
  BY DEF LastBilledDay, Lesser, ContractRow

(* A period lies on the grid of its contract and is no longer than one.    *)
LEMMA PeriodOf ==
  ASSUME NEW row \in ContractRow, NEW p \in Periods(row)
  PROVE  /\ p \in [from : Nat, to : Nat]
         /\ \E k \in Nat : p.from = row.start + k * PeriodDays
         /\ p.to < p.from + PeriodDays
         /\ p.to <= LastBilledDay(row)
         /\ \A q \in Periods(row) : q.from = p.from => q = p
<1> DEFINE last == LastBilledDay(row)
           at(s) == [from |-> s, to |-> Lesser(s + PeriodDays - 1, last)]
<1>1. last \in Nat /\ row.start \in Nat /\ PeriodDays \in Nat /\ PeriodDays > 0 /\ MaxDay \in Nat
  BY LastBilledOf, BillingAssumption DEF ContractRow
<1>2. ASSUME NEW q \in Periods(row)
      PROVE  \E s \in Nat : /\ q = at(s) /\ s <= last
                            /\ \E k \in Nat : s = row.start + k * PeriodDays
  BY <1>1, <1>2 DEF Periods
<1>3. PICK s \in Nat : /\ p = at(s) /\ s <= last
                       /\ \E k \in Nat : s = row.start + k * PeriodDays
  BY <1>2
<1>4. p.from = s /\ p.to = Lesser(s + PeriodDays - 1, last)
  BY <1>3
<1>5. Lesser(s + PeriodDays - 1, last) \in Nat /\ Lesser(s + PeriodDays - 1, last) < s + PeriodDays
        /\ Lesser(s + PeriodDays - 1, last) <= last
  BY <1>1 DEF Lesser
<1>6. ASSUME NEW q \in Periods(row), q.from = p.from
      PROVE  q = p
  <2>1. PICK t \in Nat : q = at(t)
    BY <1>2
  <2>2. t = s
    BY <1>4, <1>6, <2>1
  <2> QED
    BY <1>3, <2>1, <2>2
<1> QED
  BY <1>3, <1>4, <1>5, <1>6

LEMMA LineFault ==
  ASSUME NEW kind, NEW f, NEW share, NEW quantity, NEW price
  PROVE  Line(kind, f, share, quantity, price).fault = f
  BY DEF Line, Priced

LEMMA FeeLinesOf ==
  ASSUME Types, NEW o \in Offer, NEW period \in [from : Nat, to : Nat]
  PROVE  /\ FeeLines(o, period) \in Seq(LineRow)
         /\ \A k \in DOMAIN FeeLines(o, period) :
              FeeLines(o, period)[k].fault = None /\ New(FeeLines(o, period)[k])
<1>1. o.row \in ContractRow /\ o.id \in Contract /\ o.row.fee \in Nat /\ o.row.start \in Nat
        /\ period.from \in Nat /\ period.to \in Nat /\ LastBilledDay(o.row) \in Nat
  BY LastBilledOf DEF Offer, ContractRow
<1>2. CASE o.row.flat
  <2> DEFINE days == OverlapDays(period.from, period.to, o.row.start, LastBilledDay(o.row))
             line == Line("contract_fee", None, days, 1, o.row.fee)
  <2>1. days \in Nat
    BY <1>1, OverlapOf
  <2>2. line \in LineRow /\ line.fault = None /\ New(line)
    <3> HIDE DEF days
    <3>3. line \in LineRow
      BY <1>1, <2>1, LineOf
    <3>4. line.fault = None
      BY LineFault
    <3>5. New(line)
      BY <1>1, <2>1, LineOf
    <3> QED
      BY <3>3, <3>4, <3>5
  <2>3. FeeLines(o, period) = <<line>>
    BY <1>2 DEF FeeLines
  <2> HIDE DEF line
  <2> QED
    BY <2>2, <2>3
<1>3. CASE ~o.row.flat
  <2> DEFINE days(l) == OverlapDays(period.from, period.to, cover[o.id][l].added, cover[o.id][l].removed)
             covered == {l \in Lift : cover[o.id][l] # NoLine /\ days(l) > 0}
             n == Cardinality(covered)
             line(k) == Line("elevator_fee", None, days(SetToSeq(covered)[k]), 1, o.row.fee)
  <2>1. IsFiniteSet(covered)
    BY FS_Subset, BillingAssumption
  <2>2. n \in Nat /\ SetToSeq(covered) \in [1..n -> covered]
    <3> HIDE DEF covered
    <3> QED
      BY <2>1, ListOf
  <2>3. ASSUME NEW l \in Lift
        PROVE  days(l) \in Nat
    <3>1. cover[o.id][l] \in [added : Nat, removed : Nat]
      BY <1>1 DEF Types
    <3>2. cover[o.id][l].added \in Nat /\ cover[o.id][l].removed \in Nat
      BY <3>1
    <3> QED
      BY <1>1, <3>2, OverlapOf
  <2>4. ASSUME NEW k \in 1..n
        PROVE  line(k) \in LineRow /\ line(k).fault = None /\ New(line(k))
    <3>1. SetToSeq(covered)[k] \in Lift
      <4>1. covered \subseteq Lift
        OBVIOUS
      <4> HIDE DEF covered, n
      <4> QED
        BY <2>2, <4>1
    <3>2. days(SetToSeq(covered)[k]) \in Nat
      BY <2>3, <3>1
    <3> HIDE DEF days
    <3>3. line(k) \in LineRow
      BY <1>1, <3>2, LineOf
    <3>4. line(k).fault = None
      BY LineFault
    <3>5. New(line(k))
      BY <1>1, <3>2, LineOf
    <3> QED
      BY <3>3, <3>4, <3>5
  <2>5. FeeLines(o, period) = [k \in 1..n |-> line(k)]
    BY <1>3 DEF FeeLines
  <2> HIDE DEF line, n
  <2>6. FeeLines(o, period) \in Seq(LineRow)
    <3>1. n \in Nat
      BY <2>2
    <3>2. FeeLines(o, period) \in [1..n -> LineRow]
      BY <2>4, <2>5
    <3> HIDE DEF covered, days
    <3> QED
      BY <3>1, <3>2
  <2>7. \A k \in DOMAIN FeeLines(o, period) :
          FeeLines(o, period)[k].fault = None /\ New(FeeLines(o, period)[k])
    BY <2>4, <2>5
  <2> QED
    BY <2>6, <2>7
<1> QED
  BY <1>2, <1>3

(* The lines of the faults a draft bills.                                  *)
LEMMA FaultLinesOf ==
  ASSUME NEW faults \in SUBSET Fault
  PROVE  /\ FaultLines(faults) \in Seq(LineRow)
         /\ \A k \in DOMAIN FaultLines(faults) :
              FaultLines(faults)[k].fault \in faults /\ New(FaultLines(faults)[k])
<1> DEFINE n == Cardinality(faults)
           list == SetToSeq(faults)
           line(k) == Line("fault", list[k], 0, 1, Null)
<1>1. n \in Nat /\ list \in [1..n -> faults]
  BY FS_Subset, BillingAssumption, ListOf
<1>2. ASSUME NEW k \in 1..n
      PROVE  line(k) \in LineRow /\ line(k).fault \in faults /\ New(line(k))
  <2>1. list[k] \in faults
    BY <1>1
  <2> HIDE DEF list
  <2> QED
    BY <2>1, LineOf DEF Null
<1>3. FaultLines(faults) = [k \in 1..n |-> line(k)]
  BY <1>1 DEF FaultLines
<1> HIDE DEF line, n
<1> QED
  BY <1>1, <1>2, <1>3

(* The draft of a period.                                                  *)
LEMMA DraftHolds ==
  ASSUME Types, NEW o \in Offer, NEW period \in [from : Nat, to : Nat], NEW faults \in SUBSET Fault
  PROVE  LET d == DraftOf(o, period, faults)
         IN  /\ d \in InvoiceRow /\ Sound(d) /\ d.status = "draft"
             /\ d.contract = o.id /\ d.from = period.from /\ d.to = period.to
             /\ \A f \in Fault : Holds(d, f) => f \in faults
<1> DEFINE fees == FeeLines(o, period)
           waiting == FaultLines(faults)
           lines == fees \o waiting
           d == DraftOf(o, period, faults)
<1>1. /\ fees \in Seq(LineRow) /\ waiting \in Seq(LineRow)
      /\ \A k \in DOMAIN fees : fees[k].fault = None /\ New(fees[k])
      /\ \A k \in DOMAIN waiting : waiting[k].fault \in faults /\ New(waiting[k])
  BY FeeLinesOf, FaultLinesOf
<1>2. d = [contract |-> o.id, from |-> period.from, to |-> period.to, status |-> "draft",
           lines |-> lines, total |-> Total(lines)]
  BY DEF DraftOf
<1>3. o.id \in Contract /\ period.from \in Nat /\ period.to \in Nat
  BY DEF Offer
<1> HIDE DEF fees, waiting
<1>4. /\ lines \in Seq(LineRow)
      /\ \A k \in DOMAIN lines : (lines[k].fault = None \/ lines[k].fault \in faults) /\ New(lines[k])
  BY <1>1
<1> HIDE DEF lines
<1>5. d.lines = lines /\ d.status = "draft" /\ d.total = Total(lines)
        /\ d.contract = o.id /\ d.from = period.from /\ d.to = period.to
  BY <1>2
<1>6. d \in InvoiceRow
  BY <1>2, <1>3, <1>4 DEF InvoiceRow
<1>7. Sound(d)
  BY <1>4, <1>5 DEF Sound, New
<1>8. \A f \in Fault : Holds(d, f) => f \in faults
  BY <1>4, <1>5, FarFutureOf DEF Holds
<1> QED
  BY <1>5, <1>6, <1>7, <1>8

-----------------------------------------------------------------------------
(* What a call makes of a draft                                            *)

Status == {"draft", "issued", "paid", "cancelled"}

(* The draft with these lines, and the total they make.                    *)
With(old, status, lines) ==
  [contract |-> old.contract, from |-> old.from, to |-> old.to, status |-> status,
   lines |-> lines, total |-> Total(lines)]

LEMMA SameInvoice ==
  ASSUME NEW d \in InvoiceRow, NEW e \in InvoiceRow,
         d.contract = e.contract, d.from = e.from, d.to = e.to,
         d.status = e.status, d.lines = e.lines, d.total = e.total
  PROVE  d = e
  BY DEF InvoiceRow

LEMMA WithOf ==
  ASSUME NEW old \in InvoiceRow, NEW status \in Status, NEW lines \in Seq(LineRow)
  PROVE  /\ With(old, status, lines) \in InvoiceRow
         /\ [old EXCEPT !.status = status, !.lines = lines, !.total = Total(lines)]
              = With(old, status, lines)
<1>1. Total(lines) \in {Total(some) : some \in Seq(LineRow)}
  OBVIOUS
<1>2. With(old, status, lines) \in InvoiceRow
  BY <1>1 DEF With, InvoiceRow, Status
<1> DEFINE new == [old EXCEPT !.status = status, !.lines = lines, !.total = Total(lines)]
<1>3. new \in InvoiceRow
  BY <1>1 DEF InvoiceRow, Status
<1>4. /\ new.contract = old.contract /\ new.from = old.from /\ new.to = old.to
      /\ new.status = status /\ new.lines = lines /\ new.total = Total(lines)
  BY DEF InvoiceRow
<1>5. /\ With(old, status, lines).contract = old.contract /\ With(old, status, lines).from = old.from
      /\ With(old, status, lines).to = old.to /\ With(old, status, lines).status = status
      /\ With(old, status, lines).lines = lines /\ With(old, status, lines).total = Total(lines)
  BY DEF With
<1> HIDE DEF new
<1>6. new = With(old, status, lines)
  BY <1>2, <1>3, <1>4, <1>5, SameInvoice
<1> QED
  BY <1>2, <1>6 DEF new

(* What one of them may become: it bills the same, under no new fault; it  *)
(* never comes back to life, nor to the office once it is issued, and then *)
(* its lines and its total stay.                                           *)
Succeeds(new, old) ==
  /\ new \in InvoiceRow /\ Sound(new)
  /\ new.contract = old.contract /\ new.from = old.from /\ new.to = old.to
  /\ Live(new) => Live(old)
  /\ new.status = "draft" => old.status = "draft"
  /\ \A f \in Fault : Holds(new, f) => Holds(old, f)
  /\ DOMAIN old.lines \subseteq DOMAIN new.lines
  /\ \A k \in DOMAIN old.lines : new.lines[k].fault = old.lines[k].fault
  /\ Kept(old, new)

(* The lines a draft may be given.                                         *)
Relined(status, lines, old) ==
  /\ lines \in Seq(LineRow)
  /\ \A k \in DOMAIN lines :
       /\ lines[k].needsPrice <=> lines[k].price = Null
       /\ status = "draft" => ~lines[k].released
       /\ status = "cancelled" /\ lines[k].fault # None => lines[k].released
  /\ DOMAIN old.lines \subseteq DOMAIN lines
  /\ \A k \in DOMAIN old.lines : lines[k].fault = old.lines[k].fault
  /\ \A k \in DOMAIN lines :
       ~lines[k].released /\ ~lines[k].deleted /\ lines[k].fault # None =>
         k \in DOMAIN old.lines /\ ~old.lines[k].released /\ ~old.lines[k].deleted

LEMMA WithSucceeds ==
  ASSUME NEW old \in InvoiceRow, Sound(old), NEW status \in Status, NEW lines,
         Relined(status, lines, old),
         status # "cancelled" => old.status # "cancelled",
         status = "draft" => old.status = "draft",
         Kept(old, With(old, status, lines))
  PROVE  Succeeds(With(old, status, lines), old)
<1> DEFINE new == With(old, status, lines)
<1>1. lines \in Seq(LineRow)
  BY DEF Relined
<1>2. new \in InvoiceRow
  BY <1>1, WithOf
<1>3. /\ new.contract = old.contract /\ new.from = old.from /\ new.to = old.to
      /\ new.status = status /\ new.lines = lines /\ new.total = Total(lines)
  BY DEF With
<1> HIDE DEF new
<1>4. Sound(new)
  BY <1>3 DEF Sound, Relined
<1>5. Live(new) => Live(old)
  BY <1>3 DEF Live
<1>6. ASSUME NEW f \in Fault, Holds(new, f)
      PROVE  Holds(old, f)
  <2>1. PICK k \in DOMAIN lines : lines[k].fault = f /\ ~lines[k].released /\ ~lines[k].deleted
    BY <1>3, <1>6 DEF Holds
  <2>2. f # None
    BY FarFutureOf
  <2>3. k \in DOMAIN old.lines /\ old.lines[k].fault = f /\ ~old.lines[k].released /\ ~old.lines[k].deleted
    BY <2>1, <2>2 DEF Relined
  <2> QED
    BY <2>3 DEF Holds
<1>7. DOMAIN old.lines \subseteq DOMAIN new.lines
        /\ \A k \in DOMAIN old.lines : new.lines[k].fault = old.lines[k].fault
  BY <1>3 DEF Relined
<1>8. Kept(old, new)
  BY DEF new
<1> QED
  BY <1>2, <1>3, <1>4, <1>5, <1>6, <1>7, <1>8 DEF Succeeds, new

(* A call that changes one draft.                                          *)
Redraws(d, new) ==
  /\ d \in DOMAIN drafts /\ drafts' = [drafts EXCEPT ![d] = new] /\ Succeeds(new, drafts[d])
  /\ UNCHANGED <<today, office>>
  /\ (run' = run /\ Live(new)) \/ run' = Disturbed
  /\ call' \in [Request -> {NoCall} \cup [at : Nat \X Nat, row : LineRow]]
  /\ \A r \in Request : call'[r] = call[r] \/ call'[r] = NoCall

LEMMA RecomputedOf ==
  ASSUME NEW old \in InvoiceRow, old.status = "draft", NEW lines \in Seq(LineRow)
  PROVE  Recomputed([old EXCEPT !.lines = lines]) = With(old, "draft", lines)
<1> DEFINE mid == [old EXCEPT !.lines = lines]
           new == [mid EXCEPT !.total = Total(lines)]
<1>1. Total(lines) \in {Total(some) : some \in Seq(LineRow)}
  OBVIOUS
<1>2. /\ mid \in InvoiceRow /\ mid.lines = lines /\ mid.status = "draft"
      /\ mid.contract = old.contract /\ mid.from = old.from /\ mid.to = old.to
  BY DEF InvoiceRow
<1> HIDE DEF mid
<1>3. Recomputed(mid) = new
  BY <1>2 DEF Recomputed
<1>4. /\ new \in InvoiceRow /\ new.lines = lines /\ new.status = "draft" /\ new.total = Total(lines)
      /\ new.contract = old.contract /\ new.from = old.from /\ new.to = old.to
  BY <1>1, <1>2 DEF InvoiceRow
<1> HIDE DEF new
<1>5. /\ With(old, "draft", lines) \in InvoiceRow
      /\ With(old, "draft", lines).contract = old.contract /\ With(old, "draft", lines).from = old.from
      /\ With(old, "draft", lines).to = old.to /\ With(old, "draft", lines).status = "draft"
      /\ With(old, "draft", lines).lines = lines /\ With(old, "draft", lines).total = Total(lines)
  BY WithOf DEF With, Status
<1>6. new = With(old, "draft", lines)
  BY <1>4, <1>5, SameInvoice
<1> QED
  BY <1>3, <1>6 DEF mid

(* What edits, additions and removals make of a draft's lines.             *)
LEMMA DraftRelined ==
  ASSUME NEW old \in InvoiceRow, Sound(old), old.status = "draft", NEW lines,
         Relined("draft", lines, old)
  PROVE  /\ Recomputed([old EXCEPT !.lines = lines]) = With(old, "draft", lines)
         /\ Succeeds(With(old, "draft", lines), old)
         /\ Live(With(old, "draft", lines))
<1>1. lines \in Seq(LineRow) /\ "draft" \in Status
  BY DEF Relined, Status
<1>2. Kept(old, With(old, "draft", lines))
  BY DEF Kept, With
<1>3. Live(With(old, "draft", lines))
  BY DEF Live, With
<1> QED
  BY <1>1, <1>2, <1>3, RecomputedOf, WithSucceeds

LEMMA AddLineRedraws ==
  ASSUME Types, Drawn, NEW d \in DOMAIN drafts, AddLine(d)
  PROVE  \E new : Redraws(d, new)
<1> DEFINE old == drafts[d]
           line == Line("manual", None, 0, 1, 1)
           lines == Append(old.lines, line)
<1>1. old \in InvoiceRow /\ Sound(old) /\ old.status = "draft" /\ old.lines \in Seq(LineRow)
  <2>1. old \in InvoiceRow
    BY DEF Types
  <2>2. old.lines \in Seq(LineRow)
    BY <2>1 DEF InvoiceRow
  <2> QED
    BY <2>1, <2>2 DEF Drawn, AddLine, Editable
<1>2. line \in LineRow /\ line.fault = None /\ New(line)
  <2>1. line \in LineRow
    BY LineOf
  <2>2. line.fault = None
    BY LineFault
  <2>3. New(line)
    BY LineOf
  <2> QED
    BY <2>1, <2>2, <2>3
<1>3. drafts' = [drafts EXCEPT ![d] = Recomputed([old EXCEPT !.lines = lines])]
        /\ UNCHANGED <<today, office, call, run>>
  BY DEF AddLine, Change
<1> HIDE DEF line, old
<1>4. Relined("draft", lines, old)
  BY <1>1, <1>2 DEF Relined, Sound, New
<1> HIDE DEF lines
<1>5. /\ Recomputed([old EXCEPT !.lines = lines]) = With(old, "draft", lines)
      /\ Succeeds(With(old, "draft", lines), old) /\ Live(With(old, "draft", lines))
  BY <1>1, <1>4, DraftRelined
<1> QED
  BY <1>3, <1>5 DEF Redraws, Types, old

LEMMA EditLineRedraws ==
  ASSUME Types, Drawn, Fetched, NEW r \in Request, EditLine(r) \/ RemoveLine(r)
  PROVE  \E d \in DOMAIN drafts : \E new : Redraws(d, new)
<1> DEFINE d == call[r].at[1]
           k == call[r].at[2]
           old == drafts[d]
           seen == call[r].row
<1>1. call[r] # NoCall /\ call[r] \in [at : Nat \X Nat, row : LineRow]
        /\ old.status = "draft" /\ ~old.lines[k].deleted
  BY DEF Types, EditLine, RemoveLine, Editable
<1>2. /\ d \in DOMAIN drafts /\ k \in DOMAIN old.lines
      /\ ~seen.deleted /\ ~seen.released /\ seen.fault = old.lines[k].fault /\ seen \in LineRow
  <2>1. seen \in LineRow
    BY <1>1
  <2>2. d \in DOMAIN drafts /\ k \in DOMAIN old.lines /\ ~seen.deleted
          /\ seen.fault = old.lines[k].fault /\ (old.status = "draft" => ~seen.released)
    BY <1>1 DEF Fetched
  <2> QED
    BY <1>1, <2>1, <2>2
<1>3. old \in InvoiceRow /\ Sound(old) /\ old.lines \in Seq(LineRow)
  <2> HIDE DEF d
  <2>1. old \in InvoiceRow /\ Sound(old)
    BY <1>2 DEF Types, Drawn
  <2> QED
    BY <2>1 DEF InvoiceRow
<1>4. UNCHANGED <<today, office, run>> /\ call' = [call EXCEPT ![r] = NoCall]
  BY DEF EditLine, RemoveLine, Answer
<1>5. PICK lines : /\ Relined("draft", lines, old)
                   /\ drafts' = [drafts EXCEPT ![d] = Recomputed([old EXCEPT !.lines = lines])]
  <2>1. CASE RemoveLine(r)
    <3> DEFINE row == [old.lines[k] EXCEPT !.deleted = TRUE]
               lines == [old.lines EXCEPT ![k] = row]
    <3>1. drafts' = [drafts EXCEPT ![d] = Recomputed([old EXCEPT !.lines = lines])]
      BY <2>1 DEF RemoveLine
    <3>2. Relined("draft", lines, old)
      <4> HIDE DEF d, k, old
      <4>1. old.lines[k] \in LineRow
        BY <1>2, <1>3
      <4>2. /\ row \in LineRow /\ row.deleted
            /\ row.fault = old.lines[k].fault /\ row.released = old.lines[k].released
            /\ row.price = old.lines[k].price /\ row.needsPrice = old.lines[k].needsPrice
        BY <4>1 DEF LineRow
      <4> HIDE DEF row
      <4>3. lines \in Seq(LineRow) /\ DOMAIN lines = DOMAIN old.lines
        BY <1>2, <1>3, <4>2
      <4>4. lines[k] = row /\ \A i \in DOMAIN lines : i # k => lines[i] = old.lines[i]
        BY <1>2, <1>3
      <4> HIDE DEF lines
      <4>5. old.status = "draft"
        BY <1>1 DEF old
      <4> QED
        BY <1>2, <1>3, <4>2, <4>3, <4>4, <4>5 DEF Relined, Sound
    <3> QED
      BY <3>1, <3>2
  <2>2. CASE EditLine(r)
    <3>1. PICK form \in LineForm :
            drafts' = [drafts EXCEPT ![d] = Recomputed([old EXCEPT !.lines[k] =
                         Priced([seen EXCEPT !.price = IF form.price = Null THEN @ ELSE form.price,
                                             !.share = IF form.typed THEN 0 ELSE @])])]
      BY <2>2 DEF EditLine
    <3> DEFINE price == IF form.price = Null THEN seen.price ELSE form.price
               share == IF form.typed THEN 0 ELSE seen.share
               asked == [seen EXCEPT !.price = price, !.share = share]
               row == Priced(asked)
               lines == [old.lines EXCEPT ![k] = row]
    <3>2. price \in Nat /\ share \in Nat
      BY <1>2 DEF LineForm, Null, LineRow
    <3>3. asked \in LineRow /\ asked.fault = seen.fault /\ asked.released = seen.released
            /\ asked.deleted = seen.deleted
      <4> HIDE DEF price, share, seen
      <4> QED
        BY <1>2, <3>2 DEF LineRow
    <3>4. /\ row \in LineRow /\ (row.needsPrice <=> row.price = Null)
          /\ row.fault = old.lines[k].fault /\ ~row.released /\ ~row.deleted
      <4> HIDE DEF asked, old, k
      <4> QED
        BY <1>2, <3>3, PricedOf
    <3>5. drafts' = [drafts EXCEPT ![d] = Recomputed([old EXCEPT !.lines = lines])]
      BY <3>1
    <3> HIDE DEF row
    <3>6. Relined("draft", lines, old)
      <4> HIDE DEF d, k, old
      <4>1. lines \in Seq(LineRow) /\ DOMAIN lines = DOMAIN old.lines
        BY <1>2, <1>3, <3>4
      <4>2. lines[k] = row /\ \A i \in DOMAIN lines : i # k => lines[i] = old.lines[i]
        BY <1>2, <1>3
      <4> HIDE DEF lines
      <4>3. ~old.lines[k].deleted /\ old.status = "draft"
        BY <1>1 DEF old, k
      <4> QED
        BY <1>2, <1>3, <3>4, <4>1, <4>2, <4>3 DEF Relined, Sound
    <3> QED
      BY <3>5, <3>6
  <2> QED
    BY <2>1, <2>2
<1>6. /\ Recomputed([old EXCEPT !.lines = lines]) = With(old, "draft", lines)
      /\ Succeeds(With(old, "draft", lines), old) /\ Live(With(old, "draft", lines))
  <2> HIDE DEF old
  <2> QED
    BY <1>1, <1>3, <1>5, DraftRelined DEF old
<1>7. Redraws(d, With(old, "draft", lines))
  BY <1>2, <1>4, <1>5, <1>6 DEF Redraws, Types
<1> QED
  BY <1>2, <1>7

LEMMA IssuedOf ==
  ASSUME NEW old \in InvoiceRow, NEW status \in Status
  PROVE  [old EXCEPT !.total = Total(old.lines), !.status = status] = With(old, status, old.lines)
<1> DEFINE u == [old EXCEPT !.total = Total(old.lines), !.status = status]
           new == With(old, status, old.lines)
<1>1. old.lines \in Seq(LineRow) /\ Total(old.lines) \in {Total(some) : some \in Seq(LineRow)}
  BY DEF InvoiceRow
<1>2. /\ new \in InvoiceRow /\ new.contract = old.contract /\ new.from = old.from /\ new.to = old.to
      /\ new.status = status /\ new.lines = old.lines /\ new.total = Total(old.lines)
  BY <1>1, WithOf DEF With
<1>3. /\ u \in InvoiceRow /\ u.contract = old.contract /\ u.from = old.from /\ u.to = old.to
      /\ u.status = status /\ u.lines = old.lines /\ u.total = Total(old.lines)
  BY <1>1 DEF InvoiceRow, Status
<1> HIDE DEF u, new
<1>4. u = new
  BY <1>2, <1>3, SameInvoice
<1> QED
  BY <1>4 DEF u, new

LEMMA SettledOf ==
  ASSUME NEW old \in InvoiceRow, NEW status \in Status, old.total = Total(old.lines)
  PROVE  [old EXCEPT !.status = status] = With(old, status, old.lines)
<1> DEFINE u == [old EXCEPT !.status = status]
           new == With(old, status, old.lines)
<1>1. old.lines \in Seq(LineRow) /\ Total(old.lines) \in {Total(some) : some \in Seq(LineRow)}
  BY DEF InvoiceRow
<1>2. /\ new \in InvoiceRow /\ new.contract = old.contract /\ new.from = old.from /\ new.to = old.to
      /\ new.status = status /\ new.lines = old.lines /\ new.total = Total(old.lines)
  BY <1>1, WithOf DEF With
<1>3. /\ u \in InvoiceRow /\ u.contract = old.contract /\ u.from = old.from /\ u.to = old.to
      /\ u.status = status /\ u.lines = old.lines /\ u.total = Total(old.lines)
  BY <1>1 DEF InvoiceRow, Status
<1> HIDE DEF u, new
<1>4. u = new
  BY <1>2, <1>3, SameInvoice
<1> QED
  BY <1>4 DEF u, new

LEMMA CancelledOf ==
  ASSUME NEW old \in InvoiceRow, NEW status \in Status,
         NEW lines \in Seq(LineRow), old.total = Total(lines)
  PROVE  [old EXCEPT !.status = status, !.lines = lines] = With(old, status, lines)
<1> DEFINE u == [old EXCEPT !.status = status, !.lines = lines]
           new == With(old, status, lines)
<1>1. lines \in Seq(LineRow) /\ Total(lines) \in {Total(some) : some \in Seq(LineRow)}
  BY DEF InvoiceRow
<1>2. /\ new \in InvoiceRow /\ new.contract = old.contract /\ new.from = old.from /\ new.to = old.to
      /\ new.status = status /\ new.lines = lines /\ new.total = Total(lines)
  BY <1>1, WithOf DEF With
<1>3. /\ u \in InvoiceRow /\ u.contract = old.contract /\ u.from = old.from /\ u.to = old.to
      /\ u.status = status /\ u.lines = lines /\ u.total = Total(lines)
  BY <1>1 DEF InvoiceRow, Status
<1> HIDE DEF u, new
<1>4. u = new
  BY <1>2, <1>3, SameInvoice
<1> QED
  BY <1>4 DEF u, new

LEMMA IssueRedraws ==
  ASSUME Types, Drawn, NEW d \in DOMAIN drafts, Issue(d)
  PROVE  \E new : Redraws(d, new)
<1> DEFINE old == drafts[d]
           lines == old.lines
           status == IF Total(lines) = 0 THEN "paid" ELSE "issued"
           new == With(old, status, lines)
<1>1. old \in InvoiceRow /\ Sound(old) /\ old.status = "draft"
  BY DEF Types, Drawn, Issue, Editable
<1>2. lines \in Seq(LineRow) /\ status \in Status /\ status # "draft" /\ status # "cancelled"
  BY <1>1 DEF InvoiceRow, Status
<1>3. \A k \in DOMAIN lines : lines[k].deleted \/ ~lines[k].needsPrice
  BY DEF Issue
<1>4. /\ drafts' = [drafts EXCEPT ![d] = [old EXCEPT !.total = Total(lines), !.status = status]]
      /\ UNCHANGED <<today, office, call, run>>
  BY DEF Issue, Change
<1> HIDE DEF old, status
<1>5. [old EXCEPT !.total = Total(lines), !.status = status] = new
  BY <1>1, <1>2, IssuedOf
<1>6. Relined(status, lines, old)
  BY <1>1, <1>2 DEF Relined, Sound
<1>7. Kept(old, new)
  BY <1>1, <1>3 DEF Kept, With, Sound
<1>8. Live(new)
  BY <1>2 DEF Live, With
<1>9. Succeeds(new, old)
  BY <1>1, <1>2, <1>6, <1>7, WithSucceeds
<1> HIDE DEF new
<1> QED
  BY <1>4, <1>5, <1>8, <1>9 DEF Redraws, Types, old

LEMMA SettleRedraws ==
  ASSUME Types, Drawn, NEW d \in DOMAIN drafts, Settle(d)
  PROVE  \E new : Redraws(d, new)
<1> DEFINE old == drafts[d]
           lines == old.lines
<1>1. old \in InvoiceRow /\ Sound(old)
  BY DEF Types, Drawn
<1>2. lines \in Seq(LineRow) /\ old.total = Total(lines)
  BY <1>1 DEF InvoiceRow, Sound
<1>3. PICK status \in {"paid", "issued"} :
        /\ drafts' = [drafts EXCEPT ![d] = [old EXCEPT !.status = status]]
        /\ UNCHANGED <<today, office, call, run>> /\ old.status \in {"paid", "issued"}
  BY DEF Settle, Change
<1> DEFINE new == With(old, status, lines)
<1> HIDE DEF old
<1>4. status \in Status /\ [old EXCEPT !.status = status] = new
  BY <1>1, <1>2, <1>3, SettledOf DEF Status
<1>5. Relined(status, lines, old)
  BY <1>1, <1>2, <1>3 DEF Relined, Sound
<1>6. Kept(old, new)
  BY <1>2, <1>3 DEF Kept, With
<1>7. Live(new)
  BY <1>3 DEF Live, With
<1>8. Succeeds(new, old)
  BY <1>1, <1>3, <1>4, <1>5, <1>6, WithSucceeds
<1> HIDE DEF new
<1> QED
  BY <1>3, <1>4, <1>7, <1>8 DEF Redraws, Types, old

(* A run a change went by, but for its being alone.                        *)
LEMMA DisturbedOf ==
  ASSUME Types
  PROVE  /\ Disturbed \in [Run -> RunRow]
         /\ \A g \in Run : /\ Disturbed[g].rows = run[g].rows /\ Disturbed[g].left = run[g].left
                           /\ Disturbed[g].built = run[g].built /\ Disturbed[g].pending = run[g].pending
                           /\ ~Disturbed[g].alone
  BY DEF Types, Disturbed, RunRow

LEMMA CancelRedraws ==
  ASSUME Types, Drawn, NEW d \in DOMAIN drafts, Cancel(d)
  PROVE  \E new : Redraws(d, new)
<1> DEFINE old == drafts[d]
           lines == Released(old.lines)
           new == With(old, "cancelled", lines)
<1>1. old \in InvoiceRow /\ Sound(old)
  BY DEF Types, Drawn
<1>2. old.lines \in Seq(LineRow) /\ old.total = Total(old.lines)
  BY <1>1 DEF InvoiceRow, Sound
<1>3. /\ drafts' = [drafts EXCEPT ![d] = [old EXCEPT !.status = "cancelled", !.lines = lines]]
      /\ UNCHANGED <<today, office, call>> /\ run' = Disturbed /\ old.status # "cancelled"
  BY DEF Cancel, Change
<1> HIDE DEF old
<1>4. ASSUME NEW k \in DOMAIN old.lines
      PROVE  /\ lines[k] \in LineRow
             /\ ~lines[k].released => ~old.lines[k].released /\ lines[k].fault = None
             /\ lines[k].fault = old.lines[k].fault /\ lines[k].deleted = old.lines[k].deleted
             /\ lines[k].price = old.lines[k].price /\ lines[k].needsPrice = old.lines[k].needsPrice
             /\ lines[k].amount = old.lines[k].amount
             /\ [lines[k] EXCEPT !.released = FALSE] = [old.lines[k] EXCEPT !.released = FALSE]
  <2> DEFINE line == old.lines[k]
             freed == line.released \/ line.fault # None
  <2>1. line \in LineRow /\ freed \in BOOLEAN
    BY <1>2
  <2>2. lines[k] = [line EXCEPT !.released = freed]
    BY DEF Released
  <2>3. ~freed => ~line.released /\ line.fault = None
    OBVIOUS
  <2> HIDE DEF line, freed, lines
  <2>4. /\ lines[k] \in LineRow /\ lines[k].released = freed
        /\ lines[k].fault = line.fault /\ lines[k].deleted = line.deleted
        /\ lines[k].price = line.price /\ lines[k].needsPrice = line.needsPrice
        /\ lines[k].amount = line.amount
    BY <2>1, <2>2 DEF LineRow
  <2>5. [lines[k] EXCEPT !.released = FALSE] = [line EXCEPT !.released = FALSE]
    BY <2>1, <2>2 DEF LineRow
  <2>6. ~lines[k].released => ~line.released /\ lines[k].fault = None
    BY <2>3, <2>4
  <2> QED
    BY <2>4, <2>5, <2>6 DEF line
<1>5. lines \in Seq(LineRow) /\ DOMAIN lines = DOMAIN old.lines
  <2>1. DOMAIN old.lines = 1..Len(old.lines) /\ Len(old.lines) \in Nat
    BY <1>2
  <2>2. lines = [k \in 1..Len(old.lines) |-> lines[k]]
    BY <2>1 DEF Released
  <2>3. \A k \in 1..Len(old.lines) : lines[k] \in LineRow
    BY <1>4, <2>1
  <2>4. DOMAIN lines = DOMAIN old.lines
    BY DEF Released
  <2> HIDE DEF lines
  <2> QED
    BY <2>1, <2>2, <2>3, <2>4
<1> HIDE DEF lines
<1>6. Unmarked(lines) = Unmarked(old.lines)
  BY <1>4, <1>5 DEF Unmarked
<1>7. Total(lines) = Total(old.lines)
  <2>1. ASSUME NEW k \in DOMAIN old.lines
        PROVE  lines[k].deleted = old.lines[k].deleted /\ lines[k].amount = old.lines[k].amount
    BY <1>4, <1>5
  <2>2. [k \in DOMAIN lines |-> IF lines[k].deleted THEN 0 ELSE lines[k].amount]
          = [k \in DOMAIN old.lines |-> IF old.lines[k].deleted THEN 0 ELSE old.lines[k].amount]
    BY <1>5, <2>1
  <2> QED
    BY <2>2 DEF Total
<1>8. Relined("cancelled", lines, old)
  <2>1. ASSUME NEW k \in DOMAIN lines
        PROVE  lines[k].needsPrice <=> lines[k].price = Null
    <3>1. old.lines[k].needsPrice <=> old.lines[k].price = Null
      BY <1>1, <1>5 DEF Sound
    <3>2. lines[k].price = old.lines[k].price /\ lines[k].needsPrice = old.lines[k].needsPrice
      BY <1>4, <1>5
    <3> QED
      BY <3>1, <3>2
  <2>2. ASSUME NEW k \in DOMAIN lines
        PROVE  /\ lines[k].fault # None => lines[k].released
               /\ lines[k].fault = old.lines[k].fault
               /\ ~lines[k].released => ~old.lines[k].released
               /\ ~lines[k].deleted => ~old.lines[k].deleted
    <3>1. lines[k].fault = old.lines[k].fault /\ lines[k].deleted = old.lines[k].deleted
            /\ (~lines[k].released => ~old.lines[k].released /\ lines[k].fault = None)
      BY <1>4, <1>5
    <3> QED
      BY <3>1
  <2> QED
    BY <1>5, <2>1, <2>2 DEF Relined
<1>9. [old EXCEPT !.status = "cancelled", !.lines = lines] = new
  <2>1. "cancelled" \in Status /\ old.total = Total(lines)
    BY <1>2, <1>7 DEF Status
  <2> QED
    BY <1>1, <1>5, <2>1, CancelledOf
<1>10. Kept(old, new)
  BY <1>2, <1>6, <1>7 DEF Kept, With
<1>11. Succeeds(new, old)
  <2>1. "cancelled" \in Status
    BY DEF Status
  <2> HIDE DEF new
  <2> QED
    BY <1>1, <1>3, <1>8, <1>10, <2>1, WithSucceeds DEF new
<1>12. call \in [Request -> {NoCall} \cup [at : Nat \X Nat, row : LineRow]]
  BY DEF Types
<1> HIDE DEF new
<1> QED
  BY <1>3, <1>9, <1>11, <1>12 DEF Redraws, old

-----------------------------------------------------------------------------
(* A call that changes a draft keeps the invariant                         *)

(* What the runs hold is what they held.                                   *)
SameHands ==
  \A g \in Run : /\ run'[g].rows = run[g].rows /\ run'[g].left = run[g].left
                 /\ run'[g].built = run[g].built /\ run'[g].pending = run[g].pending

LEMMA HandsKept ==
  ASSUME Types, run' = run \/ run' = Disturbed
  PROVE  run' \in [Run -> RunRow] /\ SameHands
<1>1. CASE run' = run
  BY <1>1 DEF Types, SameHands
<1>2. CASE run' = Disturbed
  BY <1>2, DisturbedOf DEF SameHands
<1> QED
  BY <1>1, <1>2

(* The parts of the invariant that only the runs' own drafts are in.       *)
LEMMA HandsKeepAhead ==
  ASSUME Ahead, SameHands
  PROVE  Ahead'
  BY DEF Ahead, SameHands, Bills

LEMMA SuccessorClear ==
  ASSUME NEW old, NEW new, NEW e, Succeeds(new, old)
  PROVE  /\ Clear(old, e) => Clear(new, e)
         /\ Clear(e, old) => Clear(e, new)
  BY DEF Succeeds, Clear

LEMMA RedrawsKeeps ==
  ASSUME BillingInv, NEW d, NEW new, Redraws(d, new)
  PROVE  BillingInv'
<1> DEFINE old == drafts[d]
<1>1. /\ d \in DOMAIN drafts /\ drafts' = [drafts EXCEPT ![d] = new] /\ Succeeds(new, old)
      /\ UNCHANGED <<today, contract, cover, fault>>
      /\ run' = run \/ run' = Disturbed
  BY DEF Redraws, office
<1>2. run' \in [Run -> RunRow] /\ SameHands
  BY <1>1, HandsKept DEF BillingInv
<1>3. drafts \in Seq(InvoiceRow) /\ new \in InvoiceRow
  BY <1>1 DEF BillingInv, Types, Succeeds
<1>4. /\ drafts' \in Seq(InvoiceRow) /\ DOMAIN drafts' = DOMAIN drafts /\ drafts'[d] = new
      /\ \A e \in DOMAIN drafts : e # d => drafts'[e] = drafts[e]
  BY <1>1, <1>3
<1>5. Types'
  BY <1>1, <1>2, <1>4 DEF BillingInv, Types, Redraws
<1>6. Gridded'
  <2>1. ASSUME NEW e \in DOMAIN drafts'
        PROVE  OnGrid(drafts[e])'
    <3>1. OnGrid(old) /\ (e # d => OnGrid(drafts[e]))
      BY <1>1, <1>4, <2>1 DEF BillingInv, Gridded
    <3>2. new.contract = old.contract /\ new.from = old.from /\ new.to = old.to
      BY <1>1 DEF Succeeds
    <3> QED
      BY <1>1, <1>4, <2>1, <3>1, <3>2 DEF OnGrid
  <2>2. ASSUME NEW g \in Run
        PROVE  (/\ \A k \in DOMAIN run[g].pending : OnGrid(run[g].pending[k])
                /\ \A k \in DOMAIN run[g].built : OnGrid(run[g].built[k])
                /\ \A o \in run[g].rows : Known(o)
                /\ \A w \in run[g].left : Known(w.of) /\ w.period \in Periods(w.of.row))'
    <3>1. /\ \A k \in DOMAIN run[g].pending : OnGrid(run[g].pending[k])
          /\ \A k \in DOMAIN run[g].built : OnGrid(run[g].built[k])
          /\ \A o \in run[g].rows : Known(o)
          /\ \A w \in run[g].left : Known(w.of) /\ w.period \in Periods(w.of.row)
      BY DEF BillingInv, Gridded
    <3>2. /\ run'[g].rows = run[g].rows /\ run'[g].left = run[g].left
          /\ run'[g].built = run[g].built /\ run'[g].pending = run[g].pending
      BY <1>2 DEF SameHands
    <3> QED
      BY <1>1, <3>1, <3>2 DEF OnGrid, Known
  <2> QED
    BY <2>1, <2>2 DEF Gridded
<1>7. Drawn'
  <2>1. ASSUME NEW e \in DOMAIN drafts'
        PROVE  Sound(drafts'[e])
    BY <1>1, <1>4, <2>1 DEF BillingInv, Drawn, Succeeds
  <2> QED
    BY <1>2, <2>1 DEF BillingInv, Drawn, SameHands
<1>8. Fetched'
  <2> SUFFICES ASSUME NEW r \in Request, call'[r] # NoCall
               PROVE  LET e == call'[r].at[1]
                          k == call'[r].at[2]
                      IN  /\ e \in DOMAIN drafts' /\ k \in DOMAIN drafts'[e].lines
                          /\ ~call'[r].row.deleted
                          /\ call'[r].row.fault = drafts'[e].lines[k].fault
                          /\ drafts'[e].status = "draft" => ~call'[r].row.released
    BY DEF Fetched
  <2> DEFINE e == call[r].at[1]
             k == call[r].at[2]
  <2>1. call'[r] = call[r] /\ call[r] # NoCall
    BY DEF Redraws
  <2>2. /\ e \in DOMAIN drafts /\ k \in DOMAIN drafts[e].lines
        /\ ~call[r].row.deleted
        /\ call[r].row.fault = drafts[e].lines[k].fault
        /\ drafts[e].status = "draft" => ~call[r].row.released
    BY <2>1 DEF BillingInv, Fetched
  <2>3. e = d => /\ k \in DOMAIN new.lines /\ new.lines[k].fault = old.lines[k].fault
                 /\ new.status = "draft" => old.status = "draft"
    BY <1>1, <2>2 DEF Succeeds
  <2> HIDE DEF e, k
  <2>4. CASE e = d
    BY <1>1, <1>4, <2>1, <2>2, <2>3, <2>4 DEF e, k
  <2>5. CASE e # d
    BY <1>4, <2>1, <2>2, <2>5 DEF e, k
  <2> QED
    BY <2>4, <2>5
<1>9. Distinct'
  <2>1. \A e \in DOMAIN drafts : e # d => Clear(drafts[e], new) /\ Clear(new, drafts[e])
    BY <1>1, SuccessorClear DEF BillingInv, Distinct
  <2>2. \A e, f \in DOMAIN drafts' : e # f => Clear(drafts'[e], drafts'[f])
    BY <1>4, <2>1 DEF BillingInv, Distinct
  <2>3. ASSUME NEW g \in Run, NEW e \in DOMAIN drafts, NEW i \in DOMAIN run[g].pending
        PROVE  Clear(drafts'[e], run[g].pending[i])
    <3>1. Clear(drafts[e], run[g].pending[i])
      BY DEF BillingInv, Distinct
    <3>2. CASE e = d
      BY <1>1, <1>4, <3>1, <3>2, SuccessorClear
    <3>3. CASE e # d
      BY <1>4, <3>1, <3>3
    <3> QED
      BY <3>2, <3>3
  <2> HIDE DEF old
  <2> QED
    BY <1>2, <1>4, <2>2, <2>3 DEF BillingInv, Distinct, SameHands
<1>10. Ahead'
  BY <1>2, HandsKeepAhead DEF BillingInv
<1> QED
  BY <1>5, <1>6, <1>7, <1>8, <1>9, <1>10 DEF BillingInv

LEMMA RedrawsKeepsThorough ==
  ASSUME BillingInv, Thorough, NEW d, NEW new, Redraws(d, new)
  PROVE  Thorough'
<1> SUFFICES ASSUME NEW g \in Run, run'[g].alone
             PROVE  Undisturbed(g)'
  BY DEF Thorough
<1>1. /\ run' = run /\ Live(new) /\ drafts' = [drafts EXCEPT ![d] = new]
      /\ d \in DOMAIN drafts /\ Succeeds(new, drafts[d]) /\ contract' = contract /\ today' = today
  BY DisturbedOf DEF Redraws, BillingInv, office
<1>2. /\ DOMAIN drafts' = DOMAIN drafts /\ drafts'[d] = new
      /\ \A e \in DOMAIN drafts : e # d => drafts'[e] = drafts[e]
  BY <1>1 DEF BillingInv, Types
<1>3. Undisturbed(g)
  BY <1>1 DEF Thorough
<1>4. ASSUME NEW k \in DOMAIN run[g].built, NEW e \in DOMAIN drafts, NEW f \in Fault
      PROVE  ~(Holds(run[g].built[k], f) /\ Holds(drafts'[e], f))
  <2>1. Holds(drafts'[e], f) => Holds(drafts[e], f)
    BY <1>1, <1>2 DEF Succeeds
  <2> QED
    BY <1>3, <2>1 DEF Undisturbed
<1>5. ASSUME NEW c \in Contract, NEW p, NEW e \in DOMAIN drafts, SamePeriod(drafts[e], c, p)
      PROVE  SamePeriod(drafts'[e], c, p)
  <2>1. CASE e = d
    BY <1>1, <1>2, <1>5, <2>1 DEF SamePeriod, Succeeds
  <2>2. CASE e # d
    BY <1>2, <1>5, <2>2
  <2> QED
    BY <2>1, <2>2
<1>6. ASSUME NEW c \in Contract, NEW p \in Periods(contract[c]), Due(c, p)
      PROVE  Covers(g, c, p)'
  <2>1. Covers(g, c, p)
    BY <1>3, <1>6 DEF Undisturbed
  <2> QED
    BY <1>1, <1>2, <1>5, <2>1 DEF Covers, SamePeriod
<1>7. \A c \in Contract : \A p \in Periods(contract[c]) : Due(c, p)' => Due(c, p)
  BY <1>1 DEF Due, Drafted
<1> QED
  BY <1>1, <1>2, <1>3, <1>4, <1>6, <1>7 DEF Undisturbed

-----------------------------------------------------------------------------
(* A run of the job keeps the invariant                                    *)

(* A step of run g that no draft, call or contract sees.                   *)
Works(g, row) ==
  /\ run' \in [Run -> RunRow] /\ run'[g] = row
  /\ \A h \in Run \ {g} :
       /\ run'[h].rows = run[h].rows /\ run'[h].left = run[h].left
       /\ run'[h].built = run[h].built /\ run'[h].pending = run[h].pending
       /\ run'[h].alone => run'[h] = run[h]
  /\ UNCHANGED <<today, office, drafts, call>>

(* What it takes of a run's new row.                                       *)
Fits(g, row) ==
  /\ \A k \in DOMAIN row.pending :
       OnGrid(row.pending[k]) /\ Sound(row.pending[k]) /\ row.pending[k].status = "draft"
  /\ \A k \in DOMAIN row.built :
       OnGrid(row.built[k]) /\ Sound(row.built[k]) /\ row.built[k].status = "draft"
  /\ \A o \in row.rows : Known(o)
  /\ \A w \in row.left : Known(w.of) /\ w.period \in Periods(w.of.row)
  /\ \A i, j \in DOMAIN row.pending : i # j => Clear(row.pending[i], row.pending[j])
  /\ \A d \in DOMAIN drafts, i \in DOMAIN row.pending : Clear(drafts[d], row.pending[i])
  /\ \A h \in Run \ {g} : \A i \in DOMAIN row.pending, j \in DOMAIN run[h].pending :
       Clear(row.pending[i], run[h].pending[j]) /\ Clear(run[h].pending[j], row.pending[i])
  /\ Len(row.built) <= 1
  /\ \A k \in DOMAIN row.built, i \in DOMAIN row.pending : Clear(row.built[k], row.pending[i])
  /\ \A w \in row.left :
       /\ \A v \in row.left : v.of = w.of /\ (v.period.from = w.period.from => v = w)
       /\ \A i \in DOMAIN row.pending : ~Bills(row.pending[i], w)
       /\ \A k \in DOMAIN row.built : ~Bills(row.built[k], w)

LEMMA HeldFits ==
  ASSUME BillingInv, NEW g \in Run
  PROVE  Fits(g, run[g])
  BY DEF BillingInv, Gridded, Drawn, Distinct, Ahead, Fits

LEMMA IdleOf ==
  /\ Idle \in RunRow /\ Idle.rows = {} /\ Idle.left = {} /\ Idle.built = <<>> /\ Idle.pending = <<>>
  /\ ~Idle.alone
  BY DEF Idle, RunRow

LEMMA IdleFits ==
  ASSUME NEW g \in Run
  PROVE  Fits(g, Idle)
  BY IdleOf DEF Fits

LEMMA WorksKeeps ==
  ASSUME BillingInv, NEW g \in Run, NEW row, Works(g, row), Fits(g, row)
  PROVE  BillingInv'
<1>1. /\ run' \in [Run -> RunRow] /\ run'[g] = row
      /\ \A h \in Run \ {g} :
           /\ run'[h].rows = run[h].rows /\ run'[h].left = run[h].left
           /\ run'[h].built = run[h].built /\ run'[h].pending = run[h].pending
      /\ UNCHANGED <<today, contract, cover, fault, drafts, call>>
  BY DEF Works, office
<1>2. Types'
  BY <1>1 DEF BillingInv, Types
<1>3. Gridded'
  <2>1. \A d \in DOMAIN drafts' : OnGrid(drafts[d])'
    BY <1>1 DEF BillingInv, Gridded, OnGrid
  <2>2. ASSUME NEW h \in Run
        PROVE  (/\ \A k \in DOMAIN run[h].pending : OnGrid(run[h].pending[k])
                /\ \A k \in DOMAIN run[h].built : OnGrid(run[h].built[k])
                /\ \A o \in run[h].rows : Known(o)
                /\ \A w \in run[h].left : Known(w.of) /\ w.period \in Periods(w.of.row))'
    <3>1. Fits(h, run[h])
      BY HeldFits
    <3>2. CASE h = g
      BY <1>1, <3>2 DEF Fits, OnGrid, Known
    <3>3. CASE h # g
      BY <1>1, <3>1, <3>3 DEF Fits, OnGrid, Known
    <3> QED
      BY <3>2, <3>3
  <2> QED
    BY <2>1, <2>2 DEF Gridded
<1>4. Drawn'
  BY <1>1 DEF BillingInv, Drawn, Fits
<1>5. Fetched'
  BY <1>1 DEF BillingInv, Fetched
<1>6. Distinct'
  <2>1. ASSUME NEW h \in Run
        PROVE  /\ \A i, j \in DOMAIN run'[h].pending : i # j => Clear(run'[h].pending[i], run'[h].pending[j])
               /\ \A d \in DOMAIN drafts, i \in DOMAIN run'[h].pending : Clear(drafts[d], run'[h].pending[i])
               /\ Len(run'[h].built) <= 1
               /\ \A k \in DOMAIN run'[h].built, i \in DOMAIN run'[h].pending :
                    Clear(run'[h].built[k], run'[h].pending[i])
    BY <1>1 DEF BillingInv, Distinct, Fits
  <2>2. ASSUME NEW h \in Run, NEW m \in Run \ {h}
        PROVE  \A i \in DOMAIN run'[h].pending, j \in DOMAIN run'[m].pending :
                 Clear(run'[h].pending[i], run'[m].pending[j])
    <3>1. CASE h = g
      BY <1>1, <3>1 DEF Fits
    <3>2. CASE m = g
      BY <1>1, <3>2 DEF Fits
    <3>3. CASE h # g /\ m # g
      BY <1>1, <3>3 DEF BillingInv, Distinct
    <3> QED
      BY <3>1, <3>2, <3>3
  <2>3. \A d, e \in DOMAIN drafts' : d # e => Clear(drafts'[d], drafts'[e])
    BY <1>1 DEF BillingInv, Distinct
  <2> QED
    BY <1>1, <2>1, <2>2, <2>3 DEF Distinct
<1>7. Ahead'
  <2> SUFFICES ASSUME NEW h \in Run, NEW w \in run'[h].left
               PROVE  /\ \A v \in run'[h].left : v.of = w.of /\ (v.period.from = w.period.from => v = w)
                      /\ \A i \in DOMAIN run'[h].pending : ~Bills(run'[h].pending[i], w)
                      /\ \A k \in DOMAIN run'[h].built : ~Bills(run'[h].built[k], w)
    BY DEF Ahead
  <2>1. CASE h = g
    BY <1>1, <2>1 DEF Fits
  <2>2. CASE h # g
    BY <1>1, <2>2 DEF BillingInv, Ahead
  <2> QED
    BY <2>1, <2>2
<1> QED
  BY <1>2, <1>3, <1>4, <1>5, <1>6, <1>7 DEF BillingInv

(* What the office does keeps each contract's start; the runs go on with   *)
(* what they read.                                                         *)
Stands ==
  /\ today' \in Nat /\ contract' \in [Contract -> ContractRow]
  /\ cover' \in [Contract -> [Lift -> [added : Nat, removed : Nat]]]
  /\ fault' \in [Fault -> [closed : Nat, billable : BOOLEAN]]
  /\ call' \in [Request -> {NoCall} \cup [at : Nat \X Nat, row : LineRow]]
  /\ \A c \in Contract : contract[c].status # "none" =>
       contract'[c].status # "none" /\ contract'[c].start = contract[c].start
  /\ run' = run \/ run' = Disturbed
  /\ drafts' = drafts

LEMMA StandsKeeps ==
  ASSUME BillingInv, Stands, Fetched'
  PROVE  BillingInv'
<1>1. drafts' = drafts /\ run' \in [Run -> RunRow] /\ SameHands
  BY HandsKept DEF Stands, BillingInv
<1>2. Types'
  BY <1>1 DEF BillingInv, Types, Stands
<1>3. Gridded'
  <2>1. ASSUME NEW d, d \in InvoiceRow, OnGrid(d)
        PROVE  /\ contract'[d.contract].status # "none"
               /\ \E k \in Nat : d.from = contract'[d.contract].start + k * PeriodDays
               /\ d.to < d.from + PeriodDays
    BY <2>1 DEF OnGrid, Stands, InvoiceRow
  <2>2. ASSUME NEW o \in Offer, Known(o)
        PROVE  /\ o.row.status # "none" /\ contract'[o.id].status # "none"
               /\ o.row.start = contract'[o.id].start
    BY <2>2 DEF Known, Stands, Offer
  <2>3. \A d \in DOMAIN drafts : drafts[d] \in InvoiceRow /\ OnGrid(drafts[d])
    BY DEF BillingInv, Gridded, Types
  <2>4. ASSUME NEW g \in Run
        PROVE  (/\ \A k \in DOMAIN run[g].pending : OnGrid(run[g].pending[k])
                /\ \A k \in DOMAIN run[g].built : OnGrid(run[g].built[k])
                /\ \A o \in run[g].rows : Known(o)
                /\ \A w \in run[g].left : Known(w.of) /\ w.period \in Periods(w.of.row))'
    <3>1. Fits(g, run[g]) /\ run[g] \in RunRow
      BY HeldFits DEF BillingInv, Types
    <3>2. /\ run[g].pending \in Seq(InvoiceRow) /\ run[g].built \in Seq(InvoiceRow)
          /\ run[g].rows \in SUBSET Offer /\ run[g].left \in SUBSET Slot
      BY <3>1 DEF RunRow
    <3>3. \A k \in DOMAIN run[g].pending : run[g].pending[k] \in InvoiceRow
      BY <3>2
    <3>4. \A k \in DOMAIN run[g].built : run[g].built[k] \in InvoiceRow
      BY <3>2
    <3>5. \A w \in run[g].left : w.of \in Offer
      BY <3>2 DEF Slot
    <3>6. /\ run'[g].rows = run[g].rows /\ run'[g].left = run[g].left
          /\ run'[g].built = run[g].built /\ run'[g].pending = run[g].pending
      BY <1>1 DEF SameHands
    <3>7. (\A k \in DOMAIN run[g].pending : OnGrid(run[g].pending[k]))'
      BY <2>1, <3>1, <3>3, <3>6 DEF Fits, OnGrid
    <3>8. (\A k \in DOMAIN run[g].built : OnGrid(run[g].built[k]))'
      BY <2>1, <3>1, <3>4, <3>6 DEF Fits, OnGrid
    <3>9. (\A o \in run[g].rows : Known(o))'
      BY <2>2, <3>1, <3>2, <3>6 DEF Fits, Known
    <3>10. (\A w \in run[g].left : Known(w.of) /\ w.period \in Periods(w.of.row))'
      BY <2>2, <3>1, <3>5, <3>6 DEF Fits, Known
    <3> QED
      BY <3>7, <3>8, <3>9, <3>10
  <2>5. (\A d \in DOMAIN drafts : OnGrid(drafts[d]))'
    BY <1>1, <2>1, <2>3 DEF OnGrid
  <2> QED
    BY <2>4, <2>5 DEF Gridded
<1>4. Drawn'
  BY <1>1 DEF BillingInv, Drawn, SameHands
<1>5. Distinct'
  BY <1>1 DEF BillingInv, Distinct, SameHands
<1>6. Ahead'
  BY <1>1, HandsKeepAhead DEF BillingInv
<1> QED
  BY <1>2, <1>3, <1>4, <1>5, <1>6 DEF BillingInv

LEMMA OfferOf ==
  ASSUME Types, NEW c \in Contract
  PROVE  [id |-> c, row |-> contract[c]] \in Offer
  BY DEF Types, Offer

LEMMA RunOf ==
  ASSUME Types, NEW g \in Run
  PROVE  /\ run[g] \in RunRow
         /\ run[g].rows \in SUBSET Offer /\ run[g].left \in SUBSET Slot
         /\ run[g].built \in Seq(InvoiceRow) /\ run[g].pending \in Seq(InvoiceRow)
         /\ run[g].alone \in BOOLEAN
  BY DEF Types, RunRow

(* With the rest of the runs as they were. *)
LEMMA WorksOf ==
  ASSUME Types, NEW g \in Run, NEW row \in RunRow,
         run' = [run EXCEPT ![g] = row], UNCHANGED <<today, office, drafts, call>>
  PROVE  Works(g, row)
  BY DEF Works, Types

(* What g would make of its row.                                           *)
LEMMA RowOf ==
  ASSUME NEW row \in RunRow, NEW rows \in SUBSET Offer, NEW left \in SUBSET Slot,
         NEW built \in Seq(InvoiceRow), NEW pending \in Seq(InvoiceRow)
  PROVE  LET new == [row EXCEPT !.rows = rows, !.left = left, !.built = built, !.pending = pending]
         IN  /\ new \in RunRow
             /\ new.rows = rows /\ new.left = left /\ new.built = built /\ new.pending = pending
             /\ new.alone = row.alone
  BY DEF RunRow

LEMMA BeginRunWorks ==
  ASSUME BillingInv, NEW g \in Run, BeginRun(g)
  PROVE  \E row : /\ Works(g, row) /\ Fits(g, row)
                  /\ row.rows = {[id |-> c, row |-> contract[c]] : c \in {d \in Contract : Drafted(contract[d])}}
                  /\ row.left = {} /\ row.built = <<>> /\ row.pending = <<>>
                  /\ row.alone <=> \A h \in Run \ {g} : run[h] = Idle
                  /\ \A h \in Run \ {g} : ~run'[h].alone
<1> DEFINE rows == {[id |-> c, row |-> contract[c]] : c \in {d \in Contract : Drafted(contract[d])}}
           alone == \A h \in Run \ {g} : run[h] = Idle
           row == [Idle EXCEPT !.rows = rows, !.alone = alone]
<1>1. run' = [Disturbed EXCEPT ![g] = row] /\ UNCHANGED <<today, office, drafts, call>>
  BY DEF BeginRun
<1>2. rows \in SUBSET Offer
  BY OfferOf DEF BillingInv
<1>3. \A o \in rows : Known(o)
  BY DEF Known, Drafted
<1> HIDE DEF rows
<1>4. alone \in BOOLEAN
  OBVIOUS
<1> HIDE DEF alone
<1>5. /\ row \in RunRow /\ row.rows = rows /\ row.left = {} /\ row.built = <<>> /\ row.pending = <<>>
      /\ row.alone = alone
  BY <1>2, <1>4, IdleOf DEF RunRow
<1> HIDE DEF row
<1>6. /\ run' \in [Run -> RunRow] /\ run'[g] = row
      /\ \A h \in Run \ {g} : run'[h] = Disturbed[h]
  BY <1>1, <1>5, DisturbedOf DEF BillingInv
<1>7. Works(g, row)
  BY <1>1, <1>5, <1>6, DisturbedOf DEF Works, BillingInv
<1>8. Fits(g, row)
  BY <1>3, <1>5 DEF Fits
<1>9. \A h \in Run \ {g} : ~run'[h].alone
  BY <1>6, DisturbedOf DEF BillingInv
<1> QED
  BY <1>5, <1>7, <1>8, <1>9 DEF rows, alone

LEMMA NextContractWorks ==
  ASSUME BillingInv, NEW g \in Run, NextContract(g)
  PROVE  \E o \in run[g].rows : \E row :
           /\ Works(g, row) /\ Fits(g, row) /\ row.alone = run[g].alone
           /\ run[g].left = {} /\ run[g].built = <<>>
           /\ row.rows = run[g].rows \ {o} /\ row.built = <<>> /\ row.pending = run[g].pending
           /\ row.left = IF o.row.vat THEN {[of |-> o, period |-> p] : p \in Missing(g, o)} ELSE {}
<1> DEFINE o == First(run[g].rows)
           left == IF o.row.vat THEN {[of |-> o, period |-> p] : p \in Missing(g, o)} ELSE {}
           rows == run[g].rows \ {o}
           row == [run[g] EXCEPT !.rows = rows, !.left = left]
<1>1. /\ run[g].rows # {} /\ run[g].left = {} /\ run[g].built = <<>>
      /\ run' = [run EXCEPT ![g] = row] /\ UNCHANGED <<today, office, drafts, call>>
  BY DEF NextContract
<1>2. /\ run[g] \in RunRow /\ run[g].rows \in SUBSET Offer
      /\ run[g].pending \in Seq(InvoiceRow) /\ Types
  BY RunOf DEF BillingInv
<1>3. o \in run[g].rows /\ o \in Offer /\ Known(o)
  BY <1>1, <1>2, FirstIsOne DEF BillingInv, Gridded
<1> HIDE DEF o
<1>4. ASSUME NEW p \in Missing(g, o)
      PROVE  /\ p \in Periods(o.row) /\ p \in [from : Nat, to : Nat]
             /\ \A q \in Missing(g, o) : q.from = p.from => q = p
             /\ \A i \in DOMAIN run[g].pending : ~SamePeriod(run[g].pending[i], o.id, p)
  <2>1. p \in Periods(o.row) /\ Missing(g, o) \subseteq Periods(o.row)
    BY DEF Missing
  <2>2. o.row \in ContractRow
    BY <1>3 DEF Offer
  <2>3. ASSUME NEW i \in DOMAIN run[g].pending
        PROVE  \E k \in DOMAIN Seen(g) : Seen(g)[k] = run[g].pending[i]
    <3>1. drafts \in Seq(InvoiceRow) /\ Len(drafts) + i \in DOMAIN Seen(g)
            /\ Seen(g)[Len(drafts) + i] = run[g].pending[i]
      BY <1>2 DEF Types, Seen
    <3> QED
      BY <3>1
  <2> QED
    BY <2>1, <2>2, <2>3, PeriodOf DEF Missing
<1>5. left \in SUBSET Slot
  BY <1>3, <1>4 DEF Slot
<1>6. /\ \A w \in left : w.of = o /\ w.period \in Missing(g, o)
      /\ \A w, v \in left : w.period = v.period => w = v
  OBVIOUS
<1> HIDE DEF left
<1>7. rows \in SUBSET Offer
  BY <1>2
<1> HIDE DEF rows
<1>8. /\ row \in RunRow /\ row.rows = rows /\ row.left = left /\ row.built = <<>>
      /\ row.pending = run[g].pending /\ row.alone = run[g].alone
  BY <1>1, <1>2, <1>5, <1>7 DEF RunRow
<1> HIDE DEF row
<1>9. Works(g, row)
  BY <1>1, <1>2, <1>8, WorksOf
<1>10. Fits(g, row)
  <2>1. Fits(g, run[g])
    BY HeldFits
  <2>2. \A w \in left : Known(w.of) /\ w.period \in Periods(w.of.row)
    BY <1>3, <1>4, <1>6
  <2>3. ASSUME NEW w \in left
        PROVE  /\ \A v \in left : v.of = w.of /\ (v.period.from = w.period.from => v = w)
               /\ \A i \in DOMAIN run[g].pending : ~Bills(run[g].pending[i], w)
    <3>1. \A v \in left : v.of = w.of /\ (v.period.from = w.period.from => v = w)
      BY <1>4, <1>6
    <3>2. ASSUME NEW i \in DOMAIN run[g].pending
          PROVE  ~Bills(run[g].pending[i], w)
      <4>1. ~SamePeriod(run[g].pending[i], o.id, w.period) /\ w.of = o
        BY <1>4, <1>6
      <4>2. run[g].pending[i].status = "draft"
        BY <2>1 DEF Fits
      <4> QED
        BY <4>1, <4>2 DEF SamePeriod, Live, Bills
    <3> QED
      BY <3>1, <3>2
  <2>4. \A p \in row.rows : Known(p)
    BY <1>8, <2>1 DEF Fits, rows
  <2>5. /\ \A k \in DOMAIN row.pending :
             OnGrid(row.pending[k]) /\ Sound(row.pending[k]) /\ row.pending[k].status = "draft"
        /\ \A i, j \in DOMAIN row.pending : i # j => Clear(row.pending[i], row.pending[j])
        /\ \A d \in DOMAIN drafts, i \in DOMAIN row.pending : Clear(drafts[d], row.pending[i])
        /\ \A h \in Run \ {g} : \A i \in DOMAIN row.pending, j \in DOMAIN run[h].pending :
             Clear(row.pending[i], run[h].pending[j]) /\ Clear(run[h].pending[j], row.pending[i])
    BY <1>8, <2>1 DEF Fits
  <2>6. row.built = <<>> /\ Len(row.built) <= 1 /\ DOMAIN row.built = {}
    BY <1>8
  <2>7. \A w \in row.left : Known(w.of) /\ w.period \in Periods(w.of.row)
    BY <1>8, <2>2
  <2>8. \A w \in row.left :
          /\ \A v \in row.left : v.of = w.of /\ (v.period.from = w.period.from => v = w)
          /\ \A i \in DOMAIN row.pending : ~Bills(row.pending[i], w)
    BY <1>8, <2>3
  <2> QED
    BY <2>4, <2>5, <2>6, <2>7, <2>8 DEF Fits
<1> QED
  BY <1>1, <1>3, <1>8, <1>9, <1>10 DEF left, rows

(* What the run's own transaction sees is what is drafted and what it has  *)
(* pending itself.                                                         *)
LEMMA SeenOf ==
  ASSUME Types, NEW g \in Run
  PROVE  /\ Seen(g) \in Seq(InvoiceRow)
         /\ \A d \in DOMAIN drafts : d \in DOMAIN Seen(g) /\ Seen(g)[d] = drafts[d]
         /\ \A i \in DOMAIN run[g].pending :
              Len(drafts) + i \in DOMAIN Seen(g) /\ Seen(g)[Len(drafts) + i] = run[g].pending[i]
         /\ \A k \in DOMAIN Seen(g) :
              \/ k \in DOMAIN drafts
              \/ \E i \in DOMAIN run[g].pending : k = Len(drafts) + i
<1> DEFINE pending == run[g].pending
<1>1. drafts \in Seq(InvoiceRow) /\ pending \in Seq(InvoiceRow)
  BY RunOf DEF Types
<1>2. Seen(g) = drafts \o pending
  BY DEF Seen
<1> HIDE DEF pending
<1>3. /\ Seen(g) \in Seq(InvoiceRow)
      /\ \A d \in DOMAIN drafts : d \in DOMAIN Seen(g) /\ Seen(g)[d] = drafts[d]
      /\ \A i \in DOMAIN pending :
           Len(drafts) + i \in DOMAIN Seen(g) /\ Seen(g)[Len(drafts) + i] = pending[i]
  BY <1>1, <1>2
<1>4. ASSUME NEW k \in DOMAIN Seen(g), k \notin DOMAIN drafts
      PROVE  \E i \in DOMAIN pending : k = Len(drafts) + i
  <2>1. k - Len(drafts) \in DOMAIN pending /\ k = Len(drafts) + (k - Len(drafts))
    BY <1>1, <1>2, <1>4
  <2> QED
    BY <2>1
<1> QED
  BY <1>3, <1>4 DEF pending

LEMMA BuildDraftWorks ==
  ASSUME BillingInv, NEW g \in Run, BuildDraft(g)
  PROVE  \E next \in run[g].left : \E draft : \E row :
           /\ Works(g, row) /\ Fits(g, row) /\ row.alone = run[g].alone
           /\ run[g].built = <<>>
           /\ row.rows = run[g].rows /\ row.left = run[g].left \ {next}
           /\ row.built = <<draft>> /\ row.pending = run[g].pending
           /\ draft.contract = next.of.id /\ draft.from = next.period.from /\ Live(draft)
           /\ \A f \in Fault, d \in DOMAIN drafts : Holds(draft, f) => ~Holds(drafts[d], f)
<1> DEFINE next == Earliest(run[g].left)
           faults == BillableFaults(g, next.of.id, next.period)
           draft == DraftOf(next.of, next.period, faults)
           left == run[g].left \ {next}
           row == [run[g] EXCEPT !.left = left, !.built = <<draft>>]
<1>1. /\ run[g].left # {} /\ run[g].built = <<>>
      /\ run' = [run EXCEPT ![g] = row] /\ UNCHANGED <<today, office, drafts, call>>
  BY DEF BuildDraft
<1>2. /\ run[g] \in RunRow /\ run[g].rows \in SUBSET Offer /\ run[g].left \in SUBSET Slot
      /\ run[g].pending \in Seq(InvoiceRow) /\ Types
  BY RunOf DEF BillingInv
<1>3. next \in run[g].left
  BY <1>1, <1>2, EarliestIsOne
<1> HIDE DEF next
<1>4. Fits(g, run[g])
  BY HeldFits
<1>5. /\ next.of \in Offer /\ next.period \in [from : Nat, to : Nat] /\ next.of.row \in ContractRow
      /\ next.of.id \in Contract
      /\ Known(next.of) /\ next.period \in Periods(next.of.row)
  <2>1. next.of \in Offer /\ next.period \in [from : Nat, to : Nat]
    BY <1>2, <1>3 DEF Slot
  <2>2. Known(next.of) /\ next.period \in Periods(next.of.row)
    BY <1>3, <1>4 DEF Fits
  <2> QED
    BY <2>1, <2>2 DEF Offer
<1>6. faults \in SUBSET Fault
  BY DEF BillableFaults
<1>7. ASSUME NEW f \in faults
      PROVE  /\ \A d \in DOMAIN drafts : ~Holds(drafts[d], f)
             /\ \A i \in DOMAIN run[g].pending : ~Holds(run[g].pending[i], f)
  <2>1. \A k \in DOMAIN Seen(g) : ~Holds(Seen(g)[k], f)
    BY DEF BillableFaults
  <2> QED
    BY <1>2, <2>1, SeenOf
<1> HIDE DEF faults
<1>8. /\ draft \in InvoiceRow /\ Sound(draft) /\ draft.status = "draft"
      /\ draft.contract = next.of.id /\ draft.from = next.period.from /\ draft.to = next.period.to
      /\ \A f \in Fault : Holds(draft, f) => f \in faults
  BY <1>2, <1>5, <1>6, DraftHolds
<1> HIDE DEF draft
<1>9. OnGrid(draft)
  <2>1. PICK k \in Nat : next.period.from = next.of.row.start + k * PeriodDays
    BY <1>5, PeriodOf
  <2>2. next.period.to < next.period.from + PeriodDays
    BY <1>5, PeriodOf
  <2> QED
    BY <1>5, <1>8, <2>1, <2>2 DEF OnGrid, Known
<1>10. left \in SUBSET Slot /\ <<draft>> \in Seq(InvoiceRow)
  BY <1>2, <1>8
<1> HIDE DEF left
<1>11. /\ row \in RunRow /\ row.rows = run[g].rows /\ row.left = left /\ row.built = <<draft>>
       /\ row.pending = run[g].pending /\ row.alone = run[g].alone
  BY <1>2, <1>10 DEF RunRow
<1> HIDE DEF row
<1>12. Works(g, row)
  BY <1>1, <1>2, <1>11, WorksOf
<1>13. DOMAIN row.built = {1} /\ row.built[1] = draft /\ Len(row.built) <= 1
  BY <1>11
<1>14. Fits(g, row)
  <2>1. /\ \A k \in DOMAIN row.pending :
             OnGrid(row.pending[k]) /\ Sound(row.pending[k]) /\ row.pending[k].status = "draft"
        /\ \A i, j \in DOMAIN row.pending : i # j => Clear(row.pending[i], row.pending[j])
        /\ \A d \in DOMAIN drafts, i \in DOMAIN row.pending : Clear(drafts[d], row.pending[i])
        /\ \A h \in Run \ {g} : \A i \in DOMAIN row.pending, j \in DOMAIN run[h].pending :
             Clear(row.pending[i], run[h].pending[j]) /\ Clear(run[h].pending[j], row.pending[i])
        /\ \A o \in row.rows : Known(o)
    BY <1>4, <1>11 DEF Fits
  <2>2. ASSUME NEW i \in DOMAIN run[g].pending
        PROVE  Clear(draft, run[g].pending[i])
    <3>1. ~Bills(run[g].pending[i], next)
      BY <1>3, <1>4 DEF Fits
    <3>2. \A f \in Fault : ~(Holds(draft, f) /\ Holds(run[g].pending[i], f))
      BY <1>7, <1>8
    <3> QED
      BY <1>8, <3>1, <3>2 DEF Clear, Bills
  <2>3. ASSUME NEW w \in left
        PROVE  /\ Known(w.of) /\ w.period \in Periods(w.of.row)
               /\ \A v \in left : v.of = w.of /\ (v.period.from = w.period.from => v = w)
               /\ \A i \in DOMAIN run[g].pending : ~Bills(run[g].pending[i], w)
               /\ ~Bills(draft, w)
    <3>1. w \in run[g].left /\ w # next
      BY DEF left
    <3>2. /\ Known(w.of) /\ w.period \in Periods(w.of.row)
          /\ \A v \in run[g].left : v.of = w.of /\ (v.period.from = w.period.from => v = w)
          /\ \A i \in DOMAIN run[g].pending : ~Bills(run[g].pending[i], w)
      BY <1>4, <3>1 DEF Fits
    <3>3. next.period.from # w.period.from
      BY <1>3, <3>1, <3>2
    <3> QED
      BY <1>8, <3>2, <3>3 DEF Bills, left
  <2>4. /\ \A k \in DOMAIN row.built :
             OnGrid(row.built[k]) /\ Sound(row.built[k]) /\ row.built[k].status = "draft"
        /\ \A k \in DOMAIN row.built, i \in DOMAIN row.pending : Clear(row.built[k], row.pending[i])
        /\ Len(row.built) <= 1
    BY <1>8, <1>9, <1>11, <1>13, <2>2
  <2>5. \A w \in row.left : Known(w.of) /\ w.period \in Periods(w.of.row)
    BY <1>11, <2>3
  <2>6. \A w \in row.left :
          /\ \A v \in row.left : v.of = w.of /\ (v.period.from = w.period.from => v = w)
          /\ \A i \in DOMAIN row.pending : ~Bills(row.pending[i], w)
          /\ \A k \in DOMAIN row.built : ~Bills(row.built[k], w)
    BY <1>11, <1>13, <2>3
  <2> QED
    BY <2>1, <2>4, <2>5, <2>6 DEF Fits
<1>15. Live(draft) /\ \A f \in Fault, d \in DOMAIN drafts : Holds(draft, f) => ~Holds(drafts[d], f)
  BY <1>7, <1>8 DEF Live
<1> QED
  BY <1>1, <1>3, <1>8, <1>11, <1>12, <1>14, <1>15 DEF left

LEMMA ApartOf ==
  ASSUME NEW d, NEW e, ~Conflict(d, e)
  PROVE  Clear(d, e) /\ Clear(e, d)
  BY DEF Conflict, Clear, SamePeriod

LEMMA InsertDraftWorks ==
  ASSUME BillingInv, NEW g \in Run, InsertDraft(g)
  PROVE  \E draft : \E row :
           /\ Works(g, row) /\ Fits(g, row) /\ row.alone = run[g].alone
           /\ run[g].built = <<draft>>
           /\ row.rows = run[g].rows /\ row.left = run[g].left /\ row.built = <<>>
           /\ IF \E k \in DOMAIN drafts : Conflict(draft, drafts[k])
              THEN row.pending = run[g].pending ELSE row.pending = Append(run[g].pending, draft)
<1> DEFINE draft == run[g].built[1]
           taken == \E k \in DOMAIN drafts : Conflict(draft, drafts[k])
           pending == IF taken THEN run[g].pending ELSE Append(run[g].pending, draft)
           row == [run[g] EXCEPT !.built = <<>>, !.pending = pending]
<1>1. /\ run[g].built # <<>>
      /\ run' = [run EXCEPT ![g] = row] /\ UNCHANGED <<today, office, drafts, call>>
      /\ \A h \in Run \ {g} : ~\E k \in DOMAIN run[h].pending : Conflict(draft, run[h].pending[k])
  BY DEF InsertDraft
<1>2. /\ run[g] \in RunRow /\ run[g].rows \in SUBSET Offer /\ run[g].left \in SUBSET Slot
      /\ run[g].pending \in Seq(InvoiceRow) /\ run[g].built \in Seq(InvoiceRow) /\ Types
  BY RunOf DEF BillingInv
<1>3. Fits(g, run[g])
  BY HeldFits
<1>4. 1 \in DOMAIN run[g].built /\ run[g].built = <<draft>>
  <2>1. Len(run[g].built) <= 1
    BY <1>3 DEF Fits
  <2> QED
    BY <1>1, <1>2, <2>1
<1>5. /\ draft \in InvoiceRow /\ OnGrid(draft) /\ Sound(draft) /\ draft.status = "draft"
      /\ \A i \in DOMAIN run[g].pending : Clear(draft, run[g].pending[i])
      /\ \A w \in run[g].left : ~Bills(draft, w)
  BY <1>2, <1>3, <1>4 DEF Fits
<1> HIDE DEF draft
<1>6. ~taken => \A d \in DOMAIN drafts : Clear(drafts[d], draft)
  BY ApartOf
<1>7. \A h \in Run \ {g} : \A j \in DOMAIN run[h].pending :
        Clear(draft, run[h].pending[j]) /\ Clear(run[h].pending[j], draft)
  BY <1>1, ApartOf
<1> HIDE DEF taken
<1>8. /\ pending \in Seq(InvoiceRow)
      /\ \A i \in DOMAIN pending :
           \/ i \in DOMAIN run[g].pending /\ pending[i] = run[g].pending[i]
           \/ ~taken /\ i = Len(run[g].pending) + 1 /\ pending[i] = draft
  BY <1>2, <1>5
<1>9. <<>> \in Seq(InvoiceRow)
  OBVIOUS
<1> HIDE DEF pending
<1>10. /\ row \in RunRow /\ row.rows = run[g].rows /\ row.left = run[g].left /\ row.built = <<>>
       /\ row.pending = pending /\ row.alone = run[g].alone
  BY <1>2, <1>8, <1>9 DEF RunRow
<1> HIDE DEF row
<1>11. Works(g, row)
  BY <1>1, <1>2, <1>10, WorksOf
<1>12. Fits(g, row)
  <2>1. ASSUME NEW i \in DOMAIN pending
        PROVE  /\ OnGrid(pending[i]) /\ Sound(pending[i]) /\ pending[i].status = "draft"
               /\ \A d \in DOMAIN drafts : Clear(drafts[d], pending[i])
               /\ \A h \in Run \ {g} : \A j \in DOMAIN run[h].pending :
                    Clear(pending[i], run[h].pending[j]) /\ Clear(run[h].pending[j], pending[i])
               /\ \A w \in run[g].left : ~Bills(pending[i], w)
    <3>1. CASE i \in DOMAIN run[g].pending /\ pending[i] = run[g].pending[i]
      BY <1>3, <3>1 DEF Fits
    <3>2. CASE ~taken /\ pending[i] = draft
      BY <1>5, <1>6, <1>7, <3>2
    <3> QED
      BY <1>8, <3>1, <3>2
  <2>2. ASSUME NEW i \in DOMAIN pending, NEW j \in DOMAIN pending, i # j
        PROVE  Clear(pending[i], pending[j])
    <3>1. \A m, n \in DOMAIN run[g].pending : m # n => Clear(run[g].pending[m], run[g].pending[n])
      BY <1>3 DEF Fits
    <3>2. \A m \in DOMAIN run[g].pending : Clear(draft, run[g].pending[m]) /\ Clear(run[g].pending[m], draft)
      BY <1>5 DEF Clear
    <3> QED
      BY <1>8, <2>2, <3>1, <3>2
  <2>3. /\ \A k \in DOMAIN row.pending :
             OnGrid(row.pending[k]) /\ Sound(row.pending[k]) /\ row.pending[k].status = "draft"
        /\ \A i, j \in DOMAIN row.pending : i # j => Clear(row.pending[i], row.pending[j])
        /\ \A d \in DOMAIN drafts, i \in DOMAIN row.pending : Clear(drafts[d], row.pending[i])
        /\ \A h \in Run \ {g} : \A i \in DOMAIN row.pending, j \in DOMAIN run[h].pending :
             Clear(row.pending[i], run[h].pending[j]) /\ Clear(run[h].pending[j], row.pending[i])
    BY <1>10, <2>1, <2>2
  <2>4. Len(row.built) <= 1 /\ DOMAIN row.built = {}
    BY <1>10
  <2>5. /\ \A o \in row.rows : Known(o)
        /\ \A w \in row.left : Known(w.of) /\ w.period \in Periods(w.of.row)
    BY <1>3, <1>10 DEF Fits
  <2>6. \A w \in row.left :
          /\ \A v \in row.left : v.of = w.of /\ (v.period.from = w.period.from => v = w)
          /\ \A i \in DOMAIN row.pending : ~Bills(row.pending[i], w)
    <3>1. \A w \in run[g].left : \A v \in run[g].left : v.of = w.of /\ (v.period.from = w.period.from => v = w)
      BY <1>3 DEF Fits
    <3> QED
      BY <1>10, <2>1, <3>1
  <2> QED
    BY <2>3, <2>4, <2>5, <2>6 DEF Fits
<1> QED
  BY <1>4, <1>10, <1>11, <1>12 DEF pending, taken

LEMMA AbortRunWorks ==
  ASSUME Types, NEW g \in Run, AbortRun(g)
  PROVE  Works(g, Idle)
  BY WorksOf, IdleOf DEF AbortRun

LEMMA CommitRunKeeps ==
  ASSUME BillingInv, NEW g \in Run, CommitRun(g)
  PROVE  /\ BillingInv' /\ drafts' = Seen(g) /\ run'[g] = Idle
         /\ \A h \in Run \ {g} : run'[h] = run[h]
         /\ contract' = contract /\ today' = today /\ run[g] # Idle
<1>1. /\ drafts' = Seen(g) /\ run[g] # Idle
      /\ UNCHANGED <<today, contract, cover, fault, call>> /\ run' = [run EXCEPT ![g] = Idle]
  BY DEF CommitRun, Seen, office
<1>2. Types /\ run' \in [Run -> RunRow] /\ run'[g] = Idle /\ \A h \in Run \ {g} : run'[h] = run[h]
  BY <1>1, IdleOf DEF BillingInv, Types
<1>3. Fits(g, Idle) /\ Fits(g, run[g])
  BY IdleFits, HeldFits
<1> DEFINE P(d) == \E i \in DOMAIN run[g].pending : d = Len(drafts) + i /\ drafts'[d] = run[g].pending[i]
<1>4. /\ drafts' \in Seq(InvoiceRow)
      /\ \A d \in DOMAIN drafts' : (d \in DOMAIN drafts /\ drafts'[d] = drafts[d]) \/ P(d)
      /\ \A d \in DOMAIN drafts : d \in DOMAIN drafts' /\ drafts'[d] = drafts[d]
  BY <1>1, <1>2, SeenOf
<1>5. Types'
  BY <1>1, <1>2, <1>4 DEF Types
<1>6. \A h \in Run : Fits(h, run[h])
  BY HeldFits
<1>7. Gridded'
  <2>1. ASSUME NEW d \in DOMAIN drafts'
        PROVE  OnGrid(drafts[d])'
    <3>1. OnGrid(drafts'[d])
      BY <1>3, <1>4 DEF BillingInv, Gridded, Fits
    <3> QED
      BY <1>1, <3>1 DEF OnGrid
  <2>2. ASSUME NEW h \in Run
        PROVE  (/\ \A k \in DOMAIN run[h].pending : OnGrid(run[h].pending[k])
                /\ \A k \in DOMAIN run[h].built : OnGrid(run[h].built[k])
                /\ \A o \in run[h].rows : Known(o)
                /\ \A w \in run[h].left : Known(w.of) /\ w.period \in Periods(w.of.row))'
    <3>1. CASE h = g
      BY <1>2, <3>1, IdleOf
    <3>2. CASE h # g
      BY <1>1, <1>2, <1>6, <3>2 DEF Fits, OnGrid, Known
    <3> QED
      BY <3>1, <3>2
  <2> QED
    BY <2>1, <2>2 DEF Gridded
<1>8. Drawn'
  <2>1. \A d \in DOMAIN drafts' : Sound(drafts'[d])
    BY <1>3, <1>4 DEF BillingInv, Drawn, Fits
  <2>2. ASSUME NEW h \in Run
        PROVE  /\ \A k \in DOMAIN run'[h].pending : Sound(run'[h].pending[k]) /\ run'[h].pending[k].status = "draft"
               /\ \A k \in DOMAIN run'[h].built : Sound(run'[h].built[k]) /\ run'[h].built[k].status = "draft"
    BY <1>2, <1>3, <1>6 DEF Fits
  <2> QED
    BY <2>1, <2>2 DEF Drawn
<1>9. Fetched'
  BY <1>1, <1>4 DEF BillingInv, Fetched
<1>10. Distinct'
  <2>1. ASSUME NEW d \in DOMAIN drafts', NEW e \in DOMAIN drafts', d # e
        PROVE  Clear(drafts'[d], drafts'[e])
    <3>1. CASE d \in DOMAIN drafts /\ drafts'[d] = drafts[d] /\ e \in DOMAIN drafts /\ drafts'[e] = drafts[e]
      BY <2>1, <3>1 DEF BillingInv, Distinct
    <3>2. CASE d \in DOMAIN drafts /\ drafts'[d] = drafts[d] /\ P(e)
      BY <1>3, <3>2 DEF Fits
    <3>3. CASE P(d) /\ e \in DOMAIN drafts /\ drafts'[e] = drafts[e]
      BY <1>3, <3>3 DEF Fits, Clear
    <3>4. CASE P(d) /\ P(e)
      BY <1>3, <2>1, <3>4 DEF Fits
    <3> QED
      BY <1>4, <3>1, <3>2, <3>3, <3>4
  <2>2. ASSUME NEW h \in Run, NEW i \in DOMAIN run'[h].pending, NEW d \in DOMAIN drafts'
        PROVE  Clear(drafts'[d], run'[h].pending[i])
    <3>1. h # g /\ run'[h] = run[h]
      BY <1>2, IdleOf
    <3>2. CASE d \in DOMAIN drafts /\ drafts'[d] = drafts[d]
      BY <1>6, <3>1, <3>2 DEF Fits
    <3>3. CASE P(d)
      BY <1>3, <3>1, <3>3 DEF Fits
    <3> QED
      BY <1>4, <3>2, <3>3
  <2>3. ASSUME NEW h \in Run
        PROVE  /\ \A i, j \in DOMAIN run'[h].pending : i # j => Clear(run'[h].pending[i], run'[h].pending[j])
               /\ Len(run'[h].built) <= 1
               /\ \A k \in DOMAIN run'[h].built, i \in DOMAIN run'[h].pending :
                    Clear(run'[h].built[k], run'[h].pending[i])
    BY <1>2, <1>3, <1>6 DEF Fits
  <2>4. ASSUME NEW h \in Run, NEW m \in Run \ {h}
        PROVE  \A i \in DOMAIN run'[h].pending, j \in DOMAIN run'[m].pending :
                 Clear(run'[h].pending[i], run'[m].pending[j])
    <3>1. CASE h = g \/ m = g
      BY <1>2, <3>1, IdleOf
    <3>2. CASE h # g /\ m # g
      BY <1>2, <1>6, <3>2 DEF Fits
    <3> QED
      BY <3>1, <3>2
  <2> QED
    BY <2>1, <2>2, <2>3, <2>4 DEF Distinct
<1>11. Ahead'
  <2> SUFFICES ASSUME NEW h \in Run, NEW w \in run'[h].left
               PROVE  /\ \A v \in run'[h].left : v.of = w.of /\ (v.period.from = w.period.from => v = w)
                      /\ \A i \in DOMAIN run'[h].pending : ~Bills(run'[h].pending[i], w)
                      /\ \A k \in DOMAIN run'[h].built : ~Bills(run'[h].built[k], w)
    BY DEF Ahead
  <2>1. h # g /\ run'[h] = run[h]
    BY <1>2, IdleOf
  <2> QED
    BY <1>6, <2>1 DEF Fits
<1> QED
  BY <1>1, <1>2, <1>5, <1>7, <1>8, <1>9, <1>10, <1>11 DEF BillingInv

-----------------------------------------------------------------------------
(* What the firm does meanwhile keeps it too                               *)

LEMMA ClosedOf ==
  ASSUME Types, NEW c \in Contract, NEW day \in Nat
  PROVE  Closed(c, day) \in [Lift -> [added : Nat, removed : Nat]]
<1>1. ASSUME NEW l \in Lift
      PROVE  (IF cover[c][l].removed = FarFuture THEN [cover[c][l] EXCEPT !.removed = day]
              ELSE cover[c][l]) \in [added : Nat, removed : Nat]
  <2>1. cover[c][l] \in [added : Nat, removed : Nat]
    BY DEF Types
  <2> QED
    BY <2>1
<1> QED
  BY <1>1 DEF Closed

LEMMA ChangeContractStands ==
  ASSUME Types, NEW c \in Contract, NEW row \in ContractRow,
         NEW lines \in [Lift -> [added : Nat, removed : Nat]],
         row.status # "none", row.start = contract[c].start, ChangeContract(c, row, lines)
  PROVE  Stands /\ call' = call /\ run' = Disturbed
<1>1. /\ contract' = [contract EXCEPT ![c] = row] /\ cover' = [cover EXCEPT ![c] = lines]
      /\ run' = Disturbed /\ UNCHANGED <<today, fault, drafts, call>>
  BY DEF ChangeContract
<1>2. contract' \in [Contract -> ContractRow]
        /\ cover' \in [Contract -> [Lift -> [added : Nat, removed : Nat]]]
  BY <1>1 DEF Types
<1>3. \A d \in Contract : contract[d].status # "none" =>
        contract'[d].status # "none" /\ contract'[d].start = contract[d].start
  BY <1>1 DEF Types
<1> QED
  BY <1>1, <1>2, <1>3 DEF Stands, Types

LEMMA ContractOf ==
  ASSUME Types, NEW c \in Contract
  PROVE  contract[c] \in ContractRow
  BY DEF Types

LEMMA TerminateStands ==
  ASSUME Types, NEW c \in Contract, NEW day \in Nat, Terminate(c, day)
  PROVE  Stands /\ call' = call /\ run' = Disturbed
<1> DEFINE row == [contract[c] EXCEPT !.status = "terminated", !.terminated = day]
<1>1. row \in ContractRow /\ row.status = "terminated" /\ row.start = contract[c].start
  BY ContractOf DEF ContractRow, ContractStatus
<1>2. ChangeContract(c, row, Closed(c, day))
  BY DEF Terminate
<1> HIDE DEF row
<1> QED
  BY <1>1, <1>2, ClosedOf, ChangeContractStands

LEMMA ExpireStands ==
  ASSUME Types, NEW c \in Contract, Expire(c)
  PROVE  Stands /\ call' = call /\ run' = Disturbed
<1> DEFINE row == [contract[c] EXCEPT !.status = "expired"]
<1>1. /\ row \in ContractRow /\ row.status = "expired" /\ row.start = contract[c].start
      /\ contract[c].end + 1 \in Nat
  BY ContractOf DEF ContractRow, ContractStatus
<1>2. ChangeContract(c, row, Closed(c, contract[c].end + 1))
  BY DEF Expire
<1> HIDE DEF row
<1> QED
  BY <1>1, <1>2, ClosedOf, ChangeContractStands

LEMMA EditStands ==
  ASSUME Types, NEW c \in Contract, NEW end \in Nat, Edit(c, end)
  PROVE  Stands /\ call' = call /\ run' = Disturbed
<1> DEFINE row == [contract[c] EXCEPT !.end = end, !.vat = TRUE, !.status = "active"]
<1>1. /\ row \in ContractRow /\ row.status = "active" /\ row.start = contract[c].start
      /\ cover[c] \in [Lift -> [added : Nat, removed : Nat]]
  BY ContractOf DEF ContractRow, ContractStatus, Types
<1>2. ChangeContract(c, row, cover[c])
  BY DEF Edit
<1> HIDE DEF row
<1> QED
  BY <1>1, <1>2, ChangeContractStands

LEMMA RenewStands ==
  ASSUME Types, NEW c \in Contract, NEW s \in Contract, NEW start \in Nat,
         NEW status \in {"draft", "active"}, Renew(c, s, start, status)
  PROVE  Stands /\ call' = call /\ run' = Disturbed
<1> DEFINE closing == [contract[c] EXCEPT !.status = "renewed"]
           next == [contract[c] EXCEPT !.start = start, !.end = start + PeriodDays - 1, !.status = status]
           carried == [l \in Lift |-> IF cover[c][l].removed = FarFuture
                                      THEN [added |-> start, removed |-> FarFuture] ELSE NoLine]
<1>1. /\ contract' = [contract EXCEPT ![c].status = "renewed", ![s] = next]
      /\ cover' = [cover EXCEPT ![c] = Closed(c, start), ![s] = carried]
      /\ run' = Disturbed /\ UNCHANGED <<today, fault, drafts, call>>
      /\ contract[c].status \in {"draft", "active", "expired"} /\ contract[s].status = "none"
  BY DEF Renew
<1>2. /\ closing \in ContractRow /\ closing.status = "renewed" /\ closing.start = contract[c].start
      /\ next \in ContractRow
  <2>1. start + PeriodDays - 1 \in Nat
    BY BillingAssumption
  <2> QED
    BY <2>1, ContractOf DEF ContractRow, ContractStatus
<1>3. carried \in [Lift -> [added : Nat, removed : Nat]]
  BY FarFutureOf DEF NoLine
<1>4. c # s
  BY <1>1
<1>5. /\ contract' \in [Contract -> ContractRow] /\ contract'[c] = closing
      /\ \A d \in Contract \ {c, s} : contract'[d] = contract[d]
  <2> HIDE DEF next
  <2>1. contract' = [[contract EXCEPT ![c] = closing] EXCEPT ![s] = next]
    BY <1>1
  <2> HIDE DEF closing
  <2> QED
    BY <1>2, <1>4, <2>1 DEF Types
<1>6. cover' \in [Contract -> [Lift -> [added : Nat, removed : Nat]]]
  <2> HIDE DEF carried
  <2> QED
    BY <1>1, <1>3, ClosedOf DEF Types
<1> HIDE DEF closing
<1>7. \A d \in Contract : contract[d].status # "none" =>
        contract'[d].status # "none" /\ contract'[d].start = contract[d].start
  BY <1>1, <1>2, <1>5
<1> QED
  BY <1>1, <1>5, <1>6, <1>7 DEF Stands, Types

LEMMA CoverLiftStands ==
  ASSUME Types, NEW c \in Contract, NEW l \in Lift, CoverLift(c, l)
  PROVE  Stands /\ call' = call /\ run' = Disturbed
<1>1. run' = Disturbed /\ UNCHANGED <<today, contract, fault, drafts, call>>
  BY DEF CoverLift
<1>2. cover[c] \in [Lift -> [added : Nat, removed : Nat]] /\ cover[c][l] \in [added : Nat, removed : Nat]
        /\ today \in Nat
  BY DEF Types
<1>3. PICK line \in [added : Nat, removed : Nat] : cover' = [cover EXCEPT ![c][l] = line]
  <2>1. CASE cover' = [cover EXCEPT ![c][l] = [added |-> today, removed |-> FarFuture]]
    <3>1. [added |-> today, removed |-> FarFuture] \in [added : Nat, removed : Nat]
      BY <1>2, FarFutureOf
    <3> QED
      BY <2>1, <3>1
  <2>2. CASE cover' = [cover EXCEPT ![c][l].removed = today]
    <3>1. [cover[c][l] EXCEPT !.removed = today] \in [added : Nat, removed : Nat]
      BY <1>2
    <3>2. cover' = [cover EXCEPT ![c][l] = [cover[c][l] EXCEPT !.removed = today]]
      BY <2>2
    <3> QED
      BY <3>1, <3>2
  <2> QED
    BY <2>1, <2>2 DEF CoverLift
<1>4. cover' \in [Contract -> [Lift -> [added : Nat, removed : Nat]]]
  BY <1>2, <1>3 DEF Types
<1> QED
  BY <1>1, <1>4 DEF Stands, Types

LEMMA FaultStands ==
  ASSUME Types, NEW f \in Fault, CloseFault(f) \/ ChangeBillable(f)
  PROVE  Stands /\ UNCHANGED <<call, run, today, contract>>
<1>1. UNCHANGED <<today, contract, cover, drafts, run, call>>
  BY DEF CloseFault, ChangeBillable
<1>2. fault[f] \in [closed : Nat, billable : BOOLEAN] /\ today \in Nat
  BY DEF Types
<1>3. PICK row \in [closed : Nat, billable : BOOLEAN] : fault' = [fault EXCEPT ![f] = row]
  <2>1. CASE CloseFault(f)
    BY <1>2, <2>1 DEF CloseFault
  <2>2. CASE ChangeBillable(f)
    <3>1. fault' = [fault EXCEPT ![f] = [fault[f] EXCEPT !.billable = ~fault[f].billable]]
      BY <2>2 DEF ChangeBillable
    <3>2. [fault[f] EXCEPT !.billable = ~fault[f].billable] \in [closed : Nat, billable : BOOLEAN]
      BY <1>2
    <3> QED
      BY <3>1, <3>2
  <2> QED
    BY <2>1, <2>2
<1>4. fault' \in [Fault -> [closed : Nat, billable : BOOLEAN]]
  BY <1>3 DEF Types
<1> QED
  BY <1>1, <1>4 DEF Stands, Types

LEMMA TickStands ==
  ASSUME Types, Tick
  PROVE  Stands /\ call' = call /\ run' = Disturbed
  BY DEF Types, Tick, Stands, office

(* Contracts, cover, faults and the day are not in what a call fetched.    *)
LEMMA FetchedStays ==
  ASSUME Fetched, call' = call, drafts' = drafts
  PROVE  Fetched'
  BY DEF Fetched

LEMMA FetchLineStands ==
  ASSUME BillingInv, NEW r \in Request, FetchLine(r)
  PROVE  Stands /\ Fetched' /\ UNCHANGED <<run, today, contract, drafts>>
<1>1. PICK d \in DOMAIN drafts : \E k \in DOMAIN drafts[d].lines :
        /\ ~drafts[d].lines[k].deleted
        /\ call' = [call EXCEPT ![r] = [at |-> <<d, k>>, row |-> drafts[d].lines[k]]]
  BY DEF FetchLine
<1>2. PICK k \in DOMAIN drafts[d].lines :
        /\ ~drafts[d].lines[k].deleted
        /\ call' = [call EXCEPT ![r] = [at |-> <<d, k>>, row |-> drafts[d].lines[k]]]
  BY <1>1
<1>3. drafts[d] \in InvoiceRow /\ Sound(drafts[d]) /\ d \in Nat
  BY DEF BillingInv, Types, Drawn
<1>4. drafts[d].lines \in Seq(LineRow)
  BY <1>3 DEF InvoiceRow
<1>5. drafts[d].lines[k] \in LineRow /\ k \in Nat
  BY <1>4
<1> DEFINE held == [at |-> <<d, k>>, row |-> drafts[d].lines[k]]
<1>6. held \in [at : Nat \X Nat, row : LineRow] /\ held.at[1] = d /\ held.at[2] = k
        /\ held.row = drafts[d].lines[k]
  BY <1>3, <1>5
<1>7. drafts[d].status = "draft" => ~drafts[d].lines[k].released
  BY <1>3 DEF Sound
<1> HIDE DEF held
<1>8. /\ call' \in [Request -> {NoCall} \cup [at : Nat \X Nat, row : LineRow]]
      /\ call'[r] = held /\ \A q \in Request : q # r => call'[q] = call[q]
  BY <1>2, <1>6 DEF BillingInv, Types, held
<1>9. UNCHANGED <<today, contract, cover, fault, drafts, run>>
  BY DEF FetchLine, office
<1>10. Stands
  BY <1>8, <1>9 DEF Stands, BillingInv, Types
<1>11. Fetched'
  <2> SUFFICES ASSUME NEW q \in Request, call'[q] # NoCall
               PROVE  LET e == call'[q].at[1]
                          j == call'[q].at[2]
                      IN  /\ e \in DOMAIN drafts /\ j \in DOMAIN drafts[e].lines
                          /\ ~call'[q].row.deleted
                          /\ call'[q].row.fault = drafts[e].lines[j].fault
                          /\ drafts[e].status = "draft" => ~call'[q].row.released
    BY <1>9 DEF Fetched
  <2>1. CASE q = r
    BY <1>2, <1>6, <1>7, <1>8, <2>1
  <2>2. CASE q # r
    BY <1>8, <2>2 DEF BillingInv, Fetched
  <2> QED
    BY <2>1, <2>2
<1> QED
  BY <1>9, <1>10, <1>11

LEMMA GiveUpStands ==
  ASSUME BillingInv, NEW r \in Request, GiveUp(r)
  PROVE  Stands /\ Fetched' /\ UNCHANGED <<run, today, contract, drafts>>
<1>1. call' = [call EXCEPT ![r] = NoCall] /\ UNCHANGED <<today, contract, cover, fault, drafts, run>>
  BY DEF GiveUp, Answer, office
<1>2. call' \in [Request -> {NoCall} \cup [at : Nat \X Nat, row : LineRow]]
  BY <1>1 DEF BillingInv, Types
<1>3. Stands
  BY <1>1, <1>2 DEF Stands, BillingInv, Types
<1>4. \A q \in Request : call'[q] # NoCall => call'[q] = call[q]
  BY <1>1 DEF BillingInv, Types
<1>5. Fetched'
  BY <1>1, <1>4 DEF BillingInv, Fetched
<1> QED
  BY <1>1, <1>3, <1>5

(* Every step is a call that changes a draft, a step of a run, or one that *)
(* leaves the drafts as they are.                                          *)
LEMMA NextIs ==
  ASSUME BillingInv, Next
  PROVE  \/ \E d \in DOMAIN drafts : \E new : Redraws(d, new)
         \/ \E g \in Run : \/ BeginRun(g) \/ NextContract(g) \/ BuildDraft(g) \/ InsertDraft(g)
                           \/ CommitRun(g) \/ AbortRun(g)
         \/ /\ Stands /\ Fetched'
            /\ run' = Disturbed \/ UNCHANGED <<run, today, contract>>
<1> DEFINE Is == \/ \E d \in DOMAIN drafts : \E new : Redraws(d, new)
                 \/ \E g \in Run : \/ BeginRun(g) \/ NextContract(g) \/ BuildDraft(g) \/ InsertDraft(g)
                                   \/ CommitRun(g) \/ AbortRun(g)
                 \/ /\ Stands /\ Fetched'
                    /\ run' = Disturbed \/ UNCHANGED <<run, today, contract>>
<1> SUFFICES Is
  OBVIOUS
<1>1. CASE Generate
  BY <1>1 DEF Generate
<1>2. CASE InvoiceLineViewSet
  <2>1. PICK r \in Request : FetchLine(r) \/ EditLine(r) \/ RemoveLine(r) \/ GiveUp(r)
    BY <1>2 DEF InvoiceLineViewSet
  <2>2. CASE FetchLine(r) \/ GiveUp(r)
    BY <2>2, FetchLineStands, GiveUpStands
  <2>3. CASE EditLine(r) \/ RemoveLine(r)
    BY <2>3, EditLineRedraws DEF BillingInv
  <2> QED
    BY <2>1, <2>2, <2>3
<1>3. CASE InvoiceDraftViewSet
  BY <1>3, AddLineRedraws, IssueRedraws, SettleRedraws, CancelRedraws DEF InvoiceDraftViewSet, BillingInv
<1>4. ASSUME Stands, call' = call, run' = Disturbed \/ UNCHANGED <<run, today, contract>>
      PROVE  Is
  BY <1>4, FetchedStays DEF BillingInv, Stands
<1>0. Types /\ EndDays \subseteq Nat
  BY BillingAssumption DEF BillingInv
<1> HIDE DEF Is
<1>5. CASE ChangeOffice
  <2>1. CASE \E c \in Contract, day \in EndDays : Terminate(c, day) \/ Edit(c, day)
    BY <1>0, <1>4, <2>1, TerminateStands, EditStands
  <2>2. CASE \E c \in Contract : Expire(c)
    BY <1>0, <1>4, <2>2, ExpireStands
  <2>3. CASE \E c \in Contract, s \in Contract, start \in EndDays, status \in {"draft", "active"} :
               Renew(c, s, start, status)
    BY <1>0, <1>4, <2>3, RenewStands
  <2>4. CASE \E c \in Contract, l \in Lift : CoverLift(c, l)
    BY <1>0, <1>4, <2>4, CoverLiftStands
  <2>5. CASE \E f \in Fault : CloseFault(f) \/ ChangeBillable(f)
    BY <1>0, <1>4, <2>5, FaultStands
  <2> QED
    BY <1>5, <2>1, <2>2, <2>3, <2>4, <2>5 DEF ChangeOffice
<1>6. CASE Tick
  BY <1>0, <1>4, <1>6, TickStands
<1> QED
  BY <1>1, <1>2, <1>3, <1>5, <1>6 DEF Next

LEMMA NextKeeps ==
  ASSUME BillingInv, [Next]_vars
  PROVE  BillingInv'
<1>1. CASE UNCHANGED vars
  <2>1. UNCHANGED <<today, contract, cover, fault, drafts, run, call>>
    BY <1>1 DEF vars, office
  <2>2. Stands
    BY <2>1 DEF Stands, BillingInv, Types
  <2> QED
    BY <2>1, <2>2, FetchedStays, StandsKeeps DEF BillingInv
<1>2. CASE \E d \in DOMAIN drafts : \E new : Redraws(d, new)
  BY <1>2, RedrawsKeeps
<1>3. CASE \E g \in Run : \/ BeginRun(g) \/ NextContract(g) \/ BuildDraft(g) \/ InsertDraft(g)
                          \/ CommitRun(g) \/ AbortRun(g)
  <2>1. PICK g \in Run : \/ BeginRun(g) \/ NextContract(g) \/ BuildDraft(g) \/ InsertDraft(g)
                         \/ CommitRun(g) \/ AbortRun(g)
    BY <1>3
  <2>2. CASE CommitRun(g)
    BY <2>2, CommitRunKeeps
  <2>3. CASE AbortRun(g)
    BY <2>3, AbortRunWorks, IdleFits, WorksKeeps DEF BillingInv
  <2>4. CASE BeginRun(g) \/ NextContract(g) \/ BuildDraft(g) \/ InsertDraft(g)
    <3>1. \E row : Works(g, row) /\ Fits(g, row)
      <4>1. CASE BeginRun(g)
        BY <4>1, BeginRunWorks
      <4>2. CASE NextContract(g)
        BY <4>2, NextContractWorks
      <4>3. CASE BuildDraft(g)
        BY <4>3, BuildDraftWorks
      <4>4. CASE InsertDraft(g)
        BY <4>4, InsertDraftWorks
      <4> QED
        BY <2>4, <4>1, <4>2, <4>3, <4>4
    <3> QED
      BY <3>1, WorksKeeps
  <2> QED
    BY <2>1, <2>2, <2>3, <2>4
<1>4. CASE Stands /\ Fetched'
  BY <1>4, StandsKeeps
<1> QED
  BY <1>1, <1>2, <1>3, <1>4, NextIs

LEMMA InitHolds ==
  ASSUME Init
  PROVE  BillingInv /\ Thorough
<1>1. /\ today = 1 /\ drafts = <<>> /\ run = [g \in Run |-> Idle] /\ call = [r \in Request |-> NoCall]
      /\ fault = [f \in Fault |-> [closed |-> 0, billable |-> FALSE]]
  BY DEF Init
<1>2. contract \in [Contract -> ContractRow]
  <2>1. PICK row \in StartWith :
          contract = [c \in Contract |-> IF \A d \in Contract : c <= d THEN row ELSE NoContract]
    BY DEF Init
  <2>2. NoContract \in ContractRow
    BY DEF NoContract, ContractRow, ContractStatus, Null
  <2> QED
    BY <2>1, <2>2, BillingAssumption
<1>3. cover \in [Contract -> [Lift -> [added : Nat, removed : Nat]]]
  BY FarFutureOf DEF Init, NoLine
<1>4. Types
  BY <1>1, <1>2, <1>3, IdleOf DEF Types
<1>5. \A g \in Run : run[g] = Idle
  BY <1>1
<1>6. Gridded /\ Drawn /\ Ahead /\ Thorough
  BY <1>1, <1>5, IdleOf DEF Gridded, Drawn, Ahead, Thorough
<1>7. Fetched
  BY <1>1 DEF Fetched
<1>8. Distinct
  BY <1>1, <1>5, IdleOf DEF Distinct
<1> QED
  BY <1>4, <1>6, <1>7, <1>8 DEF BillingInv

-----------------------------------------------------------------------------
(* What the office may count on                                            *)

(* Whatever the runs draft, the office edits and the contracts change, the *)
(* rows, the grid of the periods and what each run has still to draft keep *)
(* together (services.py: generate, draft_for and the calls on a draft).   *)
THEOREM BillingAlwaysHolds == Spec => []BillingInv
<1>1. Init => BillingInv
  BY InitHolds
<1>2. BillingInv /\ [Next]_vars => BillingInv'
  BY NextKeeps
<1> QED
  BY <1>1, <1>2, PTL DEF Spec

(* A draft's total is the sum of its lines whatever was typed, removed or  *)
(* cancelled, and from whatever a view fetched before (recompute).         *)
THEOREM TotalsAlwaysAddUp == Spec => []TotalsAddUp
<1>1. BillingInv => TotalsAddUp
  BY DEF BillingInv, Drawn, Sound, TotalsAddUp
<1> QED
  BY <1>1, BillingAlwaysHolds, PTL

LEMMA PeriodsApart ==
  ASSUME BillingInv, NEW d \in DOMAIN drafts, NEW e \in DOMAIN drafts,
         drafts[d].contract = drafts[e].contract, drafts[d].from < drafts[e].from
  PROVE  drafts[d].to < drafts[e].from
<1>1. drafts[d] \in InvoiceRow /\ drafts[e] \in InvoiceRow /\ OnGrid(drafts[d]) /\ OnGrid(drafts[e])
  BY DEF BillingInv, Types, Gridded
<1> DEFINE start == contract[drafts[d].contract].start
<1>2. start \in Nat
  BY <1>1, ContractOf DEF BillingInv, InvoiceRow, ContractRow
<1>3. PICK i \in Nat : drafts[d].from = start + i * PeriodDays
  BY <1>1 DEF OnGrid
<1>4. PICK j \in Nat : drafts[e].from = start + j * PeriodDays
  BY <1>1 DEF OnGrid
<1> HIDE DEF start
<1>5. i * PeriodDays \in Nat /\ j * PeriodDays \in Nat /\ PeriodDays \in Nat
  BY BillingAssumption
<1>6. i < j
  <2>1. CASE i = j
    BY <1>2, <1>3, <1>4, <1>5, <2>1
  <2>2. CASE j < i
    <3>1. j * PeriodDays + PeriodDays <= i * PeriodDays
      BY <2>2, GridApart
    <3> QED
      BY <1>2, <1>3, <1>4, <1>5, <3>1
  <2> QED
    BY <2>1, <2>2
<1>7. i * PeriodDays + PeriodDays <= j * PeriodDays
  BY <1>6, GridApart
<1>8. drafts[d].to < drafts[d].from + PeriodDays /\ drafts[d].to \in Nat
  BY <1>1 DEF OnGrid, InvoiceRow
<1> QED
  BY <1>2, <1>3, <1>4, <1>5, <1>7, <1>8

(* However many runs race, and whatever is extended, terminated, renewed,  *)
(* expired or cancelled between them, no day of a contract and no fault is *)
(* on two live drafts (generate, draft_for and the two unique indexes).    *)
THEOREM AlwaysBilledOnce == Spec => []BilledOnce
<1>1. ASSUME BillingInv
      PROVE  FaultHeldByOneLiveDraft
  <2>1. \A d, e \in DOMAIN drafts, f \in Fault : Holds(drafts[d], f) /\ Holds(drafts[e], f) => d = e
    BY <1>1 DEF BillingInv, Distinct, Clear
  <2>2. ASSUME NEW d \in DOMAIN drafts, NEW f \in Fault, Holds(drafts[d], f)
        PROVE  Live(drafts[d])
    <3>1. Sound(drafts[d])
      BY <1>1 DEF BillingInv, Drawn
    <3> QED
      BY <2>2, <3>1, FarFutureOf DEF Sound, Holds, Live
  <2> QED
    BY <2>1, <2>2 DEF FaultHeldByOneLiveDraft
<1>2. ASSUME BillingInv
      PROVE  DaysBilledOnce
  <2> SUFFICES ASSUME NEW d \in DOMAIN drafts, NEW e \in DOMAIN drafts, d # e,
                      Live(drafts[d]), Live(drafts[e]), drafts[d].contract = drafts[e].contract
               PROVE  drafts[d].to < drafts[e].from \/ drafts[e].to < drafts[d].from
    BY DEF DaysBilledOnce
  <2>1. drafts[d].from # drafts[e].from
    BY <1>2 DEF BillingInv, Distinct, Clear
  <2>2. drafts[d].from \in Nat /\ drafts[e].from \in Nat
    <3>1. drafts[d] \in InvoiceRow /\ drafts[e] \in InvoiceRow
      BY <1>2 DEF BillingInv, Types
    <3> QED
      BY <3>1 DEF InvoiceRow
  <2>3. drafts[d].from < drafts[e].from \/ drafts[e].from < drafts[d].from
    BY <2>1, <2>2
  <2> QED
    BY <1>2, <2>3, PeriodsApart
<1>3. BillingInv => BilledOnce
  BY <1>1, <1>2 DEF BilledOnce
<1> QED
  BY <1>3, BillingAlwaysHolds, PTL

LEMMA DraftsKept ==
  ASSUME BillingInv, [Next]_vars, NEW d \in DOMAIN drafts
  PROVE  drafts'[d] = drafts[d] \/ Kept(drafts[d], drafts'[d])
<1>1. CASE UNCHANGED vars
  BY <1>1 DEF vars
<1>2. ASSUME NEW e \in DOMAIN drafts, NEW new, Redraws(e, new)
      PROVE  drafts'[d] = drafts[d] \/ Kept(drafts[d], drafts'[d])
  BY <1>2 DEF Redraws, Succeeds, BillingInv, Types
<1>3. ASSUME NEW g \in Run, CommitRun(g)
      PROVE  drafts'[d] = drafts[d]
  BY <1>3, CommitRunKeeps, SeenOf DEF BillingInv
<1>4. ASSUME NEW g \in Run,
             BeginRun(g) \/ NextContract(g) \/ BuildDraft(g) \/ InsertDraft(g) \/ AbortRun(g)
      PROVE  drafts' = drafts
  BY <1>4 DEF BeginRun, NextContract, BuildDraft, InsertDraft, AbortRun
<1>5. CASE Stands
  BY <1>5 DEF Stands
<1> QED
  BY <1>1, <1>2, <1>3, <1>4, <1>5, NextIs

(* An issued invoice's lines and total stay, whoever fetched a line while  *)
(* it was a draft, and none is issued with a line nobody priced (issue,    *)
(* edit_line, cancel).                                                     *)
THEOREM IssuedAlwaysStays == Spec => IssuedStays
<1>1. ASSUME BillingInv, [Next]_vars, NEW d \in DOMAIN drafts
      PROVE  Kept(drafts[d], drafts'[d])
  <2>1. drafts'[d] = drafts[d] => Kept(drafts[d], drafts'[d])
    BY DEF Kept
  <2> QED
    BY <1>1, <2>1, DraftsKept
<1>2. BillingInv /\ [Next]_vars => [\A d \in DOMAIN drafts : Kept(drafts[d], drafts'[d])]_vars
  BY <1>1
<1> QED
  BY <1>2, BillingAlwaysHolds, PTL DEF Spec, IssuedStays

-----------------------------------------------------------------------------
(* What a run that nothing disturbed leaves                                *)

(* Beside a run that is alone the rest are idle. *)
LEMMA AloneOf ==
  ASSUME BillingInv, Thorough, NEW g \in Run, NEW h \in Run, run[h].alone, run[g] # Idle
  PROVE  h = g
  BY DEF Thorough, Undisturbed

(* A step of run g keeps it thorough when it keeps g itself so.            *)
LEMMA WorksThorough ==
  ASSUME BillingInv, Thorough, NEW g \in Run, NEW row, Works(g, row), run[g] # Idle,
         row.alone = run[g].alone,
         run[g].alone => Undisturbed(g)'
  PROVE  Thorough'
<1> SUFFICES ASSUME NEW h \in Run, run'[h].alone
             PROVE  Undisturbed(h)'
  BY DEF Thorough
<1>1. CASE h = g
  BY <1>1 DEF Works
<1>2. CASE h # g
  <2>1. run'[h] = run[h]
    BY <1>2 DEF Works
  <2> QED
    BY <1>2, <2>1, AloneOf
<1> QED
  BY <1>1, <1>2

(* What of it a step of the run alone has to show again.                   *)
LEMMA UndisturbedNext ==
  ASSUME BillingInv, NEW g \in Run, NEW row, Works(g, row), Undisturbed(g),
         \A h \in Run \ {g} : run'[h] = run[h],
         \A o \in row.rows : o.row = contract[o.id],
         \A w \in row.left : w.of.row = contract[w.of.id],
         \A k \in DOMAIN row.built, d \in DOMAIN drafts, f \in Fault :
           ~(Holds(row.built[k], f) /\ Holds(drafts[d], f)),
         \A c \in Contract : \A p \in Periods(contract[c]) : Due(c, p) /\ Covers(g, c, p) =>
           \/ \E o \in row.rows : o.id = c
           \/ \E w \in row.left : w.of.id = c /\ w.period.from = p.from
           \/ \E k \in DOMAIN row.built : SamePeriod(row.built[k], c, p)
           \/ \E k \in DOMAIN row.pending : SamePeriod(row.pending[k], c, p)
           \/ \E k \in DOMAIN drafts : SamePeriod(drafts[k], c, p)
  PROVE  Undisturbed(g)'
<1>1. /\ run'[g] = row /\ \A h \in Run \ {g} : run'[h] = run[h]
      /\ drafts' = drafts /\ contract' = contract /\ today' = today
  BY DEF Works, office
<1>2. \A h \in Run \ {g} : run'[h] = Idle
  BY <1>1 DEF Undisturbed
<1>3. \A c \in Contract : \A p : Due(c, p)' = Due(c, p)
  BY <1>1 DEF Due, Drafted
<1>4. ASSUME NEW c \in Contract, NEW p \in Periods(contract[c]), Due(c, p)
      PROVE  Covers(g, c, p)'
  <2>1. Covers(g, c, p)
    BY <1>4 DEF Undisturbed
  <2> QED
    BY <1>1, <1>4, <2>1 DEF Covers
<1> QED
  BY <1>1, <1>2, <1>3, <1>4 DEF Undisturbed

LEMMA OthersStay ==
  ASSUME Types, NEW g \in Run, NextContract(g) \/ BuildDraft(g) \/ InsertDraft(g) \/ AbortRun(g)
  PROVE  /\ \A h \in Run \ {g} : run'[h] = run[h]
         /\ NextContract(g) \/ BuildDraft(g) \/ InsertDraft(g) => run[g] # Idle
<1>1. PICK row : run' = [run EXCEPT ![g] = row]
  BY DEF NextContract, BuildDraft, InsertDraft, AbortRun
<1>2. \A h \in Run \ {g} : run'[h] = run[h]
  BY <1>1 DEF Types
<1>3. NextContract(g) \/ BuildDraft(g) \/ InsertDraft(g) => run[g] # Idle
  BY IdleOf DEF NextContract, BuildDraft, InsertDraft
<1> QED
  BY <1>2, <1>3

LEMMA StillIdle ==
  [Idle EXCEPT !.alone = FALSE] = Idle
<1>1. Idle \in RunRow /\ Idle.alone = FALSE
  BY IdleOf DEF RunRow
<1>2. ASSUME NEW r \in RunRow, r.alone = FALSE
      PROVE  [r EXCEPT !.alone = FALSE] = r
  BY <1>2 DEF RunRow
<1> QED
  BY <1>1, <1>2

LEMMA BeginRunThorough ==
  ASSUME BillingInv, NEW g \in Run, BeginRun(g)
  PROVE  Thorough'
<1> SUFFICES ASSUME NEW h \in Run, run'[h].alone
             PROVE  Undisturbed(h)'
  BY DEF Thorough
<1> DEFINE rows == {[id |-> c, row |-> contract[c]] : c \in {d \in Contract : Drafted(contract[d])}}
<1>1. PICK row : /\ Works(g, row) /\ row.rows = rows
                 /\ row.left = {} /\ row.built = <<>> /\ row.pending = <<>>
                 /\ row.alone <=> \A m \in Run \ {g} : run[m] = Idle
                 /\ \A m \in Run \ {g} : ~run'[m].alone
  BY BeginRunWorks
<1>2. h = g
  BY <1>1
<1>3. /\ run'[g] = row /\ drafts' = drafts /\ contract' = contract /\ today' = today
  BY <1>1 DEF Works, office
<1>4. \A m \in Run \ {g} : run'[m] = Idle
  <2>1. \A m \in Run \ {g} : run[m] = Idle
    BY <1>1, <1>2, <1>3
  <2>2. \A m \in Run \ {g} : run'[m] = Disturbed[m]
    BY DisturbedOf DEF BeginRun, BillingInv
  <2>3. \A m \in Run : Disturbed[m] = [run[m] EXCEPT !.alone = FALSE]
    BY DEF Disturbed
  <2>4. [Idle EXCEPT !.alone = FALSE] = Idle
    BY StillIdle
  <2> QED
    BY <2>1, <2>2, <2>3, <2>4
<1>5. \A o \in rows : o.row = contract[o.id]
  OBVIOUS
<1>6. ASSUME NEW c \in Contract, NEW p \in Periods(contract[c]), Due(c, p)'
      PROVE  Covers(g, c, p)'
  <2>1. Drafted(contract[c])
    BY <1>3, <1>6 DEF Due, Drafted
  <2>2. \E o \in rows : o.id = c
    <3>1. [id |-> c, row |-> contract[c]] \in rows
      BY <2>1
    <3>2. [id |-> c, row |-> contract[c]].id = c
      OBVIOUS
    <3> HIDE DEF rows
    <3> QED
      BY <3>1, <3>2
  <2> HIDE DEF rows
  <2> QED
    BY <1>1, <1>3, <2>2 DEF Covers
<1> HIDE DEF rows
<1> QED
  BY <1>1, <1>2, <1>3, <1>4, <1>5, <1>6 DEF Undisturbed

LEMMA NextContractThorough ==
  ASSUME BillingInv, Thorough, NEW g \in Run, NextContract(g)
  PROVE  Thorough'
<1>1. PICK o \in run[g].rows : \E row :
        /\ Works(g, row) /\ Fits(g, row) /\ row.alone = run[g].alone
        /\ run[g].left = {} /\ run[g].built = <<>>
        /\ row.rows = run[g].rows \ {o} /\ row.built = <<>> /\ row.pending = run[g].pending
        /\ row.left = IF o.row.vat THEN {[of |-> o, period |-> p] : p \in Missing(g, o)} ELSE {}
  BY NextContractWorks
<1>2. PICK row :
        /\ Works(g, row) /\ Fits(g, row) /\ row.alone = run[g].alone
        /\ run[g].left = {} /\ run[g].built = <<>>
        /\ row.rows = run[g].rows \ {o} /\ row.built = <<>> /\ row.pending = run[g].pending
        /\ row.left = IF o.row.vat THEN {[of |-> o, period |-> p] : p \in Missing(g, o)} ELSE {}
  BY <1>1
<1>3. run[g] # Idle /\ \A h \in Run \ {g} : run'[h] = run[h]
  BY OthersStay DEF BillingInv
<1>4. ASSUME run[g].alone
      PROVE  Undisturbed(g)'
  <2>1. Undisturbed(g)
    BY <1>4 DEF Thorough
  <2>2. o.row = contract[o.id]
    BY <2>1 DEF Undisturbed
  <2>3. \A q \in row.rows : q.row = contract[q.id]
    BY <1>2, <2>1 DEF Undisturbed
  <2>4. \A w \in row.left : w.of = o
    BY <1>2
  <2>5. ASSUME NEW c \in Contract, NEW p \in Periods(contract[c]), Due(c, p), Covers(g, c, p)
        PROVE  \/ \E q \in row.rows : q.id = c
               \/ \E w \in row.left : w.of.id = c /\ w.period.from = p.from
               \/ \E k \in DOMAIN row.built : SamePeriod(row.built[k], c, p)
               \/ \E k \in DOMAIN row.pending : SamePeriod(row.pending[k], c, p)
               \/ \E k \in DOMAIN drafts : SamePeriod(drafts[k], c, p)
    <3>1. CASE o.id = c
      <4>1. o.row.vat /\ p \in Periods(o.row) /\ p.to < today /\ p.to >= today - LOOKBACK
        BY <2>2, <2>5, <3>1 DEF Due
      <4>2. CASE p \in Missing(g, o)
        <5>1. [of |-> o, period |-> p] \in row.left
          BY <1>2, <4>1, <4>2
        <5>2. [of |-> o, period |-> p].of.id = c /\ [of |-> o, period |-> p].period.from = p.from
          BY <3>1
        <5> QED
          BY <5>1, <5>2
      <4>3. CASE p \notin Missing(g, o)
        <5>1. \E k \in DOMAIN Seen(g) : SamePeriod(Seen(g)[k], c, p)
          BY <3>1, <4>1, <4>3 DEF Missing
        <5> QED
          BY <1>2, <5>1, SeenOf DEF BillingInv
      <4> QED
        BY <4>2, <4>3
    <3>2. CASE o.id # c
      BY <1>2, <2>5, <3>2 DEF Covers
    <3> QED
      BY <3>1, <3>2
  <2>6. DOMAIN row.built = {}
    BY <1>2
  <2> QED
    BY <1>2, <1>3, <2>1, <2>2, <2>3, <2>4, <2>5, <2>6, UndisturbedNext
<1> QED
  BY <1>2, <1>3, <1>4, WorksThorough

LEMMA BuildDraftThorough ==
  ASSUME BillingInv, Thorough, NEW g \in Run, BuildDraft(g)
  PROVE  Thorough'
<1>1. PICK next \in run[g].left : \E draft : \E row :
        /\ Works(g, row) /\ Fits(g, row) /\ row.alone = run[g].alone
        /\ run[g].built = <<>>
        /\ row.rows = run[g].rows /\ row.left = run[g].left \ {next}
        /\ row.built = <<draft>> /\ row.pending = run[g].pending
        /\ draft.contract = next.of.id /\ draft.from = next.period.from /\ Live(draft)
        /\ \A f \in Fault, d \in DOMAIN drafts : Holds(draft, f) => ~Holds(drafts[d], f)
  BY BuildDraftWorks
<1>2. PICK draft, row :
        /\ Works(g, row) /\ Fits(g, row) /\ row.alone = run[g].alone
        /\ run[g].built = <<>>
        /\ row.rows = run[g].rows /\ row.left = run[g].left \ {next}
        /\ row.built = <<draft>> /\ row.pending = run[g].pending
        /\ draft.contract = next.of.id /\ draft.from = next.period.from /\ Live(draft)
        /\ \A f \in Fault, d \in DOMAIN drafts : Holds(draft, f) => ~Holds(drafts[d], f)
  BY <1>1
<1>3. run[g] # Idle /\ \A h \in Run \ {g} : run'[h] = run[h]
  BY OthersStay DEF BillingInv
<1>4. DOMAIN row.built = {1} /\ row.built[1] = draft /\ DOMAIN run[g].built = {}
  BY <1>2
<1>5. ASSUME run[g].alone
      PROVE  Undisturbed(g)'
  <2>1. Undisturbed(g)
    BY <1>5 DEF Thorough
  <2>2. ASSUME NEW c \in Contract, NEW p \in Periods(contract[c]), Due(c, p), Covers(g, c, p)
        PROVE  \/ \E q \in row.rows : q.id = c
               \/ \E w \in row.left : w.of.id = c /\ w.period.from = p.from
               \/ \E k \in DOMAIN row.built : SamePeriod(row.built[k], c, p)
               \/ \E k \in DOMAIN row.pending : SamePeriod(row.pending[k], c, p)
               \/ \E k \in DOMAIN drafts : SamePeriod(drafts[k], c, p)
    <3>1. CASE next.of.id = c /\ next.period.from = p.from
      BY <1>2, <1>4, <3>1 DEF SamePeriod
    <3>2. CASE ~(next.of.id = c /\ next.period.from = p.from)
      BY <1>2, <1>4, <2>2, <3>2 DEF Covers
    <3> QED
      BY <3>1, <3>2
  <2>3. \A q \in row.rows : q.row = contract[q.id]
    BY <1>2, <2>1 DEF Undisturbed
  <2>4. \A w \in row.left : w.of.row = contract[w.of.id]
    BY <1>2, <2>1 DEF Undisturbed
  <2>5. \A k \in DOMAIN row.built, d \in DOMAIN drafts, f \in Fault :
          ~(Holds(row.built[k], f) /\ Holds(drafts[d], f))
    BY <1>2, <1>4
  <2> QED
    BY <1>2, <1>3, <2>1, <2>2, <2>3, <2>4, <2>5, UndisturbedNext
<1> QED
  BY <1>2, <1>3, <1>5, WorksThorough

LEMMA InsertDraftThorough ==
  ASSUME BillingInv, Thorough, NEW g \in Run, InsertDraft(g)
  PROVE  Thorough'
<1>1. PICK draft, row :
        /\ Works(g, row) /\ Fits(g, row) /\ row.alone = run[g].alone
        /\ run[g].built = <<draft>>
        /\ row.rows = run[g].rows /\ row.left = run[g].left /\ row.built = <<>>
        /\ IF \E k \in DOMAIN drafts : Conflict(draft, drafts[k])
           THEN row.pending = run[g].pending ELSE row.pending = Append(run[g].pending, draft)
  BY InsertDraftWorks
<1>2. run[g] # Idle /\ \A h \in Run \ {g} : run'[h] = run[h]
  BY OthersStay DEF BillingInv
<1>3. /\ DOMAIN run[g].built = {1} /\ run[g].built[1] = draft /\ DOMAIN row.built = {}
      /\ run[g].pending \in Seq(InvoiceRow)
  BY <1>1, RunOf DEF BillingInv
<1>4. ASSUME run[g].alone
      PROVE  Undisturbed(g)'
  <2>1. Undisturbed(g)
    BY <1>4 DEF Thorough
  <2>2. /\ \A i \in DOMAIN run[g].pending : i \in DOMAIN row.pending /\ row.pending[i] = run[g].pending[i]
        /\ \/ \E k \in DOMAIN drafts : Conflict(draft, drafts[k])
           \/ \E i \in DOMAIN row.pending : row.pending[i] = draft
    <3>1. CASE \E k \in DOMAIN drafts : Conflict(draft, drafts[k])
      BY <1>1, <3>1
    <3>2. CASE ~\E k \in DOMAIN drafts : Conflict(draft, drafts[k])
      <4>1. row.pending = Append(run[g].pending, draft)
        BY <1>1, <3>2
      <4>2. Len(run[g].pending) + 1 \in DOMAIN row.pending /\ row.pending[Len(run[g].pending) + 1] = draft
        BY <1>3, <4>1
      <4> QED
        BY <1>3, <4>1, <4>2
    <3> QED
      BY <3>1, <3>2
  <2>3. ASSUME NEW c \in Contract, NEW p \in Periods(contract[c]), Due(c, p), Covers(g, c, p)
        PROVE  \/ \E q \in row.rows : q.id = c
               \/ \E w \in row.left : w.of.id = c /\ w.period.from = p.from
               \/ \E k \in DOMAIN row.built : SamePeriod(row.built[k], c, p)
               \/ \E k \in DOMAIN row.pending : SamePeriod(row.pending[k], c, p)
               \/ \E k \in DOMAIN drafts : SamePeriod(drafts[k], c, p)
    <3>1. CASE SamePeriod(draft, c, p)
      <4>1. CASE \E i \in DOMAIN row.pending : row.pending[i] = draft
        BY <3>1, <4>1
      <4>2. CASE \E k \in DOMAIN drafts : Conflict(draft, drafts[k])
        <5>1. PICK k \in DOMAIN drafts : Conflict(draft, drafts[k])
          BY <4>2
        <5>2. \A f \in Fault : ~(Holds(draft, f) /\ Holds(drafts[k], f))
          BY <1>3, <2>1 DEF Undisturbed
        <5>3. SamePeriod(drafts[k], draft.contract, draft)
          BY <5>1, <5>2 DEF Conflict
        <5> QED
          BY <3>1, <5>3 DEF SamePeriod
      <4> QED
        BY <2>2, <4>1, <4>2
    <3>2. CASE ~SamePeriod(draft, c, p)
      BY <1>1, <1>3, <2>2, <2>3, <3>2 DEF Covers
    <3> QED
      BY <3>1, <3>2
  <2>4. \A q \in row.rows : q.row = contract[q.id]
    BY <1>1, <2>1 DEF Undisturbed
  <2>5. \A w \in row.left : w.of.row = contract[w.of.id]
    BY <1>1, <2>1 DEF Undisturbed
  <2> QED
    BY <1>1, <1>2, <1>3, <2>1, <2>3, <2>4, <2>5, UndisturbedNext
<1> QED
  BY <1>1, <1>2, <1>4, WorksThorough

LEMMA NextThorough ==
  ASSUME BillingInv, Thorough, [Next]_vars
  PROVE  Thorough'
<1>1. ASSUME UNCHANGED <<run, today, contract, drafts>>
      PROVE  Thorough'
  BY <1>1 DEF Thorough, Undisturbed, Covers, Due, Drafted
<1>2. ASSUME run' = Disturbed
      PROVE  Thorough'
  BY <1>2, DisturbedOf DEF Thorough, BillingInv
<1>3. CASE UNCHANGED vars
  BY <1>1, <1>3 DEF vars, office
<1>4. CASE \E d \in DOMAIN drafts : \E new : Redraws(d, new)
  BY <1>4, RedrawsKeepsThorough
<1>5. ASSUME NEW g \in Run, CommitRun(g) \/ AbortRun(g)
      PROVE  Thorough'
  <2>1. /\ run[g] # Idle /\ run'[g] = Idle /\ \A h \in Run \ {g} : run'[h] = run[h]
    BY <1>5, CommitRunKeeps, OthersStay, AbortRunWorks DEF Works, AbortRun, BillingInv
  <2>2. \A h \in Run : ~run'[h].alone
    BY <2>1, AloneOf, IdleOf
  <2> QED
    BY <2>2 DEF Thorough
<1>6. CASE Stands /\ (run' = Disturbed \/ UNCHANGED <<run, today, contract>>)
  BY <1>1, <1>2, <1>6 DEF Stands
<1> QED
  BY <1>3, <1>4, <1>5, <1>6, NextIs, BeginRunThorough, NextContractThorough, BuildDraftThorough,
     InsertDraftThorough

(* A contract with a period due is among those a run looks at: none that   *)
(* ended longer ago than RECENTLY_ENDED has a period in the lookback.      *)
LEMMA OwedIsDue ==
  ASSUME Types, NEW c \in Contract, NEW p \in Periods(contract[c]),
         contract[c].status \in {"active", "expired", "renewed", "terminated"}, contract[c].vat,
         p.to < today, p.to >= today - LOOKBACK
  PROVE  Due(c, p)
<1>1. /\ p.to <= LastBilledDay(contract[c]) /\ p.to \in Nat
      /\ contract[c].end \in Nat /\ contract[c].terminated \in Nat /\ today \in Nat
  BY ContractOf, PeriodOf DEF ContractRow, Types
<1>2. LOOKBACK \in Nat /\ RECENTLY_ENDED \in Nat /\ RECENTLY_ENDED >= LOOKBACK
  BY BillingAssumption
<1>3. LastBilledDay(contract[c]) >= today - RECENTLY_ENDED
  BY <1>1, <1>2, LastBilledOf, ContractOf
<1>4. CASE contract[c].status = "active"
  BY <1>4 DEF Due, Drafted
<1>5. CASE contract[c].status \in {"expired", "renewed"}
  <2>1. LastBilledDay(contract[c]) = contract[c].end
    BY <1>5 DEF LastBilledDay
  <2> QED
    BY <1>3, <1>5, <2>1 DEF Due, Drafted
<1>6. CASE contract[c].status = "terminated"
  <2>1. LastBilledDay(contract[c]) <= contract[c].terminated
    BY <1>1, <1>6 DEF LastBilledDay, Lesser
  <2>2. contract[c].terminated >= today - RECENTLY_ENDED
    BY <1>1, <1>2, <1>3, <2>1, LastBilledOf, ContractOf
  <2> QED
    BY <1>6, <2>2 DEF Due, Drafted
<1> QED
  BY <1>4, <1>5, <1>6

(* A run that starts and ends with nobody else at work drafts every period *)
(* that ended within the lookback, of every contract that can be billed:   *)
(* the statuses and the RECENTLY_ENDED cut it looks for leave none out     *)
(* (generate).                                                             *)
THEOREM RunsAlwaysLeaveNothingOwed == Spec => RunLeavesNothingOwed
<1>1. Spec => [](BillingInv /\ Thorough)
  <2>1. Init => BillingInv /\ Thorough
    BY InitHolds
  <2>2. BillingInv /\ Thorough /\ [Next]_vars => BillingInv' /\ Thorough'
    BY NextKeeps, NextThorough
  <2> QED
    BY <2>1, <2>2, PTL DEF Spec
<1>2. ASSUME BillingInv, Thorough, NEW g \in Run, run[g].alone, CommitRun(g), NEW c \in Contract, Owed(c)'
      PROVE  FALSE
  <2>1. /\ drafts' = Seen(g) /\ contract' = contract /\ today' = today
    BY <1>2, CommitRunKeeps
  <2>2. PICK p \in Periods(contract[c]) :
          /\ contract[c].status \in {"active", "expired", "renewed", "terminated"} /\ contract[c].vat
          /\ p.to < today /\ p.to >= today - LOOKBACK
          /\ ~\E k \in DOMAIN Seen(g) : SamePeriod(Seen(g)[k], c, p)
    BY <1>2, <2>1 DEF Owed
  <2>3. Due(c, p)
    BY <1>2, <2>2, OwedIsDue DEF BillingInv
  <2>4. Covers(g, c, p)
    BY <1>2, <2>3 DEF Thorough, Undisturbed
  <2>5. run[g].rows = {} /\ run[g].left = {} /\ run[g].built = <<>>
    BY <1>2 DEF CommitRun
  <2>6. \E k \in DOMAIN Seen(g) : SamePeriod(Seen(g)[k], c, p)
    BY <1>2, <2>4, <2>5, SeenOf DEF Covers, BillingInv
  <2> QED
    BY <2>2, <2>6
<1>3. BillingInv /\ Thorough /\ [Next]_vars =>
        [\A g \in Run : run[g].alone /\ CommitRun(g) => \A c \in Contract : ~Owed(c)']_vars
  BY <1>2
<1> QED
  BY <1>1, <1>3, PTL DEF Spec, RunLeavesNothingOwed

=============================================================================
