------------------------------- MODULE Billing -------------------------------
(***************************************************************************)
(* apps/billing: the daily job that drafts an invoice for every period a   *)
(* contract has ended, and what the accountant then does to the drafts.    *)
(*                                                                         *)
(* A run of the job is one transaction: what it drafts is nobody else's to *)
(* see until it commits, and a second run waits on the unique indexes for  *)
(* what the first has inserted.  An edit of a line works on the line its   *)
(* view fetched, under the lock of the draft.  Contracts and faults change *)
(* meanwhile; what they promise themselves is in Contracts and             *)
(* LiftService.                                                            *)
(***************************************************************************)
EXTENDS Integers, FiniteSets, Sequences, SequencesExt

CONSTANTS
  Contract,     \* primary keys
  Lift, Fault,
  LiftOf,       \* the lift a fault is on
  None,         \* no lift, no fault, no line, no draft
  Run, Request, \* runs of the job, and requests, at work at once
  PeriodDays,   \* days in a billing period
  LOOKBACK, RECENTLY_ENDED,
  EndDays,      \* the dates a contract may end on
  MaxDay,       \* bound: the days the model runs over
  StartWith,    \* the contract there is on the first day: one of these
  Reported,     \* the day a fault was reported
  MaxChanges,   \* bound: changes of contracts, cover, closed faults and lines, and runs that overlap
  MaxDrafts, MaxLines   \* bounds: drafts ever made, lines of one

(* ContractStatus, "none" for a row that is not there; of a contract, what billing reads. *)
ContractStatus == {"none", "draft", "active", "expired", "renewed", "terminated"}
ContractRow ==
  [status : ContractStatus, start : Nat, end : Nat, terminated : Nat,
   flat : BOOLEAN, fee : Nat, vat : BOOLEAN]

ASSUME BillingAssumption ==
  /\ Contract \subseteq Nat /\ None \notin Lift \cup Fault
  /\ IsFiniteSet(Lift) /\ IsFiniteSet(Fault)
  /\ LiftOf \in [Fault -> Lift] /\ Reported \in [Fault -> Nat]
  /\ StartWith \subseteq ContractRow
  /\ PeriodDays \in Nat \ {0} /\ MaxDay \in Nat \ {0}
  /\ LOOKBACK \in Nat /\ RECENTLY_ENDED \in Nat /\ RECENTLY_ENDED >= LOOKBACK
  /\ EndDays \subseteq Nat

VARIABLES
  today,
  contract,  \* contract[c]: its row
  cover,     \* cover[c][l]: the days its line covers the lift
  fault,     \* fault[f]: its row
  changes,   \* how many of those there were
  drafts,    \* the invoice drafts, in the order they were committed
  run,       \* run[g]: how far a run of generate() is
  call       \* call[r]: the line a request has fetched

office == <<contract, cover, fault>>
vars == <<today, office, changes, drafts, run, call>>

CountChange == changes < MaxChanges /\ changes' = changes + 1

Null == 0  \* a date or a price that is not there
FarFuture == MaxDay + PeriodDays
Lesser(m, n) == IF m < n THEN m ELSE n
Greater(m, n) == IF m > n THEN m ELSE n

NoContract == [status |-> "none", start |-> 0, end |-> 0, terminated |-> Null,
               flat |-> FALSE, fee |-> Null, vat |-> FALSE]
NoLine == [added |-> 0, removed |-> 0]
Idle == [rows |-> {}, left |-> {}, built |-> <<>>, pending |-> <<>>, alone |-> FALSE]
NoCall == [at |-> <<0, 0>>, row |-> None]

Live(d) == d.status # "cancelled"

-----------------------------------------------------------------------------
(* Money and periods                                                       *)

(* Half-up, as the quotient of two whole numbers. *)
RoundHalfUp(n, d) == (2 * n + d) \div (2 * d)

(* A line's amount: the exact share of its price it bills, or a quantity.  *)
LineAmount(line) ==
  IF line.price = Null THEN 0
  ELSE IF line.share > 0 THEN RoundHalfUp(line.price * line.share, PeriodDays)
  ELSE line.price * line.quantity

Priced(line) == [line EXCEPT !.amount = LineAmount(line), !.needsPrice = line.price = Null]

AddedUp(amounts) == FoldLeft(LAMBDA m, n : m + n, 0, amounts)

(* totals(), over the lines that stand. *)
Total(lines) ==
  AddedUp([k \in DOMAIN lines |-> IF lines[k].deleted THEN 0 ELSE lines[k].amount])

(* recompute(): only a draft's totals follow its lines. *)
Recomputed(d) == IF d.status = "draft" THEN [d EXCEPT !.total = Total(d.lines)] ELSE d

OverlapDays(from, to, first, last) == Greater(0, Lesser(to, last) - Greater(from, first) + 1)

(* The last covered day: the end, or the termination if sooner. *)
LastBilledDay(row) ==
  IF row.status = "terminated" THEN Lesser(row.end, row.terminated) ELSE row.end

(* Every period of a contract, stepped from its start, the last one cut.   *)
Periods(row) ==
  LET last == LastBilledDay(row)
  IN  {[from |-> s, to |-> Lesser(s + PeriodDays - 1, last)] :
         s \in {row.start + k * PeriodDays : k \in 0..MaxDay} \cap (row.start..last)}

(* uq_invoice_draft_per_period: the live draft of a contract's period.     *)
SamePeriod(d, c, period) == Live(d) /\ d.contract = c /\ d.from = period.from

(* uq_invoice_line_fault_billed_once: the line that keeps f from others.   *)
Holds(d, f) ==
  \E k \in DOMAIN d.lines :
    d.lines[k].fault = f /\ ~d.lines[k].released /\ ~d.lines[k].deleted

(* The indexes refuse d beside e.  *)
Conflict(d, e) ==
  \/ SamePeriod(e, d.contract, d)
  \/ \E f \in Fault : Holds(d, f) /\ Holds(e, f)

-----------------------------------------------------------------------------
(* Generation                                                              *)

(* Mutated: a terminated contract is left alone. *)
Drafted_NotTerminated(row) ==
  \/ row.status = "active"
  \/ row.status \in {"expired", "renewed"} /\ row.end >= today - RECENTLY_ENDED

(* The contracts a run looks at. *)
Drafted(row) ==
  \/ row.status = "active"
  \/ row.status \in {"expired", "renewed"} /\ row.end >= today - RECENTLY_ENDED
  \/ row.status = "terminated" /\ row.terminated >= today - RECENTLY_ENDED

(* Someone or something else than the runs changed what they read.  *)
Disturbed == [g \in Run |-> [run[g] EXCEPT !.alone = FALSE]]

(* generate() fetches its contracts; it has the day it was started on.     *)
BeginRun(g) ==
  /\ run[g] = Idle /\ \A r \in Request : call[r] = NoCall
  /\ Len(drafts) < MaxDrafts
  /\ LET rows == {[id |-> c, row |-> contract[c]] : c \in {d \in Contract : Drafted(contract[d])}}
     IN  /\ rows # {}
         /\ run' = [Disturbed EXCEPT ![g] =
                      [Idle EXCEPT !.rows = rows,
                                   !.alone = \A h \in Run \ {g} : run[h] = Idle]]
  /\ IF \A h \in Run : run[h] = Idle THEN UNCHANGED changes ELSE CountChange
  /\ UNCHANGED <<today, office, drafts, call>>

(* By start date, then by key. *)
First(rows) ==
  CHOOSE o \in rows : \A p \in rows : \/ o.row.start < p.row.start
                                      \/ o.row.start = p.row.start /\ o.id <= p.id

(* What the run's own transaction sees. *)
Seen(g) == drafts \o run[g].pending

(* The periods of a contract that ended lately and have no live draft.     *)
Missing(g, o) ==
  {p \in Periods(o.row) :
     /\ p.to < today /\ p.to >= today - LOOKBACK
     /\ ~\E k \in DOMAIN Seen(g) : SamePeriod(Seen(g)[k], o.id, p)}

(* The next contract's periods; without a VAT rate the billing people are  *)
(* told, and nothing is drafted.                                           *)
NextContract(g) ==
  /\ run[g].rows # {} /\ run[g].left = {} /\ run[g].built = <<>>
  /\ LET o == First(run[g].rows)
         left == IF o.row.vat THEN {[of |-> o, period |-> p] : p \in Missing(g, o)} ELSE {}
     IN  run' = [run EXCEPT ![g].rows = @ \ {o}, ![g].left = left]
  /\ UNCHANGED <<today, office, changes, drafts, call>>

Line(kind, f, share, quantity, price) ==
  Priced([kind |-> kind, fault |-> f, share |-> share, quantity |-> quantity, price |-> price,
          amount |-> 0, needsPrice |-> TRUE, released |-> FALSE, deleted |-> FALSE])

(* _fee_lines: one for a flat fee, or one for each lift covered meanwhile. *)
FeeLines(o, period) ==
  IF o.row.flat
  THEN <<Line("contract_fee", None,
              OverlapDays(period.from, period.to, o.row.start, LastBilledDay(o.row)), 1, o.row.fee)>>
  ELSE LET share(l) == OverlapDays(period.from, period.to, cover[o.id][l].added, cover[o.id][l].removed)
           covered == {l \in Lift : cover[o.id][l] # NoLine /\ share(l) > 0}
       IN  [k \in 1..Cardinality(covered) |->
              Line("elevator_fee", None, share(SetToSeq(covered)[k]), 1, o.row.fee)]

(* Closed in the period, on a lift covered on the day it was reported, and *)
(* on no draft this transaction sees.                                      *)
BillableFaults(g, c, period) ==
  {f \in Fault :
     /\ fault[f].billable /\ fault[f].closed \in period.from..period.to
     /\ cover[c][LiftOf[f]] # NoLine
     /\ Reported[f] \in cover[c][LiftOf[f]].added..cover[c][LiftOf[f]].removed
     /\ ~\E k \in DOMAIN Seen(g) : Holds(Seen(g)[k], f)}

(* Each waits for the office to price it. *)
FaultLines(faults) ==
  [k \in DOMAIN SetToSeq(faults) |-> Line("fault", SetToSeq(faults)[k], 0, 1, Null)]

DraftOf(o, period, faults) ==
  LET lines == FeeLines(o, period) \o FaultLines(faults)
  IN  [contract |-> o.id, from |-> period.from, to |-> period.to,
       status |-> "draft", lines |-> lines, total |-> Total(lines)]

Earliest(left) == CHOOSE w \in left : \A v \in left : w.period.from <= v.period.from

(* draft_for: what it is about to insert. *)
BuildDraft(g) ==
  /\ run[g].left # {} /\ run[g].built = <<>>
  /\ LET next == Earliest(run[g].left)
         draft == DraftOf(next.of, next.period, BillableFaults(g, next.of.id, next.period))
     IN  run' = [run EXCEPT ![g].left = @ \ {next}, ![g].built = <<draft>>]
  /\ UNCHANGED <<today, office, changes, drafts, call>>

(* The inserts wait for a run that holds the same key; the draft is left   *)
(* out when it turns out to be taken, its period or a fault of it.         *)
InsertDraft(g) ==
  /\ run[g].built # <<>>
  /\ LET draft == run[g].built[1]
     IN  /\ \A h \in Run \ {g} :
              ~\E k \in DOMAIN run[h].pending : Conflict(draft, run[h].pending[k])
         /\ run' = [run EXCEPT ![g].built = <<>>,
                               ![g].pending = IF \E k \in DOMAIN drafts : Conflict(draft, drafts[k])
                                              THEN @ ELSE Append(@, draft)]
  /\ UNCHANGED <<today, office, changes, drafts, call>>

CommitRun(g) ==
  /\ run[g] # Idle /\ run[g].rows = {} /\ run[g].left = {} /\ run[g].built = <<>>
  /\ drafts' = drafts \o run[g].pending
  /\ run' = [run EXCEPT ![g] = Idle]
  /\ UNCHANGED <<today, office, changes, call>>

(* The worker dies, or the database fails the run: nothing of it is left.  *)
AbortRun(g) ==
  /\ run[g] # Idle
  /\ run' = [run EXCEPT ![g] = Idle]
  /\ UNCHANGED <<today, office, changes, drafts, call>>

-----------------------------------------------------------------------------
(* The drafts                                                              *)

(* get_object() of a line.  A run changes no draft that there is, and a    *)
(* bound of the model keeps the two from overlapping.                      *)
FetchLine(r) ==
  /\ call[r] = NoCall /\ \A g \in Run : run[g] = Idle
  /\ \E d \in DOMAIN drafts : \E k \in DOMAIN drafts[d].lines :
       /\ ~drafts[d].lines[k].deleted
       /\ call' = [call EXCEPT ![r] = [at |-> <<d, k>>, row |-> drafts[d].lines[k]]]
  /\ UNCHANGED <<today, office, changes, drafts, run>>

Answer(r) == call' = [call EXCEPT ![r] = NoCall] /\ UNCHANGED <<today, office, run>>

(* _editable, under the draft's lock. *)
Editable(d) == drafts[d].status = "draft"

(* A price, or a quantity typed: what a PATCH of a line may say. *)
LineForm == [price : {Null, 1}, typed : BOOLEAN]

(* The row a line's view fetched is saved whole, unless it is deleted.     *)
EditLine(r) ==
  LET d == call[r].at[1]
      k == call[r].at[2]
  IN  /\ call[r] # NoCall /\ CountChange
      /\ Editable(d) /\ ~drafts[d].lines[k].deleted
      /\ \E form \in LineForm :
           LET row == Priced([call[r].row EXCEPT
                                !.price = IF form.price = Null THEN @ ELSE form.price,
                                !.share = IF form.typed THEN 0 ELSE @])
           IN  /\ form.price # Null \/ form.typed
               /\ drafts' = [drafts EXCEPT ![d] = Recomputed([@ EXCEPT !.lines[k] = row])]
      /\ Answer(r)

(* Mutated: the totals are left as they were. *)
RemoveLine_TotalKept(r) ==
  LET d == call[r].at[1]
      k == call[r].at[2]
  IN  /\ call[r] # NoCall /\ CountChange
      /\ Editable(d) /\ ~drafts[d].lines[k].deleted
      /\ drafts' = [drafts EXCEPT ![d].lines[k].deleted = TRUE]
      /\ Answer(r)

RemoveLine(r) ==
  LET d == call[r].at[1]
      k == call[r].at[2]
  IN  /\ call[r] # NoCall /\ CountChange
      /\ Editable(d) /\ ~drafts[d].lines[k].deleted
      /\ drafts' = [drafts EXCEPT ![d] = Recomputed([@ EXCEPT !.lines[k].deleted = TRUE])]
      /\ Answer(r)

(* A call that is refused, or only reads. *)
GiveUp(r) == call[r] # NoCall /\ Answer(r) /\ UNCHANGED <<changes, drafts>>

(* These read the draft under its lock and nothing of it before.           *)
Change(d, changed) ==
  /\ drafts' = [drafts EXCEPT ![d] = changed]
  /\ UNCHANGED <<today, office, call>>

AddLine(d) ==
  /\ CountChange
  /\ Editable(d) /\ Len(drafts[d].lines) < MaxLines
  /\ Change(d, Recomputed([drafts[d] EXCEPT !.lines = Append(@, Line("manual", None, 0, 1, 1))]))
  /\ UNCHANGED run

(* Mutated: a draft with a line nobody priced is issued. *)
Issue_Unpriced(d) ==
  /\ UNCHANGED changes
  /\ Editable(d)
  /\ LET total == Total(drafts[d].lines)
     IN  Change(d, [drafts[d] EXCEPT !.total = total,
                                     !.status = IF total = 0 THEN "paid" ELSE "issued"])
  /\ UNCHANGED run

(* Every line priced; a total of nothing is paid at once. *)
Issue(d) ==
  /\ UNCHANGED changes
  /\ Editable(d)
  /\ \A k \in DOMAIN drafts[d].lines : drafts[d].lines[k].deleted \/ ~drafts[d].lines[k].needsPrice
  /\ LET total == Total(drafts[d].lines)
     IN  Change(d, [drafts[d] EXCEPT !.total = total,
                                     !.status = IF total = 0 THEN "paid" ELSE "issued"])
  /\ UNCHANGED run

(* Collections come to cover it, or one is cancelled (Ledger's part).      *)
Settle(d) ==
  /\ CountChange
  /\ \/ drafts[d].status = "issued" /\ Change(d, [drafts[d] EXCEPT !.status = "paid"])
     \/ /\ drafts[d].status = "paid" /\ drafts[d].total > 0
        /\ Change(d, [drafts[d] EXCEPT !.status = "issued"])
  /\ UNCHANGED run

(* Its faults are given back, to whoever drafts their period next. *)
Released(lines) ==
  [k \in DOMAIN lines |-> [lines[k] EXCEPT !.released = @ \/ lines[k].fault # None]]

(* Mutated: only an issued invoice gives its faults back. *)
Cancel_DraftKeepsFaults(d) ==
  /\ UNCHANGED changes
  /\ drafts[d].status \in {"draft", "issued"} \/ (drafts[d].status = "paid" /\ drafts[d].total = 0)
  /\ Change(d, [drafts[d] EXCEPT
                  !.status = "cancelled",
                  !.lines = IF drafts[d].status = "draft" THEN @ ELSE Released(@)])
  /\ run' = Disturbed

(* Refused while a collection pays any of it.                              *)
Cancel(d) ==
  /\ UNCHANGED changes
  /\ drafts[d].status \in {"draft", "issued"} \/ (drafts[d].status = "paid" /\ drafts[d].total = 0)
  /\ Change(d, [drafts[d] EXCEPT !.status = "cancelled", !.lines = Released(@)])
  /\ run' = Disturbed

-----------------------------------------------------------------------------
(* What the rest of the firm does meanwhile                                *)

ChangeContract(c, row, lines) ==
  /\ CountChange
  /\ contract' = [contract EXCEPT ![c] = row]
  /\ cover' = [cover EXCEPT ![c] = lines]
  /\ run' = Disturbed
  /\ UNCHANGED <<today, fault, drafts, call>>

Closed(c, day) ==
  [l \in Lift |-> IF cover[c][l].removed = FarFuture THEN [cover[c][l] EXCEPT !.removed = day]
                  ELSE cover[c][l]]

Terminate(c, day) ==
  /\ contract[c].status \in {"draft", "active", "expired"} /\ day <= today
  /\ ChangeContract(c, [contract[c] EXCEPT !.status = "terminated", !.terminated = day], Closed(c, day))

Expire(c) ==
  /\ contract[c].status = "active" /\ contract[c].end < today
  /\ ChangeContract(c, [contract[c] EXCEPT !.status = "expired"], Closed(c, contract[c].end + 1))

(* A PATCH of the end date, with the VAT rate and the status that a        *)
(* contract needs to be billed.                                            *)
Edit(c, end) ==
  /\ contract[c].status \in {"draft", "active", "expired"}
  /\ end > contract[c].start
  /\ ChangeContract(c, [contract[c] EXCEPT !.end = end, !.vat = TRUE, !.status = "active"], cover[c])

(* renew(), on any day it is asked for, with the lifts carried: a draft,   *)
(* or in force already when the job renews.                                *)
Renew(c, s, start, status) ==
  /\ CountChange
  /\ contract[c].status \in {"draft", "active", "expired"} /\ contract[s].status = "none"
  /\ contract' = [contract EXCEPT
       ![c].status = "renewed",
       ![s] = [contract[c] EXCEPT !.start = start, !.end = start + PeriodDays - 1, !.status = status]]
  /\ cover' = [cover EXCEPT
       ![c] = Closed(c, start),
       ![s] = [l \in Lift |-> IF cover[c][l].removed = FarFuture
                              THEN [added |-> start, removed |-> FarFuture] ELSE NoLine]]
  /\ run' = Disturbed
  /\ UNCHANGED <<today, fault, drafts, call>>

(* add_elevators and remove_elevator, which do not look at the contract.   *)
CoverLift(c, l) ==
  /\ CountChange
  /\ contract[c].status # "none"
  /\ \/ /\ cover[c][l] = NoLine
        /\ \A d \in Contract : cover[d][l].removed # FarFuture
        /\ cover' = [cover EXCEPT ![c][l] = [added |-> today, removed |-> FarFuture]]
     \/ /\ cover[c][l].removed = FarFuture
        /\ cover' = [cover EXCEPT ![c][l].removed = today]
  /\ run' = Disturbed
  /\ UNCHANGED <<today, contract, fault, drafts, call>>

(* One that is not billed is a PATCH away. *)
CloseFault(f) ==
  /\ fault[f].closed = 0 /\ Reported[f] <= today
  /\ fault' = [fault EXCEPT ![f] = [closed |-> today, billable |-> TRUE]]
  /\ UNCHANGED <<today, contract, cover, changes, drafts, run, call>>

(* A PATCH, of a fault in any state. *)
ChangeBillable(f) ==
  /\ CountChange
  /\ fault[f].closed > 0
  /\ fault' = [fault EXCEPT ![f].billable = ~@]
  /\ UNCHANGED <<today, contract, cover, drafts, run, call>>

Tick ==
  /\ today < MaxDay
  /\ today' = today + 1
  /\ run' = Disturbed
  /\ UNCHANGED <<office, changes, drafts, call>>

-----------------------------------------------------------------------------

(* One contract in force, flat or per lift, priced and with VAT or not.    *)
Init ==
  /\ today = 1
  /\ \E row \in StartWith :
       contract = [c \in Contract |->
         IF \A d \in Contract : c <= d THEN row ELSE NoContract]
  /\ cover = [c \in Contract |-> [l \in Lift |->
       IF \A d \in Contract : c <= d THEN [added |-> 1, removed |-> FarFuture] ELSE NoLine]]
  /\ fault = [f \in Fault |-> [closed |-> 0, billable |-> FALSE]]
  /\ changes = 0
  /\ drafts = <<>>
  /\ run = [g \in Run |-> Idle]
  /\ call = [r \in Request |-> NoCall]

(* What each view of the API leads to, and what the job does. *)
InvoiceLineViewSet == \E r \in Request : FetchLine(r) \/ EditLine(r) \/ RemoveLine(r) \/ GiveUp(r)

InvoiceDraftViewSet == \E d \in DOMAIN drafts : AddLine(d) \/ Issue(d) \/ Settle(d) \/ Cancel(d)

Generate ==
  \E g \in Run : \/ BeginRun(g) \/ NextContract(g) \/ BuildDraft(g) \/ InsertDraft(g)
                 \/ CommitRun(g) \/ AbortRun(g)

ChangeOffice ==
  \/ \E c \in Contract :
       \/ \E day \in EndDays : Terminate(c, day) \/ Edit(c, day)
       \/ Expire(c)
       \/ \E s \in Contract, start \in EndDays, status \in {"draft", "active"} :
            Renew(c, s, start, status)
       \/ \E l \in Lift : CoverLift(c, l)
  \/ \E f \in Fault : CloseFault(f) \/ ChangeBillable(f)

Next == Generate \/ InvoiceLineViewSet \/ InvoiceDraftViewSet \/ ChangeOffice \/ Tick

Spec == Init /\ [][Next]_vars

-----------------------------------------------------------------------------
(* Properties                                                              *)

(* Totals always come from the lines (services.py: "its totals are always  *)
(* recomputed from its lines while it is a draft"), after every edit,      *)
(* issue and cancellation, and edits made from lines fetched before.       *)
TotalsAddUp ==
  \A d \in DOMAIN drafts : drafts[d].total = Total(drafts[d].lines)

(* A fault is on one live draft at most, and only a live draft keeps it    *)
(* from the next one: whatever runs race, and whatever is cancelled or     *)
(* taken off a draft.                                                      *)
FaultHeldByOneLiveDraft ==
  /\ \A d, e \in DOMAIN drafts, f \in Fault :
       Holds(drafts[d], f) /\ Holds(drafts[e], f) => d = e
  /\ \A d \in DOMAIN drafts, f \in Fault : Holds(drafts[d], f) => Live(drafts[d])

(* No day of a contract is billed by two live drafts, even when it was     *)
(* extended, terminated or renewed between two runs.                       *)
DaysBilledOnce ==
  \A d, e \in DOMAIN drafts :
    /\ d # e /\ Live(drafts[d]) /\ Live(drafts[e])
    /\ drafts[d].contract = drafts[e].contract
    => drafts[d].to < drafts[e].from \/ drafts[e].to < drafts[d].from

(* Neither a day nor a fault is billed twice, over racing runs, stale edits *)
(* and contracts that change between them (generate, draft_for, cancel).   *)
BilledOnce == FaultHeldByOneLiveDraft /\ DaysBilledOnce

(* A period that ended within the lookback and is not drafted. *)
Owed(c) ==
  /\ contract[c].status \in {"active", "expired", "renewed", "terminated"} /\ contract[c].vat
  /\ \E p \in Periods(contract[c]) :
       /\ p.to < today /\ p.to >= today - LOOKBACK
       /\ ~\E k \in DOMAIN drafts : SamePeriod(drafts[k], c, p)

(* A run that nothing disturbed leaves nothing owed: the contracts it      *)
(* looks at are all that can have such a period.                           *)
RunLeavesNothingOwed ==
  [][\A g \in Run : run[g].alone /\ CommitRun(g) => \A c \in Contract : ~Owed(c)']_vars

(* What a step may make of a draft: issued, it never goes back, and only a *)
(* cancellation marks its fault lines.                                     *)
Unmarked(lines) == [k \in DOMAIN lines |-> [lines[k] EXCEPT !.released = FALSE]]
Kept(before, after) ==
  /\ before.status # "draft" =>
       /\ after.status # "draft"
       /\ Unmarked(after.lines) = Unmarked(before.lines)
       /\ after.total = before.total
  /\ before.status = "draft" /\ after.status \in {"issued", "paid"} =>
       \A k \in DOMAIN after.lines : after.lines[k].deleted \/ after.lines[k].price # Null

(* What is issued has a price on every line, and from then on its lines    *)
(* and its total stay, whoever fetched a line while it was a draft (issue, *)
(* edit_line, remove_line, cancel).                                        *)
IssuedStays == [][\A d \in DOMAIN drafts : Kept(drafts[d], drafts'[d])]_vars

=============================================================================
