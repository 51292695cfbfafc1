----------------------- MODULE MaintenancePlanProofs -----------------------
(***************************************************************************)
(* Proofs about apps/maintenance for any lifts, technicians, visits, days  *)
(* and requests at work beside the nightly job: visits settle the plan and *)
(* the lifts' dates, the job leaves what people decided, and a second run  *)
(* changes nothing.                                                        *)
(*                                                                         *)
(* PlanInv follows a transaction from its reads to its commit: what it has *)
(* read is still so (Current, InLine, Undisturbed) as long as nobody else  *)
(* has committed what it depends on, and visits of one lift take turns     *)
(* (InTurn), so that nobody has.                                           *)
(***************************************************************************)
EXTENDS MaintenancePlan, SequenceTheorems, FiniteSetTheorems, WellFoundedInduction, TLAPS

-----------------------------------------------------------------------------
(* The invariant                                                           *)

Rows ==
  [status : {"planned", "done", "cancelled"}, due : Nat, technician : Technician \cup {None},
   visit : Nat, edited : BOOLEAN] \cup {NoRow}
Plans == [Lift -> [Period -> Rows]]
Visits == [lift : Lift, on : Dates, status : VisitStatus, deleted : BOOLEAN]

AllFacts == [covered : SUBSET Lift, default : Technician \cup {None}, lift : [Lift -> Nat]]

VisitCalls ==
  [step : {"visit"}, id : Nat \ {0}, row : Visits, todo : Seq(Lift), before : Visits \cup {NoRow},
   read : Nat, dates : UNION {[D -> Nat] : D \in SUBSET Lift}, written : Plans,
   alone : BOOLEAN, steady : BOOLEAN]
RowCalls == [step : {"row"}, lift : Lift, period : Period, row : Rows \ {NoRow}]
Runs ==
  [step : {"write", "commit"}, period : Nat, facts : AllFacts, rows : [Lift -> Rows],
   alone : BOOLEAN, written : Plans]

Shapes ==
  /\ today \in 1..MaxDay /\ Facts \in AllFacts /\ plan \in Plans
  /\ call \in [Request -> VisitCalls \cup RowCalls \cup {NoCall}]
  /\ run \in Runs \cup {NoRun}

(* A request whose visit is under way.                                     *)
Visiting(r) == call[r].step = "visit"

(* Visits are numbered as they are recorded, at most one more is under way *)
(* than there are, no two requests are at work on the same, and each knows *)
(* what it replaces.                                                       *)
Numbered ==
  /\ \E n \in Nat :
       /\ visits \in [1..n -> Visits]
       /\ \A r \in Request : Visiting(r) => call[r].id <= n + 1
  /\ \A r, q \in Request : Visiting(r) /\ Visiting(q) /\ r # q => call[r].id # call[q].id
  /\ \A r \in Request : Visiting(r) =>
       call[r].before = IF call[r].id \in DOMAIN visits THEN visits[call[r].id] ELSE NoRow

(* The lifts a visit is taken from or given to.                            *)
Concerns(c) == {c.row.lift} \cup (IF c.before = NoRow THEN {} ELSE {c.before.lift})

(* The update of the lift makes visits take turns: no two hold one lift;   *)
(* and one holds all that it concerns, when it has none left to update.    *)
InTurn ==
  /\ \A r, q \in Request : Visiting(r) /\ Visiting(q) /\ r # q =>
       DOMAIN call[r].dates \cap DOMAIN call[q].dates = {}
  /\ \A r \in Request : Visiting(r) =>
       /\ \A l \in Concerns(call[r]) :
            l \in DOMAIN call[r].dates \/ \E i \in 1..Len(call[r].todo) : call[r].todo[i] = l
       /\ \A l \in Lift \ DOMAIN call[r].dates, m \in Period : call[r].written[l][m] = NoRow

(* What a visit alone has read of the record is still so.                  *)
ReadAsIs(c, seen) ==
  /\ c.todo # <<>> => c.read = LastMaintenance(seen, Head(c.todo))
  /\ \A l \in DOMAIN c.dates : c.dates[l] = LastMaintenance(seen, l)

Seen(c) == With(c.id, c.row)

Current ==
  \A r \in Request : Visiting(r) /\ call[r].alone => ReadAsIs(call[r], Seen(call[r]))

(* What it is about to make of a row, in a plan that is steady.            *)
Agrees(row, rows, l, m) == row.status \in {"none", "cancelled"} \/ Follows(row, rows, l, m)

DueAsDated(row, old, m, last, now) ==
  row.status = "planned" /\ old.status = "planned" /\ ~row.edited /\ m >= now
    => row.due = DueDateIn(m, last)

Settles(c, seen, next, old, now) ==
  /\ \A at \in Touched(c) : Agrees(next[at[1]][at[2]], seen, at[1], at[2])
  /\ \A l \in DOMAIN c.dates, m \in Period :
       DueAsDated(next[l][m], old[l][m], m, c.dates[l], now)

InLine ==
  \A r \in Request : Visiting(r) /\ call[r].todo = <<>> /\ call[r].steady =>
    Settles(call[r], Seen(call[r]), Overlaid(call[r].written), plan, PeriodOf(today))

(* A row that somebody has read is there.                                  *)
Present ==
  /\ \A r \in Request : call[r].step = "row" => plan[call[r].lift][call[r].period] # NoRow
  /\ run.step = "write" =>
       \A l \in Lift : run.rows[l] # NoRow => plan[l][run.period] # NoRow

(* What the job makes of a row, and what it has dealt with so far.         *)
MadeOf(row, l, m) == Generated(row, row, l, m, Facts)
Dealt == {m \in {PeriodOf(today), PeriodOf(today) + 1} : run.step = "commit" \/ m < run.period}

(* What a run that nothing disturbed has read and written is still so.     *)
Undisturbed ==
  run # NoRun =>
    /\ run.period \in {PeriodOf(today), PeriodOf(today) + 1} \/ run.step = "commit"
    /\ run.alone =>
         /\ run.facts = Facts
         /\ run.step = "write" => run.rows = [l \in Lift |-> plan[l][run.period]]
         /\ \A l \in Lift, m \in Period :
              run.written[l][m] = IF m \in Dealt /\ MadeOf(plan[l][m], l, m) # plan[l][m]
                                  THEN MadeOf(plan[l][m], l, m) ELSE NoRow

PlanInv == Shapes /\ Numbered /\ InTurn /\ Current /\ InLine /\ Present /\ Undisturbed

-----------------------------------------------------------------------------
(* Months                                                                  *)

(* A product grows with its factor.                                        *)
LEMMA MoreOf ==
  ASSUME NEW a \in Int, NEW b \in Int, NEW n \in Nat, a <= b
  PROVE  a * n <= b * n
  OBVIOUS

(* Dividing finds the multiple below.                                      *)
LEMMA Division ==
  ASSUME NEW d \in Nat, NEW n \in Nat \ {0}
  PROVE  /\ d \div n \in Nat
         /\ (d \div n) * n <= d
         /\ d < (d \div n + 1) * n
  OBVIOUS

(* A day's period is the month whose first and last days enclose it.       *)
LEMMA PeriodIsMonth ==
  ASSUME NEW d \in Nat \ {0}, NEW m \in Int
  PROVE  /\ PeriodOf(d) \in Nat \ {0}
         /\ PeriodOf(d) = m <=> d \in FirstOf(m)..LastOf(m)
<1> DEFINE q == (d - 1) \div MonthDays
<1>1. d - 1 \in Nat /\ MonthDays \in Nat \ {0}
  BY MaintenanceAssumption
<1>2. q \in Nat /\ q * MonthDays <= d - 1 /\ d - 1 < (q + 1) * MonthDays
  BY <1>1, Division
<1>3. PeriodOf(d) = q + 1 /\ FirstOf(m) = (m - 1) * MonthDays + 1 /\ LastOf(m) = m * MonthDays
  BY DEF PeriodOf, FirstOf, LastOf
<1> HIDE DEF q
<1>4. CASE q + 1 = m
  BY <1>1, <1>2, <1>3, <1>4
<1>5. CASE q + 1 < m
  <2>1. (q + 1) * MonthDays <= (m - 1) * MonthDays
    BY <1>1, <1>2, <1>5, MoreOf
  <2>2. (q + 1) * MonthDays \in Int /\ (m - 1) * MonthDays \in Int
    BY <1>1, <1>2
  <2>3. d < FirstOf(m) /\ FirstOf(m) \in Int
    BY <1>1, <1>2, <1>3, <2>1, <2>2
  <2> QED
    BY <1>2, <1>3, <1>5, <2>3
<1>6. CASE m < q + 1
  <2>1. m * MonthDays <= q * MonthDays
    BY <1>1, <1>2, <1>6, MoreOf
  <2>2. m * MonthDays \in Int /\ q * MonthDays \in Int
    BY <1>1, <1>2
  <2>3. LastOf(m) < d /\ LastOf(m) \in Int
    BY <1>1, <1>2, <1>3, <2>1, <2>2
  <2> QED
    BY <1>2, <1>3, <1>6, <2>3
<1>7. QED
  BY <1>2, <1>3, <1>4, <1>5, <1>6

(* Every day of the calendar, and the month after it, has its period.      *)
LEMMA PeriodOfDay ==
  ASSUME NEW d \in 1..MaxDay
  PROVE  PeriodOf(d) \in Period /\ PeriodOf(d) + 1 \in Period /\ PeriodOf(d) \in Nat
<1>1. MonthDays \in Nat \ {0} /\ MaxDay \in Nat \ {0}
  BY MaintenanceAssumption
<1> DEFINE q == (d - 1) \div MonthDays
           t == (MaxDay - 1) \div MonthDays
<1>2. q \in Nat /\ q * MonthDays <= d - 1
  BY <1>1, Division
<1>3. t \in Nat /\ MaxDay - 1 < (t + 1) * MonthDays
  BY <1>1, Division
<1>4. PeriodOf(d) = q + 1 /\ PeriodOf(MaxDay) = t + 1
  BY DEF PeriodOf
<1> HIDE DEF q, t
<1>5. q <= t
  <2>1. SUFFICES ASSUME t + 1 <= q PROVE FALSE
    BY <1>2, <1>3
  <2>2. (t + 1) * MonthDays <= q * MonthDays
    BY <1>1, <1>2, <1>3, <2>1, MoreOf
  <2>3. (t + 1) * MonthDays \in Int /\ q * MonthDays \in Int
    BY <1>1, <1>2, <1>3
  <2> QED
    BY <1>1, <1>2, <1>3, <2>2, <2>3
<1> QED
  BY <1>2, <1>3, <1>4, <1>5 DEF Period

(* The days a visit can be on lie in the calendar.                         *)
LEMMA VisitDays == Dates \subseteq 1..MaxDay /\ MaxDay \in Nat
  BY MaintenanceAssumption

(* Due dates are days.                                                     *)
LEMMA DueIsDay ==
  ASSUME NEW m \in Period, NEW last \in Nat
  PROVE  DueDateIn(m, last) \in Nat
<1>1. MonthDays \in Nat \ {0} /\ INTERVAL \in Nat
  BY MaintenanceAssumption
<1>2. m \in Nat \ {0}
  BY VisitDays, PeriodIsMonth, MaintenanceAssumption DEF Period
<1>3. m - 1 \in Nat /\ (m - 1) * MonthDays \in Nat /\ m * MonthDays \in Nat
  <2>1. m - 1 \in Nat
    BY <1>2
  <2> HIDE DEF Period
  <2>2. \A a, b \in Nat : a * b \in Nat
    OBVIOUS
  <2> QED
    BY <1>1, <1>2, <2>1, <2>2
<1>4. MonthDays \div 2 \in Nat
  BY <1>1
<1> QED
  BY <1>1, <1>3, <1>4 DEF DueDateIn, FirstOf, LastOf, Lesser

-----------------------------------------------------------------------------
(* The newest of some visits                                               *)

(* Some numbers have a least.                                              *)
LEMMA LeastOf ==
  ASSUME NEW S \in SUBSET Nat, S # {}
  PROVE  \E m \in S : \A n \in S : m <= n
<1> DEFINE R == OpToRel(<, Nat)
<1>1. PICK m \in S : \A n \in S : <<n, m>> \notin R
  <2>1. IsWellFoundedOn(R, Nat)
    BY NatLessThanWellFounded
  <2> HIDE DEF R
  <2> QED
    BY <2>1, WFMin
<1>2. ASSUME NEW n \in S, n < m
      PROVE  FALSE
  <2>1. <<n, m>> \in Nat \X Nat /\ <<n, m>>[1] < <<n, m>>[2]
    BY <1>2
  <2> QED
    BY <1>1, <2>1 DEF OpToRel
<1> QED
  BY <1>2

(* Some numbers below a bound have a greatest.                             *)
LEMMA GreatestOf ==
  ASSUME NEW top \in Nat, NEW S \in SUBSET (0..top), S # {}
  PROVE  \E m \in S : \A n \in S : m >= n
<1> DEFINE T == {top - n : n \in S}
<1>1. T \in SUBSET Nat /\ T # {}
  <2>1. \A n \in S : top - n \in Nat
    OBVIOUS
  <2> QED
    BY <2>1
<1>2. PICK t \in T : \A u \in T : t <= u
  <2> HIDE DEF T
  <2> QED
    BY <1>1, LeastOf
<1>3. PICK m \in S : t = top - m
  BY <1>2
<1>4. ASSUME NEW n \in S
      PROVE  m >= n
  <2>1. t <= top - n
    BY <1>2
  <2> QED
    BY <1>3, <2>1
<1> QED
  BY <1>4

(* A visit on record is dated within the calendar.                         *)
LEMMA VisitDated ==
  ASSUME NEW n, NEW rows \in [1..n -> Visits], NEW v \in 1..n
  PROVE  rows[v].on \in Nat \ {0} /\ rows[v].on <= MaxDay /\ rows[v].on \in 1..MaxDay
<1>1. rows[v] \in Visits
  OBVIOUS
<1>2. rows[v].on \in Dates
  BY <1>1 DEF Visits
<1>3. rows[v].on \in 1..MaxDay
  BY <1>2, VisitDays
<1> QED
  BY <1>3, VisitDays

(* recalculate_next_maintenance and sync_planned_visit find the newest of  *)
(* the visits they look for: none of them is dated later.                  *)
LEMMA NewestIsFound ==
  ASSUME NEW n \in Nat, NEW rows \in [1..n -> Visits], NEW found \in SUBSET (1..n), found # {}
  PROVE  /\ Newest(rows, found) \in found
         /\ \A v \in found : rows[Newest(rows, found)].on >= rows[v].on
<1>1. \A v \in found : rows[v].on \in Nat /\ rows[v].on <= MaxDay
  BY VisitDated
<1> DEFINE days == {rows[v].on : v \in found}
<1>2. PICK v0 \in found : \A v \in found : rows[v0].on >= rows[v].on
  <2>1. days \in SUBSET (0..MaxDay) /\ days # {}
    BY <1>1, VisitDays
  <2>2. PICK day \in days : \A d \in days : day >= d
    <3> HIDE DEF days
    <3> QED
      BY <2>1, VisitDays, GreatestOf
  <2> QED
    BY <2>2
<1> DEFINE last == {v \in found : rows[v].on = rows[v0].on}
<1>3. PICK v1 \in last : \A v \in last : v1 >= v
  <2>1. last \subseteq found /\ v0 \in last
    OBVIOUS
  <2> HIDE DEF last
  <2>2. last \in SUBSET (0..n) /\ last # {}
    <3>1. \A v \in last : v \in 0..n
      BY <2>1
    <3> QED
      BY <2>1, <3>1
  <2> QED
    BY <2>2, GreatestOf
<1> DEFINE IsNewest(v) == \A w \in found : rows[v].on > rows[w].on \/ (rows[v].on = rows[w].on /\ v >= w)
<1>4. v1 \in found /\ IsNewest(v1)
  BY <1>1, <1>2, <1>3
<1>5. Newest(rows, found) = CHOOSE v \in found : IsNewest(v)
  BY DEF Newest
<1>6. Newest(rows, found) \in found /\ IsNewest(Newest(rows, found))
  <2> HIDE DEF IsNewest
  <2> QED
    BY <1>4, <1>5
<1>7. ASSUME NEW v \in found
      PROVE  rows[Newest(rows, found)].on >= rows[v].on
  <2>1. rows[Newest(rows, found)].on > rows[v].on \/ rows[Newest(rows, found)].on = rows[v].on
    BY <1>6
  <2>2. rows[Newest(rows, found)].on \in Nat /\ rows[v].on \in Nat
    BY <1>1, <1>6
  <2> QED
    BY <2>1, <2>2
<1> QED
  BY <1>6, <1>7

(* The last maintenance is the greatest date of the completed visits.      *)
LEMMA LastIsLargest ==
  ASSUME NEW n \in Nat, NEW rows \in [1..n -> Visits], NEW l \in Lift
  PROVE  LET done == {rows[v].on : v \in {w \in OfLift(rows, l) : rows[w].status = "completed"}}
         IN  /\ LastMaintenance(rows, l) = IF done = {} THEN Null ELSE Largest(done)
             /\ LastMaintenance(rows, l) \in Nat
<1> DEFINE found == {v \in OfLift(rows, l) : rows[v].status = "completed"}
           done == {rows[v].on : v \in found}
<1>1. found \in SUBSET (1..n)
  BY DEF OfLift
<1>2. \A v \in found : rows[v].on \in Nat
  BY <1>1, VisitDated
<1>3. LastMaintenance(rows, l) = IF found = {} THEN Null ELSE rows[Newest(rows, found)].on
  BY DEF LastMaintenance
<1>4. done = {} <=> found = {}
  OBVIOUS
<1> HIDE DEF found
<1>5. CASE found = {}
  BY <1>3, <1>4, <1>5 DEF Null, found
<1>6. CASE found # {}
  <2> DEFINE top == rows[Newest(rows, found)].on
  <2>1. Newest(rows, found) \in found /\ \A v \in found : top >= rows[v].on
    BY <1>1, <1>6, NewestIsFound
  <2>2. top \in done /\ \A d \in done : top >= d
    BY <2>1
  <2>3. \A d \in done : d \in Nat
    BY <1>2
  <2> HIDE DEF top, done
  <2>4. \A d \in done : (\A e \in done : d >= e) => d = top
    BY <2>2, <2>3
  <2>5. Largest(done) = top
    BY <2>2, <2>4 DEF Largest
  <2> QED
    BY <1>3, <1>4, <1>6, <2>2, <2>3, <2>5 DEF top, done, found
<1> QED
  BY <1>5, <1>6

-----------------------------------------------------------------------------
(* Rows of the plan                                                        *)

(* A row that is there has one of its statuses.                            *)
LEMMA RowShape ==
  ASSUME NEW row \in Rows
  PROVE  /\ row.status \in {"none", "planned", "done", "cancelled"}
         /\ row.status = "none" <=> row = NoRow
         /\ row.technician \in Technician \cup {None} /\ row.edited \in BOOLEAN
         /\ row.due \in Nat /\ row.visit \in Nat
<1>1. CASE row = NoRow
  BY <1>1 DEF NoRow, Null
<1>2. CASE row \in [status : {"planned", "done", "cancelled"}, due : Nat,
                   technician : Technician \cup {None}, visit : Nat, edited : BOOLEAN]
  BY <1>2 DEF NoRow
<1> QED
  BY <1>1, <1>2 DEF Rows

(* A place without a row is one of the shapes a place of the plan takes.   *)
LEMMA NoRowIsRow == NoRow \in Rows
  BY DEF Rows

(* sync_planned_visit: an open row becomes what its month's visits say,    *)
(* and keeps its date, its technician and whether a person edited it.      *)
LEMMA SyncFollows ==
  ASSUME NEW n \in Nat, NEW rows \in [1..n -> Visits], NEW row \in Rows,
         NEW l \in Lift, NEW m \in Period
  PROVE  LET synced == Synced(row, rows, l, m)
         IN  /\ synced \in Rows
             /\ synced.due = row.due /\ synced.technician = row.technician
             /\ synced.edited = row.edited
             /\ row.status \in {"none", "cancelled"} => synced = row
             /\ row.status \in {"planned", "done"} =>
                  synced.status \in {"planned", "done"} /\ Follows(synced, rows, l, m)
<1> DEFINE found == {v \in OfLift(rows, l) : PeriodOf(rows[v].on) = m}
           done == {v \in found : rows[v].status = "completed"}
           synced == Synced(row, rows, l, m)
<1>1. found \subseteq 1..n /\ done \subseteq found
  BY DEF OfLift
<1>2. synced = IF row.status \in {"none", "cancelled"} THEN row
               ELSE IF done # {} THEN [row EXCEPT !.status = "done", !.visit = Newest(rows, done)]
               ELSE [row EXCEPT !.status = "planned",
                                !.visit = IF found = {} THEN 0 ELSE Newest(rows, found)]
  BY DEF Synced
<1>3. done # {} => Newest(rows, done) \in done
  BY <1>1, NewestIsFound
<1>4. found # {} => Newest(rows, found) \in found
  BY <1>1, NewestIsFound
<1>5. found = {v \in DOMAIN rows : /\ rows[v].lift = l /\ ~rows[v].deleted
                                   /\ rows[v].on \in FirstOf(m)..LastOf(m)}
  <2>1. \A v \in 1..n : PeriodOf(rows[v].on) = m <=> rows[v].on \in FirstOf(m)..LastOf(m)
    <3>1. m \in Int
      BY DEF Period
    <3> QED
      BY <3>1, VisitDated, PeriodIsMonth
  <2> QED
    BY <2>1 DEF OfLift
<1>6. Follows(synced, rows, l, m) <=>
        /\ synced.status = "done" <=> done # {}
        /\ synced.visit = 0 <=> found = {}
        /\ synced.visit # 0 => synced.visit \in (IF done # {} THEN done ELSE found)
  BY <1>5 DEF Follows
<1> HIDE DEF found, done, synced
<1>7. CASE row.status \in {"none", "cancelled"}
  <2>1. synced = row
    BY <1>2, <1>7
  <2> QED
    BY <1>7, <2>1 DEF synced
<1>8. CASE row.status \notin {"none", "cancelled"} /\ done # {}
  <2>1. synced = [row EXCEPT !.status = "done", !.visit = Newest(rows, done)]
    BY <1>2, <1>8
  <2>2. Newest(rows, done) \in Nat \ {0} /\ Newest(rows, done) \in done /\ found # {}
    <3>1. Newest(rows, done) \in done /\ done # {}
      BY <1>3, <1>8
    <3>2. Newest(rows, done) \in 1..n /\ found # {}
      BY <1>1, <3>1
    <3> QED
      BY <3>1, <3>2
  <2>3. row \in [status : {"planned", "done", "cancelled"}, due : Nat, technician : Technician \cup {None},
                 visit : Nat, edited : BOOLEAN]
    BY <1>8, RowShape DEF Rows, NoRow
  <2>4. synced \in Rows /\ synced.status = "done" /\ synced.visit = Newest(rows, done)
        /\ synced.due = row.due /\ synced.technician = row.technician /\ synced.edited = row.edited
    BY <2>1, <2>2, <2>3 DEF Rows
  <2> QED
    BY <1>6, <1>8, <2>2, <2>4 DEF synced
<1>9. CASE row.status \notin {"none", "cancelled"} /\ done = {}
  <2> DEFINE key == IF found = {} THEN 0 ELSE Newest(rows, found)
  <2>1. synced = [row EXCEPT !.status = "planned", !.visit = key]
    BY <1>2, <1>9
  <2>2. key \in Nat /\ (key = 0 <=> found = {}) /\ (key # 0 => key \in found)
    <3>1. found # {} => Newest(rows, found) \in found /\ Newest(rows, found) \in 1..n
      BY <1>1, <1>4
    <3> QED
      BY <3>1
  <2> HIDE DEF key
  <2>3. row \in [status : {"planned", "done", "cancelled"}, due : Nat, technician : Technician \cup {None},
                 visit : Nat, edited : BOOLEAN]
    BY <1>9, RowShape DEF Rows, NoRow
  <2>4. synced \in Rows /\ synced.status = "planned" /\ synced.visit = key
        /\ synced.due = row.due /\ synced.technician = row.technician /\ synced.edited = row.edited
    BY <2>1, <2>2, <2>3 DEF Rows
  <2> QED
    BY <1>6, <1>9, <2>2, <2>4 DEF synced
<1> QED
  BY <1>7, <1>8, <1>9

(* refresh_planned_due_dates moves the date of an open row nobody edited.  *)
LEMMA RefreshKeeps ==
  ASSUME NEW row \in Rows, NEW m \in Period, NEW last \in Nat
  PROVE  LET due == Refreshed(row, m, last)
         IN  /\ due \in Rows /\ due.status = row.status /\ due.edited = row.edited
             /\ row.status = "planned" /\ ~row.edited /\ m >= PeriodOf(today)
                  => due.due = DueDateIn(m, last)
<1>1. DueDateIn(m, last) \in Nat
  BY DueIsDay
<1>2. CASE row.status = "planned" /\ ~row.edited /\ m >= PeriodOf(today)
  <2>1. Refreshed(row, m, last) = [row EXCEPT !.due = DueDateIn(m, last)]
    BY <1>2 DEF Refreshed
  <2> QED
    BY <1>1, <1>2, <2>1 DEF Rows, NoRow
<1>3. CASE ~(row.status = "planned" /\ ~row.edited /\ m >= PeriodOf(today))
  BY <1>3 DEF Refreshed
<1> QED
  BY <1>2, <1>3

(* What a commit makes of the plan.                                        *)
LEMMA OverlaidRow ==
  ASSUME NEW written, NEW l \in Lift, NEW m \in Period
  PROVE  Overlaid(written)[l][m] = IF written[l][m] # NoRow THEN written[l][m] ELSE plan[l][m]
  BY DEF Overlaid

(* A commit leaves a plan.                                                 *)
LEMMA OverlaidIsPlan ==
  ASSUME plan \in Plans, NEW written \in Plans
  PROVE  Overlaid(written) \in Plans
  BY DEF Overlaid, Plans

-----------------------------------------------------------------------------
(* What the job makes of a row                                             *)

(* Whoever has no technician gets the customer's.                          *)
Chosen(row) == IF row.technician = None THEN default ELSE row.technician
Opened(row, l, m) ==
  [row EXCEPT !.status = "planned", !.due = DueDateIn(m, lift[l]), !.technician = Chosen(row)]

(* What a row is made from has its types.                                  *)
LEMMA DueIsDated ==
  ASSUME Facts \in AllFacts, NEW l \in Lift, NEW m \in Period
  PROVE  DueDateIn(m, lift[l]) \in Nat /\ default \in Technician \cup {None}
<1>1. lift[l] \in Nat /\ default \in Technician \cup {None}
  BY DEF Facts, AllFacts
<1> QED
  BY <1>1, DueIsDay

(* What is not done or cancelled follows the facts.                        *)
LEMMA MadeIs ==
  ASSUME Facts \in AllFacts, NEW row \in Rows, NEW l \in Lift, NEW m \in Period
  PROVE  LET made == MadeOf(row, l, m)
         IN  /\ l \notin covered /\ (row.status # "planned" \/ row.edited) => made = row
             /\ l \notin covered /\ row.status = "planned" /\ ~row.edited
                  => made = [row EXCEPT !.status = "cancelled"]
             /\ row.edited \/ row.status = "done" => made = row
             /\ l \in covered /\ ~row.edited /\ row.status \in {"none", "planned"}
                  => made = Opened(row, l, m)
             /\ l \in covered /\ ~row.edited /\ row.status = "cancelled"
                  => made = Synced(Opened(row, l, m), visits, l, m)
<1> DEFINE facts == Facts
           due == DueDateIn(m, facts.lift[l])
           followed == FollowTheFacts(row, m, due, facts.default)
           written == [row EXCEPT !.status = IF followed.status # row.status THEN followed.status ELSE @,
                                  !.due = IF followed.due # row.due THEN followed.due ELSE @,
                                  !.technician = IF followed.technician # row.technician
                                                 THEN followed.technician ELSE @]
           made == MadeOf(row, l, m)
<1>1. facts.covered = covered /\ facts.default = default /\ facts.lift = lift
  BY DEF Facts
<1>2. made = CASE l \in facts.covered /\ row = NoRow ->
                    [NoRow EXCEPT !.status = "planned", !.due = due, !.technician = facts.default]
               [] l \in facts.covered /\ row # NoRow /\ ~row.edited ->
                    IF followed.status = row.status THEN written ELSE Synced(written, visits, l, m)
               [] l \notin facts.covered /\ row.status = "planned" /\ ~row.edited ->
                    [row EXCEPT !.status = "cancelled"]
               [] OTHER -> row
  BY DEF MadeOf, Generated
<1>3. /\ row.status \in {"none", "planned", "done", "cancelled"}
      /\ row.status = "none" <=> row = NoRow
      /\ row.edited \in BOOLEAN
  BY RowShape
<1>4. due = DueDateIn(m, lift[l])
  BY <1>1
<1>5. ~row.edited /\ row.status \in {"planned", "cancelled"} =>
        followed.status = "planned" /\ written = Opened(row, l, m)
  <2> SUFFICES ASSUME ~row.edited, row.status \in {"planned", "cancelled"}
               PROVE  followed.status = "planned" /\ written = Opened(row, l, m)
    OBVIOUS
  <2>1. row \in [status : {"planned", "done", "cancelled"}, due : Nat, technician : Technician \cup {None},
                 visit : Nat, edited : BOOLEAN]
    BY RowShape DEF Rows, NoRow
  <2>2. followed = Opened(row, l, m)
    BY <1>1, <1>4, <2>1 DEF FollowTheFacts, Opened, Chosen
  <2>3. /\ followed.status = "planned" /\ followed.due = due /\ followed.technician = Chosen(row)
        /\ Opened(row, l, m) = [row EXCEPT !.status = followed.status, !.due = followed.due,
                                          !.technician = followed.technician]
    BY <1>4, <2>1, <2>2 DEF Opened
  <2> HIDE DEF followed
  <2> QED
    BY <2>1, <2>3
<1>6. row.status = "done" => followed.status = "done" /\ written = row
  <2> SUFFICES ASSUME row.status = "done" PROVE followed.status = "done" /\ written = row
    OBVIOUS
  <2>1. row \in [status : {"planned", "done", "cancelled"}, due : Nat, technician : Technician \cup {None},
                 visit : Nat, edited : BOOLEAN]
    BY RowShape DEF Rows, NoRow
  <2>2. followed = row
    BY DEF FollowTheFacts
  <2> HIDE DEF followed
  <2> QED
    BY <2>1, <2>2
<1>7. row = NoRow => [NoRow EXCEPT !.status = "planned", !.due = due, !.technician = facts.default]
                       = Opened(row, l, m)
  BY <1>1, <1>4 DEF Opened, Chosen, NoRow
<1>8. row = NoRow => ~row.edited
  BY DEF NoRow
<1> HIDE DEF facts, due, followed, written
<1>9. CASE l \in covered
  BY <1>1, <1>2, <1>3, <1>5, <1>6, <1>7, <1>8, <1>9
<1>10. CASE l \notin covered
  BY <1>1, <1>2, <1>3, <1>8, <1>10
<1> QED
  BY <1>9, <1>10


(* The job makes rows, reopens them as the visits say, and leaves what was *)
(* edited, what is done, and a technician who was chosen; what it has made *)
(* it makes again.                                                         *)
LEMMA MadeKeeps ==
  ASSUME NEW n \in Nat, visits \in [1..n -> Visits], Facts \in AllFacts,
         NEW row \in Rows, NEW l \in Lift, NEW m \in Period
  PROVE  LET made == MadeOf(row, l, m)
         IN  /\ made \in Rows
             /\ made = NoRow => row = NoRow /\ l \notin covered
             /\ row.edited => made = row
             /\ row.status = "done" => made.status = "done"
             /\ row.technician # None => made.technician = row.technician
             /\ ~made.edited /\ made.status # "cancelled" /\ row.status = "cancelled"
                  => Follows(made, visits, l, m)
             /\ MadeOf(made, l, m) = made
<1> DEFINE made == MadeOf(row, l, m)
           opened == Opened(row, l, m)
           due == DueDateIn(m, lift[l])
<1>1. /\ row.status \in {"none", "planned", "done", "cancelled"}
      /\ row.status = "none" <=> row = NoRow
      /\ row.edited \in BOOLEAN /\ row.technician \in Technician \cup {None}
  BY RowShape
<1>2. due \in Nat /\ default \in Technician \cup {None}
  BY DueIsDated
<1>3. DOMAIN row = {"status", "due", "technician", "visit", "edited"} /\ row.visit \in Nat
  BY DEF Rows, NoRow
<1>4. /\ opened \in Rows /\ opened.status = "planned" /\ opened.edited = row.edited
      /\ opened.due = due /\ opened.technician = Chosen(row) /\ opened # NoRow
  <2>1. CASE row = NoRow
    BY <1>2, <2>1 DEF Opened, Chosen, Rows, NoRow
  <2>2. CASE row # NoRow
    BY <1>2, <2>2 DEF Opened, Chosen, Rows, NoRow
  <2> QED
    BY <2>1, <2>2
<1>5. Chosen(row) # None => \A next \in Rows : next.technician = Chosen(row) => Chosen(next) = Chosen(row)
  BY DEF Chosen
<1>6. \A next \in Rows : next.technician = Chosen(row) => Chosen(next) = Chosen(row)
  BY <1>5 DEF Chosen
<1>7. CASE made = row
  <2>1. row.status = "cancelled" /\ ~row.edited => made.status = "cancelled"
    BY <1>7
  <2>2. row = NoRow /\ l \in covered => made.status = "planned"
    BY <1>1, <1>4, MadeIs DEF NoRow
  <2> QED
    BY <1>1, <1>7, <2>1, <2>2
<1>8. CASE l \in covered /\ ~row.edited /\ row.status \in {"none", "planned"}
  <2>1. made = opened
    BY <1>8, MadeIs
  <2>2. Opened(opened, l, m) = opened
    BY <1>4, <1>6 DEF Opened, Rows, NoRow
  <2>3. MadeOf(opened, l, m) = opened
    BY <1>4, <1>8, <2>2, MadeIs
  <2>4. row.technician # None => opened.technician = row.technician
    BY <1>4 DEF Chosen
  <2> HIDE DEF opened, made
  <2> QED
    BY <1>4, <1>8, <2>1, <2>3, <2>4 DEF made
<1>9. CASE l \in covered /\ ~row.edited /\ row.status = "cancelled"
  <2>1. made = Synced(opened, visits, l, m)
    BY <1>9, MadeIs
  <2>2. /\ made \in Rows /\ made.due = due /\ made.technician = Chosen(row) /\ made.edited = row.edited
        /\ made.status \in {"planned", "done"} /\ Follows(made, visits, l, m)
    BY <1>4, <2>1, SyncFollows
  <2>3. MadeOf(made, l, m) = made
    <3> HIDE DEF made
    <3>1. CASE made.status = "done"
      BY <2>2, <3>1, MadeIs
    <3>2. CASE made.status = "planned"
      <4>1. Opened(made, l, m) = made
        BY <1>6, <2>2, <3>2 DEF Opened, Rows, NoRow
      <4> QED
        BY <1>9, <2>2, <3>2, <4>1, MadeIs
    <3> QED
      BY <2>2, <3>1, <3>2
  <2>4. row.technician # None => made.technician = row.technician
    BY <2>2 DEF Chosen
  <2>5. made # NoRow
    BY <2>2 DEF NoRow
  <2> HIDE DEF made
  <2> QED
    BY <1>9, <2>2, <2>3, <2>4, <2>5 DEF made
<1>10. CASE l \notin covered /\ row.status = "planned" /\ ~row.edited
  <2>1. made = [row EXCEPT !.status = "cancelled"]
    BY <1>10, MadeIs
  <2>2. /\ made \in Rows /\ made.status = "cancelled" /\ made.technician = row.technician
        /\ made.edited = row.edited /\ made # NoRow
    BY <1>10, <2>1 DEF Rows, NoRow
  <2>3. MadeOf(made, l, m) = made
    <3> HIDE DEF made
    <3> QED
      BY <1>10, <2>2, MadeIs
  <2> HIDE DEF made
  <2> QED
    BY <1>10, <2>2, <2>3 DEF made
<1>11. QED
  <2>1. made = row \/ (l \in covered /\ ~row.edited /\ row.status \in {"none", "planned"})
          \/ (l \in covered /\ ~row.edited /\ row.status = "cancelled")
          \/ (l \notin covered /\ row.status = "planned" /\ ~row.edited)
    BY <1>1, MadeIs
  <2> QED
    BY <2>1, <1>7, <1>8, <1>9, <1>10

-----------------------------------------------------------------------------
(* What a transaction sees                                                 *)

(* A request's step says which record it carries.                          *)
LEMMA CallKinds ==
  ASSUME Shapes, NEW r \in Request
  PROVE  /\ Visiting(r) <=> call[r] \in VisitCalls
         /\ call[r].step = "row" <=> call[r] \in RowCalls
         /\ call[r] = NoCall => ~Visiting(r) /\ call[r].step # "row"
<1>1. None \notin {"visit", "row"}
  BY MaintenanceAssumption
<1>2. call[r] \in VisitCalls \cup RowCalls \cup {NoCall}
  BY DEF Shapes
<1>3. call[r] \in VisitCalls => call[r].step = "visit"
  BY DEF VisitCalls
<1>4. call[r] \in RowCalls => call[r].step = "row"
  BY DEF RowCalls
<1>5. NoCall.step = None
  BY DEF NoCall
<1> QED
  BY <1>1, <1>2, <1>3, <1>4, <1>5 DEF Visiting

(* So does the job's.                                                      *)
LEMMA RunKinds ==
  ASSUME Shapes
  PROVE  /\ run.step # None <=> run \in Runs
         /\ run = NoRun <=> run.step = None
         /\ run \in Runs => run.step \in {"write", "commit"}
<1>1. None \notin {"write", "commit"}
  BY MaintenanceAssumption
<1>2. run \in Runs \cup {NoRun}
  BY DEF Shapes
<1>3. run \in Runs => run.step \in {"write", "commit"}
  BY DEF Runs
<1>4. NoRun.step = None
  BY DEF NoRun
<1> QED
  BY <1>1, <1>2, <1>3, <1>4

(* A visit is no row of the plan.                                          *)
LEMMA VisitIsNoRow == \A row \in Visits : row # NoRow
<1> SUFFICES ASSUME NEW row \in Visits, row = NoRow PROVE FALSE
  OBVIOUS
<1>1. DOMAIN row = {"lift", "on", "status", "deleted"}
  BY DEF Visits
<1>2. DOMAIN NoRow = {"status", "due", "technician", "visit", "edited"}
  BY DEF NoRow
<1>3. "lift" \notin DOMAIN NoRow
  BY <1>2
<1> QED
  BY <1>1, <1>3

(* The record with one visit replaced, or added at its end.                *)
LEMMA WithVisits ==
  ASSUME NEW n \in Nat, visits \in [1..n -> Visits], NEW v \in 1..(n + 1), NEW row \in Visits
  PROVE  /\ \E k \in Nat : /\ With(v, row) \in [1..k -> Visits]
                             /\ k = IF v = n + 1 THEN n + 1 ELSE n
         /\ DOMAIN With(v, row) = 1..n \cup {v}
         /\ With(v, row)[v] = row
         /\ \A w \in 1..n : w # v => With(v, row)[w] = visits[w]
<1>1. With(v, row) = [w \in 1..n \cup {v} |-> IF w = v THEN row ELSE visits[w]]
  BY DEF With
<1>2. With(v, row) \in [1..n \cup {v} -> Visits]
  BY <1>1
<1>3. CASE v = n + 1
  <2>1. 1..n \cup {v} = 1..(n + 1)
    BY <1>3
  <2> QED
    BY <1>1, <1>2, <1>3, <2>1
<1>4. CASE v # n + 1
  <2>1. 1..n \cup {v} = 1..n /\ v \in 1..n
    BY <1>4
  <2> QED
    BY <1>1, <1>2, <1>4, <2>1
<1> QED
  BY <1>3, <1>4

(* The record stays a sequence of visits.                                  *)
LEMMA WithRows ==
  ASSUME NEW n \in Nat, visits \in [1..n -> Visits], NEW v \in 1..(n + 1), NEW row \in Visits
  PROVE  \E k \in Nat : With(v, row) \in [1..k -> Visits]
  BY WithVisits

(* The rows a visit looks at are rows of the plan, of lifts it concerns.   *)
LEMMA TouchedPlaces ==
  ASSUME NEW c, c.row \in Visits, c.before \in Visits \cup {NoRow}, NEW at \in Touched(c)
  PROVE  at[1] \in Lift /\ at[2] \in Period /\ at[1] \in Concerns(c) /\ at = <<at[1], at[2]>>
<1>1. \A row \in Visits : row.lift \in Lift /\ PeriodOf(row.on) \in Period
  BY VisitDays, PeriodOfDay DEF Visits
<1>2. CASE at = <<c.row.lift, PeriodOf(c.row.on)>>
  BY <1>1, <1>2 DEF Concerns
<1>3. CASE c.before # NoRow /\ at = <<c.before.lift, PeriodOf(c.before.on)>>
  BY <1>1, <1>3 DEF Concerns
<1> QED
  BY <1>2, <1>3 DEF Touched

(* What agrees with the record agrees with one that is the same of the     *)
(* lift.                                                                   *)
LEMMA SameOfLift ==
  ASSUME NEW row, NEW rows, NEW more, NEW l, NEW m,
         \A w : w \in DOMAIN rows /\ rows[w].lift = l <=> w \in DOMAIN more /\ more[w].lift = l,
         \A w \in DOMAIN rows : rows[w].lift = l => more[w] = rows[w],
         Agrees(row, rows, l, m)
  PROVE  Agrees(row, more, l, m)
<1> DEFINE Month(s) == {v \in DOMAIN s : /\ s[v].lift = l /\ ~s[v].deleted
                                        /\ s[v].on \in FirstOf(m)..LastOf(m)}
           Done(s) == {v \in Month(s) : s[v].status = "completed"}
<1>1. Month(rows) = Month(more)
  OBVIOUS
<1>2. Done(rows) = Done(more)
  BY <1>1
<1>3. \A s : Follows(row, s, l, m) <=>
               /\ row.status = "done" <=> Done(s) # {}
               /\ row.visit = 0 <=> Month(s) = {}
               /\ row.visit # 0 => row.visit \in (IF Done(s) # {} THEN Done(s) ELSE Month(s))
  BY DEF Follows
<1> HIDE DEF Month, Done
<1> QED
  BY <1>1, <1>2, <1>3 DEF Agrees

(* What the last update of a lift settles.                                 *)
LEMMA SettledRows ==
  ASSUME plan \in Plans, NEW n \in Nat, visits \in [1..n -> Visits],
         NEW c, c.id \in 1..(n + 1), c.row \in Visits, c.before \in Visits \cup {NoRow},
         c.dates \in [DOMAIN c.dates -> Nat], NEW l \in Lift, NEW m \in Period
  PROVE  LET next == Overlaid(Settled(c))[l][m]
         IN  /\ Settled(c)[l][m] \in Rows
             /\ <<l, m>> \in Touched(c) => Agrees(next, With(c.id, c.row), l, m)
             /\ l \in DOMAIN c.dates => DueAsDated(next, plan[l][m], m, c.dates[l], PeriodOf(today))
             /\ l \notin DOMAIN c.dates /\ l \notin Concerns(c) => Settled(c)[l][m] = NoRow
<1> DEFINE old == plan[l][m]
           due == IF l \in DOMAIN c.dates THEN Refreshed(old, m, c.dates[l]) ELSE old
           row == IF <<l, m>> \in Touched(c) THEN Synced(due, With(c.id, c.row), l, m) ELSE due
           next == Overlaid(Settled(c))[l][m]
<1>1. old \in Rows
  BY DEF Plans
<1>2. PICK k \in Nat : With(c.id, c.row) \in [1..k -> Visits]
  BY WithVisits
<1>3. Settled(c)[l][m] = IF row = old THEN NoRow ELSE row
  BY DEF Settled
<1>4. next = IF Settled(c)[l][m] # NoRow THEN Settled(c)[l][m] ELSE old
  BY OverlaidRow
<1>5. /\ due \in Rows /\ due.status = old.status /\ due.edited = old.edited
      /\ l \in DOMAIN c.dates => DueAsDated(due, old, m, c.dates[l], PeriodOf(today))
  <2>1. CASE l \in DOMAIN c.dates
    <3>1. c.dates[l] \in Nat
      BY <2>1
    <3>2. due = Refreshed(old, m, c.dates[l])
      BY <2>1
    <3> HIDE DEF due, old
    <3>3. /\ due \in Rows /\ due.status = old.status /\ due.edited = old.edited
          /\ old.status = "planned" /\ ~old.edited /\ m >= PeriodOf(today)
               => due.due = DueDateIn(m, c.dates[l])
      BY <1>1, <3>1, <3>2, RefreshKeeps
    <3> QED
      BY <3>3 DEF DueAsDated
  <2>2. CASE l \notin DOMAIN c.dates
    BY <1>1, <2>2
  <2> QED
    BY <2>1, <2>2
<1> HIDE DEF next, due, old
<1>6. /\ row \in Rows /\ row.due = due.due /\ row.edited = due.edited
      /\ row.status = "none" <=> due.status = "none"
      /\ <<l, m>> \in Touched(c) => Agrees(row, With(c.id, c.row), l, m)
  <2>1. CASE <<l, m>> \in Touched(c)
    <3>1. due.status \in {"none", "planned", "done", "cancelled"}
      BY <1>5, RowShape
    <3> DEFINE synced == Synced(due, With(c.id, c.row), l, m)
    <3>2. /\ synced \in Rows /\ synced.due = due.due /\ synced.edited = due.edited
          /\ due.status \in {"none", "cancelled"} => synced = due
          /\ due.status \in {"planned", "done"} =>
               synced.status \in {"planned", "done"} /\ Follows(synced, With(c.id, c.row), l, m)
      BY <1>2, <1>5, SyncFollows
    <3>3. row = synced
      BY <2>1
    <3> HIDE DEF synced, row
    <3> QED
      BY <2>1, <3>1, <3>2, <3>3 DEF Agrees
  <2>2. CASE <<l, m>> \notin Touched(c)
    BY <1>5, <2>2
  <2> QED
    BY <2>1, <2>2
<1>7. l \notin DOMAIN c.dates /\ l \notin Concerns(c) => row = old
  <2>1. l \notin Concerns(c) => <<l, m>> \notin Touched(c)
    BY TouchedPlaces
  <2> QED
    BY <2>1 DEF due
<1> HIDE DEF row
<1>8. next = row
  <2>1. row = NoRow => old = NoRow
    BY <1>1, <1>5, <1>6, RowShape
  <2> QED
    BY <1>3, <1>4, <2>1
<1>9. l \in DOMAIN c.dates => DueAsDated(row, old, m, c.dates[l], PeriodOf(today))
  BY <1>5, <1>6 DEF DueAsDated
<1> QED
  BY <1>3, <1>6, <1>7, <1>8, <1>9, NoRowIsRow DEF next, old

-----------------------------------------------------------------------------
(* What no step disturbs                                                   *)

(* A step that changes nothing the job has read leaves it undisturbed.     *)
LEMMA UndisturbedStays ==
  ASSUME Undisturbed, UNCHANGED <<today, office, lift, visits, plan, run>>
  PROVE  Undisturbed'
<1>1. Facts' = Facts
  BY DEF Facts, office
<1>2. \A row, l, m : MadeOf(row, l, m)' = MadeOf(row, l, m)
  BY <1>1 DEF MadeOf, Generated
<1>3. Dealt' = Dealt
  BY DEF Dealt
<1> QED
  BY <1>1, <1>2, <1>3 DEF Undisturbed

(* Nor does it change what a visit's transaction sees.                     *)
LEMMA SeenStays ==
  ASSUME UNCHANGED <<visits, plan>>, NEW q \in Request, call'[q] = call[q]
  PROVE  /\ Seen(call[q])' = Seen(call[q])
         /\ Overlaid(call[q].written)' = Overlaid(call[q].written)
<1>1. Seen(call[q])' = Seen(call[q])
  BY DEF Seen, With
<1>2. Overlaid(call[q].written)' = Overlaid(call[q].written)
  BY DEF Overlaid
<1> QED
  BY <1>1, <1>2

(* A request other than those of visits comes, changes or goes.            *)
LEMMA CallKeeps ==
  ASSUME PlanInv, NEW r \in Request, NEW c,
         c = NoCall \/ (c \in RowCalls /\ plan[c.lift][c.period] # NoRow),
         call' = [call EXCEPT ![r] = c], UNCHANGED <<today, office, lift, visits, plan, run>>
  PROVE  PlanInv'
<1>1. Shapes' /\ Facts' = Facts
  BY DEF PlanInv, Shapes, Facts, office
<1>2. call'[r] = c /\ \A q \in Request : q # r => call'[q] = call[q]
  BY DEF PlanInv, Shapes
<1>3. ~Visiting(r)'
  BY <1>1, <1>2, CallKinds, MaintenanceAssumption DEF Visiting, RowCalls, NoCall
<1>4. \A q \in Request : Visiting(q)' => q # r /\ Visiting(q) /\ call'[q] = call[q]
  BY <1>2, <1>3 DEF Visiting
<1>5. Numbered'
  BY <1>4 DEF PlanInv, Numbered
<1>6. InTurn'
  BY <1>4 DEF PlanInv, InTurn, Concerns
<1>7. \A q \in Request : Visiting(q)' =>
         Seen(call[q])' = Seen(call[q]) /\ Overlaid(call[q].written)' = Overlaid(call[q].written)
  BY <1>4, SeenStays
<1>8. Current' /\ InLine'
  BY <1>4, <1>7 DEF PlanInv, Current, InLine
<1>9. Present'
  <2>1. call'[r].step = "row" => plan'[call'[r].lift][call'[r].period] # NoRow
    BY <1>2, MaintenanceAssumption DEF NoCall
  <2> QED
    BY <1>2, <2>1 DEF PlanInv, Present
<1>10. Undisturbed'
  BY UndisturbedStays DEF PlanInv
<1> QED
  BY <1>1, <1>5, <1>6, <1>8, <1>9, <1>10 DEF PlanInv

-----------------------------------------------------------------------------
(* Visits                                                                  *)

(* A visit is written under a key nobody else is at work on, before any    *)
(* lift is updated.                                                        *)
LEMMA WriteKeeps ==
  ASSUME PlanInv, NEW r \in Request, NEW row \in Visits, NEW todo \in Seq(Lift), todo # <<>>,
         NEW n \in Nat, visits \in [1..n -> Visits], NEW v \in 1..(n + 1),
         NEW before, before = IF v \in DOMAIN visits THEN visits[v] ELSE NoRow,
         ~VisitLocked(v), call[r] = NoCall, Write(r, v, row, todo, before),
         \A q \in Request : Visiting(q) => call[q].id <= n + 1,
         \E i \in 1..Len(todo) : todo[i] = row.lift,
         before # NoRow => \E i \in 1..Len(todo) : todo[i] = before.lift
  PROVE  PlanInv'
<1> DEFINE seen == With(v, row)
           c == [step |-> "visit", id |-> v, row |-> row, todo |-> todo, before |-> before,
                 read |-> LastMaintenance(seen, Head(todo)), dates |-> <<>>, written |-> NoRows,
                 alone |-> TRUE, steady |-> TRUE]
<1>1. call' = [call EXCEPT ![r] = c] /\ UNCHANGED <<today, office, lift, visits, plan, run>>
  BY DEF Write
<1>2. /\ c.step = "visit" /\ c.id = v /\ c.row = row /\ c.todo = todo /\ c.before = before
      /\ c.read = LastMaintenance(seen, Head(todo)) /\ DOMAIN c.dates = {} /\ c.written = NoRows
      /\ c.alone = TRUE /\ c.steady = TRUE
  OBVIOUS
<1>3. c \in VisitCalls
  <2>1. Head(todo) \in Lift
    OBVIOUS
  <2>2. PICK k \in Nat : seen \in [1..k -> Visits]
    BY WithVisits
  <2>3. LastMaintenance(seen, Head(todo)) \in Nat
    BY <2>1, <2>2, LastIsLargest
  <2>4. NoRows \in Plans
    BY NoRowIsRow DEF NoRows, Plans
  <2>5. <<>> \in [{} -> Nat]
    OBVIOUS
  <2>6. <<>> \in UNION {[D -> Nat] : D \in SUBSET Lift}
    <3>1. {} \in SUBSET Lift
      OBVIOUS
    <3> QED
      BY <2>5, <3>1
  <2>7. before \in Visits \cup {NoRow} /\ v \in Nat \ {0}
    OBVIOUS
  <2> HIDE DEF seen
  <2> QED
    BY <2>3, <2>4, <2>6, <2>7 DEF VisitCalls
<1> HIDE DEF c
<1>4. Shapes' /\ Facts' = Facts
  BY <1>1, <1>3 DEF PlanInv, Shapes, Facts, office
<1>5. call'[r] = c /\ \A q \in Request : q # r => call'[q] = call[q]
  BY <1>1 DEF PlanInv, Shapes
<1>6. \A q \in Request : Visiting(q)' /\ q # r => Visiting(q) /\ call'[q] = call[q]
  BY <1>5 DEF Visiting
<1>7. Visiting(r)'
  BY <1>2, <1>5 DEF Visiting
<1>8. Numbered'
  <2>1. \A q \in Request : Visiting(q)' => call'[q].id <= n + 1
    BY <1>2, <1>5, <1>6
  <2>2. \A q \in Request : Visiting(q) => call[q].id # v
    BY DEF VisitLocked, Visiting
  <2>3. \A p, q \in Request : Visiting(p)' /\ Visiting(q)' /\ p # q => call'[p].id # call'[q].id
    BY <1>2, <1>5, <1>6, <2>2 DEF PlanInv, Numbered
  <2>4. \A q \in Request : Visiting(q)' =>
          call'[q].before = IF call'[q].id \in DOMAIN visits' THEN visits'[call'[q].id] ELSE NoRow
    BY <1>1, <1>2, <1>5, <1>6 DEF PlanInv, Numbered
  <2>5. visits' \in [1..n -> Visits]
    BY <1>1
  <2> QED
    BY <2>1, <2>3, <2>4, <2>5 DEF Numbered
<1>9. InTurn'
  <2>1. \A p, q \in Request : Visiting(p)' /\ Visiting(q)' /\ p # q =>
          DOMAIN call'[p].dates \cap DOMAIN call'[q].dates = {}
    BY <1>2, <1>5, <1>6 DEF PlanInv, InTurn
  <2>2. \A l \in Concerns(c) : \E i \in 1..Len(c.todo) : c.todo[i] = l
    BY <1>2 DEF Concerns
  <2>3. \A l \in Lift, m \in Period : c.written[l][m] = NoRow
    BY <1>2 DEF NoRows
  <2>4. \A q \in Request : Visiting(q)' => \A l \in Concerns(call'[q]) :
          l \in DOMAIN call'[q].dates \/ \E i \in 1..Len(call'[q].todo) : call'[q].todo[i] = l
    <3>1. \A q \in Request \ {r} : Visiting(q)' => \A l \in Concerns(call[q]) :
            l \in DOMAIN call[q].dates \/ \E i \in 1..Len(call[q].todo) : call[q].todo[i] = l
      BY <1>6 DEF PlanInv, InTurn
    <3>2. \A q \in Request : q # r /\ Visiting(q)' => call'[q] = call[q]
      BY <1>6
    <3> TAKE q \in Request
    <3> HAVE Visiting(q)'
    <3>3. CASE q = r
      BY <1>5, <2>2, <3>3
    <3>4. CASE q # r
      BY <3>1, <3>2, <3>4
    <3> QED
      BY <3>3, <3>4
  <2>5. \A q \in Request : Visiting(q)' =>
          \A l \in Lift \ DOMAIN call'[q].dates, m \in Period : call'[q].written[l][m] = NoRow
    BY <1>5, <1>6, <2>3 DEF PlanInv, InTurn
  <2> QED
    BY <1>5, <1>6, <2>1, <2>4, <2>5 DEF InTurn
<1>10. \A q \in Request : Visiting(q)' /\ q # r =>
          Seen(call[q])' = Seen(call[q]) /\ Overlaid(call[q].written)' = Overlaid(call[q].written)
  BY <1>1, <1>6, SeenStays
<1>11. Current' /\ InLine'
  <2>1. Seen(call[r])' = seen
    BY <1>1, <1>2, <1>5 DEF Seen, With
  <2>2. ReadAsIs(c, seen) /\ c.todo # <<>>
    BY <1>2 DEF ReadAsIs
  <2> HIDE DEF seen
  <2>3. Current'
    BY <1>5, <1>6, <1>10, <2>1, <2>2 DEF PlanInv, Current
  <2>4. InLine'
    BY <1>1, <1>5, <1>6, <1>10, <2>2 DEF PlanInv, InLine
  <2> QED
    BY <2>3, <2>4
<1>12. Present'
  <2>1. call'[r].step # "row"
    BY <1>2, <1>5
  <2> QED
    BY <1>1, <1>5, <2>1 DEF PlanInv, Present
<1>13. Undisturbed'
  BY <1>1, UndisturbedStays DEF PlanInv
<1> QED
  BY <1>4, <1>8, <1>9, <1>11, <1>12, <1>13 DEF PlanInv

(* A visit that is not there yet is numbered next: whoever else is at work *)
(* corrects one that is.                                                   *)
LEMMA RecordKeeps ==
  ASSUME PlanInv, NEW r \in Request, RecordVisit(r)
  PROVE  PlanInv'
<1>1. PICK form \in VisitForm : Write(r, Fresh, form, <<form.lift>>, NoRow)
  BY DEF RecordVisit
<1>2. PICK n \in Nat : /\ visits \in [1..n -> Visits]
                       /\ \A q \in Request : Visiting(q) => call[q].id <= n + 1
  BY DEF PlanInv, Numbered
<1>3. \A q \in Request : Visiting(q) => call[q].id \in 1..n
  BY <1>2 DEF RecordVisit, Visiting
<1>4. Fresh = n + 1
  <2> DEFINE keys == DOMAIN visits \cup {call[q].id : q \in {p \in Request : call[p].step = "visit"}}
  <2>1. keys = 1..n
    BY <1>2, <1>3 DEF Visiting
  <2>2. Cardinality(1..n) = n
    BY FS_Interval
  <2>3. Fresh = 1 + Cardinality(keys)
    BY DEF Fresh
  <2> HIDE DEF keys
  <2> QED
    BY <2>1, <2>2, <2>3
<1>5. form \in Visits /\ form.lift \in Lift
  BY DEF VisitForm, Visits
<1>6. /\ <<form.lift>> \in Seq(Lift) /\ <<form.lift>> # <<>>
      /\ \E i \in 1..Len(<<form.lift>>) : <<form.lift>>[i] = form.lift
  BY <1>5
<1>7. NoRow = IF Fresh \in DOMAIN visits THEN visits[Fresh] ELSE NoRow
  BY <1>2, <1>4
<1>8. ~VisitLocked(Fresh) /\ Fresh \in 1..(n + 1)
  BY <1>3, <1>4 DEF VisitLocked, Visiting
<1>9. call[r] = NoCall
  BY DEF RecordVisit
<1> HIDE DEF Fresh
<1> QED
  BY <1>1, <1>2, <1>5, <1>6, <1>7, <1>8, <1>9, WriteKeeps

(* A PATCH of a visit opens its transaction with nothing yet written.      *)
LEMMA EditKeeps ==
  ASSUME PlanInv, NEW r \in Request, NEW v \in DOMAIN visits, EditVisit(r, v)
  PROVE  PlanInv'
<1>1. PICK form \in VisitForm :
        Write(r, v, form, IF visits[v].lift = form.lift THEN <<form.lift>>
                          ELSE <<form.lift, visits[v].lift>>, visits[v])
  BY DEF EditVisit
<1>2. PICK n \in Nat : /\ visits \in [1..n -> Visits]
                       /\ \A q \in Request : Visiting(q) => call[q].id <= n + 1
  BY DEF PlanInv, Numbered
<1> DEFINE todo == IF visits[v].lift = form.lift THEN <<form.lift>>
                   ELSE <<form.lift, visits[v].lift>>
<1>3. form \in Visits /\ form.lift \in Lift
  BY DEF VisitForm, Visits
<1>4. v \in 1..(n + 1) /\ visits[v] \in Visits /\ visits[v].lift \in Lift
  BY <1>2 DEF Visits
<1>5. Write(r, v, form, todo, visits[v]) /\ call[r] = NoCall /\ ~VisitLocked(v)
  BY <1>1 DEF EditVisit
<1>6. /\ todo \in Seq(Lift) /\ todo # <<>>
      /\ \E i \in 1..Len(todo) : todo[i] = form.lift
      /\ \E i \in 1..Len(todo) : todo[i] = visits[v].lift
  <2>1. CASE visits[v].lift = form.lift
    <3>1. todo = <<form.lift>>
      BY <2>1
    <3> HIDE DEF todo
    <3>2. todo \in Seq(Lift) /\ todo # <<>> /\ Len(todo) = 1 /\ todo[1] = form.lift
      BY <1>3, <3>1
    <3> QED
      BY <2>1, <3>2
  <2>2. CASE visits[v].lift # form.lift
    <3>1. todo = <<form.lift, visits[v].lift>>
      BY <2>2
    <3> HIDE DEF todo
    <3>2. /\ todo \in Seq(Lift) /\ todo # <<>> /\ Len(todo) = 2
          /\ todo[1] = form.lift /\ todo[2] = visits[v].lift
      BY <1>3, <1>4, <3>1
    <3> QED
      BY <3>2
  <2> QED
    BY <2>1, <2>2
<1> HIDE DEF todo
<1> QED
  BY <1>2, <1>3, <1>4, <1>5, <1>6, WriteKeeps

(* So does its deletion.                                                   *)
LEMMA DeleteKeeps ==
  ASSUME PlanInv, NEW r \in Request, NEW v \in DOMAIN visits, DeleteVisit(r, v)
  PROVE  PlanInv'
<1> DEFINE row == [visits[v] EXCEPT !.deleted = TRUE]
           todo == <<visits[v].lift>>
<1>1. Write(r, v, row, todo, visits[v]) /\ call[r] = NoCall /\ ~VisitLocked(v)
  BY DEF DeleteVisit
<1>2. PICK n \in Nat : /\ visits \in [1..n -> Visits]
                       /\ \A q \in Request : Visiting(q) => call[q].id <= n + 1
  BY DEF PlanInv, Numbered
<1>3. v \in 1..(n + 1) /\ visits[v] \in Visits
  BY <1>2
<1>4. row \in Visits /\ row.lift = visits[v].lift /\ visits[v].lift \in Lift
  BY <1>3 DEF Visits
<1>5. todo \in Seq(Lift) /\ todo # <<>> /\ Len(todo) = 1 /\ todo[1] = visits[v].lift
  BY <1>4
<1> HIDE DEF row, todo
<1> QED
  BY <1>1, <1>2, <1>3, <1>4, <1>5, WriteKeeps

(* The update of a lift waits its turn, and the last brings the plan in    *)
(* line.                                                                   *)
LEMMA UpdateKeeps ==
  ASSUME PlanInv, NEW r \in Request, UpdateLift(r)
  PROVE  PlanInv'
<1> DEFINE o == call[r]
           l == Head(o.todo)
           dates == [k \in DOMAIN o.dates \cup {l} |-> IF k = l THEN o.read ELSE o.dates[k]]
           c == [o EXCEPT !.todo = Tail(@),
                          !.dates = [k \in DOMAIN @ \cup {l} |-> IF k = l THEN o.read ELSE @[k]]]
           more == [c EXCEPT !.read = LastMaintenance(With(c.id, c.row), Head(c.todo))]
           done == [c EXCEPT !.read = Null, !.written = Settled(c)]
           n == IF c.todo # <<>> THEN more ELSE done
<1>1. /\ Visiting(r) /\ o.todo # <<>> /\ ~LiftLocked(r, l)
      /\ call' = [call EXCEPT ![r] = n]
      /\ UNCHANGED <<today, office, lift, visits, plan, run>>
  BY DEF UpdateLift, Visiting
<1>2. o \in VisitCalls
  BY <1>1, CallKinds DEF PlanInv
<1>3. /\ o.step = "visit" /\ o.id \in Nat \ {0} /\ o.row \in Visits /\ o.todo \in Seq(Lift)
      /\ o.before \in Visits \cup {NoRow} /\ o.read \in Nat /\ o.written \in Plans
      /\ o.dates \in [DOMAIN o.dates -> Nat] /\ DOMAIN o.dates \subseteq Lift
      /\ o.alone \in BOOLEAN /\ o.steady \in BOOLEAN
  BY <1>2 DEF VisitCalls
<1>4. l \in Lift /\ Tail(o.todo) \in Seq(Lift)
  BY <1>1, <1>3
<1>5. dates \in [DOMAIN dates -> Nat] /\ DOMAIN dates = DOMAIN o.dates \cup {l} /\ DOMAIN dates \subseteq Lift
  BY <1>3, <1>4
<1> HIDE DEF l, o
<1>6. /\ c \in VisitCalls /\ c.step = "visit" /\ c.id = o.id /\ c.row = o.row /\ c.before = o.before
      /\ c.todo = Tail(o.todo) /\ c.dates = dates /\ c.written = o.written
      /\ c.alone = o.alone /\ c.steady = o.steady
  <2>1. c = [o EXCEPT !.todo = Tail(o.todo), !.dates = dates]
    BY <1>2 DEF VisitCalls
  <2>2. dates \in UNION {[D -> Nat] : D \in SUBSET Lift}
    BY <1>5
  <2> HIDE DEF c, dates
  <2> QED
    BY <1>2, <1>4, <2>1, <2>2 DEF VisitCalls
<1> HIDE DEF dates, c
<1>7. PICK k \in Nat : /\ visits \in [1..k -> Visits]
                       /\ \A q \in Request : Visiting(q) => call[q].id <= k + 1
  BY DEF PlanInv, Numbered
<1>8. o.id \in 1..(k + 1)
  BY <1>1, <1>3, <1>7 DEF o
<1>9. PICK j \in Nat : With(o.id, o.row) \in [1..j -> Visits]
  BY <1>3, <1>7, <1>8, WithRows
<1>10. /\ Settled(c) \in Plans
       /\ \A x \in Lift, m \in Period :
            /\ <<x, m>> \in Touched(c) => Agrees(Overlaid(Settled(c))[x][m], With(c.id, c.row), x, m)
            /\ x \in DOMAIN c.dates =>
                 DueAsDated(Overlaid(Settled(c))[x][m], plan[x][m], m, c.dates[x], PeriodOf(today))
            /\ x \notin DOMAIN c.dates /\ x \notin Concerns(c) => Settled(c)[x][m] = NoRow
  <2>1. plan \in Plans
    BY DEF PlanInv, Shapes
  <2>2. c.dates \in [DOMAIN c.dates -> Nat]
    BY <1>5, <1>6
  <2>3. ASSUME NEW x \in Lift, NEW m \in Period
        PROVE  /\ Settled(c)[x][m] \in Rows
               /\ <<x, m>> \in Touched(c) => Agrees(Overlaid(Settled(c))[x][m], With(c.id, c.row), x, m)
               /\ x \in DOMAIN c.dates =>
                    DueAsDated(Overlaid(Settled(c))[x][m], plan[x][m], m, c.dates[x], PeriodOf(today))
               /\ x \notin DOMAIN c.dates /\ x \notin Concerns(c) => Settled(c)[x][m] = NoRow
    <3>1. c.id \in 1..(k + 1) /\ c.row \in Visits /\ c.before \in Visits \cup {NoRow}
      BY <1>3, <1>6, <1>8
    <3> QED
      BY <1>7, <2>1, <2>2, <3>1, SettledRows
  <2>4. Settled(c) \in Plans
    <3>1. Settled(c) = [x \in Lift |-> [m \in Period |-> Settled(c)[x][m]]]
      BY DEF Settled
    <3> QED
      BY <2>3, <3>1 DEF Plans
  <2> QED
    BY <2>3, <2>4
<1>11. /\ n \in VisitCalls /\ n.step = "visit" /\ n.id = o.id /\ n.row = o.row /\ n.before = o.before
       /\ n.todo = Tail(o.todo) /\ n.dates = dates /\ n.alone = o.alone /\ n.steady = o.steady
       /\ n.todo # <<>> => n.written = o.written /\ n.read = LastMaintenance(With(o.id, o.row), Head(n.todo))
       /\ n.todo = <<>> => n.written = Settled(c)
  <2>1. CASE c.todo # <<>>
    <3>1. Head(c.todo) \in Lift
      BY <1>4, <1>6, <2>1
    <3>2. LastMaintenance(With(c.id, c.row), Head(c.todo)) \in Nat
      BY <1>6, <1>9, <3>1, LastIsLargest
    <3>3. n = more
      BY <2>1
    <3> HIDE DEF n
    <3> QED
      BY <1>6, <2>1, <3>2, <3>3 DEF VisitCalls
  <2>2. CASE c.todo = <<>>
    <3>1. n = done
      BY <2>2
    <3> HIDE DEF n
    <3> QED
      BY <1>6, <1>10, <2>2, <3>1 DEF VisitCalls, Null
  <2> QED
    BY <2>1, <2>2
<1> HIDE DEF n
<1>12. Shapes' /\ Facts' = Facts
  BY <1>1, <1>11 DEF PlanInv, Shapes, Facts, office
<1>13. call'[r] = n /\ \A q \in Request : q # r => call'[q] = call[q]
  BY <1>1 DEF PlanInv, Shapes
<1>14. \A q \in Request : Visiting(q)' /\ q # r => Visiting(q) /\ call'[q] = call[q]
  BY <1>13 DEF Visiting
<1>15. Numbered'
  <2>1. call'[r].id = o.id /\ call'[r].before = o.before
    BY <1>11, <1>13
  <2>2. \A q \in Request : Visiting(q)' =>
          Visiting(q) /\ call'[q].id = call[q].id /\ call'[q].before = call[q].before
    BY <1>1, <1>14, <2>1 DEF o
  <2> QED
    BY <1>1, <2>2 DEF PlanInv, Numbered
<1>16. Concerns(n) = Concerns(o) /\ Concerns(c) = Concerns(o)
  BY <1>6, <1>11 DEF Concerns
<1>17. \A x \in Concerns(o) : x \in DOMAIN dates \/ \E i \in 1..Len(n.todo) : n.todo[i] = x
  <2> TAKE x \in Concerns(o)
  <2>1. x \in DOMAIN o.dates \/ \E i \in 1..Len(o.todo) : o.todo[i] = x
    BY <1>1 DEF PlanInv, InTurn, o
  <2>2. ASSUME NEW i \in 1..Len(o.todo), o.todo[i] = x
        PROVE  x = l \/ \E h \in 1..Len(n.todo) : n.todo[h] = x
    <3>1. CASE i = 1
      BY <1>3, <2>2, <3>1 DEF l
    <3>2. CASE i # 1
      <4>1. i - 1 \in 1..Len(Tail(o.todo)) /\ Tail(o.todo)[i - 1] = o.todo[i]
        BY <1>1, <1>3, <3>2
      <4> QED
        BY <1>11, <2>2, <4>1
    <3> QED
      BY <3>1, <3>2
  <2> QED
    BY <1>5, <2>1, <2>2
<1>18. \A x \in Lift \ DOMAIN dates, m \in Period : n.written[x][m] = NoRow
  <2>1. CASE n.todo # <<>>
    <3>1. \A x \in Lift \ DOMAIN o.dates, m \in Period : o.written[x][m] = NoRow
      BY <1>1 DEF PlanInv, InTurn, o
    <3> QED
      BY <1>5, <1>11, <2>1, <3>1
  <2>2. CASE n.todo = <<>>
    <3>1. \A x \in Concerns(c) : x \in DOMAIN dates
      <4>1. 1..Len(n.todo) = {}
        BY <2>2
      <4> QED
        BY <1>16, <1>17, <4>1
    <3> QED
      BY <1>6, <1>10, <1>11, <2>2, <3>1
  <2> QED
    BY <2>1, <2>2
<1>19. InTurn'
  <2>1. \A q \in Request : Visiting(q) /\ q # r => l \notin DOMAIN call[q].dates
    BY <1>1 DEF LiftLocked, Visiting
  <2>2. \A p, q \in Request : Visiting(p)' /\ Visiting(q)' /\ p # q =>
          DOMAIN call'[p].dates \cap DOMAIN call'[q].dates = {}
    <3>1. \A q \in Request : Visiting(q)' /\ q # r => DOMAIN dates \cap DOMAIN call[q].dates = {}
      BY <1>1, <1>5, <1>14, <2>1 DEF PlanInv, InTurn, o
    <3> QED
      BY <1>11, <1>13, <1>14, <3>1 DEF PlanInv, InTurn
  <2>3. ASSUME NEW q \in Request, Visiting(q)'
        PROVE  /\ \A x \in Concerns(call'[q]) :
                    x \in DOMAIN call'[q].dates \/ \E i \in 1..Len(call'[q].todo) : call'[q].todo[i] = x
               /\ \A x \in Lift \ DOMAIN call'[q].dates, m \in Period : call'[q].written[x][m] = NoRow
    <3>1. CASE q = r
      BY <1>11, <1>13, <1>16, <1>17, <1>18, <3>1
    <3>2. CASE q # r
      BY <1>14, <2>3, <3>2 DEF PlanInv, InTurn
    <3> QED
      BY <3>1, <3>2
  <2> QED
    BY <2>2, <2>3 DEF InTurn
<1>20. \A q \in Request : Visiting(q)' /\ q # r =>
          Seen(call[q])' = Seen(call[q]) /\ Overlaid(call[q].written)' = Overlaid(call[q].written)
  BY <1>1, <1>14, SeenStays
<1>21. /\ Seen(call[r])' = With(o.id, o.row)
       /\ Overlaid(call[r].written)' = Overlaid(n.written)
  <2>1. Seen(call[r])' = With(o.id, o.row)
    BY <1>1, <1>11, <1>13 DEF Seen, With
  <2>2. Overlaid(call[r].written)' = Overlaid(n.written)
    BY <1>1, <1>13 DEF Overlaid
  <2> QED
    BY <2>1, <2>2
<1>22. Current'
  <2>1. o.alone => ReadAsIs(n, With(o.id, o.row))
    <3>1. SUFFICES ASSUME o.alone PROVE ReadAsIs(n, With(o.id, o.row))
      OBVIOUS
    <3>2. ReadAsIs(o, With(o.id, o.row))
      BY <1>1, <3>1 DEF PlanInv, Current, o, Seen
    <3>3. \A x \in DOMAIN dates : dates[x] = LastMaintenance(With(o.id, o.row), x)
      BY <1>1, <3>2 DEF ReadAsIs, dates, l
    <3> QED
      BY <1>11, <3>3 DEF ReadAsIs
  <2>2. ASSUME NEW q \in Request, Visiting(q)', call'[q].alone
        PROVE  ReadAsIs(call'[q], Seen(call[q])')
    <3>1. CASE q = r
      BY <1>11, <1>13, <1>21, <2>1, <2>2, <3>1
    <3>2. CASE q # r
      BY <1>14, <1>20, <2>2, <3>2 DEF PlanInv, Current
    <3> QED
      BY <3>1, <3>2
  <2> QED
    BY <2>2 DEF Current
<1>23. InLine'
  <2>1. n.todo = <<>> => Settles(n, With(o.id, o.row), Overlaid(n.written), plan, PeriodOf(today))
    <3>1. SUFFICES ASSUME n.todo = <<>>
                   PROVE  Settles(n, With(o.id, o.row), Overlaid(Settled(c)), plan, PeriodOf(today))
      BY <1>11
    <3>2. Touched(n) = Touched(c) /\ DOMAIN n.dates = DOMAIN c.dates /\ n.dates = c.dates
      BY <1>6, <1>11 DEF Touched
    <3>3. \A at \in Touched(c) : at[1] \in Lift /\ at[2] \in Period /\ at = <<at[1], at[2]>>
      BY <1>3, <1>6, TouchedPlaces
    <3>4. \A at \in Touched(c) : Agrees(Overlaid(Settled(c))[at[1]][at[2]], With(c.id, c.row), at[1], at[2])
      BY <1>10, <3>3
    <3>5. \A x \in DOMAIN c.dates, m \in Period :
            DueAsDated(Overlaid(Settled(c))[x][m], plan[x][m], m, c.dates[x], PeriodOf(today))
      BY <1>5, <1>6, <1>10
    <3> QED
      BY <1>6, <3>2, <3>4, <3>5 DEF Settles
  <2>2. ASSUME NEW q \in Request, Visiting(q)', call'[q].todo = <<>>, call'[q].steady
        PROVE  Settles(call'[q], Seen(call[q])', Overlaid(call[q].written)', plan, PeriodOf(today))
    <3>1. CASE q = r
      BY <1>13, <1>21, <2>1, <2>2, <3>1
    <3>2. CASE q # r
      BY <1>14, <1>20, <2>2, <3>2 DEF PlanInv, InLine
    <3> QED
      BY <3>1, <3>2
  <2> QED
    BY <1>1, <2>2 DEF InLine
<1>24. Present'
  <2>1. call'[r].step # "row"
    BY <1>11, <1>13
  <2> QED
    BY <1>1, <1>13, <2>1 DEF PlanInv, Present
<1>25. Undisturbed'
  BY <1>1, UndisturbedStays DEF PlanInv
<1> QED
  BY <1>12, <1>15, <1>19, <1>22, <1>23, <1>24, <1>25 DEF PlanInv

(* A commit reaches no lift and no row another visit holds.                *)
LEMMA CommitVisitKeeps ==
  ASSUME PlanInv, NEW r \in Request, CommitVisit(r)
  PROVE  PlanInv'
<1> DEFINE c == call[r]
<1>1. /\ Visiting(r) /\ c.todo = <<>> /\ plan' = Overlaid(c.written) /\ visits' = With(c.id, c.row)
      /\ lift' = [l \in Lift |-> IF l \in DOMAIN c.dates THEN c.dates[l] ELSE lift[l]]
      /\ call' = [q \in Request |-> IF q = r THEN NoCall
                                    ELSE IF call[q].step = "visit" THEN [call[q] EXCEPT !.alone = FALSE]
                                    ELSE call[q]]
      /\ run' = IF run.step = None THEN run ELSE [run EXCEPT !.alone = FALSE]
      /\ UNCHANGED <<today, office>>
  BY DEF CommitVisit, Visiting
<1>2. c \in VisitCalls
  BY <1>1, CallKinds DEF PlanInv
<1>3. /\ c.id \in Nat \ {0} /\ c.row \in Visits /\ c.before \in Visits \cup {NoRow} /\ c.written \in Plans
      /\ c.dates \in [DOMAIN c.dates -> Nat]
  BY <1>2 DEF VisitCalls
<1>4. PICK n \in Nat : /\ visits \in [1..n -> Visits]
                       /\ \A q \in Request : Visiting(q) => call[q].id <= n + 1
  BY DEF PlanInv, Numbered
<1>5. c.id \in 1..(n + 1)
  BY <1>1, <1>3, <1>4
<1> HIDE DEF c
<1>6. /\ \E k \in Nat : visits' \in [1..k -> Visits] /\ k = IF c.id = n + 1 THEN n + 1 ELSE n
      /\ DOMAIN visits' = 1..n \cup {c.id}
      /\ visits'[c.id] = c.row
      /\ \A w \in 1..n : w # c.id => visits'[w] = visits[w]
  <2> DEFINE more == With(c.id, c.row)
  <2>1. /\ \E k \in Nat : more \in [1..k -> Visits] /\ k = IF c.id = n + 1 THEN n + 1 ELSE n
        /\ DOMAIN more = 1..n \cup {c.id}
        /\ more[c.id] = c.row
        /\ \A w \in 1..n : w # c.id => more[w] = visits[w]
    <3>1. visits \in [1..n -> Visits] /\ c.row \in Visits
      BY <1>3, <1>4
    <3>2. \E k \in Nat : more \in [1..k -> Visits] /\ k = IF c.id = n + 1 THEN n + 1 ELSE n
      BY <1>5, <3>1, WithVisits
    <3>3. more = [w \in 1..n \cup {c.id} |-> IF w = c.id THEN c.row ELSE visits[w]]
      BY <3>1 DEF With
    <3> HIDE DEF more
    <3>4. DOMAIN more = 1..n \cup {c.id} /\ more[c.id] = c.row
      BY <3>3
    <3>5. \A w \in 1..n : w # c.id => more[w] = visits[w]
      BY <3>3
    <3> QED
      BY <3>2, <3>4, <3>5
  <2>2. visits' = more
    BY <1>1
  <2> HIDE DEF more
  <2> QED
    BY <2>1, <2>2
<1>7. \A q \in Request : q # r =>
        /\ call'[q] = IF Visiting(q) THEN [call[q] EXCEPT !.alone = FALSE] ELSE call[q]
        /\ Visiting(q) => /\ call'[q] \in VisitCalls /\ call'[q].step = "visit" /\ ~call'[q].alone
                          /\ call'[q].id = call[q].id /\ call'[q].row = call[q].row
                          /\ call'[q].todo = call[q].todo /\ call'[q].before = call[q].before
                          /\ call'[q].dates = call[q].dates /\ call'[q].written = call[q].written
                          /\ call'[q].steady = call[q].steady
  <2> TAKE q \in Request
  <2> HAVE q # r
  <2>1. call'[q] = IF Visiting(q) THEN [call[q] EXCEPT !.alone = FALSE] ELSE call[q]
    BY <1>1 DEF Visiting
  <2>2. Visiting(q) => call[q] \in VisitCalls
    BY CallKinds DEF PlanInv
  <2>3. ASSUME Visiting(q)
        PROVE  /\ call'[q] \in VisitCalls /\ call'[q].step = "visit" /\ ~call'[q].alone
               /\ call'[q].id = call[q].id /\ call'[q].row = call[q].row
               /\ call'[q].todo = call[q].todo /\ call'[q].before = call[q].before
               /\ call'[q].dates = call[q].dates /\ call'[q].written = call[q].written
               /\ call'[q].steady = call[q].steady
    <3>1. call'[q] = [call[q] EXCEPT !.alone = FALSE] /\ call[q] \in VisitCalls
      BY <2>1, <2>2, <2>3
    <3> QED
      BY <3>1 DEF VisitCalls
  <2> QED
    BY <2>1, <2>3
<1>8. call'[r] = NoCall /\ DOMAIN call' = Request
  BY <1>1
<1>9. plan' \in Plans /\ \A l \in Lift, m \in Period :
        plan'[l][m] = IF c.written[l][m] # NoRow THEN c.written[l][m] ELSE plan[l][m]
  BY <1>1, <1>3, OverlaidIsPlan, OverlaidRow DEF PlanInv, Shapes
<1>10. Facts' \in AllFacts
  <2>1. Facts \in AllFacts
    BY DEF PlanInv, Shapes
  <2>2. covered' = covered /\ default' = default
    BY <1>1 DEF office
  <2>3. lift' \in [Lift -> Nat]
    BY <1>1, <1>3, <2>1 DEF Facts, AllFacts
  <2> QED
    BY <2>1, <2>2, <2>3 DEF Facts, AllFacts
<1>11. /\ run' \in Runs \cup {NoRun}
       /\ run' # NoRun => /\ run' \in Runs /\ run \in Runs /\ ~run'.alone /\ run'.step = run.step
                          /\ run'.period = run.period /\ run'.rows = run.rows
       /\ run'.step = run.step
  <2>1. CASE run = NoRun
    BY <1>1, <2>1, RunKinds DEF PlanInv
  <2>2. CASE run # NoRun
    <3>1. run' = [run EXCEPT !.alone = FALSE] /\ run \in Runs
      BY <1>1, <2>2, RunKinds DEF PlanInv
    <3> QED
      BY <3>1 DEF Runs
  <2> QED
    BY <2>1, <2>2
<1>12. Shapes'
  <2>1. \A q \in Request : call'[q] \in VisitCalls \cup RowCalls \cup {NoCall}
    BY <1>7, <1>8, CallKinds DEF PlanInv, Shapes
  <2>2. call' \in [Request -> VisitCalls \cup RowCalls \cup {NoCall}]
    BY <1>1, <2>1
  <2>3. today' \in 1..MaxDay
    BY <1>1 DEF PlanInv, Shapes
  <2> QED
    BY <1>9, <1>10, <1>11, <2>2, <2>3 DEF Shapes
<1>13. \A q \in Request : Visiting(q)' => q # r /\ Visiting(q)
  BY <1>7, <1>8, MaintenanceAssumption DEF Visiting, NoCall
<1>14. \A q \in Request : Visiting(q)' => call[q].id # c.id
  BY <1>1, <1>13 DEF PlanInv, Numbered, c
<1>15. Numbered'
  <2>1. PICK k \in Nat : visits' \in [1..k -> Visits] /\ k = IF c.id = n + 1 THEN n + 1 ELSE n
    BY <1>6
  <2>2. \A q \in Request : Visiting(q)' => call'[q].id <= k + 1
    <3> TAKE q \in Request
    <3> HAVE Visiting(q)'
    <3>1. call'[q].id = call[q].id /\ call[q].id <= n + 1 /\ call'[q].id \in Nat
      BY <1>4, <1>7, <1>13 DEF VisitCalls
    <3> QED
      BY <2>1, <3>1
  <2>3. \A p, q \in Request : Visiting(p)' /\ Visiting(q)' /\ p # q => call'[p].id # call'[q].id
    <3>1. \A q \in Request : Visiting(q)' => Visiting(q) /\ call'[q].id = call[q].id
      BY <1>7, <1>13
    <3> QED
      BY <3>1 DEF PlanInv, Numbered
  <2>4. ASSUME NEW q \in Request, Visiting(q)'
        PROVE  call'[q].before = IF call'[q].id \in DOMAIN visits' THEN visits'[call'[q].id] ELSE NoRow
    <3>1. call'[q].before = call[q].before /\ call'[q].id = call[q].id /\ call[q].id # c.id
      BY <1>7, <1>13, <1>14, <2>4
    <3>2. call[q].before = IF call[q].id \in DOMAIN visits THEN visits[call[q].id] ELSE NoRow
      BY <1>13, <2>4 DEF PlanInv, Numbered
    <3>3. DOMAIN visits = 1..n
      BY <1>4
    <3> QED
      BY <1>6, <3>1, <3>2, <3>3
  <2> QED
    BY <2>1, <2>2, <2>3, <2>4 DEF Numbered
<1>16. InTurn'
  <2>1. \A p, q \in Request : Visiting(p)' /\ Visiting(q)' /\ p # q =>
          DOMAIN call'[p].dates \cap DOMAIN call'[q].dates = {}
    BY <1>7, <1>13 DEF PlanInv, InTurn
  <2>2. ASSUME NEW q \in Request, Visiting(q)'
        PROVE  /\ \A l \in Concerns(call'[q]) :
                    l \in DOMAIN call'[q].dates \/ \E i \in 1..Len(call'[q].todo) : call'[q].todo[i] = l
               /\ \A l \in Lift \ DOMAIN call'[q].dates, m \in Period : call'[q].written[l][m] = NoRow
    <3>1. /\ Concerns(call'[q]) = Concerns(call[q]) /\ call'[q].dates = call[q].dates
          /\ call'[q].todo = call[q].todo /\ call'[q].written = call[q].written
      BY <1>7, <1>13, <2>2 DEF Concerns
    <3> QED
      BY <1>13, <2>2, <3>1 DEF PlanInv, InTurn
  <2> QED
    BY <2>1, <2>2 DEF InTurn
<1>17. Current'
  BY <1>7, <1>13 DEF Current
<1>18. InLine'
  <2>1. \A l \in Concerns(c) : l \in DOMAIN c.dates
    <3>1. 1..Len(c.todo) = {}
      BY <1>1 DEF c
    <3> QED
      BY <1>1, <3>1 DEF PlanInv, InTurn, c
  <2>2. \A l \in Lift \ DOMAIN c.dates, m \in Period : c.written[l][m] = NoRow
    BY <1>1 DEF PlanInv, InTurn, c
  <2>3. ASSUME NEW q \in Request, Visiting(q)', call'[q].todo = <<>>, call'[q].steady
        PROVE  Settles(call'[q], Seen(call[q])', Overlaid(call[q].written)', plan', PeriodOf(today'))
    <3> DEFINE d == call[q]
    <3>1. q # r /\ Visiting(q) /\ d \in VisitCalls /\ d.todo = <<>> /\ d.steady
      BY <1>7, <1>13, <2>3, CallKinds DEF PlanInv
    <3>2. /\ d.id \in Nat \ {0} /\ d.row \in Visits /\ d.before \in Visits \cup {NoRow}
          /\ d.written \in Plans /\ DOMAIN d.dates \subseteq Lift
      BY <3>1 DEF VisitCalls
    <3>3. Settles(d, Seen(d), Overlaid(d.written), plan, PeriodOf(today))
      BY <3>1 DEF PlanInv, InLine
    <3>4. \A l \in Concerns(d) : l \in DOMAIN d.dates
      <4>1. 1..Len(d.todo) = {}
        BY <3>1
      <4> QED
        BY <3>1, <4>1 DEF PlanInv, InTurn
    <3>5. \A l \in DOMAIN d.dates : l \notin DOMAIN c.dates
      BY <1>1, <3>1 DEF PlanInv, InTurn, c
    <3>6. \A l \in DOMAIN d.dates, m \in Period : plan'[l][m] = plan[l][m]
      BY <1>9, <2>2, <3>2, <3>5
    <3>7. \A l \in DOMAIN d.dates, m \in Period :
            Overlaid(d.written)'[l][m] = Overlaid(d.written)[l][m]
      <4> TAKE l \in DOMAIN d.dates, m \in Period
      <4>1. Overlaid(d.written)[l][m] = IF d.written[l][m] # NoRow THEN d.written[l][m] ELSE plan[l][m]
        BY <3>2, OverlaidRow
      <4>2. Overlaid(d.written)'[l][m] = IF d.written[l][m] # NoRow THEN d.written[l][m] ELSE plan'[l][m]
        BY <1>7, <3>1, <3>2 DEF Overlaid
      <4> QED
        BY <3>6, <4>1, <4>2
    <3>8. ASSUME NEW at \in Touched(d)
          PROVE  Agrees(Overlaid(d.written)'[at[1]][at[2]], Seen(d)', at[1], at[2])
      <4> DEFINE l == at[1]
                 rows == Seen(d)
                 more == [w \in DOMAIN visits' \cup {d.id} |-> IF w = d.id THEN d.row ELSE visits'[w]]
      <4>1. l \in Lift /\ at[2] \in Period /\ l \in Concerns(d) /\ l \in DOMAIN d.dates
        BY <3>2, <3>4, TouchedPlaces
      <4>2. l \notin Concerns(c)
        BY <2>1, <3>5, <4>1
      <4>3. Seen(d)' = more
        BY <1>7, <3>1 DEF Seen, With
      <4>4. rows = [w \in 1..n \cup {d.id} |-> IF w = d.id THEN d.row ELSE visits[w]]
        BY <1>4 DEF Seen, With
      <4>5. DOMAIN more = 1..n \cup {c.id, d.id} /\ d.id # c.id
        BY <1>6, <1>14, <2>3
      <4>6. more[c.id].lift # l /\ (c.id \in DOMAIN rows => rows[c.id].lift # l)
        <5>1. more[c.id] = c.row /\ c.row.lift \in Concerns(c)
          BY <1>6, <4>5 DEF Concerns
        <5>2. ASSUME c.id \in DOMAIN rows
              PROVE  rows[c.id].lift \in Concerns(c)
          <6>1. c.id \in 1..n /\ rows[c.id] = visits[c.id]
            BY <4>4, <4>5, <5>2
          <6>2. c.before = visits[c.id] /\ c.before # NoRow
            BY <1>1, <1>4, <6>1, VisitIsNoRow DEF PlanInv, Numbered, c
          <6> QED
            BY <6>1, <6>2 DEF Concerns
        <5> QED
          BY <4>2, <5>1, <5>2
      <4>7. \A w \in DOMAIN rows : w # c.id => w \in DOMAIN more /\ more[w] = rows[w]
        BY <1>6, <4>4, <4>5
      <4>8. \A w \in DOMAIN more : w # c.id => w \in DOMAIN rows
        BY <4>4, <4>5
      <4> HIDE DEF rows, more, l
      <4>9. /\ \A w : w \in DOMAIN rows /\ rows[w].lift = l <=> w \in DOMAIN more /\ more[w].lift = l
            /\ \A w \in DOMAIN rows : rows[w].lift = l => more[w] = rows[w]
        BY <4>6, <4>7, <4>8
      <4>10. Agrees(Overlaid(d.written)[l][at[2]], rows, l, at[2])
        BY <3>3 DEF Settles, l, rows
      <4>11. Agrees(Overlaid(d.written)[l][at[2]], more, l, at[2])
        BY <4>9, <4>10, SameOfLift
      <4> QED
        BY <3>7, <4>1, <4>3, <4>11 DEF l
    <3>9. \A l \in DOMAIN d.dates, m \in Period :
            DueAsDated(Overlaid(d.written)'[l][m], plan'[l][m], m, d.dates[l], PeriodOf(today'))
      BY <1>1, <3>3, <3>6, <3>7 DEF Settles
    <3>10. Touched(call'[q]) = Touched(d) /\ call'[q].dates = d.dates
      BY <1>7, <3>1 DEF Touched
    <3> QED
      BY <3>8, <3>9, <3>10 DEF Settles
  <2> QED
    BY <2>3 DEF InLine
<1>19. Present'
  <2>1. \A l \in Lift, m \in Period : plan[l][m] # NoRow => plan'[l][m] # NoRow
    BY <1>9
  <2>2. ASSUME NEW q \in Request, call'[q].step = "row"
        PROVE  plan'[call'[q].lift][call'[q].period] # NoRow
    <3>1. call'[q] = call[q] /\ call[q] \in RowCalls
      BY <1>7, <1>8, <2>2, CallKinds, MaintenanceAssumption DEF PlanInv, NoCall
    <3> QED
      BY <2>1, <2>2, <3>1 DEF PlanInv, Present, RowCalls
  <2>3. ASSUME run'.step = "write", NEW l \in Lift, run'.rows[l] # NoRow
        PROVE  plan'[l][run'.period] # NoRow
    <3>1. run' # NoRun
      BY <2>3, MaintenanceAssumption DEF NoRun
    <3>2. run.step = "write" /\ run'.rows = run.rows /\ run'.period = run.period /\ run \in Runs
      BY <1>11, <2>3, <3>1
    <3>3. run.period \in {PeriodOf(today), PeriodOf(today) + 1} /\ run # NoRun
      BY <3>2, RunKinds DEF PlanInv, Undisturbed
    <3>4. run.period \in Period
      BY <3>3, PeriodOfDay DEF PlanInv, Shapes
    <3> QED
      BY <2>1, <2>3, <3>2, <3>4 DEF PlanInv, Present
  <2> QED
    BY <2>2, <2>3 DEF Present
<1>20. Undisturbed'
  <2>1. run' # NoRun => /\ ~run'.alone
                        /\ run'.period \in {PeriodOf(today'), PeriodOf(today') + 1} \/ run'.step = "commit"
    BY <1>1, <1>11, RunKinds DEF PlanInv, Undisturbed
  <2> QED
    BY <2>1 DEF Undisturbed
<1> QED
  BY <1>12, <1>15, <1>16, <1>17, <1>18, <1>19, <1>20 DEF PlanInv

-----------------------------------------------------------------------------
(* The office                                                              *)

(* The plan is replaced, and whoever was at work with it knows.            *)
LEMMA PlanChangeKeeps ==
  ASSUME PlanInv, NEW answered \in SUBSET Request,
         plan' \in Plans, \A l \in Lift, m \in Period : plan[l][m] # NoRow => plan'[l][m] # NoRow,
         call' = [q \in Request |-> IF q \in answered THEN NoCall ELSE Unsettled[q]],
         UNCHANGED <<today, office, lift, visits>>,
         \/ run' = NoRun
         \/ run.step # None /\ run' = [run EXCEPT !.alone = FALSE]
  PROVE  PlanInv'
<1>1. ASSUME NEW q \in Request
      PROVE  /\ q \in answered => call'[q] = NoCall
             /\ q \notin answered /\ ~Visiting(q) => call'[q] = call[q]
             /\ q \notin answered /\ Visiting(q) =>
                  /\ call'[q] \in VisitCalls /\ call'[q].step = "visit" /\ ~call'[q].steady
                  /\ call'[q].id = call[q].id /\ call'[q].row = call[q].row
                  /\ call'[q].todo = call[q].todo /\ call'[q].before = call[q].before
                  /\ call'[q].dates = call[q].dates /\ call'[q].written = call[q].written
                  /\ call'[q].read = call[q].read /\ call'[q].alone = call[q].alone
  <2>1. call'[q] = IF q \in answered THEN NoCall
                   ELSE IF Visiting(q) THEN [call[q] EXCEPT !.steady = FALSE] ELSE call[q]
    BY DEF Unsettled, Visiting
  <2>2. ASSUME q \notin answered, Visiting(q)
        PROVE  call'[q] = [call[q] EXCEPT !.steady = FALSE] /\ call[q] \in VisitCalls
    BY <2>1, <2>2, CallKinds DEF PlanInv
  <2>3. ASSUME q \notin answered, Visiting(q)
        PROVE  /\ call'[q] \in VisitCalls /\ call'[q].step = "visit" /\ ~call'[q].steady
               /\ call'[q].id = call[q].id /\ call'[q].row = call[q].row
               /\ call'[q].todo = call[q].todo /\ call'[q].before = call[q].before
               /\ call'[q].dates = call[q].dates /\ call'[q].written = call[q].written
               /\ call'[q].read = call[q].read /\ call'[q].alone = call[q].alone
    BY <2>2, <2>3 DEF VisitCalls
  <2> QED
    BY <2>1, <2>3
<1>2. \A q \in Request : Visiting(q)' => q \notin answered /\ Visiting(q)
  BY <1>1, MaintenanceAssumption DEF Visiting, NoCall
<1>3. Facts' = Facts
  BY DEF Facts, office
<1>4. run' # NoRun => /\ run' \in Runs /\ run \in Runs /\ ~run'.alone /\ run'.step = run.step
                      /\ run'.period = run.period /\ run'.rows = run.rows
  <2>1. SUFFICES ASSUME run' # NoRun
                 PROVE  /\ run' \in Runs /\ run \in Runs /\ ~run'.alone /\ run'.step = run.step
                        /\ run'.period = run.period /\ run'.rows = run.rows
    OBVIOUS
  <2>2. run \in Runs /\ run' = [run EXCEPT !.alone = FALSE]
    BY <2>1, RunKinds DEF PlanInv
  <2> QED
    BY <2>2 DEF Runs
<1>5. Shapes'
  <2>1. \A q \in Request : call'[q] \in VisitCalls \cup RowCalls \cup {NoCall}
    BY <1>1, CallKinds DEF PlanInv, Shapes
  <2>2. call' \in [Request -> VisitCalls \cup RowCalls \cup {NoCall}]
    BY <2>1
  <2> QED
    BY <1>3, <1>4, <2>2 DEF PlanInv, Shapes
<1>6. Numbered'
  <2>1. \A q \in Request : Visiting(q)' =>
          Visiting(q) /\ call'[q].id = call[q].id /\ call'[q].before = call[q].before
    BY <1>1, <1>2
  <2> QED
    BY <2>1 DEF PlanInv, Numbered
<1>7. InTurn'
  <2>1. ASSUME NEW q \in Request, Visiting(q)'
        PROVE  /\ Visiting(q) /\ Concerns(call'[q]) = Concerns(call[q])
               /\ call'[q].dates = call[q].dates
               /\ call'[q].todo = call[q].todo /\ call'[q].written = call[q].written
    BY <1>1, <1>2, <2>1 DEF Concerns
  <2> QED
    BY <2>1 DEF PlanInv, InTurn
<1>8. Current'
  <2>1. ASSUME NEW q \in Request, Visiting(q)', call'[q].alone
        PROVE  ReadAsIs(call'[q], Seen(call[q])')
    <3>1. /\ Visiting(q) /\ call[q].alone /\ call'[q].id = call[q].id /\ call'[q].row = call[q].row
          /\ call'[q].todo = call[q].todo /\ call'[q].dates = call[q].dates
          /\ call'[q].read = call[q].read
      BY <1>1, <1>2, <2>1
    <3>2. ReadAsIs(call[q], Seen(call[q]))
      BY <3>1 DEF PlanInv, Current
    <3>3. Seen(call[q])' = Seen(call[q])
      BY <3>1 DEF Seen, With
    <3> QED
      BY <3>1, <3>2, <3>3 DEF ReadAsIs
  <2> QED
    BY <2>1 DEF Current
<1>9. InLine'
  BY <1>1, <1>2 DEF InLine
<1>10. Present'
  <2>1. ASSUME NEW q \in Request, call'[q].step = "row"
        PROVE  plan'[call'[q].lift][call'[q].period] # NoRow
    <3>1. call'[q] = call[q] /\ call[q] \in RowCalls
      BY <1>1, <2>1, CallKinds, MaintenanceAssumption DEF PlanInv, NoCall
    <3> QED
      BY <2>1, <3>1 DEF PlanInv, Present, RowCalls
  <2>2. ASSUME run'.step = "write", NEW l \in Lift, run'.rows[l] # NoRow
        PROVE  plan'[l][run'.period] # NoRow
    <3>1. run' # NoRun
      BY <2>2, MaintenanceAssumption DEF NoRun
    <3>2. run.step = "write" /\ run'.rows = run.rows /\ run'.period = run.period /\ run # NoRun
      BY <1>4, <2>2, <3>1, RunKinds DEF PlanInv
    <3>3. run.period \in Period
      BY <3>2, PeriodOfDay DEF PlanInv, Shapes, Undisturbed
    <3> QED
      BY <2>2, <3>2, <3>3 DEF PlanInv, Present
  <2> QED
    BY <2>1, <2>2 DEF Present
<1>11. Undisturbed'
  <2>1. run' # NoRun => /\ ~run'.alone
                        /\ run'.period \in {PeriodOf(today'), PeriodOf(today') + 1} \/ run'.step = "commit"
    BY <1>4, RunKinds DEF PlanInv, Undisturbed
  <2> QED
    BY <2>1 DEF Undisturbed
<1> QED
  BY <1>5, <1>6, <1>7, <1>8, <1>9, <1>10, <1>11 DEF PlanInv

(* The office saves a row it was handed.                                   *)
LEMMA AssignKeeps ==
  ASSUME PlanInv, NEW r \in Request, call[r].step = "row", NEW row \in Rows \ {NoRow}, Assign(r, row)
  PROVE  PlanInv'
<1>1. call[r] \in RowCalls
  BY CallKinds DEF PlanInv
<1>2. call[r].lift \in Lift /\ call[r].period \in Period
  BY <1>1 DEF RowCalls
<1>3. plan' = [plan EXCEPT ![call[r].lift][call[r].period] = row]
  BY DEF Assign
<1>4. plan \in Plans
  BY DEF PlanInv, Shapes
<1>5. plan' \in Plans /\ \A l \in Lift, m \in Period : plan[l][m] # NoRow => plan'[l][m] # NoRow
  BY <1>2, <1>3, <1>4 DEF Plans
<1>6. call' = [q \in Request |-> IF q \in {r} THEN NoCall ELSE Unsettled[q]]
  BY DEF Assign, Unsettled
<1>7. run' = NoRun \/ (run.step # None /\ run' = [run EXCEPT !.alone = FALSE])
  BY RunKinds DEF PlanInv, Assign
<1>8. UNCHANGED <<today, office, lift, visits>>
  BY DEF Assign
<1> DEFINE answered == {r}
<1>9. answered \in SUBSET Request /\ call' = [q \in Request |-> IF q \in answered THEN NoCall ELSE Unsettled[q]]
  BY <1>6
<1> HIDE DEF answered
<1> QED
  BY <1>5, <1>7, <1>8, <1>9, PlanChangeKeeps

(* The office saves a row edited by hand, or rows it assigned in bulk.     *)
LEMMA OfficeKeeps ==
  ASSUME PlanInv, NEW r \in Request, EditPlannedVisit(r) \/ BulkAssign(r)
  PROVE  PlanInv'
<1>1. call[r].step = "row"
  BY DEF EditPlannedVisit, BulkAssign
<1>2. call[r] \in RowCalls
  BY <1>1, CallKinds DEF PlanInv
<1>3. call[r].row \in Rows \ {NoRow} /\ call[r].lift \in Lift /\ call[r].period \in Period
  BY <1>2 DEF RowCalls
<1>4. plan[call[r].lift][call[r].period] \in Rows \ {NoRow}
  BY <1>1, <1>3 DEF PlanInv, Shapes, Plans, Present
<1>5. \A row \in Rows \ {NoRow}, t \in Technician \cup {None} :
        [row EXCEPT !.technician = t, !.edited = TRUE] \in Rows \ {NoRow}
  BY DEF Rows, NoRow
<1>6. CASE EditPlannedVisit(r)
  <2>1. PICK t \in Technician \cup {None} :
          Assign(r, [call[r].row EXCEPT !.technician = t, !.edited = TRUE])
    BY <1>6 DEF EditPlannedVisit
  <2> QED
    BY <1>1, <1>3, <1>5, <2>1, AssignKeeps
<1>7. CASE BulkAssign(r)
  <2>1. PICK t \in Technician :
          Assign(r, [plan[call[r].lift][call[r].period] EXCEPT !.technician = t, !.edited = TRUE])
    BY <1>7 DEF BulkAssign
  <2> QED
    BY <1>1, <1>4, <1>5, <2>1, AssignKeeps
<1> QED
  BY <1>6, <1>7

(* A lift's cover or a customer's technician changes.                      *)
LEMMA FactsKeep ==
  ASSUME PlanInv, ChangeFacts
  PROVE  PlanInv'
<1>1. /\ UNCHANGED <<today, lift, visits, plan, call>>
      /\ run' = IF run.step = None THEN run ELSE [run EXCEPT !.alone = FALSE]
  BY DEF ChangeFacts
<1>2. covered' \subseteq Lift /\ default' \in Technician \cup {None}
  BY DEF ChangeFacts, PlanInv, Shapes, Facts, AllFacts
<1>3. /\ run' # NoRun => /\ run' \in Runs /\ run \in Runs /\ ~run'.alone
                         /\ run'.period = run.period /\ run'.rows = run.rows
      /\ run'.step = run.step
      /\ run' \in Runs \cup {NoRun}
  <2>1. CASE run = NoRun
    BY <1>1, <2>1, RunKinds DEF PlanInv
  <2>2. CASE run # NoRun
    <3>1. run' = [run EXCEPT !.alone = FALSE] /\ run \in Runs
      BY <1>1, <2>2, RunKinds DEF PlanInv
    <3> QED
      BY <3>1 DEF Runs
  <2> QED
    BY <2>1, <2>2
<1>4. Shapes'
  BY <1>1, <1>2, <1>3 DEF PlanInv, Shapes, Facts, AllFacts
<1>5. \A q \in Request : /\ Visiting(q)' = Visiting(q) /\ Seen(call[q])' = Seen(call[q])
                         /\ Overlaid(call[q].written)' = Overlaid(call[q].written)
  BY <1>1, SeenStays DEF Visiting
<1>6. Numbered' /\ InTurn' /\ Current' /\ InLine'
  <2>1. Numbered'
    BY <1>1, <1>5 DEF PlanInv, Numbered
  <2>2. InTurn'
    BY <1>1, <1>5 DEF PlanInv, InTurn
  <2>3. Current'
    BY <1>1, <1>5 DEF PlanInv, Current
  <2>4. InLine'
    BY <1>1, <1>5 DEF PlanInv, InLine
  <2> QED
    BY <2>1, <2>2, <2>3, <2>4
<1>7. Present'
  <2>1. run'.step = "write" => run.step = "write" /\ run'.rows = run.rows /\ run'.period = run.period
    BY <1>3, MaintenanceAssumption DEF NoRun
  <2> QED
    BY <1>1, <2>1 DEF PlanInv, Present
<1>8. Undisturbed'
  <2>1. run' # NoRun => /\ ~run'.alone
                        /\ run'.period \in {PeriodOf(today'), PeriodOf(today') + 1} \/ run'.step = "commit"
    BY <1>1, <1>3, RunKinds DEF PlanInv, Undisturbed
  <2> QED
    BY <2>1 DEF Undisturbed
<1> QED
  BY <1>4, <1>6, <1>7, <1>8 DEF PlanInv

-----------------------------------------------------------------------------
(* The job                                                                 *)

(* What a run changes of itself concerns nobody else.                      *)
LEMMA RunKeeps ==
  ASSUME PlanInv, run' \in Runs \cup {NoRun}, UNCHANGED <<today, calls, office, lift, visits, plan, call>>,
         run'.step = "write" => \A l \in Lift : run'.rows[l] # NoRow => plan[l][run'.period] # NoRow,
         Undisturbed'
  PROVE  PlanInv'
<1>1. Shapes' /\ Facts' = Facts
  BY DEF PlanInv, Shapes, Facts, office
<1>2. \A q \in Request : /\ Visiting(q)' = Visiting(q) /\ Seen(call[q])' = Seen(call[q])
                         /\ Overlaid(call[q].written)' = Overlaid(call[q].written)
  BY SeenStays DEF Visiting
<1>3. Numbered'
  BY <1>2 DEF PlanInv, Numbered
<1>4. InTurn'
  BY <1>2 DEF PlanInv, InTurn
<1>5. Current'
  BY <1>2 DEF PlanInv, Current
<1>6. InLine'
  BY <1>2 DEF PlanInv, InLine
<1>7. Present'
  BY DEF PlanInv, Present
<1> QED
  BY <1>1, <1>3, <1>4, <1>5, <1>6, <1>7 DEF PlanInv

(* The job begins, and reads the facts.                                    *)
LEMMA BeginKeeps ==
  ASSUME PlanInv, BeginRun
  PROVE  PlanInv'
<1> DEFINE p == PeriodOf(today)
           n == [step |-> "write", period |-> p, facts |-> Facts, rows |-> [l \in Lift |-> plan[l][p]],
                 alone |-> TRUE, written |-> NoRows]
<1>1. run' = n /\ UNCHANGED <<today, calls, office, lift, visits, plan, call>>
  BY DEF BeginRun
<1>2. p \in Period /\ p \in Nat
  BY PeriodOfDay DEF PlanInv, Shapes
<1> HIDE DEF p
<1>3. /\ n.step = "write" /\ n.period = p /\ n.facts = Facts /\ n.rows = [l \in Lift |-> plan[l][p]]
      /\ n.written = NoRows
  OBVIOUS
<1>4. n \in Runs
  <2>1. [l \in Lift |-> plan[l][p]] \in [Lift -> Rows] /\ Facts \in AllFacts
    BY <1>2 DEF PlanInv, Shapes, Plans
  <2>2. NoRows \in Plans
    BY NoRowIsRow DEF NoRows, Plans
  <2> QED
    BY <1>2, <2>1, <2>2 DEF Runs
<1> HIDE DEF n
<1>5. Facts' = Facts /\ plan' = plan /\ PeriodOf(today') = p
  BY <1>1 DEF Facts, office, p
<1>6. Dealt' = {}
  <2>1. run'.step # "commit" /\ run'.period = p
    BY <1>1, <1>3
  <2>2. Dealt' = {m \in {p, p + 1} : run'.step = "commit" \/ m < run'.period}
    BY <1>5 DEF Dealt
  <2> QED
    BY <1>2, <2>1, <2>2
<1>7. Undisturbed'
  <2>1. \A l \in Lift, m \in Period : run'.written[l][m] = NoRow
    BY <1>1, <1>3 DEF NoRows
  <2> QED
    BY <1>1, <1>3, <1>5, <1>6, <2>1 DEF Undisturbed
<1>8. \A l \in Lift : n.rows[l] # NoRow => plan[l][n.period] # NoRow
  BY <1>3
<1> QED
  BY <1>1, <1>4, <1>7, <1>8, RunKeeps

(* What the job makes of a row is a row, even of one it read before others *)
(* wrote it.                                                               *)
LEMMA GeneratedIsRow ==
  ASSUME NEW n \in Nat, visits \in [1..n -> Visits], NEW row \in Rows, NEW now \in Rows,
         row # NoRow => now # NoRow, NEW facts \in AllFacts, NEW l \in Lift, NEW m \in Period
  PROVE  Generated(row, now, l, m, facts) \in Rows
<1> DEFINE due == DueDateIn(m, facts.lift[l])
           followed == FollowTheFacts(row, m, due, facts.default)
           written == [now EXCEPT !.status = IF followed.status # row.status THEN followed.status ELSE @,
                                  !.due = IF followed.due # row.due THEN followed.due ELSE @,
                                  !.technician = IF followed.technician # row.technician
                                                 THEN followed.technician ELSE @]
           full == [status : {"planned", "done", "cancelled"}, due : Nat,
                    technician : Technician \cup {None}, visit : Nat, edited : BOOLEAN]
<1>1. facts.lift[l] \in Nat /\ facts.default \in Technician \cup {None}
  BY DEF AllFacts
<1>2. due \in Nat
  BY <1>1, DueIsDay
<1>3. Generated(row, now, l, m, facts) =
        CASE l \in facts.covered /\ row = NoRow ->
               [NoRow EXCEPT !.status = "planned", !.due = due, !.technician = facts.default]
          [] l \in facts.covered /\ row # NoRow /\ ~row.edited ->
               IF followed.status = row.status THEN written ELSE Synced(written, visits, l, m)
          [] l \notin facts.covered /\ row.status = "planned" /\ ~row.edited ->
               [now EXCEPT !.status = "cancelled"]
          [] OTHER -> now
  BY DEF Generated
<1>4. [NoRow EXCEPT !.status = "planned", !.due = due, !.technician = facts.default] \in Rows
  BY <1>1, <1>2 DEF NoRow, Rows, Null
<1>5. ASSUME row # NoRow
      PROVE  /\ written \in Rows /\ Synced(written, visits, l, m) \in Rows
             /\ [now EXCEPT !.status = "cancelled"] \in Rows
  <2>1. row \in full /\ now \in full
    BY <1>5 DEF Rows
  <2>2. followed \in full
    <3> DEFINE open == IF row.status = "cancelled" THEN [row EXCEPT !.status = "planned"] ELSE row
    <3>1. open \in full
      BY <2>1
    <3>2. followed = IF open.status # "planned" THEN open
                     ELSE [open EXCEPT !.due = due, !.technician = IF @ = None THEN facts.default ELSE @]
      BY DEF FollowTheFacts
    <3> HIDE DEF open, followed, due
    <3> QED
      BY <1>1, <1>2, <3>1, <3>2
  <2> HIDE DEF followed
  <2>3. written \in full /\ [now EXCEPT !.status = "cancelled"] \in full
    BY <2>1, <2>2
  <2>4. full \subseteq Rows
    BY DEF Rows
  <2> HIDE DEF written, full
  <2> QED
    BY <2>3, <2>4, SyncFollows
<1>6. row = NoRow => row.status # "planned"
  BY DEF NoRow
<1> HIDE DEF followed, written, due
<1>7. CASE l \in facts.covered
  BY <1>3, <1>4, <1>5, <1>7
<1>8. CASE l \notin facts.covered
  BY <1>3, <1>5, <1>6, <1>8
<1> QED
  BY <1>7, <1>8

(* The job makes the rows of a period from what it has read.               *)
LEMMA WritePeriodKeeps ==
  ASSUME PlanInv, WritePeriod
  PROVE  PlanInv'
<1> DEFINE p == PeriodOf(today)
           m == run.period
           made(l) == Generated(run.rows[l], plan[l][m], l, m, run.facts)
           wrote == [l \in Lift |-> [run.written[l] EXCEPT ![m] =
                                       IF made(l) = plan[l][m] THEN NoRow ELSE made(l)]]
           rows == [l \in Lift |-> IF m = p THEN plan[l][m + 1] ELSE NoRow]
<1>1. /\ run.step = "write" /\ UNCHANGED <<today, calls, office, lift, visits, plan, call>>
      /\ run' = [run EXCEPT !.written = [l \in Lift |-> [@[l] EXCEPT ![m] =
                                           IF made(l) = plan[l][m] THEN NoRow ELSE made(l)]],
                            !.step = IF m = p THEN "write" ELSE "commit",
                            !.period = p + 1, !.rows = rows]
  BY DEF WritePeriod
<1>2. run \in Runs /\ run # NoRun
  BY <1>1, RunKinds, MaintenanceAssumption DEF PlanInv, NoRun
<1>3. /\ run.facts \in AllFacts /\ run.rows \in [Lift -> Rows] /\ run.written \in Plans
      /\ run.period \in Nat /\ run.alone \in BOOLEAN
  BY <1>2 DEF Runs
<1>4. p \in Period /\ p + 1 \in Period /\ p \in Nat
  BY PeriodOfDay DEF PlanInv, Shapes
<1>5. m \in {p, p + 1}
  BY <1>1, <1>2 DEF PlanInv, Undisturbed
<1>6. PICK n \in Nat : visits \in [1..n -> Visits]
  BY DEF PlanInv, Numbered
<1>7. plan \in Plans /\ \A l \in Lift : plan[l][m] \in Rows
  BY <1>4, <1>5 DEF PlanInv, Shapes, Plans
<1>8. \A l \in Lift : made(l) \in Rows
  <2> TAKE l \in Lift
  <2>1. run.rows[l] # NoRow => plan[l][m] # NoRow
    BY <1>1 DEF PlanInv, Present
  <2> QED
    BY <1>3, <1>4, <1>5, <1>6, <1>7, <2>1, GeneratedIsRow
<1> HIDE DEF p, m, made
<1>9. wrote \in Plans
  BY <1>3, <1>4, <1>5, <1>8, NoRowIsRow DEF Plans
<1>10. rows \in [Lift -> Rows]
  BY <1>4, <1>5, <1>7, NoRowIsRow DEF Plans
<1>11. run' = [run EXCEPT !.written = wrote, !.step = IF m = p THEN "write" ELSE "commit",
                          !.period = p + 1, !.rows = rows]
  BY <1>1, <1>2 DEF Runs
<1> HIDE DEF wrote, rows
<1>12. /\ run' \in Runs /\ run'.written = wrote /\ run'.step = IF m = p THEN "write" ELSE "commit"
       /\ run'.period = p + 1 /\ run'.rows = rows /\ run'.alone = run.alone /\ run'.facts = run.facts
  <2> DEFINE step == IF m = p THEN "write" ELSE "commit"
  <2>1. step \in {"write", "commit"} /\ p + 1 \in Nat
    BY <1>4
  <2>2. run' = [run EXCEPT !.written = wrote, !.step = step, !.period = p + 1, !.rows = rows]
    BY <1>11
  <2> HIDE DEF step
  <2>3. /\ run' \in Runs /\ run'.written = wrote /\ run'.step = step
        /\ run'.period = p + 1 /\ run'.rows = rows /\ run'.alone = run.alone /\ run'.facts = run.facts
    BY <1>2, <1>9, <1>10, <2>1, <2>2 DEF Runs
  <2> QED
    BY <2>3 DEF step
<1>13. run'.step = "write" => run'.rows = [l \in Lift |-> plan[l][run'.period]]
  BY <1>12 DEF rows
<1>14. Facts' = Facts /\ plan' = plan /\ PeriodOf(today') = p
  BY <1>1 DEF Facts, office, p
<1>15. \A row, l, k : MadeOf(row, l, k)' = MadeOf(row, l, k)
  BY <1>1, <1>14 DEF MadeOf, Generated
<1>16. Dealt' = Dealt \cup {m} /\ m \notin Dealt
  <2>1. Dealt = {k \in {p, p + 1} : k < m}
    BY <1>1 DEF Dealt, p, m
  <2>2. Dealt' = {k \in {p, p + 1} : run'.step = "commit" \/ k < p + 1}
    BY <1>12, <1>14 DEF Dealt
  <2>3. CASE m = p
    BY <1>4, <1>12, <2>1, <2>2, <2>3
  <2>4. CASE m = p + 1
    BY <1>4, <1>12, <2>1, <2>2, <2>4
  <2> QED
    BY <1>5, <2>3, <2>4
<1>17. Undisturbed'
  <2>1. ASSUME run.alone
        PROVE  /\ run'.facts = Facts
               /\ \A l \in Lift, k \in Period :
                    run'.written[l][k] = IF k \in Dealt' /\ MadeOf(plan[l][k], l, k) # plan[l][k]
                                         THEN MadeOf(plan[l][k], l, k) ELSE NoRow
    <3>1. run.facts = Facts /\ run.rows = [l \in Lift |-> plan[l][m]]
      BY <1>1, <1>2, <2>1 DEF PlanInv, Undisturbed, m
    <3>2. \A l \in Lift : made(l) = MadeOf(plan[l][m], l, m)
      BY <3>1 DEF made, MadeOf, m
    <3>3. \A l \in Lift, k \in Period :
            run.written[l][k] = IF k \in Dealt /\ MadeOf(plan[l][k], l, k) # plan[l][k]
                                THEN MadeOf(plan[l][k], l, k) ELSE NoRow
      BY <1>2, <2>1 DEF PlanInv, Undisturbed
    <3>4. \A l \in Lift, k \in Period :
            wrote[l][k] = IF k = m THEN IF made(l) = plan[l][m] THEN NoRow ELSE made(l)
                          ELSE run.written[l][k]
      BY <1>3 DEF wrote, Plans
    <3> QED
      BY <1>12, <1>16, <3>1, <3>2, <3>3, <3>4
  <2>2. run'.period \in {PeriodOf(today'), PeriodOf(today') + 1}
    BY <1>12, <1>14
  <2> QED
    BY <1>12, <1>13, <1>14, <1>15, <2>1, <2>2 DEF Undisturbed
<1>18. run'.step = "write" => \A l \in Lift : run'.rows[l] # NoRow => plan[l][run'.period] # NoRow
  BY <1>13
<1> QED
  BY <1>1, <1>12, <1>17, <1>18, RunKeeps

(* The job commits what it made, or nothing.                               *)
LEMMA EndRunKeeps ==
  ASSUME PlanInv, CommitRun \/ AbortRun
  PROVE  PlanInv'
<1>1. CASE CommitRun
  <2>1. /\ plan' = Overlaid(run.written) /\ run' = NoRun /\ call' = Unsettled /\ run.step = "commit"
        /\ UNCHANGED <<today, office, lift, visits>>
    BY <1>1 DEF CommitRun
  <2>2. run \in Runs
    BY <2>1, RunKinds, MaintenanceAssumption DEF PlanInv
  <2>3. run.written \in Plans /\ plan \in Plans
    BY <2>2 DEF Runs, PlanInv, Shapes
  <2>4. plan' \in Plans /\ \A l \in Lift, m \in Period : plan[l][m] # NoRow => plan'[l][m] # NoRow
    BY <2>1, <2>3, OverlaidIsPlan, OverlaidRow
  <2> DEFINE answered == {}
  <2>5. /\ answered \in SUBSET Request
        /\ call' = [q \in Request |-> IF q \in answered THEN NoCall ELSE Unsettled[q]]
    BY <2>1 DEF Unsettled
  <2> HIDE DEF answered
  <2> QED
    BY <2>1, <2>4, <2>5, PlanChangeKeeps
<1>2. CASE AbortRun
  <2>1. run' = NoRun /\ UNCHANGED <<today, calls, office, lift, visits, plan, call>>
    BY <1>2 DEF AbortRun
  <2>2. Undisturbed'
    BY <2>1 DEF Undisturbed
  <2>3. run'.step # "write"
    BY <2>1, MaintenanceAssumption DEF NoRun
  <2> QED
    BY <2>1, <2>2, <2>3, RunKeeps
<1> QED
  BY <1>1, <1>2

(* A day begins with nothing under way.                                    *)
LEMMA TickKeeps ==
  ASSUME PlanInv, Tick
  PROVE  PlanInv'
<1>1. /\ today' = today + 1 /\ today < MaxDay /\ run' = NoRun
      /\ \A q \in Request : call[q] = NoCall
      /\ UNCHANGED <<calls, office, lift, visits, plan, call, run>>
  BY DEF Tick
<1>2. Shapes'
  <2>1. today' \in 1..MaxDay
    BY <1>1, VisitDays DEF PlanInv, Shapes
  <2> QED
    BY <1>1, <2>1 DEF PlanInv, Shapes, Facts, office
<1>3. \A q \in Request : ~Visiting(q)' /\ call'[q].step # "row"
  BY <1>1, MaintenanceAssumption DEF Visiting, NoCall
<1>4. Numbered'
  BY <1>1, <1>3 DEF PlanInv, Numbered
<1>5. InTurn' /\ Current' /\ InLine'
  BY <1>3 DEF InTurn, Current, InLine
<1>6. Present' /\ Undisturbed'
  BY <1>1, <1>3, MaintenanceAssumption DEF Present, Undisturbed, NoRun
<1> QED
  BY <1>2, <1>4, <1>5, <1>6 DEF PlanInv

-----------------------------------------------------------------------------
(* Every step                                                              *)

(* The invariant holds of an empty record and an empty plan.               *)
LEMMA PlanStart == Init => PlanInv
<1> SUFFICES ASSUME Init PROVE PlanInv
  OBVIOUS
<1>1. \A q \in Request : call[q] = NoCall /\ ~Visiting(q) /\ call[q].step # "row"
  BY MaintenanceAssumption DEF Init, Visiting, NoCall
<1>2. Shapes
  <2>1. today \in 1..MaxDay
    BY MaintenanceAssumption DEF Init
  <2>2. Facts \in AllFacts
    BY DEF Init, Facts, AllFacts, Null
  <2>3. plan \in Plans
    BY NoRowIsRow DEF Init, Plans
  <2> QED
    BY <2>1, <2>2, <2>3 DEF Init, Shapes
<1>3. Numbered
  <2>1. visits \in [1..0 -> Visits]
    BY DEF Init
  <2> QED
    BY <1>1, <2>1 DEF Numbered
<1>4. InTurn /\ Current /\ InLine
  BY <1>1 DEF InTurn, Current, InLine
<1>5. Present /\ Undisturbed
  BY <1>1, MaintenanceAssumption DEF Init, Present, Undisturbed, NoRun
<1> QED
  BY <1>2, <1>3, <1>4, <1>5 DEF PlanInv

(* Each action keeps the invariant.                                        *)
LEMMA PlanNext == PlanInv /\ [Next]_vars => PlanInv'
<1> SUFFICES ASSUME PlanInv, [Next]_vars PROVE PlanInv'
  OBVIOUS
<1>1. ASSUME NEW r \in Request, RecordVisit(r)
      PROVE  PlanInv'
  BY <1>1, RecordKeeps
<1>2. ASSUME NEW r \in Request, UpdateLift(r)
      PROVE  PlanInv'
  BY <1>2, UpdateKeeps
<1>3. ASSUME NEW r \in Request, CommitVisit(r)
      PROVE  PlanInv'
  BY <1>3, CommitVisitKeeps
<1>4. ASSUME NEW r \in Request, Abort(r)
      PROVE  PlanInv'
  <2> DEFINE c == NoCall
  <2>1. call' = [call EXCEPT ![r] = c] /\ UNCHANGED <<today, office, lift, visits, plan, run>>
    BY <1>4 DEF Abort
  <2>2. c = NoCall
    OBVIOUS
  <2> HIDE DEF c
  <2> QED
    BY <2>1, <2>2, CallKeeps
<1>5. ASSUME NEW r \in Request, NEW v \in DOMAIN visits, EditVisit(r, v) \/ DeleteVisit(r, v)
      PROVE  PlanInv'
  BY <1>5, EditKeeps, DeleteKeeps
<1>6. ASSUME NEW r \in Request, EditPlannedVisit(r) \/ BulkAssign(r)
      PROVE  PlanInv'
  BY <1>6, OfficeKeeps
<1>7. ASSUME NEW r \in Request, NEW l \in Lift, NEW m \in Period, FetchRow(r, l, m)
      PROVE  PlanInv'
  <2> DEFINE c == [step |-> "row", lift |-> l, period |-> m, row |-> plan[l][m]]
  <2>1. /\ call' = [call EXCEPT ![r] = c] /\ UNCHANGED <<today, office, lift, visits, plan, run>>
        /\ plan[l][m] # NoRow
    BY <1>7 DEF FetchRow
  <2>2. c \in RowCalls /\ plan[c.lift][c.period] # NoRow
    BY <2>1 DEF PlanInv, Shapes, Plans, RowCalls
  <2> HIDE DEF c
  <2> QED
    BY <2>1, <2>2, CallKeeps
<1>8. ASSUME ChangeFacts
      PROVE  PlanInv'
  BY <1>8, FactsKeep
<1>9. ASSUME GeneratePlan
      PROVE  PlanInv'
  BY <1>9, BeginKeeps, WritePeriodKeeps, EndRunKeeps DEF GeneratePlan
<1>10. ASSUME Tick
       PROVE  PlanInv'
  BY <1>10, TickKeeps
<1>11. ASSUME UNCHANGED vars
       PROVE  PlanInv'
  <2>1. UNCHANGED <<today, calls, office, lift, visits, plan, call, run>>
    BY <1>11 DEF vars, office
  <2>2. run' \in Runs \cup {NoRun} /\ Undisturbed'
    BY <2>1, UndisturbedStays DEF PlanInv, Shapes
  <2>3. run'.step = "write" => \A l \in Lift : run'.rows[l] # NoRow => plan[l][run'.period] # NoRow
    BY <2>1 DEF PlanInv, Present
  <2> QED
    BY <2>1, <2>2, <2>3, RunKeeps
<1> QED
  BY <1>1, <1>2, <1>3, <1>4, <1>5, <1>6, <1>7, <1>8, <1>9, <1>10, <1>11
     DEF Next, MaintenanceVisitViewSet, PlannedVisitViewSet

(* The invariant of every behaviour.                                       *)
LEMMA PlanInvariant == Spec => []PlanInv
  BY PlanStart, PlanNext, PTL DEF Spec

-----------------------------------------------------------------------------
(* The theorems                                                            *)

(* What a commit of the job nobody disturbed makes of a row.               *)
LEMMA RunCommits ==
  ASSUME PlanInv, run.step = "commit", run.alone, CommitRun, NEW l \in Lift, NEW m \in Period
  PROVE  /\ plan[l][m] \in Rows
         /\ plan'[l][m] \in {plan[l][m], MadeOf(plan[l][m], l, m)}
         /\ m \in {PeriodOf(today), PeriodOf(today) + 1} => plan'[l][m] = MadeOf(plan[l][m], l, m)
<1>1. run # NoRun
  BY MaintenanceAssumption DEF NoRun
<1>2. run.written[l][m] = IF m \in Dealt /\ MadeOf(plan[l][m], l, m) # plan[l][m]
                          THEN MadeOf(plan[l][m], l, m) ELSE NoRow
  BY <1>1 DEF PlanInv, Undisturbed
<1>3. plan'[l][m] = IF run.written[l][m] # NoRow THEN run.written[l][m] ELSE plan[l][m]
  BY OverlaidRow DEF CommitRun
<1>4. Dealt = {PeriodOf(today), PeriodOf(today) + 1}
  BY DEF Dealt
<1>5. plan[l][m] \in Rows
  BY DEF PlanInv, Shapes, Plans
<1>6. MadeOf(plan[l][m], l, m) = NoRow => plan[l][m] = NoRow
  BY <1>5, MadeKeeps DEF PlanInv, Numbered, Shapes
<1> QED
  BY <1>2, <1>3, <1>4, <1>5, <1>6

(* generate_plan leaves what a person edited, a month's work and a         *)
(* technician who was chosen, whatever the visits and the office had made  *)
(* of the plan before it.                                                  *)
THEOREM NightAlwaysLeavesDecisions == Spec => NightLeavesDecisions
<1>1. PlanInv /\ [Next]_vars =>
        [run.step = "commit" /\ run.alone /\ CommitRun =>
           \A l \in Lift, m \in Period :
             /\ plan[l][m].edited => plan'[l][m] = plan[l][m]
             /\ plan[l][m].status = "done" => plan'[l][m].status = "done"
             /\ plan[l][m].technician # None => plan'[l][m].technician = plan[l][m].technician]_vars
  <2>1. ASSUME PlanInv, run.step = "commit", run.alone, CommitRun, NEW l \in Lift, NEW m \in Period
        PROVE  /\ plan[l][m].edited => plan'[l][m] = plan[l][m]
               /\ plan[l][m].status = "done" => plan'[l][m].status = "done"
               /\ plan[l][m].technician # None => plan'[l][m].technician = plan[l][m].technician
    <3> DEFINE row == plan[l][m]
               made == MadeOf(row, l, m)
    <3>1. row \in Rows /\ plan'[l][m] \in {row, made}
      BY <2>1, RunCommits
    <3> HIDE DEF row
    <3>2. /\ row.edited => made = row
          /\ row.status = "done" => made.status = "done"
          /\ row.technician # None => made.technician = row.technician
      BY <2>1, <3>1, MadeKeeps DEF PlanInv, Numbered, Shapes
    <3> HIDE DEF made
    <3> QED
      BY <3>1, <3>2 DEF row
  <2> QED
    BY <2>1
<1> QED
  BY PlanInvariant, <1>1, PTL DEF Spec, NightLeavesDecisions

(* After a run that nothing disturbed every covered lift has its rows, and *)
(* what it reopened follows the visits; generating again is the identity.  *)
THEOREM SecondRunAlwaysChangesNothing == Spec => SecondRunChangesNothing
<1>1. PlanInv /\ [Next]_vars =>
        [run.step = "commit" /\ run.alone /\ CommitRun =>
           \A l \in Lift, m \in {PeriodOf(today), PeriodOf(today) + 1} :
             /\ l \in covered => plan'[l][m] # NoRow
             /\ Generated(plan'[l][m], plan'[l][m], l, m, Facts) = plan'[l][m]
             /\ ~plan'[l][m].edited /\ plan'[l][m].status # "cancelled" /\ plan[l][m].status = "cancelled"
                  => Follows(plan'[l][m], visits, l, m)]_vars
  <2>1. ASSUME PlanInv, run.step = "commit", run.alone, CommitRun, NEW l \in Lift,
               NEW m \in {PeriodOf(today), PeriodOf(today) + 1}
        PROVE  /\ l \in covered => plan'[l][m] # NoRow
               /\ Generated(plan'[l][m], plan'[l][m], l, m, Facts) = plan'[l][m]
               /\ ~plan'[l][m].edited /\ plan'[l][m].status # "cancelled"
                    /\ plan[l][m].status = "cancelled" => Follows(plan'[l][m], visits, l, m)
    <3> DEFINE row == plan[l][m]
               made == MadeOf(row, l, m)
    <3>1. m \in Period
      BY <2>1, PeriodOfDay DEF PlanInv, Shapes
    <3>2. row \in Rows /\ plan'[l][m] = made
      BY <2>1, <3>1, RunCommits
    <3> HIDE DEF row
    <3>3. /\ made = NoRow => l \notin covered
          /\ ~made.edited /\ made.status # "cancelled" /\ row.status = "cancelled"
               => Follows(made, visits, l, m)
          /\ MadeOf(made, l, m) = made
      BY <2>1, <3>1, <3>2, MadeKeeps DEF PlanInv, Numbered, Shapes
    <3> HIDE DEF made
    <3>4. Generated(made, made, l, m, Facts) = made
      BY <3>3 DEF MadeOf
    <3> QED
      BY <3>2, <3>3, <3>4 DEF row
  <2> QED
    BY <2>1
<1> QED
  BY PlanInvariant, <1>1, PTL DEF Spec, SecondRunChangesNothing

(* Whatever visits are recorded, corrected and deleted at once: each       *)
(* leaves the rows it touched as the surviving visits say.                 *)
THEOREM VisitsAlwaysSettleThePlan == Spec => VisitsSettleThePlan
<1>1. PlanInv /\ [Next]_vars =>
        [\A r \in Request :
           call[r].step = "visit" /\ call[r].steady /\ CommitVisit(r) =>
             \A at \in Touched(call[r]) \cup {<<visits[v].lift, PeriodOf(visits[v].on)>> :
                                                v \in DOMAIN visits \cap {call[r].id}} :
               \/ plan'[at[1]][at[2]].status \in {"none", "cancelled"}
               \/ Follows(plan'[at[1]][at[2]], visits', at[1], at[2])]_vars
  <2>1. ASSUME PlanInv, NEW r \in Request, call[r].step = "visit", call[r].steady, CommitVisit(r),
               NEW at \in Touched(call[r]) \cup {<<visits[v].lift, PeriodOf(visits[v].on)>> :
                                                   v \in DOMAIN visits \cap {call[r].id}}
        PROVE  \/ plan'[at[1]][at[2]].status \in {"none", "cancelled"}
               \/ Follows(plan'[at[1]][at[2]], visits', at[1], at[2])
    <3> DEFINE c == call[r]
    <3>1. Visiting(r) /\ c.todo = <<>> /\ plan' = Overlaid(c.written) /\ visits' = Seen(c)
      BY <2>1 DEF CommitVisit, Visiting, Seen
    <3>2. at \in Touched(c)
      <4>1. CASE at \in {<<visits[v].lift, PeriodOf(visits[v].on)>> : v \in DOMAIN visits \cap {c.id}}
        <5>1. c.id \in DOMAIN visits /\ at = <<visits[c.id].lift, PeriodOf(visits[c.id].on)>>
          BY <4>1
        <5>2. c.before = visits[c.id] /\ visits[c.id] \in Visits
          BY <2>1, <3>1, <5>1 DEF PlanInv, Numbered
        <5> QED
          BY <5>1, <5>2, VisitIsNoRow DEF Touched
      <4> QED
        BY <2>1, <4>1
    <3>3. Settles(c, Seen(c), Overlaid(c.written), plan, PeriodOf(today))
      BY <2>1, <3>1 DEF PlanInv, InLine
    <3> QED
      BY <3>1, <3>2, <3>3 DEF Settles, Agrees
  <2> QED
    BY <2>1
<1> QED
  BY PlanInvariant, <1>1, PTL DEF Spec, VisitsSettleThePlan

(* A visit alone dates its lifts by their newest completed visits, and the *)
(* open rows nobody edited are due as the lift's date says.                *)
THEOREM DatesAlwaysFollowTheRecord == Spec => DatesFollowTheRecord
<1>1. PlanInv /\ [Next]_vars =>
        [\A r \in Request :
           CommitVisit(r) =>
             \A l \in DOMAIN call[r].dates :
               /\ call[r].alone =>
                    LET done == {visits'[v].on : v \in {w \in OfLift(visits', l) :
                                                          visits'[w].status = "completed"}}
                    IN  lift'[l] = IF done = {} THEN Null ELSE Largest(done)
               /\ call[r].steady => \A m \in Period :
                    plan'[l][m].status = "planned" /\ plan[l][m].status = "planned"
                      /\ ~plan'[l][m].edited /\ m >= PeriodOf(today)
                    => plan'[l][m].due = DueDateIn(m, lift'[l])]_vars
  <2>1. ASSUME PlanInv, NEW r \in Request, CommitVisit(r), NEW l \in DOMAIN call[r].dates
        PROVE  /\ call[r].alone =>
                    LET done == {visits'[v].on : v \in {w \in OfLift(visits', l) :
                                                          visits'[w].status = "completed"}}
                    IN  lift'[l] = IF done = {} THEN Null ELSE Largest(done)
               /\ call[r].steady => \A m \in Period :
                    plan'[l][m].status = "planned" /\ plan[l][m].status = "planned"
                      /\ ~plan'[l][m].edited /\ m >= PeriodOf(today)
                    => plan'[l][m].due = DueDateIn(m, lift'[l])
    <3> DEFINE c == call[r]
               done(rows) == {rows[v].on : v \in {w \in OfLift(rows, l) : rows[w].status = "completed"}}
    <3>1. /\ Visiting(r) /\ c.todo = <<>> /\ plan' = Overlaid(c.written) /\ visits' = Seen(c)
          /\ lift' = [k \in Lift |-> IF k \in DOMAIN c.dates THEN c.dates[k] ELSE lift[k]]
      BY <2>1 DEF CommitVisit, Visiting, Seen
    <3>2. c \in VisitCalls
      BY <2>1, <3>1, CallKinds DEF PlanInv
    <3>3. l \in Lift /\ c.id \in Nat \ {0} /\ c.row \in Visits
      BY <2>1, <3>2 DEF VisitCalls
    <3>4. lift'[l] = c.dates[l]
      BY <2>1, <3>1, <3>3
    <3>5. ASSUME c.alone
          PROVE  lift'[l] = IF done(visits') = {} THEN Null ELSE Largest(done(visits'))
      <4>1. c.dates[l] = LastMaintenance(Seen(c), l)
        BY <2>1, <3>1, <3>5 DEF PlanInv, Current, ReadAsIs
      <4>2. PICK n \in Nat : visits \in [1..n -> Visits] /\ c.id <= n + 1
        BY <2>1, <3>1 DEF PlanInv, Numbered
      <4>3. c.id \in 1..(n + 1)
        BY <3>3, <4>2
      <4>4. PICK k \in Nat : With(c.id, c.row) \in [1..k -> Visits]
        BY <3>3, <4>2, <4>3, WithRows
      <4> DEFINE rows == Seen(c)
      <4>5. rows \in [1..k -> Visits]
        BY <4>4 DEF Seen
      <4> HIDE DEF rows, c
      <4>6. LastMaintenance(rows, l) = IF done(rows) = {} THEN Null ELSE Largest(done(rows))
        BY <3>3, <4>5, LastIsLargest
      <4> QED
        BY <3>1, <3>4, <4>1, <4>6 DEF rows
    <3>6. ASSUME c.steady, NEW m \in Period
          PROVE  plan'[l][m].status = "planned" /\ plan[l][m].status = "planned"
                   /\ ~plan'[l][m].edited /\ m >= PeriodOf(today)
                 => plan'[l][m].due = DueDateIn(m, lift'[l])
      <4>1. Settles(c, Seen(c), Overlaid(c.written), plan, PeriodOf(today))
        BY <2>1, <3>1, <3>6 DEF PlanInv, InLine
      <4> QED
        BY <2>1, <3>1, <3>4, <4>1 DEF Settles, DueAsDated
    <3> QED
      BY <3>5, <3>6
  <2> QED
    BY <2>1
<1> QED
  BY PlanInvariant, <1>1, PTL DEF Spec, DatesFollowTheRecord

=============================================================================
