--------------------------- MODULE MaintenancePlan ---------------------------
(***************************************************************************)
(* apps/maintenance: the visits technicians record, the dates each lift    *)
(* gets from them, and the monthly plan, a row for every covered lift,     *)
(* that the nightly job keeps complete and the visits close.               *)
(*                                                                         *)
(* Recording, correcting or deleting a visit is one transaction: it writes *)
(* the visit, updates the lift, which from then on is locked, and last     *)
(* brings the plan's rows in line.  The job is one transaction too, and    *)
(* holds every row it has written until it commits.  Nothing else is       *)
(* locked: each reads what is committed when it reads.                     *)
(***************************************************************************)
EXTENDS Integers, FiniteSets, Sequences

CONSTANTS
  Lift, Technician, Request, None,
  MonthDays,           \* days in a month
  INTERVAL,            \* maintenance_interval_days
  Dates,               \* the days a visit may be dated
  MaxDay, MaxVisits, MaxCalls   \* bounds: the calendar, visits ever recorded, calls and changes

ASSUME MaintenanceAssumption ==
  /\ MonthDays \in Nat \ {0} /\ INTERVAL \in Nat \ {0}
  /\ MaxDay \in Nat \ {0} /\ Dates \subseteq 1..MaxDay
  /\ None \notin Technician \cup {"visit", "row", "write", "commit"}

VARIABLES
  today, calls,
  covered,   \* the lifts an active contract covers
  default,   \* the technician of the lifts' customer, when it has exactly one
  lift,      \* lift[l]: its last maintenance date, the next being INTERVAL later
  visits,    \* in the order they were recorded
  plan,      \* plan[l][m]: the lift's row for the month
  call,      \* call[r]: how far a request's transaction is
  run        \* how far the job is

vars == <<today, calls, covered, default, lift, visits, plan, call, run>>
office == <<covered, default>>

Null == 0
Lesser(a, b) == IF a < b THEN a ELSE b
Largest(S) == CHOOSE x \in S : \A y \in S : x >= y

PeriodOf(day) == (day - 1) \div MonthDays + 1
Period == 1..(PeriodOf(MaxDay) + 1)
FirstOf(m) == (m - 1) * MonthDays + 1
LastOf(m) == m * MonthDays

VisitStatus == {"completed", "attempted"}

(* What a technician may say of a visit. *)
VisitForm == [lift : Lift, on : Dates, status : VisitStatus, deleted : {FALSE}]

NoRow == [status |-> "none", due |-> Null, technician |-> None, visit |-> 0, edited |-> FALSE]
NoCall == [step |-> None]
NoRun == [step |-> None]

(* The month's last day at most; the middle of it for a lift never seen.   *)
DueDateIn(m, last) ==
  IF last = Null THEN FirstOf(m) + MonthDays \div 2 ELSE Lesser(last + INTERVAL, LastOf(m))

-----------------------------------------------------------------------------
(* Reading the visits                                                      *)

(* What a transaction sees that has written one visit itself. *)
With(v, row) == [w \in DOMAIN visits \cup {v} |-> IF w = v THEN row ELSE visits[w]]

(* Mutated: the visit recorded last is the latest. *)
Newest_Recorded(rows, found) == Largest(found)

(* By date, then by key, newest first. *)
Newest(rows, found) ==
  CHOOSE v \in found : \A w \in found :
    rows[v].on > rows[w].on \/ (rows[v].on = rows[w].on /\ v >= w)

OfLift(rows, l) == {v \in DOMAIN rows : rows[v].lift = l /\ ~rows[v].deleted}

(* recalculate_next_maintenance: the date of the newest completed visit.   *)
LastMaintenance(rows, l) ==
  LET found == {v \in OfLift(rows, l) : rows[v].status = "completed"}
  IN  IF found = {} THEN Null ELSE rows[Newest(rows, found)].on

(* sync_planned_visit: a completed visit of the month outranks an attempt; *)
(* a cancelled row is left alone.                                          *)
Synced(row, rows, l, m) ==
  LET found == {v \in OfLift(rows, l) : PeriodOf(rows[v].on) = m}
      done == {v \in found : rows[v].status = "completed"}
  IN  IF row.status \in {"none", "cancelled"} THEN row
      ELSE IF done # {} THEN [row EXCEPT !.status = "done", !.visit = Newest(rows, done)]
      ELSE [row EXCEPT !.status = "planned", !.visit = IF found = {} THEN 0 ELSE Newest(rows, found)]

(* refresh_planned_due_dates: open rows of this month and later follow.    *)
Refreshed(row, m, last) ==
  IF row.status = "planned" /\ ~row.edited /\ m >= PeriodOf(today)
  THEN [row EXCEPT !.due = DueDateIn(m, last)] ELSE row

-----------------------------------------------------------------------------
(* Visits                                                                  *)

(* Mutated: the lift is updated without waiting. *)
LiftLocked_Never(r, l) == FALSE

(* The lift's row was updated by a transaction that has not committed.     *)
LiftLocked(r, l) == \E q \in Request \ {r} : call[q].step = "visit" /\ l \in DOMAIN call[q].dates

NoRows == [l \in Lift |-> [m \in Period |-> NoRow]]

(* A row of the plan was written by a transaction that has not committed:  *)
(* the job, or a visit's.                                                  *)
RowLocked(l, m) ==
  \/ run.step # None /\ run.written[l][m] # NoRow
  \/ \E q \in Request : call[q].step = "visit" /\ call[q].written[l][m] # NoRow

Overlaid(written) == [l \in Lift |-> [m \in Period |->
                        IF written[l][m] # NoRow THEN written[l][m] ELSE plan[l][m]]]

(* Bounds: calls and changes, and one call at most beside the job. *)
CountCall ==
  /\ calls < MaxCalls /\ calls' = calls + 1
  /\ run = NoRun \/ \A r \in Request : call[r] = NoCall

(* The visit written, and the lifts whose dates it may move; the contract  *)
(* has to cover the lift it is for.  For the properties: `alone' until     *)
(* another visit is committed, `steady' until the plan is, by another.     *)
Write(r, v, row, todo, before) ==
  /\ row.deleted \/ row.lift \in covered
  /\ call' = [call EXCEPT ![r] =
       [step |-> "visit", id |-> v, row |-> row, todo |-> todo, before |-> before,
        read |-> LastMaintenance(With(v, row), Head(todo)), dates |-> <<>>, written |-> NoRows,
        alone |-> TRUE, steady |-> TRUE]]
  /\ UNCHANGED <<today, office, lift, visits, plan, run>>

(* A key that no transaction has taken. *)
Fresh == 1 + Cardinality(DOMAIN visits \cup {call[q].id : q \in {p \in Request : call[p].step = "visit"}})

RecordVisit(r) ==
  /\ call[r] = NoCall /\ CountCall /\ Fresh <= MaxVisits
  /\ \A q \in Request : call[q].step = "visit" => call[q].id \in DOMAIN visits
  /\ \E form \in VisitForm : Write(r, Fresh, form, <<form.lift>>, NoRow)

(* The row of a visit, written and not committed. *)
VisitLocked(v) == \E q \in Request : call[q].step = "visit" /\ call[q].id = v

(* The lift it leaves is recalculated after the one it goes to.            *)
EditVisit(r, v) ==
  /\ call[r] = NoCall /\ CountCall
  /\ ~visits[v].deleted /\ ~VisitLocked(v)
  /\ \E form \in VisitForm :
       Write(r, v, form, IF visits[v].lift = form.lift THEN <<form.lift>>
                         ELSE <<form.lift, visits[v].lift>>, visits[v])

DeleteVisit(r, v) ==
  /\ call[r] = NoCall /\ CountCall
  /\ ~visits[v].deleted /\ ~VisitLocked(v)
  /\ Write(r, v, [visits[v] EXCEPT !.deleted = TRUE], <<visits[v].lift>>, visits[v])

(* The rows sync_plan_for_visit looks at: the visit's, and where it was.   *)
Touched(c) ==
  {<<c.row.lift, PeriodOf(c.row.on)>>}
    \cup (IF c.before = NoRow THEN {} ELSE {<<c.before.lift, PeriodOf(c.before.on)>>})

(* The rows follow the lift, then the visits this transaction sees.        *)
Settled(c) ==
  [l \in Lift |-> [m \in Period |->
     LET due == IF l \in DOMAIN c.dates THEN Refreshed(plan[l][m], m, c.dates[l]) ELSE plan[l][m]
         row == IF <<l, m>> \in Touched(c) THEN Synced(due, With(c.id, c.row), l, m) ELSE due
     IN  IF row = plan[l][m] THEN NoRow ELSE row]]

(* The UPDATE of the lift waits for a transaction that updated it; what it *)
(* writes was read before, as the next lift's date is from here.  After    *)
(* the last, the plan's rows are written, once whoever has them is done.   *)
UpdateLift(r) ==
  LET l == Head(call[r].todo)
      c == [call[r] EXCEPT !.todo = Tail(@),
                           !.dates = [k \in DOMAIN @ \cup {l} |-> IF k = l THEN call[r].read ELSE @[k]]]
      settled == Settled(c)
  IN  /\ call[r].step = "visit" /\ call[r].todo # <<>> /\ ~LiftLocked(r, l)
      /\ IF c.todo # <<>>
         THEN call' = [call EXCEPT ![r] =
                [c EXCEPT !.read = LastMaintenance(With(c.id, c.row), Head(c.todo))]]
         ELSE /\ \A k \in Lift, m \in Period : settled[k][m] # NoRow => ~RowLocked(k, m)
              /\ call' = [call EXCEPT ![r] = [c EXCEPT !.read = Null, !.written = settled]]
      /\ UNCHANGED <<today, calls, office, lift, visits, plan, run>>

CommitVisit(r) ==
  LET c == call[r]
  IN  /\ c.step = "visit" /\ c.todo = <<>>
      /\ plan' = Overlaid(c.written)
      /\ visits' = With(c.id, c.row)
      /\ lift' = [l \in Lift |-> IF l \in DOMAIN c.dates THEN c.dates[l] ELSE lift[l]]
      /\ call' = [q \in Request |-> IF q = r THEN NoCall
                                    ELSE IF call[q].step = "visit" THEN [call[q] EXCEPT !.alone = FALSE]
                                    ELSE call[q]]
      /\ run' = IF run.step = None THEN run ELSE [run EXCEPT !.alone = FALSE]
      /\ UNCHANGED <<today, calls, office>>

(* The request dies, or the database breaks a circle of waits. *)
Abort(r) ==
  /\ call[r] # NoCall
  /\ call' = [call EXCEPT ![r] = NoCall]
  /\ UNCHANGED <<today, calls, office, lift, visits, plan, run>>

-----------------------------------------------------------------------------
(* The office                                                              *)

(* The plan is changing under the visits under way. *)
Unsettled == [q \in Request |-> IF call[q].step = "visit" THEN [call[q] EXCEPT !.steady = FALSE]
                                ELSE call[q]]

FetchRow(r, l, m) ==
  /\ call[r] = NoCall /\ CountCall
  /\ plan[l][m] # NoRow
  /\ call' = [call EXCEPT ![r] = [step |-> "row", lift |-> l, period |-> m, row |-> plan[l][m]]]
  /\ UNCHANGED <<today, office, lift, visits, plan, run>>

Assign(r, row) ==
  /\ ~RowLocked(call[r].lift, call[r].period)
  /\ plan' = [plan EXCEPT ![call[r].lift][call[r].period] = row]
  /\ call' = [Unsettled EXCEPT ![r] = NoCall]
  /\ run' = IF run.step = None THEN run ELSE [run EXCEPT !.alone = FALSE]
  /\ UNCHANGED <<today, calls, office, lift, visits>>

(* edit_planned_visit saves every column of the row it was handed. *)
EditPlannedVisit(r) ==
  /\ call[r].step = "row"
  /\ \E t \in Technician \cup {None} :
       Assign(r, [call[r].row EXCEPT !.technician = t, !.edited = TRUE])

(* bulk_assign saves the two columns it changes. *)
BulkAssign(r) ==
  /\ call[r].step = "row"
  /\ \E t \in Technician :
       Assign(r, [plan[call[r].lift][call[r].period] EXCEPT !.technician = t, !.edited = TRUE])

(* Contracts and customers' technicians change. *)
ChangeFacts ==
  /\ CountCall
  /\ \/ \E l \in Lift :
          /\ covered' = IF l \in covered THEN covered \ {l} ELSE covered \cup {l}
          /\ UNCHANGED default
     \/ \E t \in Technician \cup {None} : default' = t /\ t # default /\ UNCHANGED covered
  /\ run' = IF run.step = None THEN run ELSE [run EXCEPT !.alone = FALSE]
  /\ UNCHANGED <<today, lift, visits, plan, call>>

-----------------------------------------------------------------------------
(* The job                                                                 *)

(* A row of a covered lift that nobody has edited.                         *)
FollowTheFacts(row, m, due, technician) ==
  LET open == IF row.status = "cancelled" THEN [row EXCEPT !.status = "planned"] ELSE row
  IN  IF open.status # "planned" THEN open
      ELSE [open EXCEPT !.due = due, !.technician = IF @ = None THEN technician ELSE @]

(* Mutated: a reopened row is not brought in line with its visits. *)
Generated_NotSynced(row, now, l, m, facts) ==
  LET due == DueDateIn(m, facts.lift[l])
  IN  CASE l \in facts.covered /\ row = NoRow ->
             [NoRow EXCEPT !.status = "planned", !.due = due, !.technician = facts.default]
        [] l \in facts.covered /\ row # NoRow /\ ~row.edited ->
             FollowTheFacts(row, m, due, facts.default)
        [] l \notin facts.covered /\ row.status = "planned" /\ ~row.edited ->
             [now EXCEPT !.status = "cancelled"]
        [] OTHER -> now

(* Mutated: a lift that lost its cover takes an edited row with it. *)
Generated_Ruthless(row, now, l, m, facts) ==
  LET due == DueDateIn(m, facts.lift[l])
      followed == FollowTheFacts(row, m, due, facts.default)
      written == [now EXCEPT !.status = IF followed.status # row.status THEN followed.status ELSE @,
                             !.due = IF followed.due # row.due THEN followed.due ELSE @,
                             !.technician = IF followed.technician # row.technician
                                            THEN followed.technician ELSE @]
  IN  CASE l \in facts.covered /\ row = NoRow ->
             [NoRow EXCEPT !.status = "planned", !.due = due, !.technician = facts.default]
        [] l \in facts.covered /\ row # NoRow /\ ~row.edited ->
             IF followed.status = row.status THEN written ELSE Synced(written, visits, l, m)
        [] l \notin facts.covered /\ row.status = "planned" ->
             [now EXCEPT !.status = "cancelled"]
        [] OTHER -> now

(* What the job makes of a row it read, writing only the columns that      *)
(* change: made, following the facts (and, when reopened, the visits), or  *)
(* cancelled with the lift's cover.                                        *)
Generated(row, now, l, m, facts) ==
  LET due == DueDateIn(m, facts.lift[l])
      followed == FollowTheFacts(row, m, due, facts.default)
      written == [now EXCEPT !.status = IF followed.status # row.status THEN followed.status ELSE @,
                             !.due = IF followed.due # row.due THEN followed.due ELSE @,
                             !.technician = IF followed.technician # row.technician
                                            THEN followed.technician ELSE @]
  IN  CASE l \in facts.covered /\ row = NoRow ->
             [NoRow EXCEPT !.status = "planned", !.due = due, !.technician = facts.default]
        [] l \in facts.covered /\ row # NoRow /\ ~row.edited ->
             IF followed.status = row.status THEN written ELSE Synced(written, visits, l, m)
        [] l \notin facts.covered /\ row.status = "planned" /\ ~row.edited ->
             [now EXCEPT !.status = "cancelled"]
        [] OTHER -> now

Facts == [covered |-> covered, default |-> default, lift |-> lift]

(* generate_plan reads the lifts and the technicians once, and the rows of *)
(* a month before it writes the first.                                     *)
BeginRun ==
  /\ run = NoRun /\ Cardinality({r \in Request : call[r] # NoCall}) <= 1
  /\ run' = [step |-> "write", period |-> PeriodOf(today), facts |-> Facts,
             rows |-> [l \in Lift |-> plan[l][PeriodOf(today)]], alone |-> TRUE,
             written |-> NoRows]
  /\ UNCHANGED <<today, calls, office, lift, visits, plan, call>>

(* The rows of a month are written, and locked, in one step: this month's, *)
(* then the next, whose rows are read now.                                 *)
WritePeriod ==
  LET m == run.period
      made(l) == Generated(run.rows[l], plan[l][m], l, m, run.facts)
  IN  /\ run.step = "write"
      /\ \A l \in Lift : made(l) # plan[l][m] => ~RowLocked(l, m)
      /\ run' = [run EXCEPT
           !.written = [l \in Lift |-> [@[l] EXCEPT ![m] = IF made(l) = plan[l][m] THEN NoRow ELSE made(l)]],
           !.step = IF m = PeriodOf(today) THEN "write" ELSE "commit",
           !.period = PeriodOf(today) + 1,
           !.rows = [l \in Lift |-> IF m = PeriodOf(today) THEN plan[l][m + 1] ELSE NoRow]]
      /\ UNCHANGED <<today, calls, office, lift, visits, plan, call>>

CommitRun ==
  /\ run.step = "commit"
  /\ plan' = Overlaid(run.written)
  /\ run' = NoRun
  /\ call' = Unsettled
  /\ UNCHANGED <<today, calls, office, lift, visits>>

AbortRun ==
  /\ run # NoRun
  /\ run' = NoRun
  /\ UNCHANGED <<today, calls, office, lift, visits, plan, call>>

(* What is under way ends on the day it began: a bound of the model.       *)
Tick ==
  /\ today < MaxDay /\ run = NoRun /\ \A r \in Request : call[r] = NoCall
  /\ today' = today + 1
  /\ UNCHANGED <<calls, office, lift, visits, plan, call, run>>

-----------------------------------------------------------------------------

Init ==
  /\ today = 1 /\ calls = 0
  /\ covered = Lift /\ default = None
  /\ lift = [l \in Lift |-> Null]
  /\ visits = <<>>
  /\ plan = [l \in Lift |-> [m \in Period |-> NoRow]]
  /\ call = [r \in Request |-> NoCall]
  /\ run = NoRun

(* What each view of the API leads to, and what the job does. *)
MaintenanceVisitViewSet ==
  \E r \in Request :
    \/ RecordVisit(r) \/ UpdateLift(r) \/ CommitVisit(r) \/ Abort(r)
    \/ \E v \in DOMAIN visits : EditVisit(r, v) \/ DeleteVisit(r, v)

PlannedVisitViewSet ==
  \E r \in Request :
    \/ EditPlannedVisit(r) \/ BulkAssign(r)
    \/ \E l \in Lift, m \in Period : FetchRow(r, l, m)

GeneratePlan == BeginRun \/ WritePeriod \/ CommitRun \/ AbortRun

Next == MaintenanceVisitViewSet \/ PlannedVisitViewSet \/ ChangeFacts \/ GeneratePlan \/ Tick

Spec == Init /\ [][Next]_vars

-----------------------------------------------------------------------------
(* Properties                                                              *)

(* Whether a row says what the visits of its month say. *)
Follows(row, rows, l, m) ==
  LET seen == {v \in DOMAIN rows : /\ rows[v].lift = l /\ ~rows[v].deleted
                                   /\ rows[v].on \in FirstOf(m)..LastOf(m)}
      completed == {v \in seen : rows[v].status = "completed"}
  IN  /\ row.status = "done" <=> completed # {}
      /\ row.visit = 0 <=> seen = {}
      /\ row.visit # 0 => row.visit \in (IF completed # {} THEN completed ELSE seen)

(* "The plan and the record cannot disagree": whatever visits are recorded *)
(* for a lift at once, corrected into another month or onto another lift,  *)
(* or deleted, each leaves the rows it touched as the surviving visits     *)
(* say, because the update of the lift makes them take turns.  (A row that *)
(* is cancelled is the job's to settle, and one that the office or the job *)
(* committed since the visit looked at the plan may be left as it was.)    *)
VisitsSettleThePlan ==
  [][\A r \in Request :
       call[r].step = "visit" /\ call[r].steady /\ CommitVisit(r) =>
         \A at \in Touched(call[r]) \cup {<<visits[v].lift, PeriodOf(visits[v].on)>> :
                                            v \in DOMAIN visits \cap {call[r].id}} :
           \/ plan'[at[1]][at[2]].status \in {"none", "cancelled"}
           \/ Follows(plan'[at[1]][at[2]], visits', at[1], at[2])]_vars

(* A visit's transaction that no other overtook leaves every lift with the *)
(* date of its newest completed visit; and overtaken or not, in a plan the *)
(* job left alone meanwhile the open rows nobody edited are due when the   *)
(* lift they are for says.                                                 *)
DatesFollowTheRecord ==
  [][\A r \in Request :
       CommitVisit(r) =>
         \A l \in DOMAIN call[r].dates :
           /\ call[r].alone =>
                LET done == {visits'[v].on : v \in {w \in OfLift(visits', l) :
                                                      visits'[w].status = "completed"}}
                IN  lift'[l] = IF done = {} THEN Null ELSE Largest(done)
           /\ call[r].steady => \A m \in Period :
                plan'[l][m].status = "planned" /\ plan[l][m].status = "planned"
                  /\ ~plan'[l][m].edited /\ m >= PeriodOf(today)
                => plan'[l][m].due = DueDateIn(m, lift'[l])]_vars

(* "A second run the same day finds every row in place and changes         *)
(* nothing": after a run that nothing disturbed every covered lift has its *)
(* two rows, and generating again from what there is then is the identity. *)
SecondRunChangesNothing ==
  [][run.step = "commit" /\ run.alone /\ CommitRun =>
       \A l \in Lift, m \in {PeriodOf(today), PeriodOf(today) + 1} :
         /\ l \in covered => plan'[l][m] # NoRow
         /\ Generated(plan'[l][m], plan'[l][m], l, m, Facts) = plan'[l][m]
         /\ ~plan'[l][m].edited /\ plan'[l][m].status # "cancelled" /\ plan[l][m].status = "cancelled"
              => Follows(plan'[l][m], visits, l, m)]_vars

(* A run that nothing disturbed leaves what a person edited as it was, and *)
(* never undoes a month's work.                                            *)
NightLeavesDecisions ==
  [][run.step = "commit" /\ run.alone /\ CommitRun =>
       \A l \in Lift, m \in Period :
         /\ plan[l][m].edited => plan'[l][m] = plan[l][m]
         /\ plan[l][m].status = "done" => plan'[l][m].status = "done"
         /\ plan[l][m].technician # None => plan'[l][m].technician = plan[l][m].technician]_vars

=============================================================================
