----------------------------- MODULE LiftService -----------------------------
(***************************************************************************)
(* A lift in service: the faults reported on it (apps/faults), the         *)
(* inspections and the defects they found (apps/inspections), and its row, *)
(* whose status and label both of them write (apps/elevators).             *)
(*                                                                         *)
(* A view fetches a row, and the service it calls may go on to use what    *)
(* was fetched: the lift a report stops, the inspection an edit saves, the *)
(* defect a PATCH saves.  The transitions of a fault lock its row and read *)
(* it again, so each is one step; what a transaction reads before it       *)
(* writes the lift, and the locks it holds meanwhile, are in call[r].      *)
(***************************************************************************)
EXTENDS Integers, FiniteSets, Sequences

CONSTANTS
  Request,               \* calls at work at once
  None,
  Line,                  \* the contract lines of the lift, as covering_scope reads them
  PUBLIC_MERGE_WINDOW, REPORTER_DATA_RETENTION,
  Dates,                 \* the days an inspection may be dated
  MaxNow, MaxCalls,      \* bounds: the clock; calls, and office edits of a fault
  MaxFaults, MaxInspections

(* What a request is about to do. *)
Steps == {"lift", "inspection", "defect", "reporting", "resolving", "syncing", "opening"}

ASSUME LiftServiceAssumption ==
  /\ PUBLIC_MERGE_WINDOW \in Nat /\ REPORTER_DATA_RETENTION \in Nat
  /\ Dates \subseteq Nat /\ MaxNow \in Nat \ {0}
  /\ {MaxCalls, MaxFaults, MaxInspections} \subseteq Nat
  /\ None \notin Request /\ None \notin Nat /\ None \notin Steps

VARIABLES
  now, calls,
  lift,         \* its row: status and inspection_label
  inspections,  \* in the order they were created: date, label, and the fault of a defect
  faults,       \* in the order they were created
  call          \* call[r]: what a request has fetched and locked

vars == <<now, calls, lift, inspections, faults, call>>

(* "sealed" is any status that only a person gives: sealed or suspended.   *)
Statuses == {"active", "out_of_service", "sealed"}
(* Green, blue and yellow all let the lift run. *)
Labels == {"green", "red"}
Usable(label) == label # "red"
Channels == {"staff", "public_qr", "customer_portal"}
Priorities == {"normal", "high", "emergency"}
Rank(priority) == CASE priority = "emergency" -> 0 [] priority = "high" -> 1 [] OTHER -> 2

(* What the forms of the API let a request say. *)
StaffReport == [priority : Priorities, sent : BOOLEAN, stopped : BOOLEAN, trapped : BOOLEAN]
PublicReport == [trapped : BOOLEAN, stopped : BOOLEAN, named : BOOLEAN]
PortalReport == [trapped : BOOLEAN, stopped : BOOLEAN]
Correction == [priority : Priorities, billable : {"unset", "yes", "no"}]
InspectionForm == [on : Dates, label : Labels]

NoCall == [step |-> None]

(* Nobody changed what r read of the lift and its inspections. *)
Alone(r) == "alone" \in DOMAIN call[r] /\ call[r].alone

-----------------------------------------------------------------------------
(* Locks: a write waits for the transaction that holds the row.            *)

(* Mutated: a public report does not lock the lift. *)
LiftLocked_Never(r) == FALSE

(* The lift's row, held by a public report; a row that names the lift      *)
(* cannot be inserted meanwhile either.                                    *)
LiftLocked(r) == \E q \in Request \ {r} : call[q].step = "reporting"

(* The lift's row, shared by an inspection inserted and not yet committed. *)
Recording(r) ==
  \E q \in Request \ {r} : call[q].step = "syncing" /\ call[q].id \notin DOMAIN inspections

(* Mutated: the fault a report is to be added to is not locked. *)
FaultLocked_Never(f) == FALSE

(* A fault's row, held by the report that is being added to it, or by the  *)
(* transaction that resolves it.                                           *)
FaultLocked(f) ==
  \E q \in Request : call[q].step \in {"reporting", "resolving"} /\ call[q].fault = f

(* The row of an inspection's defect, held by open_fault. *)
DefectLocked(i) == \E q \in Request : call[q].step = "opening" /\ call[q].id = i

(* The row of an inspection, saved and not yet committed. *)
InspectionLocked(i) == \E q \in Request : call[q].step = "syncing" /\ call[q].id = i

-----------------------------------------------------------------------------
(* What a request starts from                                              *)

Begin(r, got) ==
  /\ call[r] = NoCall /\ calls < MaxCalls
  /\ calls' = calls + 1
  /\ call' = [call EXCEPT ![r] = got]
  /\ UNCHANGED <<now, lift, inspections, faults>>

(* The lift named in a report, an inspection or the URL of a PATCH. *)
FetchLift(r) == Begin(r, [step |-> "lift", lift |-> lift, alone |-> TRUE])

(* get_object() of an inspection, its lift joined. *)
FetchInspection(r, i) ==
  Begin(r, [step |-> "inspection", id |-> i, row |-> inspections[i], lift |-> lift, alone |-> TRUE])

(* get_object() of a nonconformity. *)
FetchDefect(r, i) == Begin(r, [step |-> "defect", id |-> i, fault |-> inspections[i].fault])

(* The call is refused, or only read.  *)
GiveUp(r) ==
  /\ call[r].step \in {"lift", "inspection", "defect"}
  /\ call' = [call EXCEPT ![r] = NoCall]
  /\ UNCHANGED <<now, calls, lift, inspections, faults>>

(* r answers; what the others have read of the lift is no longer all.      *)
Answer(r) ==
  call' = [q \in Request |->
             IF q = r THEN NoCall
             ELSE IF Alone(q) /\ <<lift, inspections>>' # <<lift, inspections>>
             THEN [call[q] EXCEPT !.alone = FALSE]
             ELSE call[q]]

-----------------------------------------------------------------------------
(* Faults: reporting                                                       *)

(* _stop(): the row after it, as decided on the instance it was handed.    *)
Stopped(row, seen) ==
  IF seen.status = "active" THEN [row EXCEPT !.status = "out_of_service"] ELSE row

NewFault(channel, priority, status, stopped, named, defect) ==
  [channel |-> channel, priority |-> priority, status |-> status, stopped |-> stopped,
   reported |-> now, finished |-> 0, billable |-> "unset", stated |-> FALSE,
   reporter |-> named, reports |-> 0, defect |-> defect,
   alarmed |-> priority = "emergency"]

(* The fault is announced in the transaction that creates it.  *)
Report(r, fault) ==
  /\ Len(faults) < MaxFaults
  /\ ~LiftLocked(r)
  /\ faults' = Append(faults, fault)
  /\ lift' = IF fault.stopped THEN Stopped(lift, call[r].lift) ELSE lift
  /\ UNCHANGED <<now, calls, inspections>>
  /\ Answer(r)

ReportByStaff(r) ==
  /\ call[r].step = "lift"
  /\ \E form \in StaffReport :
       Report(r, NewFault("staff", IF form.trapped THEN "emergency" ELSE form.priority,
                          IF form.sent THEN "assigned" ELSE "open", form.stopped, FALSE, None))

PublicPriority(form) ==
  IF form.trapped THEN "emergency" ELSE IF form.stopped THEN "high" ELSE "normal"

ReportByPortal(r) ==
  /\ call[r].step = "lift"
  /\ \E form \in PortalReport :
       Report(r, NewFault("customer_portal", PublicPriority(form), "open", form.stopped, FALSE, None))

(* The public faults a new report may be added to. *)
Mergeable(f) ==
  /\ faults[f].channel = "public_qr"
  /\ faults[f].status \in {"open", "assigned"}
  /\ faults[f].reported >= now - PUBLIC_MERGE_WINDOW

(* report_public: the lift's row locked, then the newest fault the report  *)
(* may be added to, which waits for whoever has it.                        *)
LockForReport(r) ==
  LET found == {f \in DOMAIN faults : Mergeable(f)}
      newest == IF found = {} THEN 0 ELSE CHOOSE f \in found : \A g \in found : f >= g
  IN  /\ call[r].step = "lift" /\ ~LiftLocked(r) /\ ~Recording(r)
      /\ newest = 0 \/ ~FaultLocked(newest)
      /\ call' = [call EXCEPT ![r] = [step |-> "reporting", lift |-> call[r].lift, fault |-> newest]]
      /\ UNCHANGED <<now, calls, lift, inspections, faults>>

(* _merge(): the priority rises and never falls, and an emergency is       *)
(* announced; a name is kept only if there is none.                        *)
Merged(fault, priority, stopped, named) ==
  LET escalated == Rank(priority) < Rank(fault.priority)
  IN  [fault EXCEPT !.reports = @ + 1, !.reporter = @ \/ named, !.stopped = @ \/ stopped,
                    !.priority = IF escalated THEN priority ELSE @,
                    !.alarmed = @ \/ (escalated /\ priority = "emergency")]

(* A lift the fault had stopped already is not stopped again; otherwise    *)
(* the one read with the fault is.                                         *)
Merge(r) ==
  LET f == call[r].fault
  IN  /\ call[r].step = "reporting" /\ f # 0
      /\ \E form \in PublicReport :
           /\ faults' = [faults EXCEPT ![f] =
                           Merged(@, PublicPriority(form), form.stopped, form.named)]
           /\ lift' = IF form.stopped /\ ~faults[f].stopped THEN Stopped(lift, lift) ELSE lift
      /\ UNCHANGED <<now, calls, inspections>>
      /\ Answer(r)

ReportPublic(r) ==
  /\ call[r].step = "reporting" /\ call[r].fault = 0
  /\ \E form \in PublicReport :
       Report(r, NewFault("public_qr", PublicPriority(form), "open", form.stopped, form.named, None))

-----------------------------------------------------------------------------
(* Faults: the transitions                                                 *)

Move(f, from, changed) ==
  /\ faults[f].status \in from /\ ~FaultLocked(f)
  /\ faults' = [faults EXCEPT ![f] = changed]
  /\ UNCHANGED <<now, lift, inspections, call>>

Assign(f) ==
  Move(f, {"open", "assigned"}, [faults[f] EXCEPT !.status = "assigned"]) /\ UNCHANGED calls

Arrive(f) == Move(f, {"assigned"}, [faults[f] EXCEPT !.status = "on_site"]) /\ UNCHANGED calls

(* The scope of the contract that covered the lift on a day. *)
CoveringScope(day) ==
  LET covering == {l \in Line : /\ l.status # "draft"
                                /\ l.added <= day /\ (l.removed = None \/ l.removed >= day)
                                /\ l.start <= day /\ l.end >= day}
  IN  IF covering = {} THEN None
      ELSE (CHOOSE l \in covering : \A m \in covering : l.added >= m.added).scope

(* derive_billable: by the contract on the day of the report. *)
DeriveBillable(fault, parts) ==
  CASE CoveringScope(fault.reported) = "full_coverage" -> "no"
    [] CoveringScope(fault.reported) = "maintenance_and_repair" /\ ~parts -> "no"
    [] OTHER -> "yes"

(* resolve() locks the fault, and reads the lift with it. *)
LockToResolve(r, f) ==
  /\ call[r] = NoCall /\ calls < MaxCalls
  /\ faults[f].status = "on_site" /\ ~FaultLocked(f)
  /\ calls' = calls + 1
  /\ call' = [call EXCEPT ![r] = [step |-> "resolving", fault |-> f, lift |-> lift]]
  /\ UNCHANGED <<now, lift, inspections, faults>>

(* Mutated: what the office stated is derived anew. *)
Resolved_Derived(fault, parts) ==
  [fault EXCEPT !.status = "resolved", !.billable = DeriveBillable(fault, parts)]

Resolved(fault, parts) ==
  [fault EXCEPT !.status = "resolved",
                !.billable = IF fault.stated THEN @ ELSE DeriveBillable(fault, parts)]

(* restore_service: the row after it, as decided on the lift read before.  *)
Restored(row, seen) ==
  IF seen.status = "out_of_service" THEN [row EXCEPT !.status = "active"] ELSE row

Resolve(r) ==
  LET f == call[r].fault
  IN  /\ call[r].step = "resolving"
      /\ \E parts, restore_service \in BOOLEAN :
           /\ faults' = [faults EXCEPT ![f] = Resolved(@, parts)]
           /\ ~restore_service \/ ~LiftLocked(r)
           /\ lift' = IF restore_service THEN Restored(lift, call[r].lift) ELSE lift
      /\ UNCHANGED <<now, calls, inspections>>
      /\ Answer(r)

Close(f) ==
  Move(f, {"resolved"}, [faults[f] EXCEPT !.status = "closed", !.finished = now])
  /\ UNCHANGED calls

(* The lift's status is left alone. *)
Cancel(f) ==
  Move(f, {"open", "assigned", "on_site"},
       [faults[f] EXCEPT !.status = "cancelled", !.finished = now])
  /\ UNCHANGED calls

(* The office's corrections, of a fault in any state. *)
EditFault(f) ==
  /\ calls < MaxCalls /\ calls' = calls + 1
  /\ \E form \in Correction :
       Move(f, {faults[f].status},
            [faults[f] EXCEPT !.priority = form.priority,
                              !.alarmed = @ \/ form.priority = "emergency",
                              !.billable = IF form.billable = "unset" THEN @ ELSE form.billable,
                              !.stated = @ \/ form.billable # "unset"])

(* Public reporters are forgotten a while after the fault ends. *)
ForgetPublicReporters ==
  LET forgotten == {f \in DOMAIN faults :
                      /\ faults[f].channel = "public_qr" /\ faults[f].reporter
                      /\ faults[f].status \in {"closed", "cancelled"}
                      /\ faults[f].finished < now - REPORTER_DATA_RETENTION}
  IN  /\ forgotten # {} /\ \A f \in forgotten : ~FaultLocked(f)
      /\ faults' = [f \in DOMAIN faults |->
                      IF f \in forgotten THEN [faults[f] EXCEPT !.reporter = FALSE] ELSE faults[f]]
      /\ UNCHANGED <<now, calls, lift, inspections, call>>

-----------------------------------------------------------------------------
(* Inspections                                                             *)

(* Mutated: the inspection recorded last is the newest. *)
Latest_Recorded(rows) == rows[CHOOSE i \in DOMAIN rows : \A j \in DOMAIN rows : i >= j]

(* By date, then in the order they were created. *)
Latest(rows) ==
  rows[CHOOSE i \in DOMAIN rows : \A j \in DOMAIN rows :
         rows[i].on > rows[j].on \/ (rows[i].on = rows[j].on /\ i >= j)]

(* record() and edit() save the inspection, and read the newest there is:  *)
(* a transaction sees what is committed, and its own.                      *)
Saved(r, i, row) ==
  /\ call' = [call EXCEPT ![r] =
       [step |-> "syncing", id |-> i, row |-> row, lift |-> call[r].lift, alone |-> call[r].alone,
        latest |-> Latest([j \in DOMAIN inspections \cup {i} |-> IF j = i THEN row ELSE inspections[j]])]]
  /\ UNCHANGED <<now, calls, lift, inspections, faults>>

(* No other record() is at work when one is: a bound of the model, for the *)
(* order of creation to be the order of commit.                            *)
RecordInspection(r) ==
  LET i == Len(inspections) + 1
  IN  /\ call[r].step = "lift" /\ i <= MaxInspections /\ ~InspectionLocked(i) /\ ~LiftLocked(r)
      /\ \E form \in InspectionForm : Saved(r, i, [on |-> form.on, label |-> form.label, fault |-> 0])

(* The defect is a row of its own, which this leaves alone. *)
SaveInspection(r) ==
  /\ call[r].step = "inspection" /\ ~InspectionLocked(call[r].id)
  /\ \E form \in InspectionForm :
       Saved(r, call[r].id, [call[r].row EXCEPT !.on = form.on, !.label = form.label])

(* sync_elevator(): the row after it; whether the status changes is        *)
(* decided on the instance.                                                *)
Synced(row, seen, latest) ==
  [status |->
     IF ~Usable(latest.label) /\ seen.status = "active" THEN "out_of_service"
     ELSE IF Usable(latest.label) /\ seen.label = "red" /\ seen.status = "out_of_service" THEN "active"
     ELSE row.status,
   label |-> latest.label]

SyncElevator(r) ==
  LET i == call[r].id
      mine == IF i \in DOMAIN inspections THEN [call[r].row EXCEPT !.fault = inspections[i].fault]
              ELSE call[r].row
  IN  /\ call[r].step = "syncing" /\ ~LiftLocked(r)
      /\ inspections' = [j \in DOMAIN inspections \cup {i} |-> IF j = i THEN mine ELSE inspections[j]]
      /\ lift' = Synced(lift, call[r].lift, call[r].latest)
      /\ UNCHANGED <<now, calls, faults>>
      /\ Answer(r)

(* PATCH of a defect, say to mark it fixed: the row fetched is saved, the  *)
(* link to its fault with it.                                              *)
EditNonconformity(r) ==
  LET i == call[r].id
  IN  /\ call[r].step = "defect" /\ ~DefectLocked(i)
      /\ inspections' = [inspections EXCEPT ![i].fault = call[r].fault]
      /\ UNCHANGED <<now, calls, lift, faults>>
      /\ Answer(r)

(* open_fault(): the defect locked and read again. *)
LockDefect(r) ==
  LET i == call[r].id
  IN  /\ call[r].step = "defect" /\ ~DefectLocked(i)
      /\ call' = [call EXCEPT ![r] = [step |-> "opening", id |-> i, fault |-> inspections[i].fault]]
      /\ UNCHANGED <<now, calls, lift, inspections, faults>>

(* A defect that has a fault answers with it. *)
OpenFault(r) ==
  LET i == call[r].id
  IN  /\ call[r].step = "opening"
      /\ IF call[r].fault # 0 THEN UNCHANGED <<inspections, faults>>
         ELSE /\ Len(faults) < MaxFaults /\ ~LiftLocked(r)
              /\ faults' = Append(faults, NewFault("staff", IF inspections[i].label = "red" THEN "high"
                                                            ELSE "normal", "open", FALSE, FALSE, i))
              /\ inspections' = [inspections EXCEPT ![i].fault = Len(faults')]
      /\ UNCHANGED <<now, calls, lift>>
      /\ Answer(r)

-----------------------------------------------------------------------------
(* The lift's own form                                                     *)

(* PATCH saves every column of the row that was fetched, the label too.    *)
PatchLift(r) ==
  /\ call[r].step = "lift" /\ ~LiftLocked(r)
  /\ \E status \in Statuses : lift' = [call[r].lift EXCEPT !.status = status]
  /\ UNCHANGED <<now, calls, inspections, faults>>
  /\ Answer(r)

Tick ==
  /\ now < MaxNow
  /\ now' = now + 1
  /\ UNCHANGED <<calls, lift, inspections, faults, call>>

-----------------------------------------------------------------------------

Init ==
  /\ now = 1 /\ calls = 0
  /\ lift = [status |-> "active", label |-> "none"]
  /\ inspections = <<>> /\ faults = <<>>
  /\ call = [r \in Request |-> NoCall]

(* What each view of the API leads to. *)
FaultViewSet ==
  \/ \E r \in Request : ReportByStaff(r) \/ Resolve(r)
  \/ \E f \in DOMAIN faults :
       \/ Assign(f) \/ Arrive(f) \/ Close(f) \/ Cancel(f) \/ EditFault(f)
       \/ \E r \in Request : LockToResolve(r, f)

PublicFaultReportView == \E r \in Request : LockForReport(r) \/ Merge(r) \/ ReportPublic(r)

InspectionViewSet ==
  \E r \in Request :
    \/ RecordInspection(r) \/ SaveInspection(r) \/ SyncElevator(r)
    \/ \E i \in DOMAIN inspections : FetchInspection(r, i)

NonConformityViewSet ==
  \E r \in Request :
    \/ EditNonconformity(r) \/ LockDefect(r) \/ OpenFault(r)
    \/ \E i \in DOMAIN inspections : FetchDefect(r, i)

Next ==
  \/ FaultViewSet \/ PublicFaultReportView \/ InspectionViewSet \/ NonConformityViewSet
  \/ \E r \in Request : FetchLift(r) \/ GiveUp(r) \/ ReportByPortal(r) \/ PatchLift(r)
  \/ ForgetPublicReporters
  \/ Tick

Spec == Init /\ [][Next]_vars

-----------------------------------------------------------------------------
(* Properties                                                              *)

(* The lift, its inspections and its faults keep their shape, and a defect *)
(* and its fault are of one inspection.                                    *)
TypeOK ==
  /\ lift \in [status : Statuses, label : Labels \cup {"none"}]
  /\ now \in 0 .. MaxNow /\ calls \in 0 .. MaxCalls
  /\ Len(inspections) <= MaxInspections /\ Len(faults) <= MaxFaults
  /\ \A i \in DOMAIN inspections :
       inspections[i].fault # 0 => faults[inspections[i].fault].defect = i
  /\ \A f \in DOMAIN faults :
       /\ faults[f].channel \in Channels /\ faults[f].priority \in Priorities
       /\ faults[f].reported <= now /\ faults[f].finished <= now

(* However many residents report at once, the lift has one public fault    *)
(* waiting for a technician that is no older than the window: any two were *)
(* reported further apart (report_public, and the lock it takes).          *)
OnePublicFaultPerWindow ==
  \A f, g \in DOMAIN faults :
    /\ f < g
    /\ \A h \in {f, g} : faults[h].channel = "public_qr" /\ faults[h].status \in {"open", "assigned"}
    => faults[g].reported - faults[f].reported > PUBLIC_MERGE_WINDOW

(* A report is never added to a fault that nobody will go to any more, and *)
(* a finished fault never learns who reported it: what is forgotten stays  *)
(* so, and no report is lost in a fault that was closed meanwhile.         *)
ReportsReachWaitingFaults ==
  [][\A f \in DOMAIN faults :
       \/ faults'[f].reports > faults[f].reports
       \/ faults'[f].reporter /\ ~faults[f].reporter
       => faults[f].status \in {"open", "assigned"} /\ faults'[f].status = faults[f].status]_vars

(* What residents add raises the priority or leaves it; and a fault that   *)
(* is, or becomes, an emergency has been announced as one.                 *)
EmergenciesAreHeard ==
  [][\A f \in DOMAIN faults' :
       /\ faults'[f].priority = "emergency" => faults'[f].alarmed
       /\ f \in DOMAIN faults /\ faults'[f].reports > faults[f].reports
            => Rank(faults'[f].priority) <= Rank(faults[f].priority)]_vars

(* What people report reaches somebody who will come: report_public,       *)
(* _merge, and the moves and corrections that may overtake them.           *)
ReportsAreHeard == ReportsReachWaitingFaults /\ EmergenciesAreHeard

(* Once the office has said whether a fault is billed, neither resolving   *)
(* nor closing it says otherwise; only the office does.                    *)
StatedBillingStays ==
  [][\A f \in DOMAIN faults :
       faults[f].stated /\ faults'[f].billable # faults[f].billable =>
         faults'[f].status = faults[f].status]_vars

(* A second fault is opened for a defect only when its row names none any  *)
(* more, which takes a PATCH that fetched it before the first was opened.  *)
DefectsConverge ==
  [][\A f \in DOMAIN faults' \ DOMAIN faults :
       faults'[f].defect # None => inspections[faults'[f].defect].fault = 0]_vars

(* One fault for what is one cause, however many say so and however their  *)
(* calls overlap: residents at the door, and an inspection's defect.       *)
FaultsConverge == [](TypeOK /\ OnePublicFaultPerWindow) /\ DefectsConverge

(* An inspection that no other call overlapped leaves the lift as its      *)
(* newest inspection says, however recorded, corrected or redated before:  *)
(* its label, and out of use when that is red.                             *)
LiftFollowsNewest ==
  [][\A r \in Request :
       Alone(r) /\ SyncElevator(r) =>
         \E i \in DOMAIN inspections' :
           /\ \A j \in DOMAIN inspections' :
                \/ inspections'[i].on > inspections'[j].on
                \/ inspections'[i].on = inspections'[j].on /\ i >= j
           /\ lift'.label = inspections'[i].label
           /\ lift'.label = "red" => lift'.status # "active"]_vars

(* What a person sealed or suspended, only a person puts back: a call that *)
(* unseals the lift is a PATCH, or acts on a lift it read before.          *)
SealStays ==
  [][lift.status = "sealed" /\ lift'.status # "sealed" =>
       \E r \in Request :
         PatchLift(r) \/ (call'[r] # call[r] /\ "lift" \in DOMAIN call[r] /\ call[r].lift # lift)]_vars

(* The lift's label and status are its newest inspection's and what people *)
(* decided, never what the order of the calls left (sync_elevator, resolve).*)
LiftFollowsPeople == LiftFollowsNewest /\ SealStays

=============================================================================
