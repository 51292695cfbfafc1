------------------------------ MODULE Notices ------------------------------
(***************************************************************************)
(* apps/notifications and those who raise notices: the daily jobs that     *)
(* warn (contracts, maintenance, inspections), the requests that announce  *)
(* (faults, labels, visits), the task that e-mails and the reader's own    *)
(* preferences.                                                            *)
(*                                                                         *)
(* A job commits each insert on its own; a request inserts with the change *)
(* it announces.  Either way a mail is only queued after its notice has    *)
(* committed, and a worker may die between the two.  Topics share nothing  *)
(* but code, so a behaviour is about one of them.                          *)
(***************************************************************************)
EXTENDS Integers, FiniteSets

CONSTANTS
    Bosses,          \* owners and admins
    Dispatchers,     \* operations
    Technicians,
    Covers,          \* Covers[t]: the technicians who may have the lift's customer
    NoOne,          \* no one, or a reporter without an account
    Workers,         \* scheduler and server processes
    PlanRows,        \* planned visits of one month
    Topics,          \* what the notices are about
    Chosen,          \* bound: the kinds readers make a choice on
    NoticeDays,      \* how far ahead an inspection or a contract's end is announced
    CORRECTION_THRESHOLDS,
    LastDay,         \* bound: days that pass
    MaxTurns         \* bound, by topic: changes to what the notices are about

Person == Bosses \cup Dispatchers \cup Technicians

ASSUME NoticesAssumption ==
    /\ NoOne \notin Person
    /\ NoticeDays \in Nat /\ LastDay \in Nat /\ CORRECTION_THRESHOLDS \subseteq Nat
    /\ Covers \in [Topics -> SUBSET Technicians] /\ MaxTurns \in [Topics -> Nat]

VARIABLES
    topic,     \* what this behaviour is about
    subject,   \* the rows it reads: a contract or lift's date, a fault, a plan
    day,       \* the local date; its end also ends the coalescing window
    staff,     \* the active accounts
    choice,    \* choice[p]: the preferences p has stored, a kind to a flag
    notices,   \* the notifications raised, by reader and key
    raising,   \* raising[w]: the notify() calls w has under way
    queue,     \* the mails waiting to be sent, by notice
    turn,      \* changes made so far
    unsent,    \* history: notices whose mail was lost, or whose reader had left
    away       \* history: who has been inactive at some time

rows == <<topic, subject, day, turn>>
people == <<staff, choice, away>>
mailing == <<queue, unsent>>
noticesVars == <<rows, people, notices, raising, mailing>>

-----------------------------------------------------------------------------
(* Kinds and readers                                                       *)

KindsOf(t) ==
    CASE t = "contract" -> {"contract_renewal_due", "contract_expired"}
      [] t = "maintenance" -> {"maintenance_overdue"}
      [] t = "inspection" -> {"inspection_due"}
      [] t = "correction" -> {"correction_deadline_near", "correction_deadline_passed"}
      [] t = "label" -> {"inspection_red_label"}
      [] t = "fault" -> {"fault_reported", "fault_emergency", "fault_assigned", "fault_resolved"}
      [] t = "plan" -> {"visit_assigned"}

(* Mailed to whoever never said otherwise: all but the daily noise. *)
EMAIL_DEFAULTS(kind) == kind \notin {"maintenance_overdue", "fault_resolved"}

(* Mailed whatever the reader chose. *)
EMAIL_ALWAYS == {"fault_emergency", "correction_deadline_passed", "inspection_red_label"}

Office == Bosses \cup Dispatchers
OfficeAndTechnicians == Office \cup subject.covers

(* What notify() is asked: a kind, the key that makes the event distinct,  *)
(* and one reader; `of` are the planned visits it counts.                  *)
Notice(kind, key, p) == [key |-> <<kind, key>>, to |-> p, of |-> {}]
Kind(b) == b.key[1]
ToEach(kind, key, readers) == {Notice(kind, key, p) : p \in readers \cap staff}

Copies(p, key) == {n \in DOMAIN notices : n.to = p /\ n.key = key}
Holds(p, key) == Copies(p, key) # {}

(* _wants_email: always, or the reader's own choice, or the default. *)
WantsEmail(b) ==
    \/ Kind(b) \in EMAIL_ALWAYS
    \/ IF Kind(b) \in DOMAIN choice[b.to] THEN choice[b.to][Kind(b)] ELSE EMAIL_DEFAULTS(Kind(b))

(* A row's identity, and what it holds; only visits are told apart by when *)
(* they were raised.                                                       *)
Id(b) == [to |-> b.to, key |-> b.key, copy |-> Cardinality(Copies(b.to, b.key))]
NoticeRow(b) == [of |-> b.of, on |-> IF topic = "plan" THEN day ELSE 0, read |-> FALSE, mails |-> 0]

(* The table with these raised. *)
WithNotices(new) ==
    [n \in DOMAIN notices \cup {Id(b) : b \in new} |->
       IF n \in DOMAIN notices THEN notices[n] ELSE NoticeRow(CHOOSE b \in new : Id(b) = n)]

-----------------------------------------------------------------------------
(* Idle worker; a notify() inserting for those still to tell; a mail to    *)
(* queue for each notice it made.                                          *)
IdleWorker == [at |-> "idle", tell |-> {}, made |-> {}]

NoticesInit ==
    /\ topic \in Topics
    /\ subject \in [date : 1..LastDay, stands : {TRUE}, inspection : {1}, red : {FALSE},
                    covers : SUBSET Covers[topic], status : {"none"}, emergency : {FALSE},
                    by : {NoOne}, technician : {NoOne}, assigned : {0},
                    plan : [PlanRows -> {NoOne}]]
    /\ day = 1 /\ turn = 0
    /\ staff = Person /\ away = {}
    /\ choice = [p \in Person |-> <<>>]
    /\ notices = <<>>
    /\ raising = [w \in Workers |-> IdleWorker]
    /\ queue = {} /\ unsent = {}

(* A change to the rows, bounded. *)
Turns == turn < MaxTurns[topic] /\ turn' = turn + 1

-----------------------------------------------------------------------------
(* The daily jobs: what each would tell today, and whom                    *)

(* contract_renewal_notice: an active contract whose end is near. *)
RenewalNotice ==
    IF subject.stands /\ day < subject.date /\ subject.date <= day + NoticeDays
    THEN ToEach("contract_renewal_due", subject.date, Bosses)
    ELSE {}

(* maintenance_overdue: a covered lift past its due date. *)
MaintenanceOverdue ==
    IF subject.stands /\ subject.date < day
    THEN ToEach("maintenance_overdue", subject.date, OfficeAndTechnicians)
    ELSE {}

(* inspection_due_notice: a covered lift whose inspection is near. *)
InspectionDueNotice ==
    IF subject.stands /\ day <= subject.date /\ subject.date <= day + NoticeDays
    THEN ToEach("inspection_due", subject.date, Office)
    ELSE {}

(* threshold_for: the tightest that is crossed. *)
Crossed(days_left) == {t \in CORRECTION_THRESHOLDS : days_left <= t}
Tightest(days_left) == CHOOSE t \in Crossed(days_left) : \A u \in Crossed(days_left) : t <= u

(* correction_deadline_notice: the current inspection, while defects are   *)
(* open; once per inspection and threshold.                                *)
CorrectionDeadlineNotice ==
    LET days_left == subject.date - day
    IN  CASE ~subject.stands -> {}
          [] subject.stands /\ days_left < 0 ->
               ToEach("correction_deadline_passed", subject.inspection, OfficeAndTechnicians)
          [] subject.stands /\ days_left >= 0 /\ Crossed(days_left) # {} ->
               ToEach("correction_deadline_near", <<subject.inspection, Tightest(days_left)>>,
                      OfficeAndTechnicians)
          [] OTHER -> {}

DueToday ==
    CASE topic = "contract" -> RenewalNotice
      [] topic = "maintenance" -> MaintenanceOverdue
      [] topic = "inspection" -> InspectionDueNotice
      [] topic = "correction" -> CorrectionDeadlineNotice
      [] OTHER -> {}

(* A job reads what is due and its readers; a job run twice, or by two     *)
(* schedulers, starts again from here.                                     *)
JobNotifies(w) ==
    /\ raising[w] = IdleWorker
    /\ DueToday # {}
    /\ raising' = [raising EXCEPT ![w] = [at |-> "inserting", tell |-> DueToday, made |-> {}]]
    /\ UNCHANGED <<rows, people, notices, mailing>>

(* Mutated: who holds the key is read before the first insert. *)
CreateOnce_Mutation(w, b) ==
    /\ notices' = WithNotices({b})
    /\ raising' = [raising EXCEPT ![w].tell = @ \ {b}, ![w].made = @ \cup {Id(b)}]

(* _create_once: the unique key decides; one reader's failure is no        *)
(* other's.                                                                *)
CreateOnce(w, b) ==
    IF Holds(b.to, b.key)
    THEN /\ raising' = [raising EXCEPT ![w].tell = @ \ {b}]
         /\ UNCHANGED notices
    ELSE /\ notices' = WithNotices({b})
         /\ raising' = [raising EXCEPT ![w].tell = @ \ {b}, ![w].made = @ \cup {Id(b)}]

JobInserts(w) ==
    /\ raising[w].at = "inserting"
    /\ \E b \in raising[w].tell : CreateOnce(w, b)
    /\ UNCHANGED <<rows, people, mailing>>

(* Who wants a mail is read once all notices are in. *)
JobDecides(w) ==
    /\ raising[w].at = "inserting" /\ raising[w].tell = {}
    /\ LET wanted == {n \in raising[w].made : WantsEmail(n)}
       IN  raising' = [raising EXCEPT ![w] = IF wanted = {} THEN IdleWorker
                                             ELSE [at |-> "mailing", tell |-> {}, made |-> wanted]]
    /\ UNCHANGED <<rows, people, notices, mailing>>

(* contract_expiry: what it closed has committed; it tells it next.        *)
ContractExpired(w) ==
    /\ topic = "contract" /\ Turns
    /\ raising[w] = IdleWorker
    /\ subject.stands /\ subject.date < day
    /\ subject' = [subject EXCEPT !.stands = FALSE]
    /\ raising' = [raising EXCEPT ![w] = [at |-> "inserting", made |-> {},
                                          tell |-> ToEach("contract_expired", 1, Bosses)]]
    /\ UNCHANGED <<topic, day, people, notices, mailing>>

-----------------------------------------------------------------------------
(* Mail                                                                    *)

MailLess(w, n) ==
    LET left == raising[w].made \ {n}
    IN  [raising EXCEPT ![w] = IF left = {} THEN IdleWorker ELSE [@ EXCEPT !.made = left]]

(* After the commit, one by one; one that fails to queue is logged. *)
Enqueue(w) ==
    /\ raising[w].at = "mailing"
    /\ \E n \in raising[w].made :
         /\ raising' = MailLess(w, n)
         /\ \/ queue' = queue \cup {n} /\ UNCHANGED unsent
            \/ unsent' = unsent \cup {n} /\ UNCHANGED queue
    /\ UNCHANGED <<rows, people, notices>>

(* The process is killed: what it made stays, and will not be mailed. *)
WorkerDies(w) ==
    /\ raising[w] # IdleWorker
    /\ raising' = [raising EXCEPT ![w] = IdleWorker]
    /\ unsent' = unsent \cup raising[w].made
    /\ UNCHANGED <<rows, people, notices, queue>>

(* send_notification_email: not to someone who has left since. *)
SendNotificationEmail(n) ==
    /\ n \in queue
    /\ queue' = queue \ {n}
    /\ IF n.to \in staff
       THEN notices' = [notices EXCEPT ![n].mails = @ + 1] /\ UNCHANGED unsent
       ELSE unsent' = unsent \cup {n} /\ UNCHANGED notices
    /\ UNCHANGED <<rows, people, raising>>

-----------------------------------------------------------------------------
(* Requests: one transaction, and the mails it queues once it committed    *)

(* notify(), inside the transaction of w's request. *)
Notify(w, told) ==
    LET news == {b \in told : b.to \in staff /\ ~Holds(b.to, b.key)}
        wanted == {Id(b) : b \in {c \in news : WantsEmail(c)}}
    IN  /\ raising[w] = IdleWorker
        /\ notices' = WithNotices(news)
        /\ raising' = [raising EXCEPT ![w] = IF wanted = {} THEN IdleWorker
                                             ELSE [at |-> "mailing", tell |-> {}, made |-> wanted]]

(* _announce_report: the office and the customer's technicians, and in an  *)
(* emergency whoever is assigned; but not the reporter.                    *)
AnnounceReport(fault) ==
    IF fault.emergency
    THEN ToEach("fault_emergency", 1, (OfficeAndTechnicians \cup {fault.technician}) \ {fault.by})
    ELSE ToEach("fault_reported", 1, OfficeAndTechnicians \ {fault.by})

(* _announce_assignment: once per assignment, and not to oneself. *)
AnnounceAssignment(fault) ==
    ToEach("fault_assigned", fault.assigned, {fault.technician} \ {fault.by})

(* _announce_resolution *)
AnnounceResolution(fault) == ToEach("fault_resolved", 1, Office)

FaultBecomes(w, fault, told) ==
    /\ topic = "fault" /\ Turns
    /\ subject' = fault
    /\ Notify(w, told)
    /\ UNCHANGED <<topic, day, people, mailing>>

(* report_staff, report_public, report_by_portal *)
ReportFault(w) ==
    /\ subject.status = "none"
    /\ \E by \in staff \cup {NoOne}, emergency \in BOOLEAN, to \in (Technicians \cap staff) \cup {NoOne} :
         /\ by = NoOne => to = NoOne
         /\ LET fault == [subject EXCEPT !.by = by, !.emergency = emergency, !.technician = to,
                                         !.status = IF to = NoOne THEN "open" ELSE "assigned"]
            IN  FaultBecomes(w, fault, AnnounceReport(fault) \cup AnnounceAssignment(fault))

(* _merge of a worse report, or the office's edit. *)
Escalate(w) ==
    /\ subject.status # "none" /\ ~subject.emergency
    /\ LET fault == [subject EXCEPT !.emergency = TRUE]
       IN  FaultBecomes(w, fault, AnnounceReport(fault))

(* edit: no longer an emergency; nobody is told. *)
Lower(w) ==
    /\ subject.status # "none" /\ subject.emergency
    /\ FaultBecomes(w, [subject EXCEPT !.emergency = FALSE], {})

AssignFault(w) ==
    /\ subject.status \in {"open", "assigned"}
    /\ \E to \in (Technicians \cap staff) \ {subject.technician} :
         LET fault == [subject EXCEPT !.technician = to, !.status = "assigned", !.assigned = @ + 1]
         IN  FaultBecomes(w, fault, AnnounceAssignment(fault))

(* arrive, then resolve *)
ResolveFault(w) ==
    /\ subject.status = "assigned"
    /\ FaultBecomes(w, [subject EXCEPT !.status = "resolved"], AnnounceResolution(subject))

(* record and edit of an inspection: a red label is announced once, when   *)
(* the inspection turns red.                                               *)
Label(w) ==
    /\ topic = "label" /\ Turns
    /\ \E red \in BOOLEAN :
         /\ subject' = [subject EXCEPT !.red = red]
         /\ Notify(w, IF red /\ ~subject.red
                      THEN ToEach("inspection_red_label", subject.inspection, OfficeAndTechnicians)
                      ELSE {})
    /\ UNCHANGED <<topic, day, people, mailing>>

-----------------------------------------------------------------------------
(* Planned visits                                                          *)

(* announce_assignments: a notice for one technician and month, its key    *)
(* the action's own.                                                       *)
AnnounceAssignments(to, given) ==
    IF given = {} THEN {}
    ELSE {[Notice("visit_assigned", turn, to) EXCEPT !.of = given]}

(* Unread and raised within the window. *)
Recent(to) ==
    {n \in DOMAIN notices : /\ n.to = to /\ Kind(n) = "visit_assigned"
                            /\ ~notices[n].read /\ notices[n].on = day}

(* coalesce_assignment: the newest of them counts one row more. *)
Coalesce(to, row) ==
    LET newest == CHOOSE n \in Recent(to) : \A m \in Recent(to) : m.key[2] <= n.key[2]
    IN  notices' = [notices EXCEPT ![newest].of = @ \cup {row}]

(* edit_planned_visit *)
EditPlannedVisit(w, row) ==
    /\ topic = "plan" /\ Turns
    /\ raising[w] = IdleWorker
    /\ \E to \in ((Technicians \cap staff) \cup {NoOne}) \ {subject.plan[row]} :
         /\ subject' = [subject EXCEPT !.plan[row] = to]
         /\ IF to # NoOne /\ Recent(to) # {}
            THEN Coalesce(to, row) /\ UNCHANGED raising
            ELSE Notify(w, IF to = NoOne THEN {} ELSE AnnounceAssignments(to, {row}))
    /\ UNCHANGED <<topic, day, people, mailing>>

(* bulk_assign, and the nightly plan's own assignments. *)
BulkAssign(w) ==
    /\ topic = "plan" /\ Turns
    /\ \E to \in Technicians \cap staff, given \in SUBSET PlanRows \ {{}} :
         /\ subject' = [subject EXCEPT !.plan = [r \in PlanRows |-> IF r \in given THEN to ELSE @[r]]]
         /\ Notify(w, AnnounceAssignments(to, {r \in given : subject.plan[r] # to}))
    /\ UNCHANGED <<topic, day, people, mailing>>

-----------------------------------------------------------------------------
(* What the jobs read, as others change it, and the clock                  *)

(* A visit or an inspection moves a lift's date; a contract is extended or *)
(* a deadline edited; cover, or the last defect, ends or comes back.       *)
DateMoves ==
    /\ topic \in {"contract", "maintenance", "inspection", "correction"} /\ Turns
    /\ \/ \E date \in 1..LastDay : subject' = [subject EXCEPT !.date = date]
       \/ topic # "contract" /\ subject' = [subject EXCEPT !.stands = ~@]
       \/ topic = "correction"
            /\ subject' = [subject EXCEPT !.inspection = @ + 1, !.stands = TRUE]
    /\ UNCHANGED <<topic, day, people, notices, raising, mailing>>

DayPasses ==
    /\ day <= LastDay
    /\ day' = day + 1
    /\ UNCHANGED <<topic, subject, turn, people, notices, raising, mailing>>

(* deactivate_user, and the account opened again. *)
Leaves(p) ==
    /\ p \in staff /\ Turns
    /\ staff' = staff \ {p} /\ away' = away \cup {p}
    /\ UNCHANGED <<topic, subject, day, choice, notices, raising, mailing>>

Returns(p) ==
    /\ p \notin staff /\ Turns
    /\ staff' = staff \cup {p}
    /\ UNCHANGED <<topic, subject, day, choice, away, notices, raising, mailing>>

-----------------------------------------------------------------------------
(* The reader (apps/notifications/api/v1)                                  *)

(* A list of {kind, email}: each kind at most once, and no locked one off. *)
PreferenceForms ==
    {f \in UNION {[kinds -> BOOLEAN] : kinds \in SUBSET (KindsOf(topic) \cap Chosen)} :
       \A kind \in DOMAIN f \cap EMAIL_ALWAYS : f[kind]}

(* set_preferences: exactly what was sent; a kind left out has its default *)
(* again.                                                                  *)
SetPreferences(p) ==
    /\ p \in staff /\ Turns
    /\ \E form \in PreferenceForms : choice' = [choice EXCEPT ![p] = form]
    /\ UNCHANGED <<topic, subject, day, staff, away, notices, raising, mailing>>

(* preferences_for: what the settings screen shows. *)
PreferencesFor(p) ==
    [kind \in KindsOf(topic) |->
       [email |-> kind \in EMAIL_ALWAYS
                    \/ IF kind \in DOMAIN choice[p] THEN choice[p][kind] ELSE EMAIL_DEFAULTS(kind),
        locked |-> kind \in EMAIL_ALWAYS]]

Inbox(p) == {n \in DOMAIN notices : n.to = p}
Unread(p) == {n \in Inbox(p) : ~notices[n].read}

MarkRead(ns) == [n \in DOMAIN notices |-> IF n \in ns THEN [notices[n] EXCEPT !.read = TRUE]
                                          ELSE notices[n]]

(* NotificationViewSet.read, one's own; followed where something rests on  *)
(* it.                                                                     *)
Read(p) ==
    /\ p \in staff /\ topic = "plan"
    /\ \E n \in Unread(p) : notices' = MarkRead({n})
    /\ UNCHANGED <<rows, people, raising, mailing>>

(* NotificationViewSet.read_all *)
ReadAll(p) ==
    /\ p \in staff /\ topic = "plan" /\ Unread(p) # {}
    /\ notices' = MarkRead(Unread(p))
    /\ UNCHANGED <<rows, people, raising, mailing>>

-----------------------------------------------------------------------------
NoticesNext ==
    \/ \E w \in Workers :
         \/ JobNotifies(w) \/ JobInserts(w) \/ JobDecides(w) \/ ContractExpired(w)
         \/ Enqueue(w) \/ WorkerDies(w)
         \/ ReportFault(w) \/ Escalate(w) \/ Lower(w) \/ AssignFault(w) \/ ResolveFault(w)
         \/ Label(w) \/ BulkAssign(w)
         \/ \E row \in PlanRows : EditPlannedVisit(w, row)
    \/ \E n \in queue : SendNotificationEmail(n)
    \/ \E p \in Person : Leaves(p) \/ Returns(p) \/ SetPreferences(p) \/ Read(p) \/ ReadAll(p)
    \/ DateMoves \/ DayPasses

NoticesSpec == NoticesInit /\ [][NoticesNext]_noticesVars

-----------------------------------------------------------------------------
(* Properties                                                              *)

(* A reader is told of one event once, and mailed of it at most once,      *)
(* however often and by however many the job is run.                       *)
ToldOnce ==
    /\ \A n, m \in DOMAIN notices :
         n.to = m.to /\ n.key = m.key => n = m
    /\ \A n \in DOMAIN notices : notices[n].mails <= 1

UnderWay(n) == \E w \in Workers : n \in raising[w].made

(* What is e-mailed whatever the reader chose is e-mailed, or on its way,  *)
(* unless its worker died, its queueing failed or its reader had left.     *)
UrgentIsMailed ==
    \A n \in DOMAIN notices :
      Kind(n) \in EMAIL_ALWAYS =>
        notices[n].mails = 1 \/ n \in queue \cup unsent \/ UnderWay(n)

(* Of an emergency everyone concerned has heard: that it is one, or, sent  *)
(* there since, that it is theirs.                                         *)
EmergenciesAreTold ==
    topic = "fault" /\ subject.status # "none" /\ subject.emergency =>
      \A p \in (OfficeAndTechnicians \cup {subject.technician}) \ ({subject.by, NoOne} \cup away) :
        \/ Holds(p, <<"fault_emergency", 1>>)
        \/ p = subject.technician /\ Holds(p, <<"fault_assigned", subject.assigned>>)

(* A visit given to a technician is in a notice they have not read yet.    *)
VisitsAreAnnounced ==
    \A row \in PlanRows :
      LET to == subject'.plan[row]
      IN  subject.plan[row] # to /\ to # NoOne =>
            \E n \in DOMAIN notices' :
              n.to = to /\ ~notices'[n].read /\ row \in notices'[n].of

(* Told once; mailed at all cost where it matters; and nobody misses an    *)
(* emergency or a visit that is theirs (notify, _create_once,              *)
(* _wants_email, _announce_report, coalesce_assignment).                   *)
NoticesArrive ==
    /\ [](ToldOnce /\ UrgentIsMailed /\ EmergenciesAreTold)
    /\ [][VisitsAreAnnounced]_noticesVars

=============================================================================
