------------------------------- MODULE Reports -------------------------------
(***************************************************************************)
(* The monthly report of one customer and one month: the scheduler that    *)
(* claims and enqueues the daily job (core/scheduling.py), the job that    *)
(* makes, stores and mails the missing reports (apps/reports/tasks.py,     *)
(* services.generate), and the office sending a report again or rendering  *)
(* it again while the job runs (CustomerReportViewSet).                    *)
(*                                                                         *)
(* A report's PDF is an object in the bucket put before its transaction    *)
(* commits, and its mails leave after it commits, so every step between    *)
(* the three is one at which the process may die.  What is uncommitted is  *)
(* kept in the worker's own record until its transaction ends.             *)
(***************************************************************************)
EXTENDS Attachments

CONSTANTS
    Contacts,     \* the customer's contacts that have an address
    Schedulers,   \* scheduler processes ticking at one time
    Office,       \* requests of the office under way at one time
    MailWindow,   \* days after the month's end on which a report is still mailed (MAIL_WINDOW)
    MaxCalls,     \* bound: sends, renderings, uploads and changes of settings
    MaxFaults     \* bound: failures and crashes, a refused mail not counted

(* CustomerReport: its file, how it was delivered, to whom, and whom it missed. *)
CustomerReport ==
    [file : Nat, delivery : {"pending", "sent", "failed", "not_enabled", "no_recipient"},
     recipients : SUBSET Contacts, failed : SUBSET Contacts]

ASSUME ReportsAssumption ==
    /\ MailWindow \in Nat /\ MaxCalls \in Nat /\ MaxFaults \in Nat
    /\ Office \cap Nat = {} /\ Nothing \notin CustomerReport

VARIABLES
    covered,      \* whether the customer had a covered lift in the month
    enabled,      \* the company's monthly_reports_enabled
    ticked,       \* the contacts ticked to receive the report
    report,       \* the live row of (customer, period), or NoReport
    ticking,      \* per scheduler, the day whose job it is about to claim, or 0
    enqueued,     \* per day, how often the job was put on the queue
    work,         \* per worker, where it stands in its transaction
    keys,         \* object keys the server has made up so far
    calls,        \* history: office requests so far
    faults,       \* history: failures and crashes so far
    lost,         \* history: objects in the hands of a process that died or gave up
    jobMailed,    \* history: per contact, how often the job mailed them
    steady,       \* history: no send overlapped the newest one and no process died mailing
    bounced       \* history: the addresses the newest send's mails did not reach

reportVars == <<covered, enabled, ticked, report, ticking, enqueued, work, keys,
                calls, faults, lost, jobMailed, steady, bounced>>
jobVars == <<attachmentVars, reportVars>>

Days == 1 .. LastDay
Workers == Days \cup Office
NoReport == Nothing

(* Where a worker stands: the object it has put, the row it will replace,  *)
(* the addresses still to be mailed and the failures it has read.          *)
Idle == [at |-> "idle", key |-> 0, old |-> 0, to |-> {}, read |-> {}, who |-> Nothing]
At(w, place) == work[w].at = place
Becomes(w, state) == work' = [work EXCEPT ![w] = state]
Mailing(to) == IF to = {} THEN Idle ELSE [Idle EXCEPT !.at = "mailing", !.to = to]

ReportsInit ==
    /\ AttachmentsInit
    /\ covered \in BOOLEAN /\ enabled \in BOOLEAN
    /\ ticked \in SUBSET Contacts
    /\ report = NoReport
    /\ ticking = [s \in Schedulers |-> 0]
    /\ enqueued = [d \in Days |-> 0]
    /\ work = [w \in Workers |-> Idle]
    /\ keys = 0 /\ calls = 0 /\ faults = 0
    /\ lost = {}
    /\ jobMailed = [c \in Contacts |-> 0]
    /\ steady = TRUE
    /\ bounced = {}

MayFail == faults < MaxFaults /\ faults' = faults + 1

-----------------------------------------------------------------------------
(* A tick finds no run of date's job claimed. *)
TickLooks(s) ==
    /\ ticking[s] = 0
    /\ enqueued[date] = 0
    /\ ticking' = [ticking EXCEPT ![s] = date]
    /\ UNCHANGED <<attachmentVars, covered, enabled, ticked, report, enqueued, work, keys,
                   calls, faults, lost, jobMailed, steady, bounced>>

(* Mutated: the claim is for the month. *)
Unclaimed_OnceAMonth(d) == \A e \in Days : enqueued[e] = 0

(* The unique (job, period) of ScheduledRun. *)
Unclaimed(d) == enqueued[d] = 0

(* The claim and the task on the queue, in one transaction; the loser of a race stops. *)
TickClaims(s) ==
    LET d == ticking[s] IN
    /\ d # 0
    /\ ticking' = [ticking EXCEPT ![s] = 0]
    /\ IF Unclaimed(d)
       THEN /\ enqueued' = [enqueued EXCEPT ![d] = @ + 1]
            /\ Becomes(d, [Idle EXCEPT !.at = "queued"])
       ELSE UNCHANGED <<enqueued, work>>
    /\ UNCHANGED <<attachmentVars, covered, enabled, ticked, report, keys, calls, faults, lost,
                   jobMailed, steady, bounced>>

(* The enqueue fails, or the scheduler dies: the claim goes with it. *)
TickFails(s) ==
    /\ ticking[s] # 0
    /\ MayFail
    /\ ticking' = [ticking EXCEPT ![s] = 0]
    /\ UNCHANGED <<attachmentVars, covered, enabled, ticked, report, enqueued, work, keys,
                   calls, lost, jobMailed, steady, bounced>>

EnqueueDue == \E s \in Schedulers : TickLooks(s) \/ TickClaims(s) \/ TickFails(s)

-----------------------------------------------------------------------------
(* A fresh key, and the rendered PDF put behind it. *)
Puts == keys' = keys + 1 /\ bucket' = bucket \cup {keys + 1}

(* _discard removes the objects whose rows are rolled back. *)
Discards(w) == bucket' = bucket \ {work[w].key}

(* The report's row as the insert leaves it, its file the newest row. *)
Drafted == [file |-> Len(files) + 1, delivery |-> "pending", recipients |-> {}, failed |-> {}]

(* build_report finds no lift covered by a contract on any day of the month. *)
NothingToReport == ~covered

(* recipients_of: the contacts ticked when the report is sent. *)
Recipients == ticked

(* uq_customer_report_period: the insert waits for another run's uncommitted *)
(* row and then finds the month taken, or not.                               *)
InsertWaits(d) == \E e \in Days \ {d} : At(e, "filed")

(* Mutated: no unique index. *)
MonthTaken_Never == FALSE

(* The month has a live report already. *)
MonthTaken == report # NoReport

(* The job reaches the customer: there is a report already, nothing to report, or a PDF to store. *)
JobLooks(d) ==
    /\ At(d, "queued")
    /\ IF MonthTaken \/ NothingToReport
       THEN Becomes(d, Idle) /\ UNCHANGED <<bucket, keys>>
       ELSE Puts /\ Becomes(d, [Idle EXCEPT !.at = "building", !.key = keys + 1])
    /\ UNCHANGED <<date, files, uploads, confirming, sweeping, covered, enabled, ticked, report,
                   ticking, enqueued, calls, faults, lost, jobMailed, steady, bounced>>

JobInserts(d) ==
    /\ At(d, "building")
    /\ ~InsertWaits(d)
    /\ IF MonthTaken
       THEN Discards(d) /\ Becomes(d, Idle)
       ELSE UNCHANGED bucket /\ Becomes(d, [work[d] EXCEPT !.at = "filed"])
    /\ UNCHANGED <<date, files, uploads, confirming, sweeping, covered, enabled, ticked, report,
                   ticking, enqueued, keys, calls, faults, lost, jobMailed, steady, bounced>>

(* What a committed send writes: SENT to these addresses, no failure yet, and the mails to go. *)
SentTo(r, to) == [r EXCEPT !.delivery = "sent", !.recipients = to, !.failed = {}]

Sends(w, r, to) ==
    /\ report' = SentTo(r, to)
    /\ Becomes(w, Mailing(to))
    /\ steady' = (\A v \in Workers \ {w} : work[v].at \notin {"mailing", "marking"})
    /\ bounced' = {}

(* _deliver, and the commit of the report, its file and its delivery. *)
JobDelivers(d) ==
    /\ At(d, "filed")
    /\ files' = Append(files, Attachment(work[d].key, TRUE))
    /\ \/ /\ ~(d <= MailWindow /\ enabled)
          /\ report' = [Drafted EXCEPT !.delivery = "not_enabled"]
          /\ Becomes(d, Idle)
          /\ UNCHANGED <<steady, bounced>>
       \/ /\ d <= MailWindow /\ enabled
          /\ Recipients = {}
          /\ report' = [Drafted EXCEPT !.delivery = "no_recipient"]
          /\ Becomes(d, Idle)
          /\ UNCHANGED <<steady, bounced>>
       \/ /\ d <= MailWindow /\ enabled
          /\ Recipients # {}
          /\ Sends(d, Drafted, Recipients)
    /\ UNCHANGED <<date, bucket, uploads, confirming, sweeping, covered, enabled, ticked,
                   ticking, enqueued, keys, calls, faults, lost, jobMailed>>

(* Rendering, the database or the bucket fails: the customer's transaction is *)
(* rolled back, and the next run tries again.                                 *)
JobFails(d) ==
    /\ At(d, "building") \/ At(d, "filed")
    /\ MayFail
    /\ Discards(d)
    /\ Becomes(d, Idle)
    /\ UNCHANGED <<date, files, uploads, confirming, sweeping, covered, enabled, ticked, report,
                   ticking, enqueued, keys, calls, lost, jobMailed, steady, bounced>>

MonthlyCustomerReports ==
    \E d \in Days : JobLooks(d) \/ JobInserts(d) \/ JobDelivers(d) \/ JobFails(d)

-----------------------------------------------------------------------------
(* One mail leaves after the commit, and arrives or is refused. *)
MailGoes(w, c) ==
    /\ At(w, "mailing") /\ c \in work[w].to
    /\ Becomes(w, Mailing(work[w].to \ {c}))
    /\ jobMailed' = IF w \in Days THEN [jobMailed EXCEPT ![c] = @ + 1] ELSE jobMailed
    /\ UNCHANGED <<attachmentVars, covered, enabled, ticked, report, ticking, enqueued, keys,
                   calls, faults, lost, steady, bounced>>

(* A refused mail: _mark_failed reads the failures on record... *)
MailBounces(w, c) ==
    /\ At(w, "mailing") /\ c \in work[w].to
    /\ Becomes(w, [work[w] EXCEPT !.at = "marking", !.who = c, !.read = report.failed])
    /\ bounced' = bounced \cup {c}
    /\ UNCHANGED <<attachmentVars, covered, enabled, ticked, report, ticking, enqueued, keys,
                   calls, faults, lost, jobMailed, steady>>

(* Mutated: only the newest is kept. *)
FailedNow_OnlyNewest(read, c) == {c}

(* ... keeps the earlier ones... *)
FailedNow(read, c) == read \cup {c}

(* ... and writes them back. *)
FailureMarked(w) ==
    /\ At(w, "marking")
    /\ report' = [report EXCEPT !.delivery = "failed",
                                !.failed = FailedNow(work[w].read, work[w].who)]
    /\ Becomes(w, Mailing(work[w].to \ {work[w].who}))
    /\ UNCHANGED <<attachmentVars, covered, enabled, ticked, ticking, enqueued, keys, calls,
                   faults, lost, jobMailed, steady, bounced>>

SendAfterCommit ==
    \E w \in Workers : \/ \E c \in Contacts : MailGoes(w, c) \/ MailBounces(w, c)
                       \/ FailureMarked(w)

(* A process dies: its transaction is rolled back, an object it has put stays  *)
(* in the bucket, mails not yet sent are never sent.                           *)
WorkerDies(w) ==
    /\ work[w].at # "idle"
    /\ MayFail
    /\ lost' = lost \cup ({work[w].key} \ {0})
    /\ steady' = (steady /\ work[w].at \notin {"mailing", "marking"})
    /\ Becomes(w, Idle)
    /\ UNCHANGED <<attachmentVars, covered, enabled, ticked, report, ticking, enqueued, keys,
                   calls, jobMailed, bounced>>

-----------------------------------------------------------------------------
MayCall == calls < MaxCalls /\ calls' = calls + 1

(* send: again, to the contacts ticked now.  A report without a recipient is   *)
(* refused; one without a file is rendered first, which ReportHasItsFile shows *)
(* never to be needed.                                                         *)
OfficeSends(o) ==
    /\ At(o, "idle") /\ report # NoReport
    /\ Recipients # {}
    /\ MayCall
    /\ Sends(o, report, Recipients)
    /\ UNCHANGED <<attachmentVars, covered, enabled, ticked, ticking, enqueued, keys, faults,
                   lost, jobMailed>>

(* regenerate: the old file is read, the new PDF rendered and put... *)
RegenerateStores(o) ==
    /\ At(o, "idle") /\ report # NoReport
    /\ MayCall
    /\ Puts
    /\ Becomes(o, [Idle EXCEPT !.at = "rendered", !.key = keys + 1, !.old = report.file])
    /\ UNCHANGED <<date, files, uploads, confirming, sweeping, covered, enabled, ticked, report,
                   ticking, enqueued, faults, lost, jobMailed, steady, bounced>>

(* The file a rendering replaces: the one it read before it stored the new. *)
Replaced(o) == work[o].old

(* ... and the report points at it, the old row soft-deleted in the same commit. *)
RegenerateSaves(o) ==
    /\ At(o, "rendered")
    /\ report' = [report EXCEPT !.file = Len(files) + 1]
    /\ files' = [Append(files, Attachment(work[o].key, TRUE))
                    EXCEPT ![Replaced(o)].deletedOn = date]
    /\ Becomes(o, Idle)
    /\ UNCHANGED <<date, bucket, uploads, confirming, sweeping, covered, enabled, ticked,
                   ticking, enqueued, keys, calls, faults, lost, jobMailed, steady, bounced>>

CustomerReportViewSet ==
    \E o \in Office : OfficeSends(o) \/ RegenerateStores(o) \/ RegenerateSaves(o)

(* The company's switch. *)
SwitchReports ==
    /\ MayCall
    /\ enabled' = ~enabled
    /\ UNCHANGED <<attachmentVars, covered, ticked, report, ticking, enqueued, work, keys, faults,
                   lost, jobMailed, steady, bounced>>

(* Contacts are ticked and unticked. *)
TickContacts(some) ==
    /\ MayCall
    /\ ticked # some /\ ticked' = some
    /\ UNCHANGED <<attachmentVars, covered, enabled, report, ticking, enqueued, work, keys, faults,
                   lost, jobMailed, steady, bounced>>

(* An upload takes a place among the office's requests. *)
UploadUrl ==
    /\ MayCall
    /\ \E u \in Uploads : PrepareUpload(u)
    /\ UNCHANGED <<covered, enabled, ticked, report, ticking, enqueued, work, keys, faults, lost,
                   jobMailed, steady, bounced>>

(* Midnight.  A run or a sweep may still be at work; a scheduler that was down *)
(* all day has missed it, and a missed day is not replayed.                    *)
Tomorrow ==
    /\ date < LastDay
    /\ IF enqueued[date] = 0 THEN MayFail ELSE UNCHANGED faults
    /\ date' = date + 1
    /\ UNCHANGED <<bucket, files, uploads, confirming, sweeping, covered, enabled, ticked, report,
                   ticking, enqueued, work, keys, calls, lost, jobMailed, steady, bounced>>

-----------------------------------------------------------------------------
ReportsNext ==
    \/ UploadUrl
    \/ AttachmentViewSet /\ UNCHANGED reportVars
    \/ PurgeAttachments /\ UNCHANGED reportVars
    \/ EnqueueDue
    \/ MonthlyCustomerReports
    \/ SendAfterCommit
    \/ \E w \in Workers : WorkerDies(w)
    \/ CustomerReportViewSet
    \/ SwitchReports
    \/ \E some \in SUBSET Contacts : TickContacts(some)
    \/ Tomorrow

(* The scheduler keeps ticking, the worker keeps working what is queued, and time passes. *)
Fairness ==
    /\ \A s \in Schedulers : WF_jobVars(TickLooks(s)) /\ WF_jobVars(TickClaims(s))
    /\ \A d \in Days : WF_jobVars(JobLooks(d) \/ JobInserts(d) \/ JobDelivers(d))
    /\ WF_jobVars(Tomorrow)

ReportsSpec == ReportsInit /\ [][ReportsNext]_jobVars /\ Fairness

-----------------------------------------------------------------------------
ReportsTyped ==
    /\ date \in Days /\ bucket \subseteq Uploads \cup 1 .. keys
    /\ \A f \in DOMAIN files : files[f].key \in Uploads \cup 1 .. keys
    /\ sweeping \in 0 .. Len(files)
    /\ \A w \in Workers : work[w].to \subseteq Contacts /\ work[w].key \in 0 .. keys
    /\ report # NoReport => report.file \in DOMAIN files

(* A report that exists always has a PDF to send: its file is a live row with *)
(* an object behind it, whatever sweeps, failures, crashes and overlapping    *)
(* renderings came before ("what is sent is always a PDF the report still     *)
(* holds", send_report).                                                      *)
ReportHasItsFile ==
    report # NoReport => LiveFile(report.file) /\ files[report.file].key \in bucket

(* The bucket holds no PDF of the server's that nothing will ever remove: each *)
(* has a row, is in the hands of a worker, or was left by a process that died. *)
OrphansOnlyFromCrashes ==
    \A k \in bucket \ Uploads :
        \/ \E f \in RowsOf(k) : ~files[f].cleared
        \/ \E w \in Workers : work[w].key = k
        \/ k \in lost

(* Files, rows and objects agree wherever the sweep, a rendering, a failure  *)
(* or a crash left them (_store_pdf, _discard, purge_detached_objects).       *)
FilesAreAccountedFor == ReportsTyped /\ ReportHasItsFile /\ SweptMeansGone /\ OrphansOnlyFromCrashes

(* The job mails a contact a month's report once at most, however many runs    *)
(* overlap, fail or are repeated: "a second run makes nothing and sends        *)
(* nothing" (monthly_customer_reports).                                        *)
JobMailsOnce == \A c \in Contacts : jobMailed[c] <= 1

(* Once the newest send is through, the report says exactly which addresses it *)
(* did not reach, unless another send overlapped it or its process died.       *)
FailuresAreOnRecord ==
    (/\ steady /\ report # NoReport
     /\ \A w \in Workers : work[w].at \notin {"mailing", "marking"})
    => /\ report.failed = bounced
       /\ report.delivery = "failed" <=> bounced # {}

(* "A restart, a second scheduler or two ticks in one minute cannot start a    *)
(* job twice" (core/scheduling.py).                                            *)
OneRunPerDay == \A d \in Days : enqueued[d] <= 1

(* A day's job is started once and a month is mailed once, by any number of   *)
(* schedulers, runs and retries (enqueue_due, generate).                      *)
JobActsOnce == OneRunPerDay /\ JobMailsOnce

(* A month with something to report gets its report: "the next run tries it    *)
(* again" (generate), as long as there are more days than failures.            *)
MonthIsReported == covered ~> (report # NoReport)

=============================================================================
