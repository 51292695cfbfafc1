---------------------------- MODULE Idempotency ----------------------------
(***************************************************************************)
(* core/idempotency.py: replay protection for POST requests.               *)
(*                                                                         *)
(* One (company, principal, key) triple: the unique constraint makes every *)
(* triple independent, so a single row of idempotency_key is modelled.     *)
(* Each member of Request is one HTTP request presenting the key, served   *)
(* by its own worker.  A database statement is one step; between two       *)
(* statements of a request any other request, the purge command or the     *)
(* clock may move, and the worker may die.                                 *)
(***************************************************************************)
EXTENDS Integers

CONSTANTS
  Request,         \* HTTP requests presenting the key
  Intents,         \* endpoint and body fingerprint, as one value
  NoRequest,       \* the response of a pending row: none yet
  NoRow,           \* no row under the key
  PendingTimeout,  \* PENDING_TIMEOUT
  Retention,       \* retention_for(view)
  Attempts,        \* _RESERVE_ATTEMPTS
  MaxTime          \* bound on the clock

RowType == [pk : Nat, intent : Intents, by : Request \cup {NoRequest},
            created : Nat, expires : Nat]

ASSUME TimeoutAssumption ==
  /\ PendingTimeout \in Nat \ {0}
  /\ Retention \in Nat
  /\ PendingTimeout < Retention
ASSUME AttemptsAssumption == Attempts \in Nat \ {0}
ASSUME MaxTimeAssumption == MaxTime \in Nat
ASSUME NoneAssumption == NoRequest \notin Request /\ NoRow \notin RowType

VARIABLES
  now,      \* timezone.now()
  row,      \* the row under the key, or NoRow
  lastPk,   \* primary keys given out so far
  work,     \* what handlers committed: by whom, when, for which intent
  intent,   \* intent[r]: the request's endpoint and fingerprint
  pc,       \* where r's worker stands
  attempt,  \* r's round of the reserve loop
  asOf,     \* r's `now`, read at the start of the round
  seen,     \* r's `existing`
  held,     \* r's _Reservation: the row's pk and the fencing timestamp
  answer    \* the response r's client got

vars == <<now, row, lastPk, work, intent, pc, attempt, asOf, seen, held, answer>>
local == <<attempt, asOf, seen, held>>

Locations == {"reserve", "lookup", "decide", "handler", "release", "respond", "done", "dead"}
NotAnswered == [kind |-> "none", of |-> NoRequest]
Answers == [kind : {"none", "created", "replayed", "refused", "failed", "error"},
            of : Request \cup {NoRequest}]
WorkType == [by : Request, at : Nat, intent : Intents]

Init ==
  /\ now = 0
  /\ row = NoRow
  /\ lastPk = 0
  /\ work = {}
  /\ intent \in [Request -> Intents]
  /\ pc = [r \in Request |-> "reserve"]
  /\ attempt = [r \in Request |-> 0]
  /\ asOf = [r \in Request |-> 0]
  /\ seen = [r \in Request |-> NoRow]
  /\ held = [r \in Request |-> [pk |-> 0, at |-> 0]]
  /\ answer = [r \in Request |-> NotAnswered]

-----------------------------------------------------------------------------
(* Rows                                                                    *)

Pending(x) == x.by = NoRequest

(* _expired: the rows whose window has closed. *)
Expired(x, t) == x.expires <= t

(* Mutated: identified by its primary key alone. *)
Mine_AnyState(r) == row # NoRow /\ row.pk = held[r].pk
(* Mutated: without the fencing timestamp. *)
Mine_Unfenced(r) == row # NoRow /\ row.pk = held[r].pk /\ Pending(row)

(* _Reservation.mine: the row r reserved, still pending and not taken over. *)
Mine(r) ==
  /\ row # NoRow
  /\ row.pk = held[r].pk
  /\ row.created = held[r].at
  /\ Pending(row)

Goto(r, where) == pc' = [pc EXCEPT ![r] = where]

Tell(r, kind, of) ==
  /\ answer' = [answer EXCEPT ![r] = [kind |-> kind, of |-> of]]
  /\ Goto(r, "done")

-----------------------------------------------------------------------------
(* _reserve                                                                *)

(* The row IdempotencyKey.objects.create writes. *)
PendingRow(r) ==
  [pk |-> lastPk + 1, intent |-> intent[r], by |-> NoRequest,
   created |-> now, expires |-> now + Retention]

(* The insert, in its own transaction; a unique violation goes on to the   *)
(* lookup.  `now` is read right before it.                                 *)
InsertPending(r) ==
  /\ pc[r] = "reserve"
  /\ asOf' = [asOf EXCEPT ![r] = now]
  /\ \/ /\ row = NoRow
        /\ lastPk' = lastPk + 1
        /\ row' = PendingRow(r)
        /\ held' = [held EXCEPT ![r] = [pk |-> lastPk + 1, at |-> now]]
        /\ Goto(r, "handler")
     \/ /\ row # NoRow
        /\ Goto(r, "lookup")
        /\ UNCHANGED <<row, lastPk, held>>
  /\ UNCHANGED <<now, work, intent, attempt, seen, answer>>

(* `existing` is read.  Gone on the first round: insert again.  Gone on a  *)
(* later one: the IntegrityError is raised.                                *)
LookUp(r) ==
  /\ pc[r] = "lookup"
  /\ \/ /\ row # NoRow
        /\ seen' = [seen EXCEPT ![r] = row]
        /\ Goto(r, "decide")
        /\ UNCHANGED <<attempt, answer>>
     \/ /\ row = NoRow
        /\ attempt[r] = 0
        /\ attempt' = [attempt EXCEPT ![r] = 1]
        /\ Goto(r, "reserve")
        /\ UNCHANGED <<seen, answer>>
     \/ /\ row = NoRow
        /\ attempt[r] # 0
        /\ Tell(r, "error", NoRequest)
        /\ UNCHANGED <<seen, attempt>>
  /\ UNCHANGED <<now, row, lastPk, work, intent, asOf, held>>

(* Mutated: goes round for as long as it loses. *)
TakeOver_Unbounded(r, candidate) ==
  \/ /\ candidate
     /\ row' = [row EXCEPT !.intent = intent[r], !.by = NoRequest,
                           !.created = asOf[r], !.expires = asOf[r] + Retention]
     /\ held' = [held EXCEPT ![r] = [pk |-> seen[r].pk, at |-> asOf[r]]]
     /\ Goto(r, "handler")
     /\ UNCHANGED <<attempt, answer>>
  \/ /\ ~candidate
     /\ Goto(r, "reserve")
     /\ UNCHANGED <<row, held, attempt, answer>>

(* _take_over: the conditional UPDATE.  It matches only if the row still   *)
(* satisfies `candidate`; otherwise the loop goes round, or gives up with  *)
(* IDEMPOTENCY_KEY_IN_FLIGHT after the last attempt.                       *)
TakeOver(r, candidate) ==
  \/ /\ candidate
     /\ row' = [row EXCEPT !.intent = intent[r], !.by = NoRequest,
                           !.created = asOf[r], !.expires = asOf[r] + Retention]
     /\ held' = [held EXCEPT ![r] = [pk |-> seen[r].pk, at |-> asOf[r]]]
     /\ Goto(r, "handler")
     /\ UNCHANGED <<attempt, answer>>
  \/ /\ ~candidate
     /\ attempt[r] + 1 < Attempts
     /\ attempt' = [attempt EXCEPT ![r] = @ + 1]
     /\ Goto(r, "reserve")
     /\ UNCHANGED <<row, held, answer>>
  \/ /\ ~candidate
     /\ attempt[r] + 1 >= Attempts
     /\ Tell(r, "refused", NoRequest)
     /\ UNCHANGED <<row, held, attempt>>

SameRow(r) == row # NoRow /\ row.pk = seen[r].pk

TakeOverExpired(r) ==
  /\ Expired(seen[r], asOf[r])
  /\ TakeOver(r, SameRow(r) /\ Expired(row, asOf[r]))

RefuseReused(r) ==
  /\ ~Expired(seen[r], asOf[r])
  /\ seen[r].intent # intent[r]
  /\ Tell(r, "refused", NoRequest)
  /\ UNCHANGED <<row, held, attempt>>

ReplayStored(r) ==
  /\ ~Expired(seen[r], asOf[r])
  /\ seen[r].intent = intent[r]
  /\ ~Pending(seen[r])
  /\ Tell(r, "replayed", seen[r].by)
  /\ UNCHANGED <<row, held, attempt>>

StillRunning(x, t) == x.created > t - PendingTimeout

RefuseInFlight(r) ==
  /\ ~Expired(seen[r], asOf[r])
  /\ seen[r].intent = intent[r]
  /\ Pending(seen[r])
  /\ StillRunning(seen[r], asOf[r])
  /\ Tell(r, "refused", NoRequest)
  /\ UNCHANGED <<row, held, attempt>>

(* Mutated: the UPDATE does not ask that the row is still pending. *)
TakeOverAbandoned_Completed(r) ==
  /\ ~Expired(seen[r], asOf[r])
  /\ seen[r].intent = intent[r]
  /\ Pending(seen[r])
  /\ ~StillRunning(seen[r], asOf[r])
  /\ TakeOver(r, SameRow(r) /\ row.created < asOf[r] - PendingTimeout)

TakeOverAbandoned(r) ==
  /\ ~Expired(seen[r], asOf[r])
  /\ seen[r].intent = intent[r]
  /\ Pending(seen[r])
  /\ ~StillRunning(seen[r], asOf[r])
  /\ TakeOver(r, SameRow(r) /\ Pending(row) /\ row.created < asOf[r] - PendingTimeout)

Decide(r) ==
  /\ pc[r] = "decide"
  /\ \/ TakeOverExpired(r)
     \/ RefuseReused(r)
     \/ ReplayStored(r)
     \/ RefuseInFlight(r)
     \/ TakeOverAbandoned(r)
  /\ UNCHANGED <<now, lastPk, work, intent, asOf, seen>>

-----------------------------------------------------------------------------
(* replay_protected: the handler, its completion and its release           *)

(* The handler succeeded and _complete found the row still its own: the    *)
(* work and its stored answer commit together.                             *)
Complete(r) ==
  /\ pc[r] = "handler"
  /\ Mine(r)
  /\ row' = [row EXCEPT !.by = r, !.expires = now + Retention]
  /\ work' = work \cup {[by |-> r, at |-> now, intent |-> intent[r]]}
  /\ Goto(r, "respond")
  /\ UNCHANGED <<now, lastPk, intent, local, answer>>

(* Mutated: the loser answers as if its work stood. *)
LoseReservation_Confirmed(r) ==
  /\ pc[r] = "handler"
  /\ ~Mine(r)
  /\ Tell(r, "created", r)
  /\ UNCHANGED <<now, row, lastPk, work, intent, local>>

(* The handler succeeded but the key was taken over: _ReservationLost      *)
(* rolls its work back.                                                    *)
LoseReservation(r) ==
  /\ pc[r] = "handler"
  /\ ~Mine(r)
  /\ Tell(r, "refused", NoRequest)
  /\ UNCHANGED <<now, row, lastPk, work, intent, local>>

(* A non-2xx answer or an exception: the work is rolled back. *)
FailHandler(r) ==
  /\ pc[r] = "handler"
  /\ Goto(r, "release")
  /\ UNCHANGED <<now, row, lastPk, work, intent, local, answer>>

(* _release: delete the row if it is still this request's.  The delete may *)
(* itself fail, which is logged and leaves the row to be taken over.       *)
Release(r) ==
  /\ pc[r] = "release"
  /\ row' \in {row, IF Mine(r) THEN NoRow ELSE row}
  /\ Tell(r, "failed", NoRequest)
  /\ UNCHANGED <<now, lastPk, work, intent, local>>

Respond(r) ==
  /\ pc[r] = "respond"
  /\ Tell(r, "created", r)
  /\ UNCHANGED <<now, row, lastPk, work, intent, local>>

(* The worker dies: an open transaction rolls back, the row stays. *)
Die(r) ==
  /\ pc[r] \notin {"done", "dead"}
  /\ Goto(r, "dead")
  /\ UNCHANGED <<now, row, lastPk, work, intent, local, answer>>

-----------------------------------------------------------------------------
(* The environment                                                         *)

(* purge_expired_keys, the daily command. *)
Purge ==
  /\ row # NoRow
  /\ Expired(row, now)
  /\ row' = NoRow
  /\ UNCHANGED <<now, lastPk, work, intent, pc, local, answer>>

Tick ==
  /\ now < MaxTime
  /\ now' = now + 1
  /\ UNCHANGED <<row, lastPk, work, intent, pc, local, answer>>

Step(r) ==
  \/ InsertPending(r) \/ LookUp(r) \/ Decide(r)
  \/ Complete(r) \/ LoseReservation(r) \/ FailHandler(r)
  \/ Release(r) \/ Respond(r)

Next ==
  \/ Tick
  \/ Purge
  \/ \E r \in Request : Step(r) \/ Die(r)

Spec == Init /\ [][Next]_vars

(* A request is served by a synchronous worker whose statements return or  *)
(* fail: a live worker keeps taking steps.  Nothing is assumed of the      *)
(* clock, the purge or the deaths.                                         *)
FairSpec == Spec /\ \A r \in Request : WF_vars(Step(r))

-----------------------------------------------------------------------------
(* Properties                                                              *)

TypeOK ==
  /\ now \in Nat
  /\ row \in RowType \cup {NoRow}
  /\ lastPk \in Nat
  /\ work \subseteq WorkType
  /\ intent \in [Request -> Intents]
  /\ pc \in [Request -> Locations]
  /\ attempt \in [Request -> Nat]
  /\ asOf \in [Request -> Nat]
  /\ seen \in [Request -> RowType \cup {NoRow}]
  /\ held \in [Request -> [pk : Nat, at : Nat]]
  /\ answer \in [Request -> Answers]

(* Work for one key is never committed twice inside a retention window,    *)
(* whatever requests overlap, die, are taken over or finish late.          *)
AtMostOnce ==
  \A v, w \in work : v # w => \/ v.at + Retention <= w.at
                              \/ w.at + Retention <= v.at

(* Until its window closes, committed work has its answer stored: a retry  *)
(* finds it, and neither a release nor a takeover of another request can   *)
(* remove or overwrite it.                                                 *)
AnswerSurvives ==
  \A w \in work : now < w.at + Retention =>
    /\ row # NoRow
    /\ row.by = w.by
    /\ row.intent = w.intent

(* The same key with a different body is never served the stored answer,   *)
(* and a replayed answer reports work that really was committed.           *)
ReplayAnswersTheQuestion ==
  \A r \in Request : answer[r].kind = "replayed" =>
    \E w \in work : w.by = answer[r].of /\ w.intent = intent[r]

(* Fencing: a handler that is younger than PENDING_TIMEOUT still owns its  *)
(* row, so a slow predecessor that fails late cannot delete it and no      *)
(* successor can take it over.                                             *)
FreshReservationKept ==
  \A r \in Request :
    pc[r] \in {"handler", "release"} /\ now < held[r].at + PendingTimeout => Mine(r)

(* Every request whose worker lives is answered: the reserve loop cannot   *)
(* go round forever.                                                       *)
EveryRequestEnds == \A r \in Request : <>(pc[r] \in {"done", "dead"})

-----------------------------------------------------------------------------
(* Refinement: the protocol keeps the promise of ExactlyOnce.  The row, the *)
(* reservations and the program counters are hidden.                       *)
Promise == INSTANCE ExactlyOnce
KeepsPromise == Promise!Spec

=============================================================================
