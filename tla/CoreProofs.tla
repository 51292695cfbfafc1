------------------------------ MODULE CoreProofs ------------------------------
(***************************************************************************)
(* Proofs about what every request passes through (core): its idempotency  *)
(* key, for any number of requests, handlers, keys and crashes, and the    *)
(* firm it is bound to, for any number of firms, members, rows and         *)
(* threads.                                                                *)
(*                                                                         *)
(* Idempotency: a request's work is committed once (AtMostOnce), its       *)
(* answer stays while the key is remembered (AnswerSurvives), and the      *)
(* protocol keeps the promise of ExactlyOnce.                              *)
(*                                                                         *)
(* Tenancy: a thread comes back clean, a row and its entries stay its      *)
(* firm's, the trail tells the row, and nobody oversteps (FirmsApart).     *)
(* The invariant follows a request from the block it enters to the entry   *)
(* it files: the block is its requester's firm's (Bound), the row it is    *)
(* about to write was read in that firm and is still that firm's (Drafted, *)
(* Filed), it works in a role and with assignments nobody has changed      *)
(* under it (Warranted), and a row just committed differs from what the    *)
(* trail tells of it by the one entry about to be filed (TrailInv).        *)
(***************************************************************************)
EXTENDS Idempotency, Tenancy, SequenceTheorems, TLAPS

Waiting == {"reserve", "lookup", "decide", "handler", "release"}
Holding == {"handler", "release"}

(* TypeOK is not inductive alone: what ReplayStored copies out of seen[r]  *)
(* is a row only because the lookup found one.                             *)
Typed ==
  /\ TypeOK
  /\ \A r \in Request : pc[r] = "decide" => seen[r] # NoRow

(* The clock is ahead of everything that was stamped with it, primary keys *)
(* are never given out again, and a pending row expires a retention window *)
(* after it was created.                                                   *)
Stamps ==
  /\ \A r \in Request : asOf[r] <= now
  /\ \A w \in work : w.at <= now
  /\ row # NoRow =>
       /\ 1 <= row.pk /\ row.pk <= lastPk
       /\ row.created <= now
       /\ row.created < row.expires
       /\ Pending(row) => row.expires = row.created + Retention

(* A row that holds an answer, and the copy of it a request has read, hold *)
(* the answer of committed work.                                           *)
Backed(x) ==
  Pending(x) \/ \E w \in work : w.by = x.by /\ w.intent = x.intent

Stored ==
  /\ row # NoRow => Backed(row)
  /\ \A r \in Request : pc[r] = "decide" => seen[r] # NoRow /\ Backed(seen[r])

(* Live work is the row's own answer, and the row expires when it does.    *)
Survives ==
  \A w \in work : now < w.at + Retention =>
    /\ row # NoRow
    /\ row.by = w.by
    /\ row.intent = w.intent
    /\ row.expires = w.at + Retention

(* The fencing pair: a reservation never runs ahead of the row it names,   *)
(* and two handlers never hold the same pair.                              *)
Fenced ==
  /\ \A r \in Request :
       /\ held[r].pk <= lastPk
       /\ row # NoRow /\ held[r].pk = row.pk => held[r].at <= row.created
       /\ pc[r] \in Holding /\ Mine(r) => row.intent = intent[r]
  /\ \A q, r \in Request :
       q # r /\ pc[q] \in Holding /\ pc[r] \in Holding => held[q] # held[r]

(* A request still on its way has no answer and no work; one about to      *)
(* respond has work and no answer.                                         *)
Progress ==
  \A r \in Request :
    /\ pc[r] \in Waiting => answer[r] = NotAnswered /\ \A w \in work : w.by # r
    /\ pc[r] = "respond" => answer[r] = NotAnswered /\ \E w \in work : w.by = r

IInv ==
  /\ Typed
  /\ Stamps
  /\ Stored
  /\ Survives
  /\ AtMostOnce
  /\ Fenced
  /\ FreshReservationKept
  /\ ReplayAnswersTheQuestion
  /\ Progress

-----------------------------------------------------------------------------
(* Decide, by its outcome                                                  *)

(* r takes the row over: it is strictly older than r's reading of the      *)
(* clock, and either its window has closed or it is pending and abandoned. *)
Seize(r) ==
  /\ row # NoRow
  /\ row.pk = seen[r].pk
  /\ \/ row.expires <= asOf[r]
     \/ Pending(row) /\ row.created < asOf[r] - PendingTimeout
  /\ row' = [row EXCEPT !.intent = intent[r], !.by = NoRequest,
                        !.created = asOf[r], !.expires = asOf[r] + Retention]
  /\ held' = [held EXCEPT ![r] = [pk |-> seen[r].pk, at |-> asOf[r]]]
  /\ Goto(r, "handler")
  /\ UNCHANGED <<attempt, answer>>

GoRound(r) ==
  /\ attempt' = [attempt EXCEPT ![r] = @ + 1]
  /\ Goto(r, "reserve")
  /\ UNCHANGED <<row, held, answer>>

Refuse(r) ==
  /\ Tell(r, "refused", NoRequest)
  /\ UNCHANGED <<row, held, attempt>>

(* Whatever _reserve decides, it seizes the row, goes round, refuses, or   *)
(* replays an answer stored for the same intent.                           *)
LEMMA DecideOutcomes ==
  ASSUME NEW r \in Request, Decide(r)
  PROVE  /\ pc[r] = "decide"
         /\ UNCHANGED <<now, lastPk, work, intent, asOf, seen>>
         /\ Seize(r) \/ GoRound(r) \/ Refuse(r) \/ ReplayStored(r)
<1>1. pc[r] = "decide" /\ UNCHANGED <<now, lastPk, work, intent, asOf, seen>>
  BY DEF Decide
<1>2. CASE TakeOverExpired(r)
  BY <1>1, <1>2 DEF TakeOverExpired, TakeOver, SameRow, Expired, Seize, GoRound, Refuse
<1>3. CASE TakeOverAbandoned(r)
  BY <1>1, <1>3 DEF TakeOverAbandoned, TakeOver, SameRow, Seize, GoRound, Refuse
<1>4. CASE RefuseReused(r) \/ RefuseInFlight(r)
  BY <1>1, <1>4 DEF RefuseReused, RefuseInFlight, Refuse
<1>5. CASE ReplayStored(r)
  BY <1>1, <1>5
<1> QED
  BY <1>1, <1>2, <1>3, <1>4, <1>5 DEF Decide

-----------------------------------------------------------------------------
(* Type correctness                                                        *)

LEMMA RowUpdated ==
  ASSUME NEW x \in RowType, NEW i \in Intents, NEW c \in Nat, NEW e \in Nat
  PROVE  [x EXCEPT !.intent = i, !.by = NoRequest, !.created = c, !.expires = e] \in RowType
  BY DEF RowType

LEMMA RowCompleted ==
  ASSUME NEW x \in RowType, NEW r \in Request, NEW e \in Nat
  PROVE  [x EXCEPT !.by = r, !.expires = e] \in RowType
  BY DEF RowType

LEMMA InitTyped == Init => Typed
  BY NoneAssumption DEF Init, Typed, TypeOK, Locations, Answers, NotAnswered, RowType, WorkType

LEMMA NextTyped == Typed /\ [Next]_vars => Typed'
<1> SUFFICES ASSUME Typed, [Next]_vars PROVE Typed'
  OBVIOUS
<1> USE TimeoutAssumption, NoneAssumption DEF Typed, TypeOK, Locations, Answers
<1>1. CASE Tick
  BY <1>1 DEF Tick, local
<1>2. CASE Purge
  BY <1>2 DEF Purge, local
<1>3. ASSUME NEW r \in Request, InsertPending(r) PROVE Typed'
  <2>1. CASE row = NoRow
    <3>1. row' \in RowType
      BY <1>3, <2>1 DEF InsertPending, PendingRow, RowType
    <3>2. held' \in [Request -> [pk : Nat, at : Nat]]
      BY <1>3, <2>1 DEF InsertPending
    <3>3. lastPk' \in Nat /\ asOf' \in [Request -> Nat]
      BY <1>3, <2>1 DEF InsertPending
    <3>4. pc' \in [Request -> Locations] /\ pc' = [pc EXCEPT ![r] = "handler"]
      BY <1>3, <2>1 DEF InsertPending, Goto
    <3> QED
      BY <1>3, <3>1, <3>2, <3>3, <3>4 DEF InsertPending
  <2>2. CASE row # NoRow
    BY <1>3, <2>2 DEF InsertPending, Goto
  <2> QED
    BY <2>1, <2>2
<1>4. ASSUME NEW r \in Request, LookUp(r) PROVE Typed'
  <2>1. CASE row # NoRow /\ seen' = [seen EXCEPT ![r] = row] /\ Goto(r, "decide")
                         /\ UNCHANGED <<attempt, answer>>
    BY <1>4, <2>1 DEF LookUp, Goto
  <2>2. CASE attempt' = [attempt EXCEPT ![r] = 1] /\ Goto(r, "reserve")
             /\ UNCHANGED <<seen, answer>>
    BY <1>4, <2>2 DEF LookUp, Goto
  <2>3. CASE Tell(r, "error", NoRequest) /\ UNCHANGED <<seen, attempt>>
    BY <1>4, <2>3 DEF LookUp, Tell, Goto
  <2> QED
    BY <1>4, <2>1, <2>2, <2>3 DEF LookUp
<1>5. ASSUME NEW r \in Request, Decide(r) PROVE Typed'
  <2>1. /\ UNCHANGED <<now, lastPk, work, intent, asOf, seen>>
        /\ Seize(r) \/ GoRound(r) \/ Refuse(r) \/ ReplayStored(r)
        /\ seen[r] \in RowType
    BY <1>5, DecideOutcomes
  <2>2. CASE Seize(r)
    <3>1. row \in RowType
      BY <2>2 DEF Seize
    <3>4. row' \in RowType
      <4>1. intent[r] \in Intents /\ asOf[r] \in Nat /\ asOf[r] + Retention \in Nat
        OBVIOUS
      <4> QED
        BY <2>2, <3>1, <4>1, RowUpdated DEF Seize
    <3>2. seen[r].pk = row.pk /\ row.pk \in Nat
      BY <2>2, <3>1 DEF Seize, RowType
    <3>3. held' \in [Request -> [pk : Nat, at : Nat]]
      BY <2>2, <3>2 DEF Seize
    <3> QED
      BY <2>1, <2>2, <3>4, <3>3 DEF Seize, Goto
  <2>3. CASE GoRound(r)
    BY <2>1, <2>3 DEF GoRound, Goto
  <2>4. CASE Refuse(r)
    BY <2>1, <2>4 DEF Refuse, Tell, Goto
  <2>5. CASE ReplayStored(r)
    <3>1. seen[r].by \in Request \cup {NoRequest}
      BY <2>1 DEF RowType
    <3> QED
      BY <2>1, <2>5, <3>1 DEF ReplayStored, Tell, Goto
  <2> QED
    BY <2>1, <2>2, <2>3, <2>4, <2>5
<1>6. ASSUME NEW r \in Request, Complete(r) PROVE Typed'
  <2>1. row \in RowType
    BY <1>6 DEF Complete, Mine
  <2>2. row' \in RowType
    <3>1. now + Retention \in Nat
      OBVIOUS
    <3> QED
      BY <1>6, <2>1, <3>1, RowCompleted DEF Complete
  <2>3. work' \subseteq WorkType
    BY <1>6 DEF Complete, WorkType
  <2> QED
    BY <1>6, <2>2, <2>3 DEF Complete, Goto, local
<1>7. ASSUME NEW r \in Request, LoseReservation(r) \/ Release(r) \/ Respond(r)
      PROVE Typed'
  <2>1. /\ row' \in {row, NoRow}
        /\ UNCHANGED <<now, lastPk, work, intent, local>>
        /\ \E k \in {"refused", "failed", "created"}, o \in {r, NoRequest} : Tell(r, k, o)
    BY <1>7 DEF LoseReservation, Release, Respond
  <2> QED
    BY <2>1 DEF Tell, Goto, local
<1>8. ASSUME NEW r \in Request, FailHandler(r) \/ Die(r) PROVE Typed'
  BY <1>8 DEF FailHandler, Die, Goto, local
<1>9. CASE UNCHANGED vars
  BY <1>9 DEF vars
<1> QED
  BY <1>1, <1>2, <1>3, <1>4, <1>5, <1>6, <1>7, <1>8, <1>9 DEF Next, Step

(* The worker, the row and the answers keep the shape the code gives them. *)
THEOREM TypeCorrect == Spec => []TypeOK
<1>1. Typed => TypeOK
  BY DEF Typed
<1> QED
  BY <1>1, InitTyped, NextTyped, PTL DEF Spec

-----------------------------------------------------------------------------
(* The invariant                                                           *)

LEMMA InitIInv == Init => IInv
<1> SUFFICES ASSUME Init PROVE IInv
  OBVIOUS
<1>1. Typed
  BY InitTyped
<1>2. Stamps /\ Stored /\ Survives /\ AtMostOnce /\ Fenced
  BY <1>1 DEF Init, Stamps, Stored, Survives, AtMostOnce, Fenced, Typed, TypeOK, Holding
<1>3. FreshReservationKept /\ ReplayAnswersTheQuestion /\ Progress
  BY DEF Init, FreshReservationKept, ReplayAnswersTheQuestion, Progress, NotAnswered,
         Waiting
<1> QED
  BY <1>1, <1>2, <1>3 DEF IInv

(* An insert finds no row, so nothing is live and no reservation is fresh. *)
LEMMA InsertKeeps ==
  ASSUME IInv, Typed', NEW r \in Request, InsertPending(r)
  PROVE  IInv'
<1> USE TimeoutAssumption, NoneAssumption DEF Typed, TypeOK
<1>0. Typed /\ Stamps /\ Stored /\ Survives /\ AtMostOnce /\ Fenced
      /\ FreshReservationKept /\ ReplayAnswersTheQuestion /\ Progress
  BY DEF IInv
<1>1. CASE row = NoRow
  <2>1. /\ asOf' = [asOf EXCEPT ![r] = now]
        /\ lastPk' = lastPk + 1
        /\ row' = PendingRow(r)
        /\ held' = [held EXCEPT ![r] = [pk |-> lastPk + 1, at |-> now]]
        /\ pc' = [pc EXCEPT ![r] = "handler"]
        /\ pc[r] = "reserve"
        /\ UNCHANGED <<now, work, intent, attempt, seen, answer>>
    BY <1>1 DEF InsertPending, Goto
  <2>2. row' # NoRow /\ row'.pk = lastPk + 1 /\ row'.by = NoRequest
        /\ row'.intent = intent[r] /\ row'.created = now /\ row'.expires = now + Retention
    <3>1. row' \in RowType
      BY <2>1, <1>0 DEF PendingRow, RowType
    <3> QED
      BY <2>1, <3>1 DEF PendingRow
  <2>3. Stamps'
    BY <1>0, <2>1, <2>2 DEF Stamps, Pending
  <2>4. Stored'
    BY <1>0, <2>1, <2>2 DEF Stored, Backed, Pending
  <2>5. Survives' /\ AtMostOnce'
    BY <1>0, <1>1, <2>1 DEF Survives, AtMostOnce
  <2>6. Fenced'
    <3>1. \A q \in Request : held[q].pk <= lastPk /\ held[q].pk \in Nat
      BY <1>0 DEF Fenced
    <3>2. \A q \in Request : q # r => held'[q] = held[q] /\ held'[q].pk # lastPk + 1
      BY <1>0, <3>1, <2>1
    <3>3. held'[r].pk = lastPk + 1 /\ held'[r].at = now
      BY <1>0, <2>1
    <3> QED
      BY <1>0, <2>1, <2>2, <3>1, <3>2, <3>3 DEF Fenced, Mine
  <2>7. FreshReservationKept'
    <3>1. \A q \in Request : ~Mine(q)
      BY <1>1 DEF Mine
    <3>2. Mine(r)'
      BY <2>1, <2>2 DEF Mine, Pending
    <3> QED
      BY <1>0, <2>1, <3>1, <3>2 DEF FreshReservationKept
  <2>8. ReplayAnswersTheQuestion' /\ Progress'
    BY <1>0, <2>1 DEF ReplayAnswersTheQuestion, Progress, Waiting
  <2> QED
    BY <2>3, <2>4, <2>5, <2>6, <2>7, <2>8 DEF IInv
<1>2. CASE row # NoRow
  <2>1. /\ asOf' = [asOf EXCEPT ![r] = now]
        /\ pc' = [pc EXCEPT ![r] = "lookup"]
        /\ pc[r] = "reserve"
        /\ UNCHANGED <<row, lastPk, held, now, work, intent, attempt, seen, answer>>
    BY <1>2 DEF InsertPending, Goto
  <2>2. Stamps' /\ Stored' /\ Survives' /\ AtMostOnce'
    BY <1>0, <2>1 DEF Stamps, Stored, Backed, Survives, AtMostOnce
  <2>3. Fenced' /\ FreshReservationKept'
    BY <1>0, <2>1 DEF Fenced, FreshReservationKept, Mine, Holding
  <2>4. ReplayAnswersTheQuestion' /\ Progress'
    BY <1>0, <2>1 DEF ReplayAnswersTheQuestion, Progress, Waiting
  <2> QED
    BY <2>2, <2>3, <2>4 DEF IInv
<1> QED
  BY <1>1, <1>2

(* A seizure finds no live work, no fresh reservation, and no reservation  *)
(* with the fencing timestamp it is about to write.                        *)
LEMMA SeizeKeeps ==
  ASSUME IInv, Typed', NEW r \in Request, pc[r] = "decide", Seize(r),
         UNCHANGED <<now, lastPk, work, intent, asOf, seen>>
  PROVE  IInv'
<1> USE TimeoutAssumption, NoneAssumption DEF Typed, TypeOK
<1>0. Typed /\ Stamps /\ Stored /\ Survives /\ AtMostOnce /\ Fenced
      /\ FreshReservationKept /\ ReplayAnswersTheQuestion /\ Progress
  BY DEF IInv
<1>1. /\ row \in RowType /\ row' \in RowType /\ row' # NoRow
      /\ row'.pk = row.pk /\ row'.intent = intent[r] /\ row'.by = NoRequest
      /\ row'.created = asOf[r] /\ row'.expires = asOf[r] + Retention
  <2>1. row \in RowType
    BY <1>0 DEF Seize
  <2>2. intent[r] \in Intents /\ asOf[r] \in Nat /\ asOf[r] + Retention \in Nat
    BY <1>0
  <2>3. row' \in RowType
    BY <2>1, <2>2, RowUpdated DEF Seize
  <2> QED
    BY <2>1, <2>3 DEF Seize, RowType
<1>2. row.pk = seen[r].pk /\ row # NoRow /\ row.pk \in Nat /\ row.created \in Nat
      /\ row.expires \in Nat
  BY <1>1 DEF Seize, RowType
<1>3. held' = [held EXCEPT ![r] = [pk |-> row.pk, at |-> asOf[r]]]
      /\ pc' = [pc EXCEPT ![r] = "handler"] /\ UNCHANGED <<attempt, answer>>
  BY <1>2 DEF Seize, Goto
<1>4. asOf[r] \in Nat /\ now \in Nat /\ asOf[r] <= now /\ row.created < asOf[r]
  BY <1>0, <1>2 DEF Seize, Stamps
<1>5. \A w \in work : ~(now < w.at + Retention)
  BY <1>0, <1>2, <1>4 DEF Seize, Survives, Pending, WorkType
<1>6. \A q \in Request : Mine(q) => now >= held[q].at + PendingTimeout
  BY <1>0, <1>2, <1>4 DEF Seize, Mine, Stamps
<1>7. Stamps'
  BY <1>0, <1>1, <1>2, <1>4 DEF Stamps, Pending
<1>8. Stored'
  BY <1>0, <1>1, <1>3 DEF Stored, Backed, Pending
<1>9. Survives' /\ AtMostOnce'
  BY <1>0, <1>5 DEF Survives, AtMostOnce
<1>10. Fenced'
  <2>1. \A q \in Request : q # r =>
          held'[q] = held[q] /\ pc'[q] = pc[q]
          /\ (held[q].pk = row.pk => held[q].at < asOf[r])
    BY <1>0, <1>2, <1>3, <1>4 DEF Fenced
  <2>2. held'[r].pk = row.pk /\ held'[r].at = asOf[r]
    BY <1>0, <1>3
  <2>3. \A q \in Request : /\ held'[q].pk <= lastPk
                           /\ held'[q].pk = row.pk => held'[q].at <= asOf[r]
    BY <1>0, <1>2, <1>4, <2>1, <2>2 DEF Fenced, Stamps
  <2>4. \A q \in Request : q # r => held'[q] # held'[r]
    BY <1>0, <1>4, <2>1, <2>2
  <2>5. \A q \in Request : q # r => ~Mine(q)'
    BY <1>0, <1>1, <1>4, <2>1 DEF Mine
  <2> QED
    BY <1>0, <1>1, <2>1, <2>3, <2>4, <2>5 DEF Fenced
<1>11. FreshReservationKept'
  <2>1. Mine(r)'
    BY <1>0, <1>1, <1>3 DEF Mine, Pending
  <2>2. \A q \in Request : q # r => held'[q] = held[q] /\ pc'[q] = pc[q]
    BY <1>0, <1>3
  <2> QED
    BY <1>0, <1>6, <2>1, <2>2 DEF FreshReservationKept
<1>12. ReplayAnswersTheQuestion' /\ Progress'
  BY <1>0, <1>3 DEF ReplayAnswersTheQuestion, Progress, Waiting
<1> QED
  BY <1>7, <1>8, <1>9, <1>10, <1>11, <1>12 DEF IInv

(* A request that is answered, or goes on, without touching the row, the   *)
(* work or a reservation.                                                  *)
LEMMA AnswerKeeps ==
  ASSUME IInv, Typed', NEW r \in Request, pc[r] \in Waiting \cup {"respond"},
         NEW k \in {"refused", "failed", "error", "created"}, NEW o,
         Tell(r, k, o), UNCHANGED <<now, row, lastPk, work, intent, asOf, seen, held>>
  PROVE  IInv'
<1> USE DEF Typed, TypeOK
<1>0. Typed /\ Stamps /\ Stored /\ Survives /\ AtMostOnce /\ Fenced
      /\ FreshReservationKept /\ ReplayAnswersTheQuestion /\ Progress
  BY DEF IInv
<1>1. pc' = [pc EXCEPT ![r] = "done"]
      /\ answer' = [answer EXCEPT ![r] = [kind |-> k, of |-> o]]
  BY DEF Tell, Goto
<1>2. Stamps' /\ Stored' /\ Survives' /\ AtMostOnce'
  BY <1>0, <1>1 DEF Stamps, Stored, Backed, Survives, AtMostOnce
<1>3. Fenced' /\ FreshReservationKept'
  BY <1>0, <1>1 DEF Fenced, FreshReservationKept, Mine, Holding
<1>4. ReplayAnswersTheQuestion' /\ Progress'
  BY <1>0, <1>1 DEF ReplayAnswersTheQuestion, Progress, Waiting
<1> QED
  BY <1>2, <1>3, <1>4 DEF IInv

(* A request that only moves, without an answer. *)
LEMMA MoveKeeps ==
  ASSUME IInv, Typed', NEW r \in Request,
         NEW l \in {"reserve", "release", "dead"},
         Goto(r, l), l = "release" => pc[r] = "handler", l = "reserve" => pc[r] \in Waiting,
         UNCHANGED <<now, row, lastPk, work, intent, asOf, seen, held, answer>>
  PROVE  IInv'
<1> USE DEF Typed, TypeOK
<1>0. Typed /\ Stamps /\ Stored /\ Survives /\ AtMostOnce /\ Fenced
      /\ FreshReservationKept /\ ReplayAnswersTheQuestion /\ Progress
  BY DEF IInv
<1>1. pc' = [pc EXCEPT ![r] = l]
  BY DEF Goto
<1>2. Stamps' /\ Stored' /\ Survives' /\ AtMostOnce'
  BY <1>0, <1>1 DEF Stamps, Stored, Backed, Survives, AtMostOnce
<1>3. Fenced' /\ FreshReservationKept'
  BY <1>0, <1>1 DEF Fenced, FreshReservationKept, Mine, Holding
<1>4. ReplayAnswersTheQuestion' /\ Progress'
  BY <1>0, <1>1 DEF ReplayAnswersTheQuestion, Progress, Waiting
<1> QED
  BY <1>2, <1>3, <1>4 DEF IInv

LEMMA LookUpKeeps ==
  ASSUME IInv, Typed', NEW r \in Request, LookUp(r)
  PROVE  IInv'
<1> USE DEF Typed, TypeOK
<1>0. Typed /\ Stamps /\ Stored /\ Survives /\ AtMostOnce /\ Fenced
      /\ FreshReservationKept /\ ReplayAnswersTheQuestion /\ Progress
  BY DEF IInv
<1>1. CASE row # NoRow
  <2>1. seen' = [seen EXCEPT ![r] = row] /\ pc' = [pc EXCEPT ![r] = "decide"]
        /\ pc[r] = "lookup"
        /\ UNCHANGED <<now, row, lastPk, work, intent, asOf, held, attempt, answer>>
    BY <1>1 DEF LookUp, Goto
  <2>2. Stamps' /\ Survives' /\ AtMostOnce'
    BY <1>0, <2>1 DEF Stamps, Survives, AtMostOnce
  <2>3. Stored'
    BY <1>0, <1>1, <2>1 DEF Stored, Backed, Pending
  <2>4. Fenced' /\ FreshReservationKept'
    BY <1>0, <2>1 DEF Fenced, FreshReservationKept, Mine, Holding
  <2>5. ReplayAnswersTheQuestion' /\ Progress'
    BY <1>0, <2>1 DEF ReplayAnswersTheQuestion, Progress, Waiting
  <2> QED
    BY <2>2, <2>3, <2>4, <2>5 DEF IInv
<1>2. CASE Goto(r, "reserve") /\ UNCHANGED <<seen, answer>>
  BY <1>2, MoveKeeps DEF LookUp, Waiting
<1>3. CASE Tell(r, "error", NoRequest) /\ UNCHANGED seen
  BY <1>3, AnswerKeeps DEF LookUp, Waiting
<1> QED
  BY <1>1, <1>2, <1>3 DEF LookUp

(* The answer replayed is the one read in seen[r], which committed work    *)
(* backs.                                                                  *)
LEMMA ReplayKeeps ==
  ASSUME IInv, Typed', NEW r \in Request, pc[r] = "decide", ReplayStored(r),
         UNCHANGED <<now, lastPk, work, intent, asOf, seen>>
  PROVE  IInv'
<1> USE DEF Typed, TypeOK
<1>0. Typed /\ Stamps /\ Stored /\ Survives /\ AtMostOnce /\ Fenced
      /\ FreshReservationKept /\ ReplayAnswersTheQuestion /\ Progress
  BY DEF IInv
<1>1. /\ pc' = [pc EXCEPT ![r] = "done"]
      /\ answer' = [answer EXCEPT ![r] = [kind |-> "replayed", of |-> seen[r].by]]
      /\ UNCHANGED <<row, held, attempt>>
  BY DEF ReplayStored, Tell, Goto
<1>2. \E w \in work : w.by = seen[r].by /\ w.intent = intent[r]
  BY <1>0 DEF Stored, Backed, ReplayStored
<1>3. Stamps' /\ Stored' /\ Survives' /\ AtMostOnce'
  BY <1>0, <1>1 DEF Stamps, Stored, Backed, Survives, AtMostOnce
<1>4. Fenced' /\ FreshReservationKept'
  BY <1>0, <1>1 DEF Fenced, FreshReservationKept, Mine, Holding
<1>5. ReplayAnswersTheQuestion' /\ Progress'
  BY <1>0, <1>1, <1>2 DEF ReplayAnswersTheQuestion, Progress, Waiting
<1> QED
  BY <1>3, <1>4, <1>5 DEF IInv

(* Completion finds its row pending, so no work is live, and no other      *)
(* handler holds the pair.                                                 *)
LEMMA CompleteKeeps ==
  ASSUME IInv, Typed', NEW r \in Request, Complete(r)
  PROVE  IInv'
<1> USE TimeoutAssumption, NoneAssumption DEF Typed, TypeOK
<1>0. Typed /\ Stamps /\ Stored /\ Survives /\ AtMostOnce /\ Fenced
      /\ FreshReservationKept /\ ReplayAnswersTheQuestion /\ Progress
  BY DEF IInv
<1> DEFINE w0 == [by |-> r, at |-> now, intent |-> intent[r]]
<1>1. /\ row \in RowType /\ row' \in RowType /\ row' # NoRow
      /\ row'.pk = row.pk /\ row'.intent = row.intent /\ row'.by = r
      /\ row'.created = row.created /\ row'.expires = now + Retention
  <2>1. row \in RowType
    BY <1>0 DEF Complete, Mine
  <2>2. row' \in RowType
    <3>1. now + Retention \in Nat
      BY <1>0
    <3> QED
      BY <2>1, <3>1, RowCompleted DEF Complete
  <2> QED
    BY <2>1, <2>2 DEF Complete, RowType
<1>2. /\ work' = work \cup {w0} /\ pc' = [pc EXCEPT ![r] = "respond"] /\ pc[r] = "handler"
      /\ UNCHANGED <<now, lastPk, intent, attempt, asOf, seen, held, answer>>
  BY DEF Complete, Goto, local
<1>3. row # NoRow /\ row.by = NoRequest /\ row.intent = intent[r] /\ Mine(r)
  BY <1>0, <1>2 DEF Complete, Mine, Pending, Fenced, Holding
<1>4. \A w \in work : ~(now < w.at + Retention) /\ w.at \in Nat
  BY <1>0, <1>3 DEF Survives, WorkType
<1>5. Stamps'
  BY <1>0, <1>1, <1>2, <1>3 DEF Stamps, Pending, RowType
<1>6. Stored'
  <2>1. w0 \in work' /\ work \subseteq work' /\ w0.by = row'.by /\ w0.intent = row'.intent
    BY <1>1, <1>2, <1>3
  <2> HIDE DEF w0
  <2>2. Backed(row)'
    BY <2>1 DEF Backed
  <2>3. \A q \in Request : pc'[q] = "decide" =>
          pc[q] = "decide" /\ seen'[q] = seen[q]
    BY <1>0, <1>2
  <2>4. \A q \in Request : pc'[q] = "decide" => seen'[q] # NoRow /\ Backed(seen[q])'
    BY <1>0, <2>1, <2>3 DEF Stored, Backed, Pending
  <2> QED
    BY <2>2, <2>4 DEF Stored
<1>7. Survives'
  <2>1. \A w \in work : ~(now' < w.at + Retention)
    BY <1>2, <1>4
  <2>2. /\ row'.by = w0.by /\ row'.intent = w0.intent /\ row'.expires = w0.at + Retention
    BY <1>1, <1>3
  <2> QED
    BY <1>1, <1>2, <2>1, <2>2 DEF Survives
<1>8. AtMostOnce'
  <2>1. w0.at = now /\ now \in Nat
    BY <1>0
  <2>2. \A w \in work : w.at + Retention <= w0.at
    BY <1>4, <2>1
  <2> HIDE DEF w0
  <2> QED
    BY <1>0, <1>2, <2>2 DEF AtMostOnce
<1>9. \A q \in Request : q # r /\ pc[q] \in Holding => ~Mine(q)
  BY <1>0, <1>2, <1>3 DEF Fenced, Mine, Holding
<1>10. Fenced'
  BY <1>0, <1>1, <1>2, <1>3 DEF Fenced, Mine, Holding, Pending
<1>11. FreshReservationKept'
  BY <1>0, <1>2, <1>9 DEF FreshReservationKept, Holding
<1>12. ReplayAnswersTheQuestion' /\ Progress'
  <2>1. w0 \in work' /\ work \subseteq work' /\ w0.by = r
        /\ \A w \in work' : w \in work \/ w = w0
    BY <1>2
  <2> HIDE DEF w0
  <2>2. ReplayAnswersTheQuestion'
    BY <1>0, <1>2, <2>1 DEF ReplayAnswersTheQuestion
  <2>3. \A q \in Request : q # r => pc'[q] = pc[q] /\ \A w \in work' : w.by = q => w \in work
    BY <1>0, <1>2, <2>1
  <2>4. pc'[r] = "respond" /\ answer'[r] = NotAnswered
    BY <1>0, <1>2 DEF Progress, Waiting
  <2>5. Progress'
    BY <1>0, <1>2, <2>1, <2>3, <2>4 DEF Progress, Waiting
  <2> QED
    BY <2>2, <2>5
<1> QED
  BY <1>5, <1>6, <1>7, <1>8, <1>10, <1>11, <1>12 DEF IInv

(* A deleted row was pending or out of its window: no live work loses its  *)
(* answer, and no fresh handler of another request loses its reservation.  *)
LEMMA RemovalKeeps ==
  ASSUME IInv, Typed', row # NoRow, row' = NoRow,
         \A w \in work : ~(now < w.at + Retention),
         \A q \in Request : pc'[q] \in Holding =>
           pc[q] \in Holding /\ (Mine(q) => now >= held[q].at + PendingTimeout),
         \A q \in Request : pc'[q] = "decide" => pc[q] = "decide",
         UNCHANGED <<now, lastPk, work, intent, asOf, seen, held>>
  PROVE  Stamps' /\ Stored' /\ Survives' /\ AtMostOnce' /\ Fenced' /\ FreshReservationKept'
<1> USE DEF Typed, TypeOK
<1>0. Typed /\ Stamps /\ Stored /\ Survives /\ AtMostOnce /\ Fenced /\ FreshReservationKept
  BY DEF IInv
<1>1. Stamps' /\ Survives' /\ AtMostOnce'
  BY <1>0 DEF Stamps, Survives, AtMostOnce
<1>2. Stored'
  BY <1>0 DEF Stored, Backed
<1>3. Fenced'
  BY <1>0 DEF Fenced, Mine
<1>4. FreshReservationKept'
  <2>1. \A q \in Request : pc'[q] \in Holding => ~(now < held[q].at + PendingTimeout)
    BY <1>0, TimeoutAssumption DEF FreshReservationKept, Holding
  <2> QED
    BY <2>1 DEF FreshReservationKept, Holding
<1> QED
  BY <1>1, <1>2, <1>3, <1>4

LEMMA ReleaseKeeps ==
  ASSUME IInv, Typed', NEW r \in Request, Release(r)
  PROVE  IInv'
<1> USE TimeoutAssumption, NoneAssumption DEF Typed, TypeOK
<1>0. Typed /\ Stamps /\ Stored /\ Survives /\ AtMostOnce /\ Fenced
      /\ FreshReservationKept /\ ReplayAnswersTheQuestion /\ Progress
  BY DEF IInv
<1>1. pc[r] = "release" /\ Tell(r, "failed", NoRequest)
      /\ UNCHANGED <<now, lastPk, work, intent, attempt, asOf, seen, held>>
  BY DEF Release, local
<1>2. CASE row' = row
  BY <1>1, <1>2, AnswerKeeps DEF Waiting
<1>3. CASE row' # row
  <2>1. Mine(r) /\ row # NoRow /\ row' = NoRow
    BY <1>3 DEF Release, Mine
  <2>2. \A w \in work : ~(now < w.at + Retention)
    BY <1>0, <2>1 DEF Mine, Survives, Pending, WorkType
  <2>3. pc' = [pc EXCEPT ![r] = "done"]
        /\ answer' = [answer EXCEPT ![r] = [kind |-> "failed", of |-> NoRequest]]
    BY <1>1 DEF Tell, Goto
  <2>4. \A q \in Request : q # r /\ pc[q] \in Holding => ~Mine(q)
    BY <1>0, <1>1, <2>1 DEF Fenced, Mine, Holding
  <2>5. \A q \in Request : pc'[q] \in Holding => pc[q] \in Holding /\ ~Mine(q)
    BY <1>0, <2>3, <2>4 DEF Holding
  <2>6. Stamps' /\ Stored' /\ Survives' /\ AtMostOnce' /\ Fenced' /\ FreshReservationKept'
    BY <1>0, <1>1, <2>1, <2>2, <2>3, <2>5, RemovalKeeps
  <2>7. ReplayAnswersTheQuestion' /\ Progress'
    BY <1>0, <1>1, <2>3 DEF ReplayAnswersTheQuestion, Progress, Waiting
  <2> QED
    BY <2>6, <2>7 DEF IInv
<1> QED
  BY <1>2, <1>3

LEMMA PurgeKeeps ==
  ASSUME IInv, Typed', Purge
  PROVE  IInv'
<1> USE TimeoutAssumption, NoneAssumption DEF Typed, TypeOK
<1>0. Typed /\ Stamps /\ Stored /\ Survives /\ AtMostOnce /\ Fenced
      /\ FreshReservationKept /\ ReplayAnswersTheQuestion /\ Progress
  BY DEF IInv
<1>1. row \in RowType /\ row' = NoRow /\ row.expires <= now
      /\ UNCHANGED <<now, lastPk, work, intent, pc, attempt, asOf, seen, held, answer>>
  BY <1>0 DEF Purge, Expired, local
<1>2. row # NoRow /\ row.expires \in Nat /\ row.created \in Nat
  BY <1>1 DEF RowType
<1>3. \A w \in work : ~(now < w.at + Retention)
  BY <1>0, <1>1, <1>2 DEF Survives, WorkType
<1>4. \A q \in Request : Mine(q) => now >= held[q].at + PendingTimeout
  BY <1>0, <1>1, <1>2 DEF Mine, Stamps
<1>5. Stamps' /\ Stored' /\ Survives' /\ AtMostOnce' /\ Fenced' /\ FreshReservationKept'
  BY <1>1, <1>2, <1>3, <1>4, RemovalKeeps
<1>6. ReplayAnswersTheQuestion' /\ Progress'
  BY <1>0, <1>1 DEF ReplayAnswersTheQuestion, Progress, Waiting
<1> QED
  BY <1>5, <1>6 DEF IInv

LEMMA TickKeeps ==
  ASSUME IInv, Typed', Tick
  PROVE  IInv'
<1> USE TimeoutAssumption DEF Typed, TypeOK
<1>0. Typed /\ Stamps /\ Stored /\ Survives /\ AtMostOnce /\ Fenced
      /\ FreshReservationKept /\ ReplayAnswersTheQuestion /\ Progress
  BY DEF IInv
<1>1. now' = now + 1 /\ now \in Nat
      /\ UNCHANGED <<row, lastPk, work, intent, pc, attempt, asOf, seen, held, answer>>
  BY <1>0 DEF Tick, local
<1>2. Stamps'
  BY <1>0, <1>1 DEF Stamps, WorkType, RowType, Pending
<1>3. Stored' /\ AtMostOnce'
  BY <1>0, <1>1 DEF Stored, Backed, Pending, AtMostOnce
<1>4. Survives'
  BY <1>0, <1>1 DEF Survives, WorkType
<1>5. Fenced'
  BY <1>0, <1>1 DEF Fenced, Mine, Holding
<1>6. FreshReservationKept'
  BY <1>0, <1>1 DEF FreshReservationKept, Mine
<1>7. ReplayAnswersTheQuestion' /\ Progress'
  BY <1>0, <1>1 DEF ReplayAnswersTheQuestion, Progress, Waiting
<1> QED
  BY <1>2, <1>3, <1>4, <1>5, <1>6, <1>7 DEF IInv

LEMMA NextIInv == IInv /\ [Next]_vars => IInv'
<1> SUFFICES ASSUME IInv, [Next]_vars PROVE IInv'
  OBVIOUS
<1>0. Typed'
  BY NextTyped DEF IInv
<1>1. CASE Tick
  BY <1>0, <1>1, TickKeeps
<1>2. CASE Purge
  BY <1>0, <1>2, PurgeKeeps
<1>3. ASSUME NEW r \in Request, InsertPending(r) PROVE IInv'
  BY <1>0, <1>3, InsertKeeps
<1>4. ASSUME NEW r \in Request, LookUp(r) PROVE IInv'
  BY <1>0, <1>4, LookUpKeeps
<1>5. ASSUME NEW r \in Request, Decide(r) PROVE IInv'
  <2>1. /\ pc[r] = "decide"
        /\ UNCHANGED <<now, lastPk, work, intent, asOf, seen>>
        /\ Seize(r) \/ GoRound(r) \/ Refuse(r) \/ ReplayStored(r)
    BY <1>5, DecideOutcomes
  <2>2. CASE Seize(r)
    BY <1>0, <2>1, <2>2, SeizeKeeps
  <2>3. CASE GoRound(r)
    BY <1>0, <2>1, <2>3, MoveKeeps DEF GoRound, Waiting
  <2>4. CASE Refuse(r)
    BY <1>0, <2>1, <2>4, AnswerKeeps DEF Refuse, Waiting
  <2>5. CASE ReplayStored(r)
    BY <1>0, <2>1, <2>5, ReplayKeeps
  <2> QED
    BY <2>1, <2>2, <2>3, <2>4, <2>5
<1>6. ASSUME NEW r \in Request, Complete(r) PROVE IInv'
  BY <1>0, <1>6, CompleteKeeps
<1>7. ASSUME NEW r \in Request, LoseReservation(r) \/ Respond(r) PROVE IInv'
  BY <1>0, <1>7, AnswerKeeps DEF LoseReservation, Respond, Waiting, local
<1>8. ASSUME NEW r \in Request, FailHandler(r) \/ Die(r) PROVE IInv'
  BY <1>0, <1>8, MoveKeeps DEF FailHandler, Die, local
<1>9. ASSUME NEW r \in Request, Release(r) PROVE IInv'
  BY <1>0, <1>9, ReleaseKeeps
<1>10. CASE UNCHANGED vars
  BY <1>10 DEF vars, IInv, Typed, TypeOK, Stamps, Stored, Backed, Survives, AtMostOnce, Fenced,
            Mine, FreshReservationKept, ReplayAnswersTheQuestion, Progress, Pending
<1> QED
  BY <1>1, <1>2, <1>3, <1>4, <1>5, <1>6, <1>7, <1>8, <1>9, <1>10 DEF Next, Step

LEMMA Invariance == Spec => []IInv
  BY InitIInv, NextIInv, PTL DEF Spec

(* One key commits its work at most once in a retention window, however    *)
(* many requests race, die or finish late (_reserve, _complete, _release). *)
THEOREM WorkAtMostOnce == Spec => []AtMostOnce
<1>1. IInv => AtMostOnce
  BY DEF IInv
<1> QED
  BY <1>1, Invariance, PTL

(* No release, takeover or purge removes an answer that is still live.     *)
THEOREM LiveAnswersSurvive == Spec => []AnswerSurvives
<1>1. IInv => AnswerSurvives
  BY DEF IInv, Survives, AnswerSurvives
<1> QED
  BY <1>1, Invariance, PTL

(* A stored answer is replayed only to a request that asks the same.       *)
THEOREM ReplaysMatch == Spec => []ReplayAnswersTheQuestion
<1>1. IInv => ReplayAnswersTheQuestion
  BY DEF IInv
<1> QED
  BY <1>1, Invariance, PTL

(* Fencing: a handler inside PENDING_TIMEOUT still owns its row.           *)
THEOREM FreshHandlersOwnTheirRow == Spec => []FreshReservationKept
<1>1. IInv => FreshReservationKept
  BY DEF IInv
<1> QED
  BY <1>1, Invariance, PTL

-----------------------------------------------------------------------------
(* The protocol implements the promise                                     *)

LEMMA StepImplements == IInv /\ [Next]_vars => [Promise!Next]_(Promise!vars)
<1> SUFFICES ASSUME IInv, [Next]_vars PROVE Promise!Next \/ UNCHANGED Promise!vars
  OBVIOUS
<1> USE DEF Promise!vars
<1>0. Typed /\ Survives /\ Stored /\ Progress
  BY DEF IInv
<1>d. ASSUME NEW r \in Request, pc[r] \in Waiting, NEW k \in {"refused", "failed", "error"},
             Tell(r, k, NoRequest), UNCHANGED <<now, intent, work>>
      PROVE  Promise!Next
  <2>1. Promise!Decline(r)
    BY <1>0, <1>d DEF Progress, Promise!Decline, Promise!NotAnswered, NotAnswered, Tell
  <2> QED
    BY <2>1 DEF Promise!Next
<1>1. CASE Tick
  BY <1>1 DEF Tick, Promise!Next, Promise!Elapse
<1>2. CASE Purge
  BY <1>2 DEF Purge
<1>3. ASSUME NEW r \in Request, InsertPending(r) PROVE UNCHANGED Promise!vars
  BY <1>3 DEF InsertPending
<1>4. ASSUME NEW r \in Request, LookUp(r) PROVE Promise!Next \/ UNCHANGED Promise!vars
  BY <1>4, <1>d DEF LookUp, Waiting
<1>5. ASSUME NEW r \in Request, Decide(r) PROVE Promise!Next \/ UNCHANGED Promise!vars
  <2>1. /\ pc[r] = "decide"
        /\ UNCHANGED <<now, lastPk, work, intent, asOf, seen>>
        /\ Seize(r) \/ GoRound(r) \/ Refuse(r) \/ ReplayStored(r)
    BY <1>5, DecideOutcomes
  <2>2. CASE Seize(r) \/ GoRound(r)
    BY <2>1, <2>2 DEF Seize, GoRound
  <2>3. CASE Refuse(r)
    BY <2>1, <2>3, <1>d DEF Refuse, Waiting
  <2>4. CASE ReplayStored(r)
    <3>1. \E w \in work : w.by = seen[r].by /\ w.intent = intent[r]
      BY <1>0, <2>1, <2>4 DEF Stored, Backed, ReplayStored
    <3>2. Promise!Replay(r)
      BY <1>0, <2>1, <2>4, <3>1 DEF Progress, Waiting, ReplayStored, Tell, Promise!Replay,
                                    Promise!NotAnswered, NotAnswered
    <3> QED
      BY <3>2 DEF Promise!Next
  <2> QED
    BY <2>1, <2>2, <2>3, <2>4
<1>6. ASSUME NEW r \in Request, Complete(r) PROVE Promise!Next
  <2>1. row.by = NoRequest /\ pc[r] = "handler"
    BY <1>6 DEF Complete, Mine, Pending
  <2>2. \A w \in work : ~(now < w.at + Retention)
    BY <1>0, <2>1, NoneAssumption DEF Survives, Typed, TypeOK, WorkType
  <2>3. Promise!Commit(r)
    BY <1>0, <1>6, <2>1, <2>2 DEF Complete, Progress, Waiting, Promise!Commit, Promise!Live,
                                  Promise!NotAnswered, NotAnswered
  <2> QED
    BY <2>3 DEF Promise!Next
<1>7. ASSUME NEW r \in Request, LoseReservation(r) \/ Release(r) PROVE Promise!Next
  BY <1>7, <1>d DEF LoseReservation, Release, Waiting
<1>8. ASSUME NEW r \in Request, Respond(r) PROVE Promise!Next
  <2>1. Promise!Confirm(r)
    BY <1>0, <1>8 DEF Respond, Tell, Progress, Promise!Confirm, Promise!NotAnswered, NotAnswered
  <2> QED
    BY <2>1 DEF Promise!Next
<1>9. ASSUME NEW r \in Request, FailHandler(r) \/ Die(r) PROVE UNCHANGED Promise!vars
  BY <1>9 DEF FailHandler, Die
<1>10. CASE UNCHANGED vars
  BY <1>10 DEF vars
<1> QED
  BY <1>1, <1>2, <1>3, <1>4, <1>5, <1>6, <1>7, <1>8, <1>9, <1>10 DEF Next, Step

(* The reservation protocol keeps what ExactlyOnce promises the client.    *)
THEOREM ProtocolKeepsPromise == Spec => KeepsPromise
<1>1. Init => Promise!Init
  BY DEF Init, Promise!Init, NotAnswered, Promise!NotAnswered
<1> QED
  BY <1>1, Invariance, StepImplements, PTL DEF Spec, KeepsPromise, Promise!Spec

-----------------------------------------------------------------------------
(* The invariant                                                           *)

(* A block, a row, and where a piece of work stands. *)
Contexts == [company : Firms \cup {NoFirm}, system : BOOLEAN]
Rows == [live : BOOLEAN, firm : Firms, of : Clients, note : Notes]

Admitted == {"let in", "reaches", "writes", "saved"}
Reaching == {"reaches", "writes", "saved"}
Writing == {"writes", "saved"}
Steps == {"rests", "arrived", "answers"} \cup Admitted

(* The fields a piece of work has by the time it needs them. *)
Shaped(t) ==
    /\ {"step", "scope"} \subseteq DOMAIN t
    /\ t.step \in Steps
    /\ t.scope \in Seq(Contexts) /\ t.scope # <<>> /\ t.scope[1] = Unbound
    /\ t.step # "rests" => {"to", "who"} \subseteq DOMAIN t
    /\ t.step \in Admitted => {"does", "what", "firm"} \subseteq DOMAIN t
    /\ t.step \in Admitted /\ t.to = "staff" => "role" \in DOMAIN t
    /\ t.step \in Reaching => "reach" \in DOMAIN t
    /\ t.step \in Writing => {"id", "read", "row"} \subseteq DOMAIN t

InFirm(firm) == [company |-> firm, system |-> FALSE]

(* What a piece of work is bound to, by how it came in. *)
Bound(t) ==
    /\ t.step = "rests" => t = Resting
    /\ t.step = "arrived" /\ t.who \in Members => Innermost(t.scope) = InFirm(FirmOf[t.who])
    /\ t.step = "arrived" /\ t.who \notin Members => Innermost(t.scope) = InFirm(NoFirm)
    /\ t.step = "let in" => t.to = "staff"
    /\ t.step \in Reaching => t.reach \subseteq Clients
    /\ t.step \in Admitted =>
         \/ /\ t.to = "staff" /\ t.who \in Members
            /\ t.firm = FirmOf[t.who] /\ Innermost(t.scope) = InFirm(t.firm)
         \/ /\ t.to = "portal" /\ t.who \in Guests
            /\ t.firm = FirmOf[t.who] /\ Innermost(t.scope) = InFirm(t.firm)
            /\ t.step \in Reaching /\ t.reach = {ClientOf[t.who]}
            /\ t.does = "create" \/ (t.does = "list" /\ t.what = "elevator")
         \/ /\ t.to = "sticker" /\ t.does = "create"
            /\ t.firm \in Firms /\ Innermost(t.scope) = InFirm(t.firm)
         \/ t.to = "link" /\ t.does = "edit"
         \/ t.to = "job" /\ t.who = NoFirm /\ t.does \in {"edit", "delete"}

(* The row a piece of work has read, and what it will write of it. *)
Drafted(t) ==
    t.step \in Writing =>
      /\ t.id \in Papers /\ t.row \in Rows /\ FirmOf[t.row.of] = t.row.firm
      /\ t.does \in {"create", "edit", "delete"}
      /\ t.does # "create" => t.read \in Rows /\ t.read.live /\ t.row.firm = t.read.firm
      /\ t.does # "delete" => t.row.live
      /\ t.does = "delete" => t.row = [t.read EXCEPT !.live = FALSE]
      /\ t.to \in {"staff", "portal"} => t.row.firm = FirmOf[t.who] /\ t.row.of \in t.reach

(* The row is still the firm's it was read in. *)
Filed(t) ==
    t.step = "saved" \/ (t.step = "writes" /\ t.does # "create") =>
      paper[t.id] \in Rows /\ paper[t.id].firm = t.row.firm

(* A member no one has changed meanwhile works in the role they were let in with. *)
Warranted(t) ==
    t.step \in Admitted /\ t.to = "staff" /\ t.who \in Members \ shifted =>
      /\ member[t.who].active /\ t.role = member[t.who].role
      /\ May(t.role, Resource(t.what, t.does), Action(t.does))
      /\ t.does = "delete" => t.what \in Deletable
      /\ t.step \in Reaching /\ t.role = "technician" => t.reach = charge[t.who]

(* A record is no more than its fields. *)
IsRecord(r) == r = [f \in DOMAIN r |-> r[f]]

(* The rows, their entries and the team. *)
Tables ==
    /\ paper \in [Papers -> Rows \cup {NoPaper}]
    /\ DOMAIN trail = Papers /\ DOMAIN thread = Threads
    /\ \A p \in Papers : /\ trail[p].live => paper[p] \in Rows
                        /\ IsRecord(trail[p].told)
    /\ member \in [Members -> [role : Posts, active : BOOLEAN]]
    /\ charge \in [Members -> SUBSET Clients]

(* Every piece of work is in order. *)
ThreadsInv ==
    \A w \in Threads :
      /\ Shaped(thread[w]) /\ Bound(thread[w]) /\ Drafted(thread[w])
      /\ Filed(thread[w]) /\ Warranted(thread[w])

Saved(w, p) == thread[w].step = "saved" /\ thread[w].id = p

(* The entry a saved row is about to get. *)
Told(t) ==
    Over([f \in {f \in DOMAIN t.row : t.does = "create" \/ t.row[f] # t.read[f]} |-> t.row[f]],
         trail[t.id].told)

(* But for the blurred, a row is what the trail tells of it, or is about to. *)
TrailInv ==
    \A p \in Papers \ blurred :
      /\ (\A w \in Threads : ~Saved(w, p)) => paper[p] = trail[p].told
      /\ \A w \in Threads : Saved(w, p) =>
           paper[p] = Told(thread[w]) /\ \A v \in Threads : Saved(v, p) => v = w

TenancyInv == Tables /\ ThreadsInv /\ RowsKeepTheirFirm /\ TrailInv

-----------------------------------------------------------------------------
(* Steps of one thread                                                     *)

(* All that is asked of one piece of work. *)
Sound(t) == Shaped(t) /\ Bound(t) /\ Drafted(t) /\ Filed(t) /\ Warranted(t)

(* A step of one piece of work that changes nothing else. *)
Works(w, n) ==
    /\ thread' = [thread EXCEPT ![w] = n] /\ Calm
    /\ Sound(n) /\ n.step # "saved" /\ thread[w].step # "saved"
    /\ n.step = "answers" => \A p \in n.saw : Theirs(n, p)

(* Every piece of work there is holds them.                                *)
LEMMA SoundThreads ==
  ASSUME TenancyInv, NEW w \in Threads
  PROVE  Sound(thread[w])
BY DEF TenancyInv, ThreadsInv, Sound

(* One thread takes a step, the others stay where they are.                *)
LEMMA Turned ==
  ASSUME DOMAIN thread = Threads, NEW w \in Threads, NEW n, thread' = [thread EXCEPT ![w] = n]
  PROVE  /\ DOMAIN thread' = Threads /\ thread'[w] = n
         /\ \A v \in Threads : v # w => thread'[v] = thread[v]
OBVIOUS

(* A block entered is the innermost, and what was outside it stays.        *)
LEMMA Entered ==
  ASSUME NEW scope \in Seq(Contexts), scope # <<>>, scope[1] = Unbound, NEW c \in Contexts
  PROVE  /\ Append(scope, c) \in Seq(Contexts) /\ Append(scope, c) # <<>>
         /\ Append(scope, c)[1] = Unbound /\ Innermost(Append(scope, c)) = c
BY DEF Innermost

(* CompanyAwareJWTAuthentication and RolePermission let a member in.       *)
LEMMA StaffStarts ==
  ASSUME TenancyInv, NEW w \in Threads, StaffLetIn(w)
  PROVE  \E n : Works(w, n)
<1>1. PICK does \in {"list", "create", "edit", "delete"}, what \in Asked :
        /\ does = "delete" => what \in Deletable
        /\ May(member[thread[w].who].role, Resource(what, does), Action(does))
        /\ Goes(w, [step |-> "let in", does |-> does, what |-> what,
                    role |-> member[thread[w].who].role, firm |-> OwnFirm(thread[w].who)])
  BY DEF StaffLetIn
<1>2. /\ thread[w].step = "arrived" /\ thread[w].to = "staff" /\ thread[w].who \in Members
      /\ member[thread[w].who].active /\ Calm
  BY DEF StaffLetIn
<1>3. Sound(thread[w])
  BY SoundThreads
<1> DEFINE t == thread[w]
           n == Over([step |-> "let in", does |-> does, what |-> what,
                    role |-> member[t.who].role, firm |-> OwnFirm(t.who)], t)
<1>4. thread' = [thread EXCEPT ![w] = n]
  BY <1>1 DEF Goes, Then
<1>5. /\ n.step = "let in" /\ n.does = does /\ n.what = what /\ n.role = member[t.who].role
      /\ n.firm = FirmOf[t.who] /\ n.to = t.to /\ n.who = t.who /\ n.scope = t.scope
      /\ DOMAIN n = DOMAIN t \cup {"step", "does", "what", "role", "firm"}
  BY <1>2, <1>3 DEF Over, OwnFirm, Sound, Shaped
<1> HIDE DEF n
<1>6. Shaped(n)
  BY <1>2, <1>3, <1>5 DEF Sound, Shaped, Steps, Admitted, Reaching, Writing
<1>7. Bound(n)
  BY <1>2, <1>3, <1>5 DEF Sound, Bound, Admitted, Reaching
<1>8. Drafted(n) /\ Filed(n)
  BY <1>5 DEF Drafted, Filed, Writing
<1>9. Warranted(n)
  BY <1>1, <1>2, <1>5 DEF Warranted, Reaching, Admitted
<1>10. QED
  BY <1>2, <1>4, <1>5, <1>6, <1>7, <1>8, <1>9 DEF Works, Sound

(* A thread starts bound to no firm.                                       *)
LEMMA Contextual ==
  /\ Unbound \in Contexts /\ <<Unbound>> \in Seq(Contexts) /\ <<Unbound>> # <<>>
  /\ <<Unbound>>[1] = Unbound /\ Innermost(<<Unbound>>) = Unbound
  /\ \A firm \in Firms \cup {NoFirm} : InFirm(firm) \in Contexts
BY DEF Contexts, Unbound, Innermost, InFirm

(* company_context names the firm and leaves the rest of the block around  *)
(* it.                                                                     *)
LEMMA BindsFirm ==
  ASSUME NEW scope, NEW firm, NEW g, Innermost(scope) = InFirm(g)
  PROVE  CompanyContext(scope, firm) = Append(scope, InFirm(firm))
<1>1. [InFirm(g) EXCEPT !.company = firm] = InFirm(firm)
  BY DEF InFirm
<1>2. QED
  BY <1>1 DEF CompanyContext

(* Everybody is some firm's, and a guest their client's.                   *)
LEMMA FirmsOfAll ==
  /\ \A who \in Members \cup Guests \cup Clients : FirmOf[who] \in Firms
  /\ \A g \in Guests : ClientOf[g] \in Clients /\ FirmOf[ClientOf[g]] = FirmOf[g]
BY TenancyAssumption

(* CompanyContextMiddleware binds the token's firm.                        *)
LEMMA ArrivesWorks ==
  ASSUME TenancyInv, NEW w \in Threads, Arrives(w)
  PROVE  \E n : Works(w, n)
<1>1. PICK to \in {"staff", "portal", "sticker", "link"}, who \in Members \cup Guests \cup {NoFirm} :
        /\ thread[w] = Resting /\ Calm
        /\ Then(w, [step |-> "arrived", to |-> to, who |-> who,
                    scope |-> CompanyContext(<<Unbound>>, IF who \in Members THEN FirmOf[who] ELSE NoFirm)])
  BY DEF Arrives
<1> DEFINE firm == IF who \in Members THEN FirmOf[who] ELSE NoFirm
           n == [step |-> "arrived", to |-> to, who |-> who, scope |-> Append(<<Unbound>>, InFirm(firm))]
<1>2. firm \in Firms \cup {NoFirm}
  BY FirmsOfAll
<1>3. CompanyContext(<<Unbound>>, firm) = Append(<<Unbound>>, InFirm(firm))
  BY Contextual, BindsFirm DEF InFirm, Unbound
<1>4. thread' = [thread EXCEPT ![w] = n]
  BY <1>1, <1>3 DEF Then
<1>5. /\ n.scope \in Seq(Contexts) /\ n.scope # <<>> /\ n.scope[1] = Unbound
      /\ Innermost(n.scope) = InFirm(firm)
  BY <1>2, Contextual, Entered
<1>6. Shaped(n)
  BY <1>5 DEF Shaped, Steps, Admitted, Reaching, Writing
<1>7. Bound(n)
  BY <1>5 DEF Bound, Admitted, Reaching
<1>8. Drafted(n) /\ Filed(n) /\ Warranted(n)
  BY DEF Drafted, Filed, Warranted, Admitted, Writing
<1>9. n.step = "arrived" /\ thread[w].step = "rests"
  BY <1>1 DEF Resting
<1> HIDE DEF n
<1>10. QED
  BY <1>1, <1>4, <1>6, <1>7, <1>8, <1>9 DEF Works, Sound

(* get_queryset reads whose rows a technician sees.                        *)
LEMMA NarrowsWorks ==
  ASSUME TenancyInv, NEW w \in Threads, Narrows(w)
  PROVE  \E n : Works(w, n)
<1> DEFINE t == thread[w]
           reach == IF t.role = "technician" THEN charge[t.who] ELSE Clients
           n == Over([reach |-> reach, step |-> "reaches"], t)
<1>1. t.step = "let in" /\ thread' = [thread EXCEPT ![w] = n] /\ Calm
  BY DEF Narrows, Goes, Then
<1>2. Sound(t)
  BY SoundThreads
<1>3. t.to = "staff" /\ t.who \in Members
  BY <1>1, <1>2 DEF Sound, Bound, Admitted, Reaching
<1>4. reach \subseteq Clients
  BY <1>3 DEF TenancyInv, Tables
<1>5. /\ n.step = "reaches" /\ n.reach = reach /\ n.does = t.does /\ n.what = t.what
      /\ n.role = t.role /\ n.firm = t.firm /\ n.to = t.to /\ n.who = t.who /\ n.scope = t.scope
      /\ DOMAIN n = DOMAIN t \cup {"step", "reach"}
  BY <1>1, <1>2, <1>3 DEF Over, Sound, Shaped, Admitted
<1> HIDE DEF n
<1>6. Shaped(n)
  BY <1>1, <1>2, <1>5 DEF Sound, Shaped, Steps, Admitted, Reaching, Writing
<1>7. Bound(n)
  BY <1>1, <1>2, <1>4, <1>5 DEF Sound, Bound, Admitted, Reaching
<1>8. Drafted(n) /\ Filed(n)
  BY <1>5 DEF Drafted, Filed, Writing
<1>9. Warranted(n)
  BY <1>1, <1>2, <1>5 DEF Sound, Warranted, Reaching, Admitted
<1>10. QED
  BY <1>1, <1>5, <1>6, <1>7, <1>8, <1>9 DEF Works, Sound

(* PortalContextMixin binds the account's firm.                            *)
LEMMA GuestStarts ==
  ASSUME TenancyInv, NEW w \in Threads, GuestLetIn(w)
  PROVE  \E n : Works(w, n)
<1> DEFINE t == thread[w]
<1>1. PICK does \in {"list", "create"} :
        Goes(w, [step |-> "reaches", scope |-> CompanyContext(t.scope, FirmOf[t.who]),
                 does |-> does, what |-> IF does = "create" THEN "fault" ELSE "elevator",
                 firm |-> OwnFirm(t.who), reach |-> {ClientOf[t.who]}])
  BY DEF GuestLetIn
<1>2. t.step = "arrived" /\ t.to = "portal" /\ t.who \in Guests /\ Calm
  BY DEF GuestLetIn
<1>3. Sound(t)
  BY SoundThreads
<1> DEFINE what == IF does = "create" THEN "fault" ELSE "elevator"
           firm == FirmOf[t.who]
           scope == Append(t.scope, InFirm(firm))
           n == Over([step |-> "reaches", scope |-> scope, does |-> does, what |-> what,
                      firm |-> firm, reach |-> {ClientOf[t.who]}], t)
<1>4. t.who \notin Members /\ firm \in Firms /\ ClientOf[t.who] \in Clients
  BY <1>2, FirmsOfAll, TenancyAssumption
<1>5. CompanyContext(t.scope, firm) = scope
  BY <1>2, <1>3, <1>4, BindsFirm DEF Sound, Bound
<1>6. thread' = [thread EXCEPT ![w] = n]
  BY <1>1, <1>5 DEF Goes, Then, OwnFirm
<1>7. scope \in Seq(Contexts) /\ scope # <<>> /\ scope[1] = Unbound /\ Innermost(scope) = InFirm(firm)
  BY <1>3, <1>4, Contextual, Entered DEF Sound, Shaped
<1> HIDE DEF scope
<1>8. /\ n.step = "reaches" /\ n.scope = scope /\ n.does = does /\ n.what = what
      /\ n.firm = firm /\ n.reach = {ClientOf[t.who]} /\ n.to = t.to /\ n.who = t.who
      /\ DOMAIN n = DOMAIN t \cup {"step", "scope", "does", "what", "firm", "reach"}
  BY <1>2, <1>3 DEF Over, Sound, Shaped
<1> HIDE DEF n
<1>9. Shaped(n)
  BY <1>2, <1>3, <1>7, <1>8 DEF Sound, Shaped, Steps, Admitted, Reaching, Writing
<1>10. Bound(n)
  BY <1>2, <1>4, <1>7, <1>8 DEF Bound, Admitted, Reaching
<1>11. Drafted(n) /\ Filed(n) /\ Warranted(n)
  BY <1>2, <1>8 DEF Drafted, Filed, Warranted, Writing
<1>12. QED
  BY <1>2, <1>6, <1>8, <1>9, <1>10, <1>11 DEF Works, Sound

(* A sticker's report is worked on in the lift's firm.                     *)
LEMMA StickerStarts ==
  ASSUME TenancyInv, NEW w \in Threads, StickerScanned(w)
  PROVE  \E n : Works(w, n)
<1> DEFINE t == thread[w]
<1>1. PICK p \in Papers :
        /\ paper[p].live
        /\ Goes(w, [step |-> "reaches", scope |-> CompanyContext(t.scope, paper[p].firm),
                    does |-> "create", what |-> "fault", firm |-> paper[p].firm,
                    reach |-> {paper[p].of}])
  BY DEF StickerScanned
<1>2. t.step = "arrived" /\ t.to = "sticker" /\ Calm
  BY DEF StickerScanned
<1>3. Sound(t)
  BY SoundThreads
<1> DEFINE firm == paper[p].firm
           scope == Append(t.scope, InFirm(firm))
           n == Over([step |-> "reaches", scope |-> scope, does |-> "create", what |-> "fault",
                      firm |-> firm, reach |-> {paper[p].of}], t)
<1>4. paper[p] \in Rows /\ firm \in Firms /\ paper[p].of \in Clients
  BY <1>1 DEF TenancyInv, Tables, NoPaper, Rows
<1>5. CompanyContext(t.scope, firm) = scope
  BY <1>2, <1>3, BindsFirm DEF Sound, Bound
<1>6. thread' = [thread EXCEPT ![w] = n]
  BY <1>1, <1>5 DEF Goes, Then
<1>7. scope \in Seq(Contexts) /\ scope # <<>> /\ scope[1] = Unbound /\ Innermost(scope) = InFirm(firm)
  BY <1>3, <1>4, Contextual, Entered DEF Sound, Shaped
<1> HIDE DEF scope
<1>8. /\ n.step = "reaches" /\ n.scope = scope /\ n.does = "create" /\ n.what = "fault"
      /\ n.firm = firm /\ n.reach = {paper[p].of} /\ n.to = t.to /\ n.who = t.who
      /\ DOMAIN n = DOMAIN t \cup {"step", "scope", "does", "what", "firm", "reach"}
  BY <1>2, <1>3 DEF Over, Sound, Shaped
<1> HIDE DEF n
<1>9. Shaped(n)
  BY <1>2, <1>3, <1>7, <1>8 DEF Sound, Shaped, Steps, Admitted, Reaching, Writing
<1>10. Bound(n)
  BY <1>2, <1>4, <1>7, <1>8 DEF Bound, Admitted, Reaching
<1>11. Drafted(n) /\ Filed(n) /\ Warranted(n)
  BY <1>2, <1>8 DEF Drafted, Filed, Warranted, Writing
<1>12. QED
  BY <1>2, <1>6, <1>8, <1>9, <1>10, <1>11 DEF Works, Sound

(* A one-time link is looked up in the system context.                     *)
LEMMA LinkStarts ==
  ASSUME TenancyInv, NEW w \in Threads, LinkOpened(w)
  PROVE  \E n : Works(w, n)
<1> DEFINE t == thread[w]
           scope == Append(t.scope, [company |-> NoFirm, system |-> TRUE])
           n == Over([step |-> "reaches", scope |-> scope, does |-> "edit", what |-> "fault",
                      firm |-> NoFirm, reach |-> Clients], t)
<1>1. t.step = "arrived" /\ t.to = "link" /\ Calm /\ thread' = [thread EXCEPT ![w] = n]
  BY DEF LinkOpened, Goes, Then, SystemContext
<1>2. Sound(t)
  BY SoundThreads
<1>3. scope \in Seq(Contexts) /\ scope # <<>> /\ scope[1] = Unbound
  <2>1. [company |-> NoFirm, system |-> TRUE] \in Contexts
    BY DEF Contexts
  <2>2. QED
    BY <1>2, <2>1, Entered DEF Sound, Shaped
<1> HIDE DEF scope
<1>4. /\ n.step = "reaches" /\ n.scope = scope /\ n.does = "edit" /\ n.what = "fault"
      /\ n.firm = NoFirm /\ n.reach = Clients /\ n.to = t.to /\ n.who = t.who
      /\ DOMAIN n = DOMAIN t \cup {"step", "scope", "does", "what", "firm", "reach"}
  BY <1>1, <1>2 DEF Over, Sound, Shaped
<1> HIDE DEF n
<1>5. Shaped(n)
  BY <1>1, <1>2, <1>3, <1>4 DEF Sound, Shaped, Steps, Admitted, Reaching, Writing
<1>6. Bound(n) /\ Drafted(n) /\ Filed(n) /\ Warranted(n)
  BY <1>1, <1>4 DEF Bound, Admitted, Reaching, Drafted, Filed, Warranted, Writing
<1>7. QED
  BY <1>1, <1>4, <1>5, <1>6 DEF Works, Sound

(* A job works across the firms, or on each row in its own.                *)
LEMMA JobWorks ==
  ASSUME TenancyInv, NEW w \in Threads, JobStarts(w)
  PROVE  \E n : Works(w, n)
<1>1. PICK does \in {"edit", "delete"}, p \in Papers, each \in BOOLEAN :
        /\ paper[p].live
        /\ Then(w, [step |-> "reaches", to |-> "job", who |-> NoFirm, does |-> does,
                    what |-> ResourceOf[p], firm |-> paper[p].firm, reach |-> Clients,
                    scope |-> IF each THEN CompanyContext(<<Unbound>>, paper[p].firm)
                              ELSE SystemContext(<<Unbound>>)])
  BY DEF JobStarts
<1>2. thread[w] = Resting /\ Calm
  BY DEF JobStarts
<1> DEFINE scope == IF each THEN CompanyContext(<<Unbound>>, paper[p].firm) ELSE SystemContext(<<Unbound>>)
           n == [step |-> "reaches", to |-> "job", who |-> NoFirm, does |-> does,
                 what |-> ResourceOf[p], firm |-> paper[p].firm, reach |-> Clients, scope |-> scope]
<1>3. thread' = [thread EXCEPT ![w] = n]
  BY <1>1 DEF Then
<1>4. paper[p].firm \in Firms
  BY <1>1 DEF TenancyInv, Tables, NoPaper, Rows
<1>5. PICK c \in Contexts : scope = Append(<<Unbound>>, c)
  <2>1. CompanyContext(<<Unbound>>, paper[p].firm) = Append(<<Unbound>>, InFirm(paper[p].firm))
    BY Contextual, BindsFirm DEF InFirm, Unbound
  <2>2. [company |-> NoFirm, system |-> TRUE] \in Contexts
    BY DEF Contexts
  <2>3. QED
    BY <1>4, <2>1, <2>2, Contextual DEF SystemContext
<1>6. scope \in Seq(Contexts) /\ scope # <<>> /\ scope[1] = Unbound
  BY <1>5, Contextual, Entered
<1> HIDE DEF scope
<1>7. Shaped(n)
  BY <1>6 DEF Shaped, Steps, Admitted, Reaching, Writing
<1>8. Bound(n)
  BY DEF Bound, Admitted, Reaching
<1>9. Drafted(n) /\ Filed(n) /\ Warranted(n)
  BY DEF Drafted, Filed, Warranted, Admitted, Writing
<1>10. n.step = "reaches" /\ thread[w].step = "rests"
  BY <1>2 DEF Resting
<1> HIDE DEF n
<1>11. QED
  BY <1>2, <1>3, <1>7, <1>8, <1>9, <1>10 DEF Works, Sound
(* The rows a piece of work may reach are its firm's, and whose it may reach. *)
LEMMA ReachedRows ==
  ASSUME TenancyInv, NEW w \in Threads, thread[w].step = "reaches", NEW p \in Reached(w)
  PROVE  /\ p \in Papers /\ paper[p] \in Rows /\ paper[p].live
         /\ paper[p].of \in thread[w].reach /\ ResourceOf[p] = thread[w].what
         /\ FirmOf[paper[p].of] = paper[p].firm
         /\ thread[w].to \in {"staff", "portal"} => paper[p].firm = FirmOf[thread[w].who]
<1>1. /\ p \in Papers /\ paper[p].live /\ paper[p].of \in thread[w].reach
      /\ ResourceOf[p] = thread[w].what /\ (Scope(w).system \/ paper[p].firm = Scope(w).company)
  BY DEF Reached, Visible
<1>2. paper[p] \in Rows /\ FirmOf[paper[p].of] = paper[p].firm
  BY <1>1 DEF TenancyInv, Tables, NoPaper, RowsKeepTheirFirm
<1>3. thread[w].to \in {"staff", "portal"} => Scope(w) = InFirm(FirmOf[thread[w].who])
  BY SoundThreads DEF Sound, Bound, Admitted, Reaching, Scope
<1>4. QED
  BY <1>1, <1>2, <1>3 DEF InFirm

(* A list shows its reader what is theirs.                                 *)
LEMMA ListsWorks ==
  ASSUME TenancyInv, NEW w \in Threads, Lists(w)
  PROVE  \E n : Works(w, n)
<1> DEFINE t == thread[w]
           saw == IF t.what = "audit_log"
                  THEN {p \in Papers : trail[p].live /\ trail[p].firm = Scope(w).company}
                  ELSE Reached(w)
           n == Over([step |-> "answers", saw |-> saw], t)
<1>1. t.step = "reaches" /\ t.does = "list" /\ Calm /\ thread' = [thread EXCEPT ![w] = n]
  BY DEF Lists, Goes, Then
<1>2. Sound(t)
  BY SoundThreads
<1>3. \/ t.to = "staff" /\ t.who \in Members /\ t.who \notin Guests
      \/ /\ t.to = "portal" /\ t.who \in Guests /\ t.who \notin Members
         /\ t.what = "elevator" /\ t.reach = {ClientOf[t.who]}
  BY <1>1, <1>2, TenancyAssumption DEF Sound, Bound, Admitted, Reaching
<1>4. Scope(w) = InFirm(FirmOf[t.who])
  BY <1>1, <1>2, <1>3 DEF Sound, Bound, Admitted, Reaching, Scope
<1>5. t.who \in Members \ shifted =>
        /\ May(member[t.who].role, t.what, "read")
        /\ member[t.who].role = "technician" => t.reach = charge[t.who]
  BY <1>1, <1>2, <1>3 DEF Sound, Warranted, Admitted, Reaching, Resource, Action
<1>6. ASSUME NEW p \in saw
      PROVE  Theirs(t, p)
  <2>1. CASE t.what = "audit_log"
    <3>1. p \in Papers /\ trail[p].live /\ trail[p].firm = FirmOf[t.who] /\ t.who \in Members
      BY <1>3, <1>4, <1>6, <2>1 DEF InFirm
    <3>2. paper[p].firm = FirmOf[t.who]
      BY <3>1 DEF TenancyInv, RowsKeepTheirFirm
    <3>3. t.who \notin shifted => member[t.who].role # "technician"
      BY <1>5, <2>1, <3>1 DEF May, MATRIX, Grants, Admins
    <3>4. QED
      BY <1>3, <1>5, <3>1, <3>2, <3>3 DEF Theirs
  <2>2. CASE t.what # "audit_log"
    <3>1. paper[p].firm = FirmOf[t.who] /\ paper[p].of \in t.reach
      BY <1>1, <1>3, <1>6, <2>2, ReachedRows
    <3>2. QED
      BY <1>3, <1>5, <3>1 DEF Theirs
  <2>3. QED
    BY <2>1, <2>2
<1> HIDE DEF saw
<1>7. /\ n.step = "answers" /\ n.saw = saw /\ n.to = t.to /\ n.who = t.who /\ n.what = t.what
      /\ n.scope = t.scope /\ DOMAIN n = DOMAIN t \cup {"step", "saw"}
  BY <1>1, <1>2 DEF Over, Sound, Shaped, Admitted
<1> HIDE DEF n
<1>8. Shaped(n)
  BY <1>1, <1>2, <1>7 DEF Sound, Shaped, Steps, Admitted, Reaching, Writing
<1>9. Bound(n) /\ Drafted(n) /\ Filed(n) /\ Warranted(n)
  BY <1>7 DEF Bound, Drafted, Filed, Warranted, Admitted, Reaching, Writing
<1>10. \A p \in n.saw : Theirs(n, p)
  BY <1>6, <1>7 DEF Theirs
<1>11. QED
  BY <1>1, <1>7, <1>8, <1>9, <1>10 DEF Works, Sound

(* What a piece of work is about to write goes with how it came in. *)
LEMMA WritesWork ==
  ASSUME TenancyInv, NEW w \in Threads, thread[w].step = "reaches", NEW p \in Papers, NEW written \in Rows,
         WillWrite(w, p, written), FirmOf[written.of] = written.firm,
         thread[w].does \in {"create", "edit", "delete"},
         thread[w].does # "create" => paper[p] \in Rows /\ paper[p].live /\ written.firm = paper[p].firm,
         thread[w].does # "delete" => written.live,
         thread[w].does = "delete" => written = [paper[p] EXCEPT !.live = FALSE],
         thread[w].to \in {"staff", "portal"} =>
           written.firm = FirmOf[thread[w].who] /\ written.of \in thread[w].reach
  PROVE  \E n : Works(w, n)
<1> DEFINE t == thread[w]
           n == Over([step |-> "writes", id |-> p, read |-> paper[p], row |-> written], t)
<1>1. thread' = [thread EXCEPT ![w] = n] /\ Calm
  BY DEF WillWrite, Goes, Then
<1>2. Sound(t)
  BY SoundThreads
<1>3. /\ n.step = "writes" /\ n.id = p /\ n.read = paper[p] /\ n.row = written
      /\ n.to = t.to /\ n.who = t.who /\ n.scope = t.scope
      /\ n.does = t.does /\ n.what = t.what /\ n.firm = t.firm /\ n.reach = t.reach
      /\ t.to = "staff" => n.role = t.role
      /\ DOMAIN n = DOMAIN t \cup {"step", "id", "read", "row"}
  BY <1>2 DEF Over, Sound, Shaped, Admitted, Reaching
<1> HIDE DEF n
<1>4. Shaped(n)
  BY <1>2, <1>3 DEF Sound, Shaped, Steps, Admitted, Reaching, Writing
<1>5. Bound(n)
  BY <1>2, <1>3 DEF Sound, Bound, Admitted, Reaching
<1>6. Drafted(n)
  BY <1>3 DEF Drafted
<1>7. Filed(n)
  BY <1>3 DEF Filed
<1>8. Warranted(n)
  BY <1>2, <1>3 DEF Sound, Warranted, Admitted, Reaching
<1>9. QED
  BY <1>1, <1>3, <1>4, <1>5, <1>6, <1>7, <1>8 DEF Works, Sound

(* perform_create names the user's own firm and a client it may pick.      *)
LEMMA CreatesWorks ==
  ASSUME TenancyInv, NEW w \in Threads, Creates(w)
  PROVE  \E n : Works(w, n)
<1> DEFINE t == thread[w]
<1>1. PICK p \in Papers, c \in Pickable(w), n \in Notes :
        WillWrite(w, p, [live |-> TRUE, firm |-> t.firm, of |-> c, note |-> n])
  BY DEF Creates
<1>2. t.step = "reaches" /\ t.does = "create" /\ Sound(t)
  BY SoundThreads DEF Creates
<1>3. /\ t.firm \in Firms /\ Scope(w) = InFirm(t.firm) /\ t.reach \subseteq Clients
      /\ t.to \in {"staff", "portal"} => t.firm = FirmOf[t.who]
  BY <1>2, FirmsOfAll DEF Sound, Bound, Admitted, Reaching, Scope
<1>4. c \in t.reach /\ FirmOf[c] = t.firm
  BY <1>3 DEF Pickable, InFirm
<1>5. [live |-> TRUE, firm |-> t.firm, of |-> c, note |-> n] \in Rows
  BY <1>3, <1>4 DEF Rows
<1>6. QED
  BY <1>1, <1>2, <1>3, <1>4, <1>5, WritesWork

(* An edit keeps the row in its firm.                                      *)
LEMMA TakesWorks ==
  ASSUME TenancyInv, NEW w \in Threads, Takes(w)
  PROVE  \E n : Works(w, n)
<1> DEFINE t == thread[w]
<1>1. PICK p \in Reached(w), n \in Notes :
        \E c \in {paper[p].of} \cup (IF t.to = "staff" THEN Pickable(w) ELSE {}) :
          WillWrite(w, p, [paper[p] EXCEPT !.of = c, !.note = n])
  BY DEF Takes
<1>2. PICK c \in {paper[p].of} \cup (IF t.to = "staff" THEN Pickable(w) ELSE {}) :
        WillWrite(w, p, [paper[p] EXCEPT !.of = c, !.note = n])
  BY <1>1
<1>3. t.step = "reaches" /\ t.does = "edit" /\ Sound(t)
  BY SoundThreads DEF Takes
<1>4. /\ p \in Papers /\ paper[p] \in Rows /\ paper[p].live /\ paper[p].of \in t.reach
      /\ FirmOf[paper[p].of] = paper[p].firm
      /\ t.to \in {"staff", "portal"} => paper[p].firm = FirmOf[t.who]
  BY <1>1, <1>3, ReachedRows
<1>5. /\ t.reach \subseteq Clients
      /\ t.to = "staff" => Scope(w) = InFirm(FirmOf[t.who])
  BY <1>3 DEF Sound, Bound, Admitted, Reaching, Scope
<1>6. c \in t.reach /\ FirmOf[c] = paper[p].firm
  BY <1>2, <1>4, <1>5 DEF Pickable, InFirm
<1> DEFINE written == [paper[p] EXCEPT !.of = c, !.note = n]
<1>7. written \in Rows /\ written.of = c /\ written.firm = paper[p].firm /\ written.live
  BY <1>4, <1>5, <1>6 DEF Rows
<1> HIDE DEF written
<1>8. QED
  BY <1>2, <1>3, <1>4, <1>6, <1>7, WritesWork DEF written

(* A deletion marks a row of its firm.                                     *)
LEMMA TakesAwayWorks ==
  ASSUME TenancyInv, NEW w \in Threads, TakesAway(w)
  PROVE  \E n : Works(w, n)
<1> DEFINE t == thread[w]
<1>1. PICK p \in Reached(w) : WillWrite(w, p, [paper[p] EXCEPT !.live = FALSE])
  BY DEF TakesAway
<1>2. t.step = "reaches" /\ t.does = "delete"
  BY DEF TakesAway
<1>3. /\ p \in Papers /\ paper[p] \in Rows /\ paper[p].live /\ paper[p].of \in t.reach
      /\ FirmOf[paper[p].of] = paper[p].firm
      /\ t.to \in {"staff", "portal"} => paper[p].firm = FirmOf[t.who]
  BY <1>1, <1>2, ReachedRows
<1> DEFINE written == [paper[p] EXCEPT !.live = FALSE]
<1>4. written \in Rows /\ written.of = paper[p].of /\ written.firm = paper[p].firm
  BY <1>3 DEF Rows
<1>5. QED
  BY <1>1, <1>2, <1>3, <1>4, WritesWork
(* Work is in order as long as the rows and the team stay as they are.     *)
LEMMA SoundStays ==
  ASSUME NEW t, Sound(t), UNCHANGED <<paper, team>>
  PROVE  Sound(t)'
BY DEF Sound, Shaped, Bound, Drafted, Filed, Warranted, team

(* Only the thread that takes the step can overstep.                       *)
LEMMA OthersDoNothing ==
  ASSUME TenancyInv, NEW w \in Threads, NEW n, thread' = [thread EXCEPT ![w] = n],
         /\ n.step = "answers" /\ n # thread[w] => \A p \in n.saw : Theirs(n, p)
         /\ n.step = "saved" /\ n # thread[w] /\ n.to \in {"staff", "portal"} => MayWrite(n)
  PROVE  NobodyOversteps
<1>1. thread'[w] = n /\ \A v \in Threads : v # w => thread'[v] = thread[v]
  BY Turned DEF TenancyInv, Tables
<1>2. QED
  BY <1>1 DEF NobodyOversteps

(* Every such step keeps the invariant.                                    *)
LEMMA WorksKept ==
  ASSUME TenancyInv, NEW w \in Threads, NEW n, Works(w, n)
  PROVE  TenancyInv' /\ NobodyOversteps
<1>1. /\ thread' = [thread EXCEPT ![w] = n] /\ UNCHANGED <<team, paper, trail, blurred>>
      /\ Sound(n) /\ n.step # "saved" /\ thread[w].step # "saved"
      /\ n.step = "answers" => \A p \in n.saw : Theirs(n, p)
  BY DEF Works, Calm
<1>2. DOMAIN thread' = Threads /\ thread'[w] = n /\ \A v \in Threads : v # w => thread'[v] = thread[v]
  BY <1>1, Turned DEF TenancyInv, Tables
<1>3. Tables'
  BY <1>1, <1>2 DEF TenancyInv, Tables, team
<1>4. ThreadsInv'
  <2>1. ASSUME NEW v \in Threads PROVE Sound(thread'[v])
    BY <1>1, <1>2, SoundThreads
  <2>2. ASSUME NEW v \in Threads PROVE Sound(thread[v])'
    <3>1. PICK t : t = thread'[v]
      OBVIOUS
    <3>2. Sound(t)
      BY <2>1, <3>1
    <3>3. Sound(t)'
      BY <1>1, <3>2, SoundStays
    <3>4. QED
      BY <3>1, <3>3
  <2>3. QED
    BY <2>2 DEF ThreadsInv, Sound
<1>5. RowsKeepTheirFirm'
  BY <1>1 DEF TenancyInv, RowsKeepTheirFirm
<1>6. TrailInv'
  <2>1. ASSUME NEW v \in Threads, NEW p PROVE Saved(v, p)' <=> Saved(v, p)
    BY <1>1, <1>2 DEF Saved
  <2>2. ASSUME NEW v \in Threads, NEW p, Saved(v, p) PROVE thread'[v] = thread[v]
    BY <1>1, <1>2, <2>2 DEF Saved
  <2>3. ASSUME NEW v \in Threads, NEW p, Saved(v, p) PROVE Told(thread[v])' = Told(thread[v])
    BY <1>1, <2>2, <2>3 DEF Told
  <2>4. QED
    BY <1>1, <2>1, <2>3 DEF TenancyInv, TrailInv
<1>7. NobodyOversteps
  BY <1>1, OthersDoNothing
<1>8. QED
  BY <1>3, <1>4, <1>5, <1>6, <1>7 DEF TenancyInv

(* A thread that rests is in order.                                        *)
LEMMA RestingSound == Sound(Resting) /\ Resting.step = "rests"
<1>1. Shaped(Resting)
  BY Contextual DEF Resting, Shaped, Steps, Admitted, Reaching, Writing
<1>2. Bound(Resting) /\ Drafted(Resting) /\ Filed(Resting) /\ Warranted(Resting)
  BY DEF Resting, Bound, Drafted, Filed, Warranted, Admitted, Reaching, Writing
<1>3. QED
  BY <1>1, <1>2 DEF Sound, Resting

(* Every block is left, and a row whose entry was not filed stays told as  *)
(* it was.                                                                 *)
LEMMA EndsWorkKept ==
  ASSUME TenancyInv, NEW w \in Threads, EndsWork(w)
  PROVE  TenancyInv' /\ NobodyOversteps
<1> DEFINE t == thread[w]
<1>1. /\ thread' = [thread EXCEPT ![w] = Unwound(t)] /\ UNCHANGED <<team, paper, trail>>
      /\ blurred' = IF t.step = "saved" THEN blurred \cup {t.id} ELSE blurred
  BY DEF EndsWork, Then
<1>2. Unwound(t) = Resting
  BY SoundThreads DEF Unwound, Resting, Sound, Shaped
<1>3. Sound(Resting) /\ Resting.step = "rests"
  BY RestingSound
<1>4. DOMAIN thread' = Threads /\ thread'[w] = Resting /\ \A v \in Threads : v # w => thread'[v] = thread[v]
  BY <1>1, <1>2, Turned DEF TenancyInv, Tables
<1>5. Tables'
  BY <1>1, <1>4 DEF TenancyInv, Tables, team
<1>6. ThreadsInv'
  <2>1. ASSUME NEW v \in Threads PROVE Sound(thread'[v])
    BY <1>3, <1>4, SoundThreads
  <2>2. ASSUME NEW v \in Threads PROVE Sound(thread[v])'
    <3>1. PICK s : s = thread'[v]
      OBVIOUS
    <3>2. Sound(s)
      BY <2>1, <3>1
    <3>3. Sound(s)'
      BY <1>1, <3>2, SoundStays
    <3>4. QED
      BY <3>1, <3>3
  <2>3. QED
    BY <2>2 DEF ThreadsInv, Sound
<1>7. RowsKeepTheirFirm'
  BY <1>1 DEF TenancyInv, RowsKeepTheirFirm
<1>8. TrailInv'
  <2> SUFFICES ASSUME NEW p \in Papers \ blurred'
               PROVE  /\ (\A v \in Threads : ~Saved(v, p)') => paper'[p] = trail'[p].told
                      /\ \A v \in Threads : Saved(v, p)' =>
                           /\ paper'[p] = Told(thread[v])'
                           /\ \A u \in Threads : Saved(u, p)' => u = v
    BY DEF TrailInv
  <2>1. p \in Papers \ blurred /\ ~Saved(w, p)
    BY <1>1 DEF Saved
  <2>2. ASSUME NEW v \in Threads PROVE Saved(v, p)' <=> Saved(v, p)
    BY <1>3, <1>4, <2>1 DEF Saved
  <2>3. ASSUME NEW v \in Threads, Saved(v, p) PROVE Told(thread[v])' = Told(thread[v])
    BY <1>1, <1>4, <2>1, <2>3 DEF Told
  <2>4. QED
    BY <1>1, <2>1, <2>2, <2>3 DEF TenancyInv, TrailInv
<1>9. NobodyOversteps
  BY <1>1, <1>2, <1>3, OthersDoNothing
<1>10. QED
  BY <1>5, <1>6, <1>7, <1>8, <1>9 DEF TenancyInv

(* A role, a deactivation or an assignment leaves what is under way to be  *)
(* blamed on nobody.                                                       *)
LEMMA TeamKept ==
  ASSUME TenancyInv, TeamChanges
  PROVE  TenancyInv' /\ NobodyOversteps
<1>1. PICK m \in Members :
        /\ \/ /\ \E role \in Posts : member' = [member EXCEPT ![m].role = role]
              /\ UNCHANGED charge
           \/ /\ member' = [member EXCEPT ![m].active = ~@]
              /\ UNCHANGED charge
           \/ /\ \E c \in {c \in Clients : FirmOf[c] = FirmOf[m]} :
                   charge' = [charge EXCEPT ![m] = IF c \in @ THEN @ \ {c} ELSE @ \cup {c}]
              /\ UNCHANGED member
        /\ shifted' = IF \E w \in Threads : thread[w].step # "rests" /\ thread[w].who = m
                      THEN shifted \cup {m} ELSE shifted
        /\ UNCHANGED <<paper, trail, thread, blurred>>
  BY DEF TeamChanges
<1>2. /\ member' \in [Members -> [role : Posts, active : BOOLEAN]] /\ charge' \in [Members -> SUBSET Clients]
      /\ \A u \in Members \ {m} : member'[u] = member[u] /\ charge'[u] = charge[u]
  <2>1. member \in [Members -> [role : Posts, active : BOOLEAN]] /\ charge \in [Members -> SUBSET Clients]
    BY DEF TenancyInv, Tables
  <2>2. CASE UNCHANGED charge /\ \E role \in Posts : member' = [member EXCEPT ![m].role = role]
    BY <2>1, <2>2
  <2>3. CASE UNCHANGED charge /\ member' = [member EXCEPT ![m].active = ~@]
    BY <2>1, <2>3
  <2>4. CASE UNCHANGED member /\ \E c \in {c \in Clients : FirmOf[c] = FirmOf[m]} :
               charge' = [charge EXCEPT ![m] = IF c \in @ THEN @ \ {c} ELSE @ \cup {c}]
    BY <2>1, <2>4
  <2>5. QED
    BY <1>1, <2>2, <2>3, <2>4
<1>3. Tables'
  BY <1>1, <1>2 DEF TenancyInv, Tables
<1>4. ThreadsInv'
  <2>1. ASSUME NEW w \in Threads PROVE Sound(thread[w])'
    <3>1. PICK t : t = thread[w] /\ t = thread'[w]
      BY <1>1
    <3>2. Sound(t)
      BY <3>1, SoundThreads
    <3>3. Shaped(t)' /\ Bound(t)' /\ Drafted(t)' /\ Filed(t)'
      BY <1>1, <3>2 DEF Sound, Shaped, Bound, Drafted, Filed
    <3>4. Warranted(t)'
      <4>1. SUFFICES ASSUME t.step \in Admitted, t.to = "staff", t.who \in Members \ shifted'
                     PROVE  Warranted(t)'
        BY DEF Warranted
      <4>2. t.who # m /\ t.who \notin shifted
        BY <1>1, <3>1, <4>1 DEF Admitted
      <4>3. member'[t.who] = member[t.who] /\ charge'[t.who] = charge[t.who]
        BY <1>2, <4>1, <4>2
      <4>4. QED
        BY <3>2, <4>1, <4>2, <4>3 DEF Sound, Warranted
    <3>5. QED
      BY <3>1, <3>3, <3>4 DEF Sound
  <2>2. QED
    BY <2>1 DEF ThreadsInv, Sound
<1>5. RowsKeepTheirFirm' /\ TrailInv'
  BY <1>1 DEF TenancyInv, RowsKeepTheirFirm, TrailInv, Saved, Told
<1>6. NobodyOversteps
  BY <1>1 DEF NobodyOversteps
<1>7. QED
  BY <1>3, <1>4, <1>5, <1>6 DEF TenancyInv
-----------------------------------------------------------------------------
(* A row is committed *)

(* What the commit makes of the row, and whose step it is. *)
LEMMA CommittedRow ==
  ASSUME TenancyInv, NEW w \in Threads, Saves(w)
  PROVE  /\ thread[w].id \in Papers
         /\ \A p \in Papers \ {thread[w].id} : paper'[p] = paper[p]
         /\ paper' \in [Papers -> Rows \cup {NoPaper}] /\ paper'[thread[w].id] \in Rows
         /\ paper'[thread[w].id].firm = thread[w].row.firm
         /\ FirmOf[paper'[thread[w].id].of] = thread[w].row.firm
         /\ paper[thread[w].id] \in Rows => paper[thread[w].id].firm = thread[w].row.firm
         /\ thread[w].does # "delete" => paper'[thread[w].id] = thread[w].row
<1> DEFINE t == thread[w]
           p == t.id
<1>1. /\ t.step = "writes"
      /\ IF t.does = "create" THEN paper[p] = NoPaper ELSE p \in Visible(w)
      /\ paper' = IF t.does = "delete" THEN [paper EXCEPT ![p].live = FALSE] ELSE [paper EXCEPT ![p] = t.row]
  BY DEF Saves
<1>2. /\ p \in Papers /\ t.row \in Rows /\ FirmOf[t.row.of] = t.row.firm
      /\ t.does # "create" => paper[p] \in Rows /\ paper[p].firm = t.row.firm
  BY <1>1, SoundThreads DEF Sound, Drafted, Filed, Writing
<1>3. paper \in [Papers -> Rows \cup {NoPaper}]
  BY DEF TenancyInv, Tables
<1>4. NoPaper \notin Rows
  BY DEF NoPaper, Rows
<1>5. CASE t.does = "delete"
  <2>1. paper[p].live /\ FirmOf[paper[p].of] = paper[p].firm
    BY <1>1, <1>2, <1>5 DEF Visible, TenancyInv, RowsKeepTheirFirm
  <2>2. [paper[p] EXCEPT !.live = FALSE] \in Rows
    BY <1>2, <1>5 DEF Rows
  <2>3. paper' = [paper EXCEPT ![p] = [paper[p] EXCEPT !.live = FALSE]]
    BY <1>1, <1>5
  <2>4. QED
    BY <1>2, <1>3, <1>5, <2>1, <2>2, <2>3 DEF Rows
<1>6. CASE t.does # "delete"
  BY <1>1, <1>2, <1>3, <1>4, <1>6
<1>7. QED
  BY <1>5, <1>6

(* A member who may take a record away is no technician. *)
LEMMA DeletersAreOffice ==
  ASSUME NEW what \in Deletable, NEW role, May(role, Resource(what, "delete"), "write")
  PROVE  role # "technician"
BY DEF Deletable, May, Resource, MATRIX, Grants, Admins, Dispatch, Accounts

(* The commit is one its author may make.                                  *)
LEMMA SavesMay ==
  ASSUME TenancyInv, NEW w \in Threads, Saves(w), NEW n,
         n.who = thread[w].who, n.id = thread[w].id, n.what = thread[w].what, n.does = thread[w].does,
         thread[w].to \in {"staff", "portal"}
  PROVE  MayWrite(n)
<1> DEFINE t == thread[w]
<1>1. t.step = "writes" /\ Sound(t)
  BY SoundThreads DEF Saves
<1>2. t.row.firm = FirmOf[t.who] /\ t.row.of \in t.reach
  BY <1>1 DEF Sound, Drafted, Writing
<1>3. paper'[t.id].firm = FirmOf[t.who]
  BY <1>2, CommittedRow
<1>4. paper[t.id].live => paper[t.id].firm = FirmOf[t.who]
  BY <1>2, CommittedRow DEF TenancyInv, Tables, NoPaper
<1>5. ASSUME t.who \in Members \ shifted
      PROVE  /\ member[t.who].active /\ May(member[t.who].role, Resource(t.what, t.does), "write")
             /\ member[t.who].role = "technician" => paper'[t.id].of \in charge[t.who]
  <2>1. t.to = "staff"
    BY <1>1, <1>5, TenancyAssumption DEF Sound, Bound, Admitted
  <2>2. t.does \in {"create", "edit", "delete"} /\ Action(t.does) = "write"
    BY <1>1 DEF Sound, Drafted, Writing, Action
  <2>3. /\ member[t.who].active /\ t.role = member[t.who].role
        /\ May(t.role, Resource(t.what, t.does), "write")
        /\ t.does = "delete" => t.what \in Deletable
        /\ t.role = "technician" => t.reach = charge[t.who]
    BY <1>1, <1>5, <2>1, <2>2 DEF Sound, Warranted, Admitted, Reaching
  <2>4. t.role = "technician" => t.does # "delete"
    BY <2>3, DeletersAreOffice
  <2>5. QED
    BY <1>2, <2>3, <2>4, CommittedRow
<1>6. QED
  BY <1>3, <1>4, <1>5 DEF MayWrite

(* What is told of the row once its entry is filed is the row. *)
LEMMA ToldRight ==
  ASSUME TenancyInv, NEW w \in Threads, Saves(w), thread[w].id \notin blurred'
  PROVE  Told(thread[w]) = paper'[thread[w].id]
<1> DEFINE t == thread[w]
           p == t.id
           moved == {f \in DOMAIN t.row : t.does = "create" \/ t.row[f] # t.read[f]}
           new == [f \in moved |-> t.row[f]]
<1>1. /\ t.step = "writes"
      /\ IF t.does = "create" THEN paper[p] = NoPaper ELSE p \in Visible(w)
      /\ paper' = IF t.does = "delete" THEN [paper EXCEPT ![p].live = FALSE] ELSE [paper EXCEPT ![p] = t.row]
      /\ p \notin blurred /\ ~(t.does = "edit" /\ t.read # paper[p])
      /\ \A v \in Threads \ {w} : ~Saved(v, p)
  BY DEF Saves, Saved
<1>2. p \in Papers /\ t.row \in Rows /\ t.does \in {"create", "edit", "delete"} /\ Drafted(t)
  BY <1>1, SoundThreads DEF Sound, Drafted, Writing
<1>3. trail[p].told = paper[p]
  <2>1. ~Saved(w, p)
    BY <1>1 DEF Saved
  <2>2. QED
    BY <1>1, <1>2, <2>1 DEF TenancyInv, TrailInv
<1>4. Told(t) = Over(new, paper[p])
  BY <1>3 DEF Told
<1>5. DOMAIN t.row = {"live", "firm", "of", "note"} /\ t.row = [f \in DOMAIN t.row |-> t.row[f]]
  BY <1>2 DEF Rows
<1>6. DOMAIN paper = Papers
  BY DEF TenancyInv, Tables
<1>7. CASE t.does = "create"
  <2>1. moved = DOMAIN t.row /\ new = t.row
    BY <1>5, <1>7
  <2>2. Over(t.row, NoPaper) = t.row
    BY <1>5 DEF Over, NoPaper
  <2>3. QED
    BY <1>1, <1>2, <1>4, <1>6, <1>7, <2>1, <2>2
<1>8. CASE t.does = "edit"
  <2>1. t.read = paper[p] /\ paper[p] \in Rows
    BY <1>1, <1>2, <1>8 DEF Drafted, Writing
  <2>2. DOMAIN paper[p] = DOMAIN t.row
    BY <1>5, <2>1 DEF Rows
  <2>3. DOMAIN new = moved /\ moved \subseteq DOMAIN t.row /\ \A f \in moved : new[f] = t.row[f]
    OBVIOUS
  <2>4. \A f \in DOMAIN t.row \ moved : paper[p][f] = t.row[f]
    BY <1>8, <2>1
  <2>5. Over(new, paper[p]) = [f \in DOMAIN t.row |-> t.row[f]]
    BY <2>2, <2>3, <2>4 DEF Over
  <2>6. QED
    BY <1>1, <1>2, <1>4, <1>5, <1>6, <1>8, <2>5
<1>9. CASE t.does = "delete"
  <2>1. t.read \in Rows /\ t.read.live /\ t.row = [t.read EXCEPT !.live = FALSE] /\ paper[p] \in Rows
    BY <1>1, <1>2, <1>9, SoundThreads DEF Sound, Drafted, Filed, Writing
  <2>2. moved = {"live"} /\ t.row["live"] = FALSE
    BY <1>5, <1>9, <2>1 DEF Rows
  <2>3. DOMAIN new = {"live"} /\ new["live"] = FALSE
    BY <2>2
  <2>4. Over(new, paper[p]) = [paper[p] EXCEPT !.live = FALSE]
    BY <2>1, <2>3 DEF Over, Rows
  <2>5. QED
    BY <1>1, <1>2, <1>4, <1>6, <1>9, <2>4
<1>10. QED
  BY <1>2, <1>7, <1>8, <1>9
(* CompanyOwnedModel.save keeps the invariant.                             *)
LEMMA SavesKept ==
  ASSUME TenancyInv, NEW w \in Threads, Saves(w)
  PROVE  TenancyInv' /\ NobodyOversteps
<1> DEFINE t == thread[w]
<1>0. PICK n : n = Over([step |-> "saved"], t)
  OBVIOUS
<1>1. /\ t.step = "writes" /\ thread' = [thread EXCEPT ![w] = n] /\ UNCHANGED <<team, trail>>
      /\ blurred \subseteq blurred' /\ blurred' \subseteq blurred \cup {t.id}
      /\ t.id \notin blurred' => \A v \in Threads \ {w} : ~Saved(v, t.id)
  BY <1>0 DEF Saves, Goes, Then, Saved
<1>2. Sound(t)
  BY SoundThreads
<1>3. /\ n.step = "saved" /\ n.id = t.id /\ n.read = t.read /\ n.row = t.row
      /\ n.to = t.to /\ n.who = t.who /\ n.scope = t.scope
      /\ n.does = t.does /\ n.what = t.what /\ n.firm = t.firm /\ n.reach = t.reach
      /\ t.to = "staff" => n.role = t.role
      /\ DOMAIN n = DOMAIN t
  BY <1>0, <1>1, <1>2 DEF Over, Sound, Shaped, Admitted, Reaching, Writing
<1>4. DOMAIN thread' = Threads /\ thread'[w] = n /\ \A v \in Threads : v # w => thread'[v] = thread[v]
  BY <1>1, Turned DEF TenancyInv, Tables
<1>5. /\ t.id \in Papers /\ \A p \in Papers \ {t.id} : paper'[p] = paper[p]
      /\ paper' \in [Papers -> Rows \cup {NoPaper}] /\ paper'[t.id] \in Rows
      /\ paper'[t.id].firm = t.row.firm /\ FirmOf[paper'[t.id].of] = t.row.firm
      /\ paper[t.id] \in Rows => paper[t.id].firm = t.row.firm
  BY CommittedRow
<1>6. Tables'
  BY <1>1, <1>4, <1>5 DEF TenancyInv, Tables, team
<1>7. Shaped(n) /\ Bound(n) /\ Drafted(n) /\ Warranted(n)
  <2>1. Shaped(n)
    BY <1>1, <1>2, <1>3 DEF Sound, Shaped, Steps, Admitted, Reaching, Writing
  <2>2. Bound(n)
    BY <1>1, <1>2, <1>3 DEF Sound, Bound, Admitted, Reaching
  <2>3. Drafted(n)
    BY <1>1, <1>2, <1>3 DEF Sound, Drafted, Writing
  <2>4. Warranted(n)
    BY <1>1, <1>2, <1>3 DEF Sound, Warranted, Admitted, Reaching
  <2>5. QED
    BY <2>1, <2>2, <2>3, <2>4
<1>8. ASSUME NEW s, Shaped(s), Bound(s), Drafted(s), Warranted(s)
      PROVE  Shaped(s)' /\ Bound(s)' /\ Drafted(s)' /\ Warranted(s)'
  BY <1>1, <1>8 DEF Shaped, Bound, Drafted, Warranted, team
<1>9. Filed(n)'
  BY <1>3, <1>5 DEF Filed
<1>10. ASSUME NEW s, Drafted(s), Filed(s)
       PROVE  Filed(s)'
  BY <1>5, <1>10 DEF Drafted, Filed, Writing
<1>11. ThreadsInv'
  <2>1. ASSUME NEW v \in Threads PROVE Sound(thread[v])'
    <3>1. PICK s : s = thread'[v]
      OBVIOUS
    <3>2. CASE v = w
      BY <1>3, <1>4, <1>7, <1>8, <1>9, <3>1, <3>2 DEF Sound
    <3>3. CASE v # w
      <4>1. Sound(s)
        BY <1>4, <3>1, <3>3, SoundThreads
      <4>2. QED
        BY <1>8, <1>10, <3>1, <4>1 DEF Sound
    <3>4. QED
      BY <3>2, <3>3
  <2>2. QED
    BY <2>1 DEF ThreadsInv, Sound
<1>12. RowsKeepTheirFirm'
  <2>1. ASSUME NEW p \in Papers, trail[p].live
        PROVE  paper'[p].firm = paper[p].firm
    BY <1>5, <2>1 DEF TenancyInv, Tables
  <2>2. ASSUME NEW p \in Papers, paper'[p].live
        PROVE  FirmOf[paper'[p].of] = paper'[p].firm
    BY <1>5, <2>2 DEF TenancyInv, RowsKeepTheirFirm
  <2>3. QED
    BY <1>1, <2>1, <2>2 DEF TenancyInv, RowsKeepTheirFirm
<1>13. TrailInv'
  <2> SUFFICES ASSUME NEW p \in Papers \ blurred'
               PROVE  /\ (\A v \in Threads : ~Saved(v, p)') => paper'[p] = trail'[p].told
                      /\ \A v \in Threads : Saved(v, p)' =>
                           /\ paper'[p] = Told(thread[v])'
                           /\ \A u \in Threads : Saved(u, p)' => u = v
    BY DEF TrailInv
  <2>1. \A v \in Threads \ {w} : Saved(v, p)' <=> Saved(v, p)
    BY <1>4 DEF Saved
  <2>2. CASE p = t.id
    <3>1. Saved(w, p)' /\ \A v \in Threads : Saved(v, p)' => v = w
      BY <1>1, <1>3, <1>4, <2>1, <2>2 DEF Saved
    <3>2. Told(n) = Told(t)
      BY <1>3 DEF Told
    <3>3. Told(thread[w])' = Told(n)
      BY <1>1, <1>4 DEF Told
    <3>4. QED
      BY <2>2, <3>1, <3>2, <3>3, ToldRight
  <2>3. CASE p # t.id
    <3>1. ~Saved(w, p) /\ ~Saved(w, p)'
      BY <1>1, <1>3, <1>4, <2>3 DEF Saved
    <3>2. ASSUME NEW v \in Threads, Saved(v, p) PROVE Told(thread[v])' = Told(thread[v])
      BY <1>1, <1>4, <3>1, <3>2 DEF Told
    <3>3. paper'[p] = paper[p] /\ trail'[p] = trail[p] /\ p \notin blurred
      BY <1>1, <1>5, <2>3
    <3>4. QED
      BY <2>1, <3>1, <3>2, <3>3 DEF TenancyInv, TrailInv
  <2>4. QED
    BY <2>2, <2>3
<1>14. NobodyOversteps
  <2>1. n.step # "answers"
    BY <1>3
  <2>2. t.to \in {"staff", "portal"} => MayWrite(n)
    BY <1>3, SavesMay
  <2>3. QED
    BY <1>1, <1>3, <2>1, <2>2, OthersDoNothing
<1>15. QED
  BY <1>6, <1>11, <1>12, <1>13, <1>14 DEF TenancyInv

-----------------------------------------------------------------------------
(* Its entry is filed *)

(* What on_save leaves of the trail.                                       *)
LEMMA FiledEntry ==
  ASSUME TenancyInv, NEW w \in Threads, Files(w)
  PROVE  /\ \A p \in Papers \ {thread[w].id} : trail'[p] = trail[p]
         /\ DOMAIN trail' = Papers
         /\ trail'[thread[w].id].told = Told(thread[w])
         /\ IsRecord(trail'[thread[w].id].told)
         /\ \/ trail' = trail
            \/ trail'[thread[w].id] =
                 [live |-> TRUE, firm |-> thread[w].row.firm, told |-> Told(thread[w]),
                  by |-> Actor(thread[w]), through |-> thread[w].to]
<1> DEFINE t == thread[w]
           moved == {f \in DOMAIN t.row : t.does = "create" \/ t.row[f] # t.read[f]}
           new == [f \in moved |-> t.row[f]]
<1>1. /\ t.step = "saved"
      /\ trail' = IF moved = {} THEN trail
                  ELSE [trail EXCEPT ![t.id] = [live |-> TRUE, firm |-> t.row.firm, told |-> Told(t),
                                                by |-> Actor(t), through |-> t.to]]
  BY DEF Files, Told
<1>2. t.id \in Papers /\ DOMAIN trail = Papers
  BY <1>1, SoundThreads DEF Sound, Drafted, Writing, TenancyInv, Tables
<1>3. IsRecord(trail[t.id].told)
  BY <1>2 DEF TenancyInv, Tables
<1>4. Told(t) = Over(new, trail[t.id].told) /\ IsRecord(Told(t))
  BY DEF Told, Over, IsRecord
<1>5. moved = {} => Told(t) = trail[t.id].told
  <2>1. SUFFICES ASSUME moved = {} PROVE Told(t) = trail[t.id].told
    OBVIOUS
  <2>2. DOMAIN new = {}
    BY <2>1
  <2> HIDE DEF new
  <2>3. Over(new, trail[t.id].told) = [f \in DOMAIN trail[t.id].told |-> trail[t.id].told[f]]
    BY <2>2 DEF Over
  <2>4. QED
    BY <1>3, <1>4, <2>3 DEF IsRecord
<1>6. CASE moved = {}
  BY <1>1, <1>2, <1>3, <1>5, <1>6
<1>7. CASE moved # {}
  <2>1. trail' = [trail EXCEPT ![t.id] = [live |-> TRUE, firm |-> t.row.firm, told |-> Told(t),
                                          by |-> Actor(t), through |-> t.to]]
    BY <1>1, <1>7
  <2>2. /\ trail'[t.id] = [live |-> TRUE, firm |-> t.row.firm, told |-> Told(t), by |-> Actor(t), through |-> t.to]
        /\ DOMAIN trail' = Papers /\ \A p \in Papers \ {t.id} : trail'[p] = trail[p]
    BY <1>2, <2>1
  <2>3. trail'[t.id].told = Told(t)
    BY <2>2
  <2>4. QED
    BY <1>4, <2>2, <2>3
<1>8. QED
  BY <1>6, <1>7

(* on_save keeps the invariant.                                            *)
LEMMA FilesKept ==
  ASSUME TenancyInv, NEW w \in Threads, Files(w)
  PROVE  TenancyInv' /\ NobodyOversteps
<1> DEFINE t == thread[w]
           n == Over([step |-> "answers", saw |-> {}], t)
<1>1. t.step = "saved" /\ thread' = [thread EXCEPT ![w] = n] /\ UNCHANGED <<team, paper, blurred>>
  BY DEF Files, Goes, Then
<1>2. Sound(t)
  BY SoundThreads
<1>3. /\ n.step = "answers" /\ n.saw = {} /\ n.scope = t.scope /\ DOMAIN n = DOMAIN t \cup {"step", "saw"}
  BY <1>1, <1>2 DEF Over, Sound, Shaped
<1> HIDE DEF n
<1>4. Sound(n)
  <2>1. Shaped(n)
    BY <1>1, <1>2, <1>3 DEF Sound, Shaped, Steps, Admitted, Reaching, Writing
  <2>2. Bound(n) /\ Drafted(n) /\ Filed(n) /\ Warranted(n)
    BY <1>3 DEF Bound, Drafted, Filed, Warranted, Admitted, Reaching, Writing
  <2>3. QED
    BY <2>1, <2>2 DEF Sound
<1>5. DOMAIN thread' = Threads /\ thread'[w] = n /\ \A v \in Threads : v # w => thread'[v] = thread[v]
  BY <1>1, Turned DEF TenancyInv, Tables
<1>6. /\ t.id \in Papers /\ paper[t.id] \in Rows /\ paper[t.id].firm = t.row.firm
  BY <1>1, <1>2 DEF Sound, Drafted, Filed, Writing
<1>7. Tables'
  <2>1. ASSUME NEW p \in Papers
        PROVE  /\ trail'[p].live => paper[p] \in Rows
               /\ IsRecord(trail'[p].told)
    <3>1. CASE p = t.id
      <4>1. paper[p] \in Rows
        BY <1>6, <3>1
      <4>2. IsRecord(trail'[p].told)
        BY <3>1, FiledEntry
      <4>3. QED
        BY <4>1, <4>2
    <3>2. CASE p # t.id
      BY <3>2, FiledEntry DEF TenancyInv, Tables
    <3>3. QED
      BY <3>1, <3>2
  <2>2. DOMAIN trail' = Papers
    BY FiledEntry
  <2>3. QED
    BY <1>1, <1>5, <2>1, <2>2 DEF TenancyInv, Tables, team
<1>8. ThreadsInv'
  <2>1. ASSUME NEW v \in Threads PROVE Sound(thread[v])'
    <3>1. PICK s : s = thread'[v]
      OBVIOUS
    <3>2. Sound(s)
      BY <1>4, <1>5, <3>1, SoundThreads
    <3>3. Sound(s)'
      BY <1>1, <3>2, SoundStays
    <3>4. QED
      BY <3>1, <3>3
  <2>2. QED
    BY <2>1 DEF ThreadsInv, Sound
<1>9. RowsKeepTheirFirm'
  <2>1. /\ Actor(t) = NoFirm \/ t.who \in Members
        /\ t.to \in {"portal", "job"} => Actor(t) = NoFirm
        /\ t.to = "staff" => FirmOf[Actor(t)] = t.row.firm
    BY <1>1, <1>2, TenancyAssumption DEF Sound, Bound, Drafted, Admitted, Writing, Actor
  <2>2. ASSUME NEW p \in Papers, trail'[p].live
        PROVE  /\ trail'[p].firm = paper[p].firm
               /\ trail'[p].through \in {"portal", "job"} => trail'[p].by = NoFirm
               /\ trail'[p].through = "staff" => FirmOf[trail'[p].by] = trail'[p].firm
    <3>1. CASE trail'[p] = trail[p]
      BY <2>2, <3>1 DEF TenancyInv, RowsKeepTheirFirm
    <3>2. CASE trail'[p] # trail[p]
      <4>1. p = t.id /\ trail'[p] = [live |-> TRUE, firm |-> t.row.firm, told |-> Told(t),
                                     by |-> Actor(t), through |-> t.to]
        BY <3>2, FiledEntry
      <4>2. QED
        BY <1>6, <2>1, <4>1
    <3>3. QED
      BY <3>1, <3>2
  <2>3. QED
    BY <1>1, <2>2 DEF TenancyInv, RowsKeepTheirFirm
<1>10. TrailInv'
  <2> SUFFICES ASSUME NEW p \in Papers \ blurred'
               PROVE  /\ (\A v \in Threads : ~Saved(v, p)') => paper'[p] = trail'[p].told
                      /\ \A v \in Threads : Saved(v, p)' =>
                           /\ paper'[p] = Told(thread[v])'
                           /\ \A u \in Threads : Saved(u, p)' => u = v
    BY DEF TrailInv
  <2>1. /\ ~Saved(w, p)' /\ \A v \in Threads \ {w} : Saved(v, p)' <=> Saved(v, p)
    BY <1>3, <1>5 DEF Saved
  <2>2. CASE p = t.id
    <3>1. Saved(w, p)
      BY <1>1, <2>2 DEF Saved
    <3>2. paper[p] = Told(t) /\ \A v \in Threads : Saved(v, p) => v = w
      BY <1>1, <3>1 DEF TenancyInv, TrailInv
    <3>3. QED
      BY <1>1, <2>1, <2>2, <3>2, FiledEntry
  <2>3. CASE p # t.id
    <3>1. ~Saved(w, p) /\ trail'[p] = trail[p]
      BY <2>3, FiledEntry DEF Saved
    <3>2. ASSUME NEW v \in Threads, Saved(v, p) PROVE Told(thread[v])' = Told(thread[v])
      <4>1. thread'[v] = thread[v] /\ thread[v].id = p
        BY <1>5, <3>1, <3>2 DEF Saved
      <4>2. QED
        BY <3>1, <4>1 DEF Told
    <3>3. QED
      BY <1>1, <2>1, <3>1, <3>2 DEF TenancyInv, TrailInv
  <2>4. QED
    BY <2>2, <2>3
<1>11. NobodyOversteps
  BY <1>1, <1>3, OthersDoNothing
<1>12. QED
  BY <1>7, <1>8, <1>9, <1>10, <1>11 DEF TenancyInv

-----------------------------------------------------------------------------
(* Every step                                                              *)

(* The lifts there are at the start are told as they are.                  *)
LEMMA TenancyStart == TenancyInit => TenancyInv
<1> SUFFICES ASSUME TenancyInit PROVE TenancyInv
  OBVIOUS
<1>1. (CHOOSE n \in Notes : TRUE) \in Notes
  BY TenancyAssumption
<1> DEFINE FirstRow(p) == [live |-> TRUE, firm |-> FirmOf[Lifted[p]], of |-> Lifted[p],
                         note |-> CHOOSE n \in Notes : TRUE]
<1>2. \A p \in DOMAIN Lifted :
        FirstRow(p) \in Rows /\ FirstRow(p).firm = FirmOf[Lifted[p]] /\ FirstRow(p).of = Lifted[p]
  BY <1>1, FirmsOfAll, TenancyAssumption DEF Rows
<1>3. paper = [p \in Papers |-> IF p \in DOMAIN Lifted THEN FirstRow(p) ELSE NoPaper]
  BY DEF TenancyInit
<1> HIDE DEF FirstRow
<1>4. \A p \in Papers : \/ paper[p] \in Rows /\ paper[p].firm = FirmOf[paper[p].of]
                       \/ paper[p] = NoPaper
  BY <1>2, <1>3
<1>5. /\ DOMAIN trail = Papers
      /\ \A p \in Papers : trail[p] = FirstEntry(paper[p])
  BY DEF TenancyInit
<1>6. /\ \A p \in Papers : trail[p].told = paper[p]
      /\ \A p \in Papers : trail[p].by = NoFirm /\ trail[p].through = "job"
      /\ \A p \in Papers : trail[p].live => paper[p].live
      /\ \A p \in Papers : trail[p].live => trail[p].firm = paper[p].firm
  BY <1>5 DEF FirstEntry
<1>7. \A p \in Papers : paper[p].live => paper[p] \in Rows
  BY <1>4 DEF NoPaper
<1>8. \A p \in Papers : IsRecord(paper[p])
  BY <1>4 DEF Rows, NoPaper, IsRecord
<1>9. Tables
  <2>1. paper \in [Papers -> Rows \cup {NoPaper}]
    BY <1>3, <1>4
  <2>2. member \in [Members -> [role : Posts, active : BOOLEAN]] /\ charge \in [Members -> SUBSET Clients]
    BY DEF TenancyInit
  <2>3. DOMAIN thread = Threads
    BY DEF TenancyInit
  <2>4. \A p \in Papers : /\ trail[p].live => paper[p] \in Rows
                          /\ IsRecord(trail[p].told)
    <3>1. ASSUME NEW p \in Papers
          PROVE  trail[p].live => paper[p] \in Rows
      BY <1>6, <1>7
    <3>2. ASSUME NEW p \in Papers
          PROVE  IsRecord(trail[p].told)
      BY <1>6, <1>8
    <3>3. QED
      BY <3>1, <3>2
  <2>5. QED
    BY <1>5, <2>1, <2>2, <2>3, <2>4 DEF Tables
<1>10. \A w \in Threads : thread[w] = Resting
  BY DEF TenancyInit
<1>11. ThreadsInv
  <2>1. ASSUME NEW w \in Threads PROVE Sound(thread[w])
    BY <1>10, RestingSound
  <2>2. QED
    BY <2>1 DEF ThreadsInv, Sound
<1>12. RowsKeepTheirFirm
  <2>1. ASSUME NEW p \in Papers, paper[p].live PROVE FirmOf[paper[p].of] = paper[p].firm
    BY <1>4, <2>1 DEF NoPaper
  <2>2. ASSUME NEW p \in Papers, trail[p].live
        PROVE  /\ trail[p].firm = paper[p].firm /\ trail[p].by = NoFirm /\ trail[p].through = "job"
    BY <1>6, <2>2
  <2>3. QED
    BY <2>1, <2>2 DEF RowsKeepTheirFirm
<1>13. TrailInv
  <2>1. ASSUME NEW w \in Threads, NEW p PROVE ~Saved(w, p)
    BY <1>10, RestingSound DEF Saved
  <2>2. ASSUME NEW p \in Papers PROVE paper[p] = trail[p].told
    BY <1>6
  <2>3. QED
    BY <2>1, <2>2 DEF TrailInv
<1>14. QED
  BY <1>9, <1>11, <1>12, <1>13 DEF TenancyInv

(* Every step keeps the invariant, and oversteps nothing.                  *)
LEMMA TenancyStep ==
  ASSUME TenancyInv, TenancyNext
  PROVE  TenancyInv' /\ NobodyOversteps
<1>1. CASE TeamChanges
  BY <1>1, TeamKept
<1>2. ASSUME NEW w \in Threads,
             \/ Arrives(w) \/ StaffLetIn(w) \/ Narrows(w) \/ GuestLetIn(w) \/ StickerScanned(w)
             \/ LinkOpened(w) \/ JobStarts(w)
             \/ Lists(w) \/ Creates(w) \/ Takes(w) \/ TakesAway(w)
      PROVE  TenancyInv' /\ NobodyOversteps
  <2>1. \E n : Works(w, n)
    BY <1>2, ArrivesWorks, StaffStarts, NarrowsWorks, GuestStarts, StickerStarts, LinkStarts, JobWorks,
       ListsWorks, CreatesWorks, TakesWorks, TakesAwayWorks
  <2>2. QED
    BY <2>1, WorksKept
<1>3. ASSUME NEW w \in Threads, Saves(w) \/ Files(w) \/ EndsWork(w)
      PROVE  TenancyInv' /\ NobodyOversteps
  BY <1>3, SavesKept, FilesKept, EndsWorkKept
<1>4. QED
  BY <1>1, <1>2, <1>3 DEF TenancyNext

(* So does a step that is not theirs.                                      *)
LEMMA TenancyStutter ==
  ASSUME TenancyInv, UNCHANGED tenancyVars
  PROVE  TenancyInv'
<1>1. UNCHANGED <<member, charge, shifted, paper, trail, thread, blurred>>
  BY DEF tenancyVars, team
<1>2. Tables' /\ RowsKeepTheirFirm' /\ TrailInv'
  BY <1>1 DEF TenancyInv, Tables, RowsKeepTheirFirm, TrailInv, Saved, Told
<1>3. ThreadsInv'
  <2>1. ASSUME NEW v \in Threads PROVE Sound(thread[v])'
    <3>1. PICK s : s = thread'[v]
      OBVIOUS
    <3>2. Sound(s)
      BY <1>1, <3>1, SoundThreads
    <3>3. Sound(s)'
      BY <1>1, <3>2, SoundStays DEF team
    <3>4. QED
      BY <3>1, <3>3
  <2>2. QED
    BY <2>1 DEF ThreadsInv, Sound
<1>4. QED
  BY <1>2, <1>3 DEF TenancyInv

(* What the invariant promises.                                            *)
LEMMA TenancyPromises ==
  ASSUME TenancyInv
  PROVE  ThreadsComeBackClean /\ RowsKeepTheirFirm /\ TrailTells
<1>1. ThreadsComeBackClean
  BY SoundThreads DEF ThreadsComeBackClean, Sound, Bound
<1>2. TrailTells
  BY DEF TenancyInv, TrailInv, TrailTells, Saved
<1>3. QED
  BY <1>1, <1>2 DEF TenancyInv

-----------------------------------------------------------------------------
(* The theorem                                                             *)

(* Firms are kept apart and the trail tells what was done in each          *)
(* (core/context, core/managers, core/permissions, core/audit): a thread   *)
(* comes back bound to no firm, rows and entries stay their firm's, the    *)
(* trail reads as the row, and no answer or commit goes beyond its         *)
(* requester's firm, role and assignments, however many threads, requests  *)
(* and changes to the team there are.                                      *)
THEOREM FirmsAlwaysApart == TenancySpec => FirmsApart
<1>1. TenancyInit => TenancyInv
  BY TenancyStart
<1>2. TenancyInv /\ [TenancyNext]_tenancyVars => TenancyInv'
  BY TenancyStep, TenancyStutter
<1>3. TenancyInv => ThreadsComeBackClean /\ RowsKeepTheirFirm /\ TrailTells
  BY TenancyPromises
<1>4. TenancyInv /\ [TenancyNext]_tenancyVars => [NobodyOversteps]_tenancyVars
  BY TenancyStep
<1>5. QED
  BY <1>1, <1>2, <1>3, <1>4, PTL DEF TenancySpec, FirmsApart

===============================================================================
