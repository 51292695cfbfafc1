------------------------------ MODULE Contracts ------------------------------
(***************************************************************************)
(* apps/contracts: contracts, the lifts they cover, and the lift status    *)
(* that cover decides, with the daily job that closes what has ended.      *)
(*                                                                         *)
(* A view reads its row with get_object() before the service opens its     *)
(* transaction, and the job reads every overdue contract before it closes  *)
(* the first; nothing is locked.  So a request is a Fetch, and later one   *)
(* transaction that acts on the row fetched.  The statements inside one    *)
(* transaction are one step.                                               *)
(***************************************************************************)
EXTENDS Integers, FiniteSets, Sequences, SequencesExt

CONSTANTS
  Lift, Contract,
  NoContract,   \* previous_contract of a contract that renews none
  Request,      \* what the office and the field do at the same time
  Nobody,       \* a request that serves no call
  Operations,   \* the calls made
  StartDays, EndDays,   \* the dates a form may name
  FirstDay, MaxDay,  \* bounds: the days the model runs over
  MaxSpans,     \* bound: times one contract takes the same lift
  MaxInFlight,  \* bound: requests that have fetched and not acted, and the job
  SpareContracts  \* bound: contracts that only come by renewal

ASSUME ContractsAssumption ==
  /\ NoContract \notin Contract
  /\ Contract \cap Lift = {} /\ Nobody \notin Contract \cup Lift  \* keys of distinct tables
  /\ IsFiniteSet(Request)
  /\ StartDays \cup EndDays \subseteq Nat \ {0}
  /\ FirstDay \in Nat \ {0} /\ MaxDay \in Nat /\ FirstDay <= MaxDay

VARIABLES
  today,     \* the local date
  contract,  \* contract[c]: its row
  cover,     \* cover[c][l]: removed_at of its lines for one lift, oldest first
  lift,      \* lift[l]: Elevator.status
  call,      \* call[r]: what r has fetched
  overdue,   \* the rows contract_expiry has fetched and not dealt with
  lastRun    \* the day contract_expiry was last started

records == <<contract, cover, lift>>
vars == <<today, records, call, overdue, lastRun>>

Statuses == {"draft", "active", "expired", "terminated", "renewed"}
LiftStatuses == {"active", "out_of_service", "uncontracted"}  \* out of service, suspended or sealed
USER_SELECTABLE_STATUSES == LiftStatuses \ {"uncontracted"}

NotCreated == [status |-> "none", start |-> 0, end |-> 0, auto |-> FALSE, vat |-> FALSE,
               previous |-> NoContract]
Null == 0  \* removed_at of an open line
NoCall == [on |-> Nobody, row |-> Nobody]

Init ==
  /\ today = FirstDay
  /\ contract = [c \in Contract |-> NotCreated]
  /\ cover = [c \in Contract |-> [l \in Lift |-> <<>>]]
  /\ lift = [l \in Lift |-> "uncontracted"]
  /\ call = [r \in Request |-> NoCall]
  /\ overdue = {}
  /\ lastRun = 0

-----------------------------------------------------------------------------
(* Rows and lines                                                          *)

(* Managers and saves see a row that exists and is not deleted.            *)
Live(c) == contract[c].status \in Statuses
Unused == {c \in Contract : contract[c].status = "none"}

Open(c, l) == cover[c][l] # <<>> /\ Last(cover[c][l]) = Null
Covered(l) == \E c \in Contract : Open(c, l)
HoldsLines(c) == \E l \in Lift : Open(c, l)

(* Mutated: every line of the contract is closed, not only its open ones.  *)
Closing_All(c, day) ==
  [l \in Lift |-> [k \in DOMAIN cover[c][l] |-> day]]

(* The lines of c once its open ones are closed.                           *)
Closing(c, day) ==
  [l \in Lift |->
     IF Open(c, l) THEN [cover[c][l] EXCEPT ![Len(cover[c][l])] = day] ELSE cover[c][l]]

(* The lifts once those of c are let go.                                   *)
Released(c) == [l \in Lift |-> IF Open(c, l) THEN "uncontracted" ELSE lift[l]]

(* The month arithmetic of next_term is a date's: here the next term is    *)
(* the same number of days.                                                *)
NextTerm(start, end) == [start |-> end + 1, end |-> end + 1 + (end - start)]

-----------------------------------------------------------------------------
(* Requests                                                                *)

InFlight == Cardinality({r \in Request : call[r] # NoCall}) + IF overdue = {} THEN 0 ELSE 1

(* get_object(): of a contract, or of a lift.                              *)
Fetch(r) ==
  /\ call[r] = NoCall
  /\ InFlight < MaxInFlight
  /\ \/ \E c \in Contract :
          Live(c) /\ call' = [call EXCEPT ![r] = [on |-> c, row |-> contract[c]]]
     \/ \E l \in Lift : call' = [call EXCEPT ![r] = [on |-> l, row |-> [status |-> lift[l]]]]
  /\ UNCHANGED <<today, records, overdue, lastRun>>

(* The transaction of r's call ends; what it did is up to the caller.      *)
Answer(r) ==
  /\ call' = [call EXCEPT ![r] = NoCall]
  /\ UNCHANGED <<today, overdue, lastRun>>

(* POST: ContractWriteSerializer takes any status that has no endpoint of  *)
(* its own, and wants a VAT rate.                                          *)
Create(c, status, start, end, auto) ==
  /\ InFlight < MaxInFlight
  /\ c \in Unused /\ Cardinality(Unused) > SpareContracts
  /\ start < end
  /\ contract' = [contract EXCEPT ![c] = [status |-> status, start |-> start, end |-> end,
                                          auto |-> auto, vat |-> TRUE, previous |-> NoContract]]
  /\ UNCHANGED <<today, cover, lift, call, overdue, lastRun>>

(* What one PATCH makes of the row it fetched.                             *)
Edits(row) ==
  {edited \in      {[row EXCEPT !.status = s] : s \in {"draft", "active", "expired"}}
              \cup {[row EXCEPT !.start = d] : d \in StartDays}
              \cup {[row EXCEPT !.end = d] : d \in EndDays}
              \cup {[row EXCEPT !.auto = b] : b \in BOOLEAN}
              \cup {[row EXCEPT !.vat = TRUE]} :
     edited.start < edited.end}

(* serializer.save() writes every column of the row it fetched.            *)
Patch(r, c) ==
  /\ call[r].on = c /\ Live(c)
  /\ \E row \in Edits(call[r].row) : contract' = [contract EXCEPT ![c] = row]
  /\ UNCHANGED <<cover, lift>>
  /\ Answer(r)

(* Mutated: the lift's status is left to whoever edits it next.            *)
AddElevators_StatusKept(r, c, l) ==
  /\ call[r].on = c
  /\ ~Covered(l) /\ Len(cover[c][l]) < MaxSpans
  /\ cover' = [cover EXCEPT ![c][l] = Append(@, Null)]
  /\ UNCHANGED <<contract, lift>>
  /\ Answer(r)

(* The check and the partial unique index refuse a lift already covered.   *)
(* The contract's own state is not looked at.                              *)
AddElevators(r, c, l) ==
  /\ call[r].on = c
  /\ ~Covered(l) /\ Len(cover[c][l]) < MaxSpans
  /\ cover' = [cover EXCEPT ![c][l] = Append(@, Null)]
  /\ lift' = [lift EXCEPT ![l] = IF @ = "uncontracted" THEN "active" ELSE @]
  /\ UNCHANGED contract
  /\ Answer(r)

RemoveElevator(r, c, l) ==
  /\ call[r].on = c
  /\ Open(c, l)
  /\ cover' = [cover EXCEPT ![c][l][Len(cover[c][l])] = today]
  /\ lift' = [lift EXCEPT ![l] = "uncontracted"]
  /\ UNCHANGED contract
  /\ Answer(r)

(* The state tested is the one fetched; terminated_at may be any day.      *)
Terminate(r, c, day) ==
  /\ call[r].on = c /\ call[r].row.status \notin {"terminated", "renewed"}
  /\ Live(c)
  /\ cover' = [cover EXCEPT ![c] = Closing(c, day)]
  /\ lift' = Released(c)
  /\ contract' = [contract EXCEPT ![c].status = "terminated", ![c].auto = FALSE]
  /\ Answer(r)

(* Mutated: a contract whose lifts are not carried keeps its lines open.   *)
Supersede_LinesLeft(c, row, s, start, end, carry, terms, status) ==
  /\ Live(c)
  /\ contract' = [contract EXCEPT
       ![c].status = "renewed",
       ![s] = [status |-> status, start |-> start, end |-> end, auto |-> row.auto,
               vat |-> terms /\ row.vat, previous |-> c]]
  /\ cover' = IF carry
              THEN [cover EXCEPT
                      ![c] = Closing(c, start),
                      ![s] = [l \in Lift |-> IF Open(c, l) THEN <<Null>> ELSE <<>>]]
              ELSE cover
  /\ UNCHANGED lift

(* What renew() and the job's renewal write: the successor s, from the row *)
(* fetched; the lines; the lifts nobody covers now.                        *)
Supersede(c, row, s, start, end, carry, terms, status) ==
  /\ Live(c)
  /\ contract' = [contract EXCEPT
       ![c].status = "renewed",
       ![s] = [status |-> status, start |-> start, end |-> end, auto |-> row.auto,
               vat |-> terms /\ row.vat, previous |-> c]]
  /\ cover' = [cover EXCEPT
       ![c] = Closing(c, start),
       ![s] = [l \in Lift |-> IF carry /\ Open(c, l) THEN <<Null>> ELSE <<>>]]
  /\ lift' = IF carry THEN lift ELSE Released(c)

Renew(r, c, s, start, end, carry, terms) ==
  /\ call[r].on = c /\ call[r].row.status \notin {"terminated", "renewed"}
  /\ start < end
  /\ s \in Unused
  /\ Supersede(c, call[r].row, s, start, end, carry, terms, "draft")
  /\ Answer(r)

(* perform_destroy: refused while a line is open.                          *)
Delete(r, c) ==
  /\ call[r].on = c /\ Live(c)
  /\ ~HoldsLines(c)
  /\ contract' = [contract EXCEPT ![c].status = "deleted"]
  /\ UNCHANGED <<cover, lift>>
  /\ Answer(r)

(* PATCH of a lift writes the whole row too: the status asked for, or the  *)
(* one fetched.                                                            *)
PatchLift(r, l) ==
  /\ call[r].on = l
  /\ \E status \in USER_SELECTABLE_STATUSES \cup {call[r].row.status} :
       lift' = [lift EXCEPT ![l] = status]
  /\ UNCHANGED <<contract, cover>>
  /\ Answer(r)

(* A call that is refused, or only reads.                                  *)
GiveUp(r) ==
  /\ call[r] # NoCall
  /\ UNCHANGED records
  /\ Answer(r)

Act(r) ==
  \/ \E c \in Contract, l \in Lift :
       \/ "add" \in Operations /\ AddElevators(r, c, l)
       \/ "remove" \in Operations /\ RemoveElevator(r, c, l)
  \/ \E c \in Contract :
       \/ "patch" \in Operations /\ Patch(r, c)
       \/ "terminate" \in Operations /\ \E day \in EndDays : Terminate(r, c, day)
       \/ "delete" \in Operations /\ Delete(r, c)
  \/ "renew" \in Operations
       /\ \E c, s \in Contract, start \in StartDays, end \in EndDays, carry, terms \in BOOLEAN :
            Renew(r, c, s, start, end, carry, terms)
  \/ "lift" \in Operations /\ \E l \in Lift : PatchLift(r, l)
  \/ GiveUp(r)

(* A fault or a red label stops an active lift; solving it restores one    *)
(* that is out of service.                                                 *)
StopOrRestore(l) ==
  /\ "lift" \in Operations
  /\ InFlight < MaxInFlight
  /\ \/ lift[l] = "active" /\ lift' = [lift EXCEPT ![l] = "out_of_service"]
     \/ lift[l] = "out_of_service" /\ lift' = [lift EXCEPT ![l] = "active"]
  /\ UNCHANGED <<today, contract, cover, call, overdue, lastRun>>

-----------------------------------------------------------------------------
(* contract_expiry                                                         *)

(* Mutated: only what ended yesterday; a missed day is never made up.      *)
Due_Yesterday(c) == contract[c].status = "active" /\ contract[c].end = today - 1

Due(c) == contract[c].status = "active" /\ contract[c].end < today

(* One run a day; the last day stands for all that follow it.  A run with  *)
(* nothing to close changes nothing but the day it was started.            *)
StartExpiry ==
  /\ overdue = {} /\ InFlight < MaxInFlight
  /\ \/ lastRun < today
     \/ today = MaxDay /\ \E c \in Contract : Due(c)
  /\ overdue' = {[id |-> c, row |-> contract[c]] : c \in {d \in Contract : Due(d)}}
  /\ lastRun' = today
  /\ UNCHANGED <<today, records, call>>

(* expire(), on the row fetched: it renews a contract that asks for it,    *)
(* and activates the successor unless it has no VAT rate ...               *)
AutoRenew(o, s) ==
  /\ o.row.auto
  /\ s \in Unused
  /\ LET term == NextTerm(o.row.start, o.row.end)
     IN  Supersede(o.id, o.row, s, term.start, term.end, TRUE, TRUE,
                   IF o.row.vat THEN "active" ELSE "draft")

(* ... and lets any other one end.                                         *)
LetEnd(o) ==
  /\ ~o.row.auto /\ Live(o.id)
  /\ cover' = [cover EXCEPT ![o.id] = Closing(o.id, o.row.end + 1)]
  /\ lift' = Released(o.id)
  /\ contract' = [contract EXCEPT ![o.id].status = "expired"]

(* A contract deleted meanwhile, or one the bound leaves no successor for: *)
(* the error is logged and the next contract has its turn.                 *)
Fails(o) ==
  /\ ~Live(o.id) \/ (o.row.auto /\ Unused = {})
  /\ UNCHANGED records

Expire(o) ==
  /\ o \in overdue
  /\ overdue' = overdue \ {o}
  /\ \/ \E s \in Contract : AutoRenew(o, s)
     \/ LetEnd(o)
     \/ Fails(o)
  /\ UNCHANGED <<today, call, lastRun>>

(* A day that passes before the job has run is a day missed.               *)
Tick ==
  /\ today < MaxDay
  /\ today' = today + 1
  /\ UNCHANGED <<records, call, overdue, lastRun>>

Next ==
  \/ \E r \in Request : Fetch(r) \/ Act(r)
  \/ \E c \in Contract, status \in {"draft", "active", "expired"},
        start \in StartDays, end \in EndDays, auto \in BOOLEAN :
       Create(c, status, start, end, auto)
  \/ \E l \in Lift : StopOrRestore(l)
  \/ StartExpiry
  \/ \E o \in overdue : Expire(o)
  \/ Tick

Spec == Init /\ [][Next]_vars

(* Days pass, a job due is started, and a job started deals with each      *)
(* contract in turn.                                                       *)
FairSpec ==
  /\ Spec
  /\ WF_vars(Tick)
  /\ WF_vars(StartExpiry)
  /\ WF_vars(\E o \in overdue : Expire(o))

-----------------------------------------------------------------------------
(* Properties                                                              *)

Row == [status : Statuses \cup {"none", "deleted"}, start : Nat, end : Nat,
        auto : BOOLEAN, vat : BOOLEAN, previous : Contract \cup {NoContract}]

(* Every column holds a value of its own type, and a contract ends after   *)
(* it starts: the database's contract_end_after_start never has to refuse  *)
(* what a form, a renewal or the job writes (apps/contracts/models.py).    *)
TypeOK ==
  /\ today \in FirstDay..MaxDay
  /\ contract \in [Contract -> Row]
  /\ \A c \in Contract : contract[c].status # "none" => contract[c].start < contract[c].end
  /\ cover \in [Contract -> [Lift -> Seq(Nat)]]
  /\ lift \in [Lift -> LiftStatuses]
  /\ call \in [Request -> {NoCall} \cup [on : Contract, row : Row]
                              \cup [on : Lift, row : [status : LiftStatuses]]]
  /\ overdue \subseteq [id : Contract, row : Row]
  /\ lastRun \in 0..MaxDay

(* A lift on the list of what needs a contract has none: whatever sequence *)
(* of additions, removals, terminations, renewals and nightly closures     *)
(* wrote its status, none of them leaves a covered lift "uncontracted".    *)
UncontractedMeansUncovered ==
  \A l \in Lift : lift[l] = "uncontracted" => ~Covered(l)

(* The billing history stays: no step reopens, redates or drops a line     *)
(* that was closed (remove_elevator, terminate, renew, expire).            *)
HistoryKept ==
  [][\A c \in Contract, l \in Lift : \A k \in DOMAIN cover[c][l] :
       cover[c][l][k] # Null =>
         k \in DOMAIN cover'[c][l] /\ cover'[c][l][k] = cover[c][l][k]]_vars

(* A contract that terminate, renew or the job finishes lets every lift    *)
(* go: its lines are closed, and each lift it held is either on a contract *)
(* that renews it or on the list of what needs one.                        *)
FinishingLetsGo ==
  [][\A c \in Contract :
       (contract[c].status # contract'[c].status
          /\ contract'[c].status \in {"terminated", "renewed"})
       => \A l \in Lift : Open(c, l) =>
            /\ ~Open(c, l)'
            /\ \/ lift'[l] = "uncontracted"
               \/ \E s \in Contract : contract'[s].previous = c /\ Open(s, l)']_vars

PastEnd(c) == contract[c].status = "active" /\ contract[c].end < today

(* Lifts on an active contract past its end: billed no more, visited still.*)
Lapsed(l) == \E c \in Contract : Open(c, l) /\ PastEnd(c)

(* Cover that has lapsed does not stay so: the nightly job closes it or    *)
(* carries it on, term after term when it runs late, however many days it  *)
(* missed, and whatever is added, removed, terminated or deleted between   *)
(* its reading of what is due and its closing it (contract_expiry, expire).*)
LapsedCoverIsSettled ==
  \A l \in Lift : Lapsed(l) ~> (~Lapsed(l) \/ Unused = {})

=============================================================================
